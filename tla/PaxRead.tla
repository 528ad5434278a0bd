------------------------------ MODULE PaxRead -------------------------------
(***************************************************************************)
(* pax, tar and cpio reading an archive of the tar formats: list(),        *)
(* extract() and the first half of append() of pax/ar_subs.c with          *)
(* get_arc() and next_head(), the reading side of pax/buf_subs.c and of    *)
(* pax/ar_io.c.  A step is one system call or one round of a loop; reads   *)
(* may be short or hit bad media, headers may be damaged, and a volume may *)
(* end anywhere.                                                           *)
(*                                                                         *)
(* A unit stands for half a tape record; searching byte by byte is         *)
(* searching unit by unit.                                                 *)
(*                                                                         *)
(*   sc    the command and the archive                                     *)
(*   dev   ar_io.c: the volume, the offset in it, open, lstrval, done      *)
(*   b     the unread units, bufpt to bufend                               *)
(*   k     where the program is, with the locals of its functions and the  *)
(*         statics fini and frmt                                           *)
(*   h     hdbuf                                                           *)
(*   found the members whose header was returned, in that order            *)
(*   out   the files that were extracted                                   *)
(*   gaps  history: what resynchronizing has moved over                    *)
(***************************************************************************)
EXTENDS Naturals, Integers, Sequences, SequencesExt, FiniteSetsExt

CONSTANTS
  BLKMULT, MAXBLK, FILEBLK, DEVBLK, FSBLK,  \* as in pax.h and st_blksize, in units
  NULLCNT,                                  \* as in tar.h
  Scenes                                    \* the commands and archives

Unit(t, m, n) == [t |-> t, m |-> m, n |-> n]
Zero == Unit("Z", 0, 0)
Header(m) == [n \in 1 .. BLKMULT |-> Unit("H", m, n)]
(* The members of an archive: skip units of data follow the header of each,
   filled up by pad; a file has data of its own, or what looks like a header
   or like a trailer.                                                       *)
Body(m, x) ==
  [n \in 1 .. x.skip |-> IF x.like = "zeros" THEN Zero
                         ELSE IF x.like = "head" THEN Header(1)[((n - 1) % BLKMULT) + 1]
                         ELSE Unit("D", m, n)]
Zeros(n) == [i \in 1 .. n |-> Zero]
TLen == NULLCNT * BLKMULT
(* The members up to one; and then the trailer. *)
UpTo(s) ==
  LET u[m \in 0 .. Len(s.members)] ==
        IF m = 0 THEN <<>>
        ELSE u[m - 1] \o Header(m) \o Body(m, s.members[m]) \o Zeros(s.members[m].pad)
  IN  u
Archive(s) == UpTo(s)[Len(s.members)] \o Zeros(TLen + s.rest)

(* A scene: the program (single: ar_next never asks for a volume), what it
   does, its read error limit, the members that are selected; the archive,
   cut off after some units, split into volumes after others, with damaged
   units and bad media at the places dam and bad.                           *)
SceneOK(s) ==
  /\ s.act \in {"list", "extract", "append"} /\ s.single \in BOOLEAN
  /\ s.maxflt \in {-1} \cup Nat /\ s.artyp \in {"REG", "PIPE", "CHR"}
  /\ s.members \in Seq([kind : {"file", "node"}, like : {"plain", "head", "zeros"},
                        skip : Nat, pad : Nat])
  /\ \A m \in DOMAIN s.members :
       (s.members[m].skip + s.members[m].pad) % BLKMULT = 0
  /\ s.sel \subseteq DOMAIN s.members
  /\ s.rest \in Nat /\ s.len \in 0 .. Len(Archive(s)) /\ s.split \in 0 .. s.len
  /\ s.dam \subseteq 1 .. s.len /\ s.bad \subseteq 1 .. s.len
ASSUME PaxReadAssumption ==
  /\ BLKMULT \in Nat \ {0} /\ NULLCNT \in Nat \ {0}
  /\ \A n \in {MAXBLK, FILEBLK, DEVBLK, FSBLK} : n \in Nat \ {0} /\ n % BLKMULT = 0
  /\ \A s \in Scenes : SceneOK(s)

VARIABLES sc, dev, b, k, h, found, out, gaps, exit
vars == <<sc, dev, b, k, h, found, out, gaps, exit>>

Units ==
  LET a == Archive(sc)
  IN  [i \in 1 .. sc.len |-> IF i \in sc.dam THEN Unit("X", 0, 0) ELSE a[i]]
(* The places where the volumes begin, less one, and where they end. *)
From(v) == IF v = 1 THEN 0 ELSE sc.split
To(v)   == IF v = 1 /\ sc.split > 0 THEN sc.split ELSE sc.len
Volumes == IF sc.split > 0 THEN 2 ELSE 1
Size    == To(dev.vol) - From(dev.vol)
Here    == From(dev.vol) + dev.pos       \* the place the device stands at

Init ==
  /\ sc \in Scenes
  /\ dev = [vol |-> 1, pos |-> 0, open |-> FALSE, lstrval |-> 1, done |-> FALSE]
  /\ b = <<>> /\ h = <<>> /\ found = <<>> /\ gaps = {} /\ exit = 0
  /\ out = [m \in DOMAIN sc.members |-> <<>>]
  /\ k = [pc |-> "open", want |-> BLKMULT, got |-> 0, need |-> 0, errcnt |-> 0,
          fini |-> FALSE, frmt |-> FALSE, resync |-> FALSE, cnt |-> 0,
          first |-> TRUE]

-----------------------------------------------------------------------------
Blksz == IF sc.artyp = "CHR" \/ (sc.act = "append" /\ sc.artyp = "PIPE") THEN DEVBLK
         ELSE MAXBLK
(* The block size found by ar_open from the size of the file. *)
Rdblksz ==
  LET fit == {n \in 1 .. MAXBLK : n % BLKMULT = 0 /\ Size % n = 0}
  IN  IF sc.artyp # "REG" THEN DEVBLK ELSE IF fit # {} THEN Max(fit) ELSE FILEBLK
ReadSize == IF sc.act = "append" /\ sc.artyp = "REG" THEN Rdblksz ELSE Blksz

Goto(pc) == k' = [k EXCEPT !.pc = pc]
Fails == exit' = 1 /\ Goto("done")
(* The head of the loops: next_head() starts anew. *)
Fresh(kk) == [kk EXCEPT !.pc = "head", !.want = BLKMULT, !.got = 0, !.resync = FALSE,
                        !.cnt = 0, !.first = TRUE]
NextHead == k' = Fresh(k) /\ h' = <<>>
Stop(kk) == [kk EXCEPT !.pc = "end"]

(* rd_start(), ar_open(). *)
Open ==
  /\ k.pc = "open"
  /\ \/ dev' = [dev EXCEPT !.open = TRUE] /\ Goto("id") /\ UNCHANGED exit
     \/ Fails /\ dev' = dev
  /\ UNCHANGED <<sc, b, h, found, out, gaps>>

-----------------------------------------------------------------------------
(* ar_read(): what read(2) may give.  Files give all they have; bad media
   fail, at once or after the units before them.                            *)
Ask     == Min({ReadSize, Size - dev.pos})
Flaws   == {n \in 1 .. Ask : Here + n \in sc.bad}
Clear   == IF Flaws = {} THEN Ask ELSE Min(Flaws) - 1
Gives   == IF dev.lstrval <= 0 \/ ~ dev.open \/ dev.pos >= Size THEN {}
           ELSE IF sc.artyp = "PIPE" THEN 1 .. Clear
           ELSE {Clear} \ {0}
ReadBad == dev.lstrval < 0 \/ (dev.lstrval > 0 /\ dev.open /\ dev.pos < Size /\ Flaws # {})
ReadEnd == dev.lstrval = 0 \/ (dev.lstrval > 0 /\ dev.open /\ dev.pos >= Size)
LoadedFull(n) ==                      \* mutant: every read fills the buffer
  /\ b' = SubSeq(Units, Here + 1, Here + n) \o Zeros(ReadSize - n)
  /\ dev' = [dev EXCEPT !.pos = @ + n]
Loaded(n) ==
  /\ b' = SubSeq(Units, Here + 1, Here + n)
  /\ dev' = [dev EXCEPT !.pos = @ + n]

(* ar_next() of the device d: the next volume, if there may be one, it is
   there, and the user does not quit.                                       *)
OneVolume(d) == sc.single \/ ~ k.frmt \/ d.done
Another(d) ==
  /\ ~ OneVolume(d) /\ d.vol < Volumes
  /\ dev' = [d EXCEPT !.vol = @ + 1, !.pos = 0, !.lstrval = 1, !.open = TRUE]
NoOther(d) ==
  dev' = IF OneVolume(d) THEN [d EXCEPT !.open = FALSE]
         ELSE [d EXCEPT !.open = FALSE, !.done = TRUE, !.lstrval = -1]
Failed(r) == [dev EXCEPT !.lstrval = r]

(* buf_fill() is called with an empty buffer by rd_wrbuf, rd_skip, rd_wrfile. *)
Filling ==
  /\ b = <<>>
  /\ \/ k.pc \in {"id", "head"} /\ k.want > 0
     \/ k.pc \in {"skip", "copy"} /\ k.need > 0
FillData ==
  /\ Filling /\ ~ k.fini
  /\ \E n \in Gives : Loaded(n)
  /\ UNCHANGED <<sc, k, h, found, out, gaps, exit>>
FillNext ==
  /\ Filling /\ ~ k.fini /\ ReadEnd
  /\ Another(Failed(0))
  /\ UNCHANGED <<sc, b, k, h, found, out, gaps, exit>>

(* What the callers make of r, 0 for the end of the archive and -1 for a read
   error: an end that next_head meets before anything else is none to speak
   of; rd_skip's 1 ends list and append only; rd_wrfile gives up the file.  *)
Came(kk, r) ==
  CASE kk.pc = "copy" -> Fresh(kk)
    [] kk.pc = "skip" -> IF r = 0 /\ sc.act # "extract" THEN Stop(kk) ELSE Fresh(kk)
    [] kk.pc = "head" -> IF kk.got > 0 \/ r < 0
                         THEN [kk EXCEPT !.pc = "sync", !.first = FALSE]
                         ELSE IF kk.first THEN Stop(kk) ELSE [kk EXCEPT !.pc = "short"]
    [] kk.pc = "id"   -> IF h # <<>> THEN [kk EXCEPT !.pc = "idtest"]
                         ELSE [kk EXCEPT !.pc = IF kk.got = 0 /\ r = 0 THEN "noid" ELSE "sync"]
Emptied == h' = IF k'.pc = "head" THEN <<>> ELSE h
FillError ==
  /\ Filling /\ ~ k.fini /\ ReadBad
  /\ dev' = Failed(-1)
  /\ k' = Came(k, -1) /\ Emptied /\ exit' = 1
  /\ UNCHANGED <<sc, b, found, out, gaps>>
FillEnd ==
  /\ Filling
  /\ \/ ~ k.fini /\ ReadEnd
        /\ IF k.frmt THEN NoOther(Failed(0)) ELSE dev' = Failed(0)
     \/ k.fini /\ dev' = dev
  /\ k' = Came([k EXCEPT !.fini = TRUE], 0) /\ Emptied
  /\ UNCHANGED <<sc, b, found, out, gaps, exit>>
(* "Premature end of file", "unable to determine archive format". *)
Short ==
  /\ k.pc \in {"short", "noid"}
  /\ exit' = 1 /\ k' = IF k.pc = "short" THEN Stop(k) ELSE [k EXCEPT !.pc = "done"]
  /\ UNCHANGED <<sc, dev, b, h, found, out, gaps>>

(* rd_wrbuf() copies into hdbuf what is wanted. *)
Take ==
  /\ k.pc \in {"id", "head"} /\ b # <<>> /\ k.want > 0
  /\ LET n == Min({k.want, Len(b)})
     IN  /\ h' = h \o SubSeq(b, 1, n) /\ b' = SubSeq(b, n + 1, Len(b))
         /\ k' = [k EXCEPT !.want = @ - n, !.got = @ + n,
                           !.pc = IF n < k.want THEN @ ELSE IF @ = "id" THEN "idtest" ELSE "test"]
  /\ UNCHANGED <<sc, dev, found, out, gaps, exit>>

Valid == Len(h) = BLKMULT /\ \E m \in DOMAIN sc.members : h = Header(m)
AllZero == \A i \in DOMAIN h : h[i] = Zero

(* get_arc(): the header is pushed back (pback); or the search goes on unit
   by unit, which an append does not do.                                    *)
IdFound ==
  /\ k.pc = "idtest" /\ Valid
  /\ b' = h \o b
  /\ k' = Fresh([k EXCEPT !.frmt = TRUE]) /\ h' = <<>>
  /\ UNCHANGED <<sc, dev, found, out, gaps, exit>>
IdSearch ==
  /\ k.pc = "idtest" /\ ~ Valid
  /\ \/ sc.act = "append" /\ Goto("done") /\ UNCHANGED <<h, exit>>
     \/ /\ sc.act # "append" /\ exit' = 1
        /\ h' = Tail(h)
        /\ k' = [k EXCEPT !.pc = "id", !.got = 0, !.want = BLKMULT - Len(h')]
  /\ UNCHANGED <<sc, dev, b, found, out, gaps>>

(* rd_sync(): called when a header could not be read whole. *)
Unsynced == exit' = 1 /\ k' = [k EXCEPT !.pc = IF k.frmt THEN "end" ELSE "done"]
SyncRefused ==
  /\ k.pc = "sync" /\ (sc.maxflt = 0 \/ sc.act = "append")
  /\ Unsynced
  /\ UNCHANGED <<sc, dev, b, h, found, out, gaps>>

(* ar_rdsync(): a file or a disk is stepped over to the next boundary. *)
CanStep(d) == ~ d.done /\ d.lstrval # 0 /\ d.open /\ sc.artyp # "PIPE"
StepUp(pos, fsbz)   == ((pos + fsbz - 1) \div fsbz) * fsbz    \* mutant: may stay
StepOver(pos, fsbz) == pos + fsbz - (pos % fsbz)
Stepped(d) ==
  LET to == StepOver(d.pos, IF sc.artyp = "REG" THEN FSBLK ELSE BLKMULT)
  IN  /\ dev' = [d EXCEPT !.pos = to, !.lstrval = 1]
      /\ gaps' = gaps \cup (Here + 1) .. (From(d.vol) + Min({to, Size}))
Left(d) == gaps' = gaps \cup (From(d.vol) + d.pos + 1) .. To(d.vol)

Poke(d, may, e) ==
  IF may /\ CanStep(d)
  THEN Stepped(d) /\ k' = [k EXCEPT !.pc = "reread", !.errcnt = e] /\ exit' = exit
  ELSE /\ Left(d)
       /\ \/ Another(d) /\ k' = [k EXCEPT !.pc = "reread", !.errcnt = 0] /\ exit' = exit
          \/ NoOther(d) /\ Unsynced
Sync ==
  /\ k.pc = "sync" /\ sc.maxflt # 0 /\ sc.act # "append"
  /\ Poke(dev, TRUE, 0)
  /\ UNCHANGED <<sc, b, h, found, out>>
(* The loop of rd_sync: what was collected of a header is thrown out. *)
Collected(hd) == hd                   \* mutant: it is not
ThrownOut(hd) == <<>>
Reread ==
  /\ k.pc = "reread"
  /\ \E n \in Gives : Loaded(n)
  /\ k' = [k EXCEPT !.pc = IF k.frmt THEN "head" ELSE "id", !.want = BLKMULT,
                    !.got = 0, !.resync = TRUE]
  /\ h' = ThrownOut(h) /\ exit' = 1
  /\ UNCHANGED <<sc, found, out, gaps>>
RereadFails ==
  /\ k.pc = "reread"
  /\ \E r \in {x \in {0, -1} : (x = 0 /\ ReadEnd) \/ (x = -1 /\ ReadBad)} :
       Poke(Failed(r), sc.maxflt < 0 \/ k.errcnt < sc.maxflt,
            IF sc.maxflt > 0 THEN k.errcnt + 1 ELSE 0)
  /\ UNCHANGED <<sc, b, h, found, out>>

-----------------------------------------------------------------------------
(* next_head(): a header; or the trailer, that is NULLCNT records of zeros
   where a header was due, after which a pipe is drained; or a record that can
   hold no header; or the search, unit by unit.                             *)
Headed ==
  /\ k.pc = "test" /\ Valid
  /\ found' = Append(found, h[1].m) /\ Goto("member")
  /\ UNCHANGED <<sc, dev, b, h, out, gaps, exit>>
IsSoon(kk)  == ~ kk.resync            \* mutant: one record is enough
IsTrail(kk) == ~ kk.resync /\ kk.cnt + 1 >= NULLCNT
Trailer ==
  /\ k.pc = "test" /\ ~ Valid /\ AllZero /\ IsTrail(k)
  /\ dev' = IF sc.artyp = "PIPE" /\ dev.lstrval > 0
            THEN [dev EXCEPT !.pos = Size,
                             !.lstrval = IF \E i \in sc.bad : i > Here THEN -1 ELSE 0]
            ELSE dev
  /\ k' = Stop(k)
  /\ UNCHANGED <<sc, b, h, found, out, gaps, exit>>
ZeroRecord ==
  /\ k.pc = "test" /\ ~ Valid /\ AllZero /\ ~ IsTrail(k)
  /\ h' = <<>>
  /\ k' = [k EXCEPT !.pc = "head", !.want = BLKMULT, !.got = 0,
                    !.cnt = IF k.resync THEN @ ELSE @ + 1]
  /\ UNCHANGED <<sc, dev, b, found, out, gaps, exit>>
Search ==
  /\ k.pc = "test" /\ ~ Valid /\ ~ AllZero
  /\ exit' = 1
  /\ \/ sc.act = "append" /\ k' = Stop(k) /\ h' = h
     \/ /\ sc.act # "append" /\ h' = Tail(h)
        /\ k' = [k EXCEPT !.pc = "head", !.want = 1, !.got = 0, !.resync = TRUE]
  /\ UNCHANGED <<sc, dev, b, found, out, gaps>>

(* The loops of list(), extract() and append(), without -n, -u and -i. *)
This == sc.members[Last(found)]
SkipOver(n) == k' = [k EXCEPT !.pc = "skipto", !.need = n]
Chosen == sc.act = "extract" /\ Last(found) \in sc.sel /\ This.kind = "file"
Member ==
  /\ k.pc = "member"
  /\ \/ ~ Chosen /\ SkipOver(This.skip + This.pad) /\ UNCHANGED <<out, exit>>
     \/ ~ Chosen /\ sc.act = "extract" /\ Last(found) \in sc.sel      \* node_creat
        /\ SkipOver(This.skip + This.pad) /\ exit' = 1 /\ out' = out  \* fails
     \/ Chosen /\ SkipOver(This.skip + This.pad) /\ exit' = 1 /\ out' = out
     \/ /\ Chosen /\ out' = [out EXCEPT ![Last(found)] = <<>>] /\ exit' = exit
        /\ k' = [k EXCEPT !.pc = IF This.skip = 0 THEN "skipto" ELSE "copy",
                          !.need = IF This.skip = 0 THEN This.pad ELSE This.skip]
  /\ UNCHANGED <<sc, dev, b, h, found, gaps>>

(* rd_wrfile(): a round of its loop. *)
Wrote(n) == out' = [out EXCEPT ![Last(found)] = @ \o SubSeq(b, 1, n)]
Copy ==
  /\ k.pc = "copy" /\ b # <<>>
  /\ LET n == Min({Len(b), k.need})
     IN  /\ Wrote(n) /\ b' = SubSeq(b, n + 1, Len(b))
         /\ IF n < k.need THEN k' = [k EXCEPT !.need = @ - n] ELSE SkipOver(This.pad)
  /\ UNCHANGED <<sc, dev, h, found, gaps, exit>>
(* The write fails after some units: left is what was not processed. *)
LeftRest(need, n) == need - n         \* mutant: what was written does not count
LeftAll(need, n)  == need
CopyFails ==
  /\ k.pc = "copy" /\ b # <<>>
  /\ \E n \in 0 .. Min({Len(b), k.need}) - 1 : Wrote(n) /\ SkipOver(LeftAll(k.need, n) + This.pad)
  /\ exit' = 1
  /\ UNCHANGED <<sc, dev, b, h, found, gaps>>

(* rd_skip(): what is in the buffer first, then whole blocks by ar_fow(), which
   moves within a file only, and the rest is read.                          *)
Moves(left) ==
  LET whole == (left \div Rdblksz) * Rdblksz
  IN  IF sc.artyp = "REG" /\ dev.lstrval > 0 THEN Min({whole, Size - dev.pos}) ELSE 0
SkipStart ==
  /\ k.pc = "skipto"
  /\ LET n    == Min({Len(b), k.need})
         left == k.need - n
     IN  /\ b' = SubSeq(b, n + 1, Len(b))
         /\ dev' = [dev EXCEPT !.pos = @ + Moves(left)]
         /\ IF left = Moves(left) \/ (left >= Rdblksz /\ dev.lstrval < 0) THEN NextHead
            ELSE k' = [k EXCEPT !.pc = "skip", !.need = left - Moves(left)] /\ h' = h
  /\ UNCHANGED <<sc, found, out, gaps, exit>>
Skip ==
  /\ k.pc = "skip" /\ b # <<>>
  /\ LET n == Min({Len(b), k.need})
     IN  /\ b' = SubSeq(b, n + 1, Len(b))
         /\ IF n = k.need THEN NextHead ELSE k' = [k EXCEPT !.need = @ - n] /\ h' = h
  /\ UNCHANGED <<sc, dev, found, out, gaps, exit>>

(* The end of the loops: appnd_start() refuses a pipe, an archive with flaws
   and, because there is no offset to be had of a volume that ar_next() has
   closed, one that ended without a trailer; or else PaxWrite goes on.      *)
CanGoBack == exit = 0 /\ sc.artyp # "PIPE" /\ dev.lstrval >= 0 /\ dev.open
End ==
  /\ k.pc = "end"
  /\ IF sc.act # "append" THEN Goto("done") /\ exit' = exit
     ELSE IF CanGoBack THEN Goto("append") /\ exit' = exit ELSE Fails
  /\ UNCHANGED <<sc, dev, b, h, found, out, gaps>>

Next ==
  \/ Open \/ FillData \/ FillNext \/ FillError \/ FillEnd \/ Short \/ Take
  \/ IdFound \/ IdSearch \/ SyncRefused \/ Sync \/ Reread \/ RereadFails
  \/ Headed \/ Trailer \/ ZeroRecord \/ Search \/ Member \/ Copy \/ CopyFails
  \/ SkipStart \/ Skip \/ End

(* The program runs on; the volumes are there or the user gives up. *)
Spec == Init /\ [][Next]_vars /\ WF_vars(Next)

-----------------------------------------------------------------------------
(* What PaxRead promises. *)

Pcs == {"open", "id", "idtest", "noid", "head", "test", "short", "sync", "reread",
        "member", "copy", "skipto", "skip", "end", "append", "done"}
(* Every variable keeps its type: the buffer and hdbuf hold no more than fits
   in them, also when a header was pushed back in front of the buffer.      *)
TypeOK ==
  /\ dev.vol \in 1 .. Volumes /\ dev.pos \in Nat /\ dev.open \in BOOLEAN
  /\ dev.lstrval \in -1 .. 1 /\ dev.done \in BOOLEAN
  /\ Len(b) <= ReadSize + BLKMULT /\ Len(h) + k.want <= BLKMULT + k.got
  /\ k.pc \in Pcs /\ k.want \in 0 .. BLKMULT /\ k.got \in 0 .. BLKMULT
  /\ k.need \in Nat /\ k.errcnt \in Nat /\ k.cnt \in 0 .. NULLCNT
  /\ k.fini \in BOOLEAN /\ k.frmt \in BOOLEAN /\ k.resync \in BOOLEAN
  /\ \A m \in DOMAIN out : Len(out[m]) <= sc.members[m].skip
  /\ gaps \subseteq 1 .. sc.len /\ exit \in 0 .. 1

Over      == k.pc \in {"done", "append"}
Sound     == sc.dam = {} /\ sc.bad = {} /\ sc.len = Len(Archive(sc))
OnVolumes == ~ dev.done /\ (sc.single => sc.split = 0)     \* all were given
(* The format must be known by the end of the first volume (buf_fill). *)
Known == k.frmt \/ (dev.pos > 0 /\ sc.split = 0)
(* The place of the header of member m; of the trailer, as the one after all. *)
Place(m) == 1 + Len(UpTo(sc)[m - 1])
Trail == Place(Len(sc.members) + 1)
Files == {m \in sc.sel : sc.act = "extract" /\ sc.members[m].kind = "file"}
Exact(m) == out[m] = Body(m, sc.members[m])

(* A sound archive is read from its first header to its trailer, however the
   blocks, the volumes, and the reads cut it: every member is found once and
   in order, nothing in the data of a file is taken for a header or a trailer,
   also when files cannot be created or written; exit status 0 means that the
   selected files are whole.                                                *)
ReadAll ==
  Over /\ OnVolumes /\ Sound /\ (Known \/ (sc.split >= BLKMULT /\ dev.pos > 0)) =>
    /\ found = [m \in DOMAIN sc.members |-> m]
    /\ exit = 0 => \A m \in Files : Exact(m)
    /\ sc.act = "append" => k.pc = "append"
(* "The first byte of the trailer is replaced by the start of the header of the
   first file added" (buf_subs.c): whatever the archive is, append() goes on
   only where going back by the trailer leads to the trailer, and not into the
   data of a member.                                                        *)
AppendsAtTrailer == k.pc = "append" => Here - Len(b) - TLen + 1 = Trail
(* "the goal on reads is to get the most we can extract out of the archive"
   (buf_subs.c): past bad media and damaged headers, every header that is
   whole and was not stepped over is found.                                 *)
Plain    == \A m \in DOMAIN sc.members : sc.members[m].like = "plain"
WholeHead(m) ==
  LET p == Place(m) .. Place(m) + BLKMULT - 1
  IN  p \subseteq 1 .. sc.len /\ p \cap (sc.dam \cup sc.bad \cup gaps) = {}
Recovers ==
  Over /\ Plain /\ OnVolumes /\ Known /\ sc.maxflt # 0 /\ sc.act # "append" =>
    \A m \in DOMAIN sc.members : WholeHead(m) => m \in Range(found)
(* At no moment does a file that is extracted hold anything but the beginning
   of what the archive holds for it, damaged units included: what comes after
   bad media, in another volume or behind another header is never put behind
   what came before.  Not when data that looks like a header was taken for one. *)
NoneLikeHead == \A m \in DOMAIN sc.members : sc.members[m].like # "head"
FilesBegin ==
  NoneLikeHead =>
    \A m \in DOMAIN out : \A i \in DOMAIN out[m] :
      /\ i <= sc.members[m].skip
      /\ out[m][i] = IF Place(m) + BLKMULT - 1 + i \in sc.dam THEN Unit("X", 0, 0)
                     ELSE Body(m, sc.members[m])[i]

(* Where pax takes itself to be is where it is: the place it goes on writing at,
   and the place of the data it puts into a file.                           *)
InPlace == AppendsAtTrailer /\ FilesBegin

(* Sound archives are read to the end, and of the others what is whole is
   recovered.                                                               *)
ReadRight == ReadAll /\ Recovers

(* Stepping over bad media, asking for volumes and searching come to an end. *)
Terminates == <>Over
=============================================================================
