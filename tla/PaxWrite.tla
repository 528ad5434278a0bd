------------------------------ MODULE PaxWrite ------------------------------
(***************************************************************************)
(* pax, tar and cpio writing an archive or adding to one: wr_archive() and *)
(* append() of pax/ar_subs.c over the block buffer of pax/buf_subs.c and   *)
(* the volumes of pax/ar_io.c.  A step is one system call or one round of  *)
(* a loop; every write may fall short or fail, and every state is what a   *)
(* crash leaves.                                                           *)
(*                                                                         *)
(* A unit stands for half a tape record (BLKMULT bytes).  The k-th unit    *)
(* given to the buffer is the number k, so that what reached the volumes   *)
(* tells its own order; 0 is padding, or what the memory held before.      *)
(*                                                                         *)
(*   sc    the command: program, format, block size, archive, files        *)
(*   vols  the archive's volumes, the last of them open                    *)
(*   dev   ar_io.c: open, artyp, lstrval, wr_trail, done, the offset, and  *)
(*         null while /dev/null stands for a broken pipe (gone: it did)    *)
(*   b     buf_subs.c: bufmem, bufpt, bufend, blksz, wrblksz, wrcnt        *)
(*   k     where the program is, and its exit_val                          *)
(***************************************************************************)
EXTENDS Naturals, Integers, Sequences, SequencesExt, FiniteSetsExt

CONSTANTS
  BLKMULT, MAXBLK, FILEBLK,   \* as in pax.h, in units
  MaxVol,                     \* bound: volumes the user provides
  Scenes                      \* the commands

Types == {"REG", "PIPE", "CHR"}
Member == [head : Nat, size : Nat, pad : Nat]
(* single: ar_next never asks for a volume (pax and tar, or -O).  wr: -b or -B,
   0 when not given; bsz: the format's.  The archive appended to holds data
   units, the trailer and rest units more, and is volume vol.  An archive is
   made of whole records, and a device of whole blocks.                     *)
OldSize(s) == s.data + s.tlen + s.rest
SceneOK(s) ==
  /\ s.single \in BOOLEAN /\ s.artyp \in Types /\ s.blkalgn \in {0, BLKMULT}
  /\ s.wr \in 0 .. MAXBLK /\ s.bsz % BLKMULT = 0 /\ s.bsz \in 1 .. MAXBLK
  /\ s.limit \in Nat /\ s.tlen \in Nat \ {0}
  /\ s.app \in BOOLEAN
  /\ s.data \in Nat /\ s.rest \in Nat /\ s.vol \in 1 .. 2
  /\ s.members \in Seq(Member)
  /\ s.app => /\ OldSize(s) % BLKMULT = 0
              /\ s.artyp = "CHR" => OldSize(s) % (IF s.wr = 0 THEN FILEBLK ELSE s.wr) = 0
ASSUME PaxWriteAssumption ==
  /\ BLKMULT \in Nat \ {0} /\ MAXBLK \in Nat \ {0} /\ MAXBLK % BLKMULT = 0
  /\ FILEBLK \in 1 .. MAXBLK /\ FILEBLK % BLKMULT = 0
  /\ MaxVol \in Nat \ {0}
  /\ \A s \in Scenes : SceneOK(s)

VARIABLES sc, vols, dev, b, k
vars == <<sc, vols, dev, b, k>>

Calls == {"head", "file", "left", "pad", "tail", "fin"}
Pcs == {"start", "member", "put", "move", "flush", "write", "next", "close",
        "exit", "crash"}
(* Every variable keeps its type, and no volume holds what was never put. *)
TypeOK ==
  /\ vols \in Seq(Seq(0 .. k.put)) /\ Len(vols) \in 1 .. MaxVol
  /\ dev \in [open : BOOLEAN, artyp : Types, lstrval : -1 .. 1, trail : BOOLEAN,
              done : BOOLEAN, null : BOOLEAN, gone : BOOLEAN, off : Nat]
  /\ dev.off <= Len(Last(vols))
  /\ b \in [mem : Seq(0 .. k.put), pt : Nat, end : 0 .. MAXBLK, blksz : 0 .. MAXBLK,
            wrblksz : 0 .. MAXBLK, wrcnt : Nat]
  /\ Len(b.mem) >= MAXBLK
  /\ k \in [pc : Pcs, call : Calls, m : Nat, todo : Nat, put : Nat, cnt : Nat,
            bufcnt : Nat, push : Nat, tot : Nat, wrone : BOOLEAN, broken : BOOLEAN,
            exit : 0 .. 1, warned : BOOLEAN]
  /\ k.m <= Len(sc.members)

Iota(i, j)  == [n \in 1 .. (IF j < i THEN 0 ELSE j - i + 1) |-> i + n - 1]
Zeros(n)    == [i \in 1 .. n |-> 0]
OldFile(s)  == Iota(1, s.data) \o Zeros(s.tlen + s.rest)
Init ==
  /\ sc \in Scenes
  /\ vols = <<IF sc.app THEN OldFile(sc) ELSE <<>> >>
  /\ dev = [open |-> FALSE, artyp |-> sc.artyp, lstrval |-> 1, trail |-> TRUE,
            done |-> FALSE, null |-> FALSE, gone |-> FALSE,
            off |-> Len(vols[1])]
  /\ b = [mem |-> Zeros(MAXBLK), pt |-> 0, end |-> 0, blksz |-> 0,
          wrblksz |-> sc.wr, wrcnt |-> 0]
  /\ k = [pc |-> "start", call |-> "head", m |-> 0, todo |-> 0,
          put |-> IF sc.app THEN sc.data ELSE 0, cnt |-> 0,
          bufcnt |-> 0, push |-> 0, tot |-> 0, wrone |-> sc.app,
          broken |-> FALSE, exit |-> 0, warned |-> FALSE]

-----------------------------------------------------------------------------
(* Write t over s from offset at on. *)
Splice(s, at, t) ==
  [i \in 1 .. Max({Len(s), at + Len(t)}) |->
     IF i > at /\ i <= at + Len(t) THEN t[i - at] ELSE s[i]]
Part(i, j) == SubSeq(b.mem, i + 1, j)          \* buf[i] .. buf[j - 1]
Room       == b.end - b.pt
At(pc)     == k.pc = pc
Goto(pc)   == k' = [k EXCEPT !.pc = pc]
Quit(e)    == k' = [k EXCEPT !.pc = "exit", !.exit = e, !.broken = TRUE]

(* wr_start(): the block size is checked and the first volume opened. *)
WrStart ==
  LET w == IF b.wrblksz = 0 THEN sc.bsz ELSE b.wrblksz
  IN  /\ At("start") /\ ~ sc.app
      /\ \/ /\ w % BLKMULT # 0 /\ Quit(1) /\ UNCHANGED <<vols, dev, b>>
         \/ /\ w % BLKMULT = 0
            /\ dev' = [dev EXCEPT !.open = TRUE]
            /\ b' = [b EXCEPT !.wrblksz = w, !.blksz = w, !.end = w]
            /\ Goto("member") /\ vols' = vols
         \/ /\ w % BLKMULT = 0 /\ sc.single           \* ar_open fails
            /\ Quit(1) /\ UNCHANGED <<vols, dev, b>>
      /\ sc' = sc

(* ar_open() of an archive to read and add to: its block size is the user's
   if the file is made of such blocks, or else the largest that divides it. *)
RdBlksz ==
  LET size == OldSize(sc)
      fit  == {n \in 1 .. MAXBLK : n % BLKMULT = 0 /\ size % n = 0}
  IN  IF sc.wr # 0 /\ (sc.artyp # "REG" \/ size % sc.wr = 0) THEN sc.wr
      ELSE IF sc.artyp = "REG" /\ fit # {} THEN Max(fit) ELSE FILEBLK

(* How far back the trailer starts when reading has come to end: the unread
   part of the buffer counts.                                               *)
TrailerEnd == sc.data + sc.tlen
BackOnly(end) == sc.tlen                                   \* mutant: it does not
Back(end)     == sc.tlen + end - TrailerEnd
(* append() has read up to the end of the trailer: appnd_start() goes back
   by the size of a trailer and of what is unread in the buffer, rounded up
   to blocks, and reads the block again in which the trailer starts.        *)
AppndStart ==
  LET blk   == RdBlksz
      end   == Min({Len(vols[1]), ((TrailerEnd + blk - 1) \div blk) * blk})
      skcnt == Back(end)
      cnt   == ((skcnt + blk - 1) \div blk) * blk
      pos   == IF cnt > end THEN 0 ELSE end - cnt
      again == SubSeq(vols[1], pos + 1, Min({pos + blk, Len(vols[1])}))
      keep  == cnt - skcnt
      Fails == \/ sc.artyp = "PIPE"                  \* ar_app_ok
               \/ sc.wr % BLKMULT # 0                \* rd_start
               \/ cnt > end /\ sc.vol > 1            \* ar_rev
               \/ keep > 0 /\ Len(again) < blk       \* ar_read
  IN  /\ At("start") /\ sc.app
      /\ \/ Quit(1) /\ UNCHANGED <<vols, dev, b>>    \* or a call fails
         \/ /\ ~ Fails
            /\ vols' = IF sc.artyp = "REG" THEN <<SubSeq(vols[1], 1, pos)>> ELSE vols
            /\ dev' = [dev EXCEPT !.open = TRUE, !.off = pos, !.trail = FALSE]
            /\ b' = [b EXCEPT !.mem = IF keep > 0 THEN Splice(@, 0, again) ELSE @,
                              !.pt = keep, !.end = blk, !.blksz = blk,
                              !.wrblksz = IF sc.wr = 0 THEN blk ELSE sc.wr]
            /\ Goto("member")
      /\ sc' = sc

-----------------------------------------------------------------------------
(* wr_archive(): header, data, what the file was short of, and padding of
   each member, then the trailer if anything was written.                   *)
Call(c, n)  == k' = [k EXCEPT !.pc = "put", !.call = c, !.todo = n]
Trailer     == IF k.wrone THEN Call("tail", sc.tlen) ELSE Goto("close")
Mem         == sc.members[k.m]
NextMember ==
  /\ At("member")
  /\ IF k.m = Len(sc.members) THEN Trailer
     ELSE k' = [k EXCEPT !.pc = "put", !.call = "head", !.m = @ + 1,
                         !.todo = sc.members[k.m + 1].head]
  /\ UNCHANGED <<sc, vols, dev, b>>
(* A call that has put all of its units returns. *)
Return ==
  /\ At("put") /\ k.todo = 0
  /\ CASE k.call = "head" -> k' = [k EXCEPT !.call = "file", !.todo = Mem.size, !.wrone = TRUE]
       [] k.call \in {"file", "left"} -> Call("pad", Mem.pad)
       [] k.call = "pad"  -> Goto("member")
       [] k.call = "tail" -> Call("fin", 0)
       [] k.call = "fin" /\ b.pt = 0 -> Goto("close")
       [] k.call = "fin" /\ b.pt > b.end -> Goto("crash")   \* memset(, < 0)
       [] k.call = "fin" /\ b.pt \in 1 .. b.end -> Goto("flush")
  /\ b' = IF k.call = "fin" /\ b.pt \in 1 .. b.end
          THEN [b EXCEPT !.mem = Splice(@, b.pt, Zeros(Room)), !.pt = b.end] ELSE b
  /\ UNCHANGED <<sc, vols, dev>>
BrokenRetried(kk) ==      \* mutant: the last block is tried again
  IF kk.call = "fin" THEN [kk EXCEPT !.pc = "put"]
  ELSE [kk EXCEPT !.pc = IF kk.wrone THEN "put" ELSE "close", !.broken = TRUE, !.todo = 0,
                  !.call = "fin"]
(* A call whose buf_flush fails: nothing but the trailer is tried any more. *)
Broken(kk) ==
  IF kk.call \in {"head", "file", "left", "pad"}
  THEN [kk EXCEPT !.pc = IF kk.wrone THEN "put" ELSE "close",
                  !.call = "tail", !.todo = sc.tlen, !.broken = TRUE]
  ELSE IF kk.call = "tail" THEN [kk EXCEPT !.pc = "put", !.call = "fin", !.todo = 0,
                                           !.broken = TRUE]
  ELSE [kk EXCEPT !.pc = "close", !.broken = TRUE]

(* wr_rdbuf, wr_skip and wr_rdfile move what there is room for; a file may
   be short, or its read(2) fail, and zeros take the place of the rest.     *)
Move(n) ==
  /\ b' = [b EXCEPT !.mem = Splice(@, b.pt, Iota(k.put + 1, k.put + n)), !.pt = @ + n]
  /\ k' = [k EXCEPT !.pc = "put", !.todo = @ - n, !.put = @ + n]
MoveSome(cnt) ==
  LET n == Min({cnt, k.todo})
  IN  IF k.call # "file" THEN Move(n)
      ELSE \/ \E r \in 1 .. n : Move(r)
           \/ k' = [k EXCEPT !.pc = "put", !.call = "left", !.exit = 1] /\ b' = b
Put ==
  /\ At("put") /\ k.todo > 0 /\ Room > 0
  /\ MoveSome(Room)
  /\ UNCHANGED <<sc, vols, dev>>
PutFlush ==
  /\ At("put") /\ k.todo > 0 /\ Room <= 0
  /\ Goto("flush")
  /\ UNCHANGED <<sc, vols, dev, b>>
(* ... or as much as buf_flush has returned. *)
PutFlushed ==
  /\ At("move")
  /\ MoveSome(k.cnt)
  /\ UNCHANGED <<sc, vols, dev>>

-----------------------------------------------------------------------------
(* buf_flush() *)
Flushed(kk, cnt) ==
  IF kk.call = "fin" THEN [kk EXCEPT !.pc = "close"]
  ELSE [kk EXCEPT !.pc = "move", !.cnt = cnt]
Flush ==
  /\ At("flush")
  /\ k' = [k EXCEPT !.pc = IF sc.limit > 0 /\ b.wrcnt > sc.limit THEN "next" ELSE "write",
                    !.bufcnt = b.blksz, !.push = 0, !.tot = 0]
  /\ UNCHANGED <<sc, vols, dev, b>>

(* ar_write() puts n units of the buffer on the volume ... *)
Out(n) ==
  IF dev.null THEN UNCHANGED <<vols>>
  ELSE vols' = [vols EXCEPT ![Len(vols)] = Splice(@, dev.off, Part(0, n))]
AdvanceNull(n) == dev.off + n        \* mutant: /dev/null has an offset of its own
Advance(n) == IF dev.null THEN dev.off ELSE dev.off + n
(* ... all of them: the buffer is empty but for what a smaller block size
   has left of it, which moves to its front.                                *)
Wrote(kk) ==
  LET tot == k.tot + b.blksz
      mem == Splice(b.mem, 0, Part(b.end, b.end + k.push))
  IN  /\ b' = [b EXCEPT !.mem = mem, !.pt = k.push, !.wrcnt = @ + b.blksz]
      /\ k' = IF k.push >= b.blksz
              THEN [kk EXCEPT !.push = @ - b.blksz, !.tot = tot]
              ELSE Flushed([kk EXCEPT !.tot = tot], tot)
WriteFull ==
  /\ At("write") /\ dev.lstrval = 1 /\ dev.open
  /\ Out(b.blksz)
  /\ dev' = [dev EXCEPT !.off = Advance(b.blksz), !.trail = TRUE]
  /\ Wrote(k) /\ sc' = sc
(* EPIPE: the reader is gone, and the rest goes to /dev/null. *)
WriteBroken ==
  /\ At("write") /\ dev.lstrval = 1 /\ dev.artyp = "PIPE" /\ dev.open
  /\ dev' = [dev EXCEPT !.null = TRUE, !.gone = TRUE, !.trail = TRUE, !.artyp = "REG"]
  /\ Wrote(k) /\ UNCHANGED <<sc, vols>>
(* A part of them: a runt is taken off a regular file, other parts stay and
   what is left of the buffer moves to its front.                           *)
Runt(n) == dev.artyp = "REG" /\ n % BLKMULT # 0
WritePart ==
  /\ At("write") /\ dev.lstrval = 1 /\ ~ dev.null /\ dev.open
  /\ \E n \in 1 .. b.blksz - 1 :
       LET left == k.bufcnt - n
           fits == sc.blkalgn = 0 \/ left % sc.blkalgn = 0
           flaw == sc.blkalgn # 0 /\ n % sc.blkalgn # 0
           kk   == [k EXCEPT !.tot = @ + n, !.warned = TRUE,
                             !.exit = IF flaw \/ ~ fits THEN 1 ELSE @]
       IN  /\ ~ Runt(n)
           /\ Out(n)
           /\ dev' = [dev EXCEPT !.off = Advance(n), !.trail = TRUE, !.lstrval = 0]
           /\ b' = [b EXCEPT !.mem = Splice(@, 0, Part(n, n + left)), !.pt = left,
                             !.wrcnt = @ + n]
           /\ k' = IF fits THEN Flushed(kk, kk.tot) ELSE Broken(kk)
  /\ sc' = sc
(* None: the volume is full (0) or broken (-1). *)
WriteNone ==
  /\ At("write") /\ (dev.null /\ dev.open => dev.lstrval # 1)
  /\ \E res \in {-1, 0} :
       /\ dev.lstrval = 1 \/ res = dev.lstrval
       /\ dev.lstrval = 1 /\ ~ dev.open => res = -1
       /\ dev' = [dev EXCEPT !.lstrval = res]
       /\ k' = [k EXCEPT !.pc = "next",
                  !.exit = IF dev.lstrval = 1 /\ (res < 0 \/ ~ dev.trail) THEN 1 ELSE @]
  /\ b' = [b EXCEPT !.wrcnt = 0]
  /\ UNCHANGED <<sc, vols>>

(* ar_next(): the volume is closed, and another opened unless there can be
   only one, the trailer that an append has to replace is still there, or
   the user quits.                                                          *)
OneVolume == sc.single \/ dev.done \/ ~ dev.trail
NextNoneAgain ==      \* mutant: that the user quits is forgotten
  /\ At("next")
  /\ dev' = [dev EXCEPT !.open = FALSE]
  /\ b' = [b EXCEPT !.wrcnt = 0] /\ k' = Broken([k EXCEPT !.exit = 1])
  /\ UNCHANGED <<sc, vols>>
NextNone ==
  /\ At("next")
  /\ dev' = [dev EXCEPT !.open = FALSE,
                        !.done = @ \/ ~ OneVolume, !.lstrval = IF OneVolume THEN @ ELSE -1]
  /\ b' = [b EXCEPT !.wrcnt = 0]
  /\ k' = Broken([k EXCEPT !.exit = 1])
  /\ UNCHANGED <<sc, vols>>
NextVolume ==
  /\ At("next") /\ ~ OneVolume /\ Len(vols) < MaxVol
  /\ \E t \in Types : dev' = [dev EXCEPT !.open = TRUE, !.artyp = t, !.lstrval = 1,
                                         !.off = 0, !.null = FALSE]
  /\ vols' = Append([vols EXCEPT ![Len(vols)] = SubSeq(@, 1, dev.off)], <<>>)
  /\ b' = [b EXCEPT !.blksz = b.wrblksz, !.end = b.wrblksz, !.wrcnt = 0]
  /\ k' = IF b.wrblksz > k.bufcnt THEN Flushed(k, 0)
          ELSE [k EXCEPT !.pc = "write", !.push = k.bufcnt - b.wrblksz]
  /\ sc' = sc

(* ar_close(), and the program ends. *)
Close ==
  /\ At("close")
  /\ dev' = [dev EXCEPT !.open = FALSE]
  /\ Goto("exit")
  /\ UNCHANGED <<sc, vols, b>>

Next ==
  \/ WrStart \/ AppndStart \/ NextMember \/ Return \/ Put \/ PutFlush
  \/ PutFlushed \/ Flush \/ WriteFull \/ WriteBroken \/ WritePart \/ WriteNone
  \/ NextNone \/ NextVolume \/ Close

(* System calls return and so does the user: a started pax runs to its end. *)
Spec == Init /\ [][Next]_vars
FairSpec == Spec /\ WF_vars(Next)
=============================================================================
