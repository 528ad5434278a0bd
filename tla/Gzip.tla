-------------------------------- MODULE Gzip --------------------------------
(***************************************************************************)
(* gzip and gunzip replacing files (src/gzip/gzip.c): every operand is     *)
(* (de)compressed into a new file beside it, which gets the modes of the   *)
(* operand, and then the operand is unlinked.  A step of the program is a  *)
(* system call, so that a SIGINT, or a step of another program that works  *)
(* in the same directory, can fall between any two of them.                *)
(*                                                                         *)
(* A file is a sequence of pieces: blocks of plain data, and around the    *)
(* blocks of a gzip member its header and the two halves of its trailer.   *)
(* Not modelled: -l, -r, -S, the other compressed formats, symbolic links, *)
(* standard input.                                                         *)
(***************************************************************************)
EXTENDS Naturals, Integers, Sequences, FiniteSets

CONSTANTS Scenes,      \* the calls: operands, options and files
          MaxIno,      \* inodes there may be
          MaxFaults,   \* system calls that may fail
          MaxOthers    \* steps of the other program

ASSUME BoundsAssumption ==
    MaxIno \in Nat \ {0} /\ MaxFaults \in Nat /\ MaxOthers \in Nat

Plainly == {"a", "b"}
Zipped == [n \in Plainly |-> IF n = "a" THEN "a.gz" ELSE "b.gz"]
Names == Plainly \cup {"a.gz", "b.gz"}

\* check_suffix: the name without its suffix, and whether it has one.
HasSuffix(n) == \E m \in Plainly : Zipped[m] = n
Unzipped(n) == CHOOSE m \in Plainly : Zipped[m] = n

Header == [t |-> "H", v |-> <<>>]
Block(b) == [t |-> "B", v |-> <<b>>]
Crc(s) == [t |-> "C", v |-> s]
Length(s) == [t |-> "L", v |-> <<Len(s)>>]
Garbage == [t |-> "G", v |-> <<>>]

Plain(s) == [i \in 1..Len(s) |-> Block(s[i])]
Packed(s) == <<Header>> \o Plain(s) \o <<Crc(s), Length(s)>>

\* What is a piece; what is data without any packing, and what it says.
Tags == {"H", "B", "C", "L", "G"}
Shaped(x) == /\ x.t \in {"B", "L"} => Len(x.v) = 1
             /\ x.t \in {"H", "G"} => x.v = <<>>
Piece == {x \in [t : Tags, v : Seq(Nat)] : Shaped(x)}
IsPlain(d) == \A i \in DOMAIN d : d[i].t = "B"
Values(d) == [i \in DOMAIN d |-> d[i].v[1]]

\* The blocks among the first k pieces of d, in order.
Blocks(d, k) ==
    LET b[i \in 0..k] == IF i = 0 THEN <<>>
                         ELSE IF d[i].t = "B" THEN Append(b[i - 1], d[i]) ELSE b[i - 1]
    IN  b[k]

\* The pieces from i to j are one member: a header, blocks, and the trailer
\* that belongs to them.
Member(d, i, j) ==
    LET s == [x \in 1..(j - i - 2) |-> d[i + x].v[1]]
    IN  /\ d[i].t = "H" /\ i + 2 <= j
        /\ \A x \in (i + 1)..(j - 2) : d[x].t = "B"
        /\ d[j - 1] = Crc(s) /\ d[j] = Length(s)

\* d is one member after the other, perhaps with something behind them that
\* is no member, and the blocks in them are e.
UnpacksTo(d, e) ==
    \E k \in 1..Len(d) :
        /\ d[1].t = "H" /\ (k < Len(d) => d[k + 1].t # "H")
        /\ \A i \in 1..k : d[i].t = "H" =>
              \E j \in i..k : Member(d, i, j) /\ (j < k => d[j + 1].t = "H")
        /\ Blocks(d, k) = e

\* e is d packed, or unpacked; or it holds the same in one of these ways.
Converts(d, e) == (IsPlain(d) /\ e = Packed(Values(d))) \/ UnpacksTo(d, e)
Same(d, e) == e = d \/ Converts(d, e)

Absent == 0     \* in dir: no such name
Stdout == 0     \* in ino: the standard output
Blank == [data |-> <<>>, name |-> "", mode |-> "private"]
Idle == [file |-> "", in |-> 0, out |-> 0, pos |-> 1, held |-> <<>>,
         sum |-> <<>>, tot |-> 0, err |-> FALSE, st |-> ""]

\* A call: -t is -c (and -d), there is a name for every inode, and what is to
\* be packed is plain.
Flags == {"d", "f", "k", "c", "t", "N", "n", "tty"}
ASSUME ScenesAssumption ==
    \A s \in Scenes :
        /\ \A o \in Flags : s[o] \in BOOLEAN
        /\ s.t => s.c /\ s.d
        /\ s.argv \in Seq(Names) /\ s.stored \in Names \cup {""}
        /\ s.data \in Seq(Seq(Piece)) /\ Len(s.data) <= MaxIno
        /\ ~s.d => \A i \in DOMAIN s.data : IsPlain(s.data[i])
        /\ DOMAIN s.files \subseteq Names
        /\ \A n \in DOMAIN s.files : s.files[n] \in DOMAIN s.data
        /\ \A i \in DOMAIN s.data : \E n \in DOMAIN s.files : s.files[n] = i

VARIABLES scene,   \* the call
          dir,     \* names to inodes
          ino,     \* the inodes: their pieces, the name in their header, modes
          used,    \* inodes given out so far
          pc, arg, \* where the program is, and at which operand
          buf,     \* what is in the buffer outfile of handle_file
          armed,   \* remove_file # NULL
          live,    \* the buffer remove_file points at is still in use
          w,       \* the locals of the operation on one file
          exit,    \* exit_value
          faults, others,
          owed,    \* history: what the files held that must not get lost
          made,    \* history: the inodes the program created
          excused  \* history: what the code is known not to notice

vars == <<scene, dir, ino, used, pc, arg, buf, armed, live, w, exit, faults,
          others, owed, made, excused>>
fs == <<dir, ino, used>>
env == <<scene, others>>

Init ==
    /\ scene \in Scenes
    /\ dir = [n \in Names |->
                 IF n \in DOMAIN scene.files THEN scene.files[n] ELSE Absent]
    /\ ino = [i \in 0..MaxIno |->
                 IF i \in DOMAIN scene.data
                 THEN [data |-> scene.data[i], name |-> scene.stored,
                       mode |-> "copied"]
                 ELSE Blank]
    /\ used = Len(scene.data)
    /\ pc = "next" /\ arg = 1 /\ buf = "" /\ armed = FALSE /\ live = FALSE
    /\ w = Idle /\ exit = 0 /\ faults = 0 /\ others = 0
    /\ owed = {scene.data[i] : i \in DOMAIN scene.data}
    /\ made = {} /\ excused = {}

Links(i) == Cardinality({n \in Names : dir[n] = i})
Unlink(n) == dir' = [dir EXCEPT ![n] = Absent]
Go(p) == pc' = p
\* Mutants: a warning counts; a warning leaves the exit status.
WarnCounts == exit' = exit + 1
WarnQuiet == UNCHANGED exit
\* maybe_warn
Warn == exit' = IF exit = 0 THEN 1 ELSE exit
Sound == UNCHANGED faults
Fault == faults < MaxFaults /\ faults' = faults + 1

\* The operation on this file is over: its frame, with the buffer, is gone.
Return == pc' = "next" /\ arg' = arg + 1 /\ live' = FALSE /\ w' = Idle

\* write_retry: all of it, or the beginning of it and an error.
Wrote(s) == /\ ino' = [ino EXCEPT ![w.out].data = @ \o s]
            /\ Sound
WroteSome(s) == \E k \in 0..(Len(s) - 1) :
                   /\ ino' = [ino EXCEPT ![w.out].data = @ \o SubSeq(s, 1, k)]
                   /\ Fault

(***************************************************************************)
(* main and handle_pathname                                                *)
(***************************************************************************)
HandlePathname ==
    /\ pc = "next" /\ arg <= Len(scene.argv)
    /\ LET p == scene.argv[arg]
           q == IF scene.d /\ dir[p] = Absent /\ p \in Plainly
                THEN Zipped[p] ELSE p
       IN  IF dir[q] = Absent
           THEN Warn /\ Return
           ELSE /\ w' = [Idle EXCEPT !.file = q]
                /\ Go(IF scene.d THEN "d_open" ELSE "c_open")
                /\ UNCHANGED <<arg, live, exit>>
    /\ UNCHANGED <<fs, env, buf, armed, faults, owed, made, excused>>

Finish ==
    /\ pc = "next" /\ arg > Len(scene.argv)
    /\ Go("done")
    /\ UNCHANGED <<fs, env, arg, buf, armed, live, w, exit, faults, owed, made,
                   excused>>

(***************************************************************************)
(* What both directions share                                              *)
(***************************************************************************)
Lose == Warn /\ Return

\* open and fstat of the operand.
Open(next) ==
    IF dir[w.file] = Absent
    THEN Lose
    ELSE /\ w' = [w EXCEPT !.in = dir[w.file]]
         /\ Go(next) /\ UNCHANGED <<arg, live, exit>>

\* check_outfile: the output exists already.
CheckOutfile ==
    /\ pc = "check"
    /\ \/ dir[buf] = Absent /\ Go("create") /\ UNCHANGED <<arg, live, w, exit>>
       \/ /\ dir[buf] # Absent /\ (scene.f \/ scene.tty)
          /\ Go("unlink_out") /\ UNCHANGED <<arg, live, w, exit>>
       \/ dir[buf] # Absent /\ ~scene.f /\ scene.tty /\ Return /\ UNCHANGED exit
       \/ dir[buf] # Absent /\ ~scene.f /\ ~scene.tty /\ Lose
    /\ UNCHANGED <<fs, env, buf, armed, faults, owed, made, excused>>

\* The user wants it overwritten: what it holds is no longer owed.
UnlinkOut ==
    /\ pc = "unlink_out"
    /\ owed' = {d \in owed : dir[buf] = Absent \/ ~Same(d, ino[dir[buf]].data)}
    /\ Unlink(buf)
    /\ Go("create")
    /\ UNCHANGED <<ino, used, env, arg, buf, armed, live, w, exit, faults, made,
                   excused>>

\* open with O_EXCL, mode 0600.
Create ==
    /\ pc = "create"
    /\ \/ /\ dir[buf] # Absent
          /\ Sound /\ Lose /\ UNCHANGED <<fs, made>>
       \/ Fault /\ Lose /\ UNCHANGED <<fs, made>>
       \/ /\ dir[buf] = Absent /\ used < MaxIno
          /\ used' = used + 1
          /\ dir' = [dir EXCEPT ![buf] = used']
          /\ ino' = [ino EXCEPT ![used'] = Blank]
          /\ made' = made \cup {used'}
          /\ w' = [w EXCEPT !.out = used']
          /\ Go("arm") /\ Sound /\ UNCHANGED <<arg, live, exit>>
    /\ UNCHANGED <<env, buf, armed, owed, excused>>

\* remove_file = outfile
Arm ==
    /\ pc = "arm"
    /\ armed' = TRUE /\ live' = TRUE
    /\ Go(IF ~scene.d THEN "z_init" ELSE IF w.st = "cat" THEN "cat" ELSE "inflate")
    /\ UNCHANGED <<fs, env, arg, buf, w, exit, faults, owed, made, excused>>

\* copymodes: a chown that fails costs the set-id bits.
CopyModes ==
    /\ pc = "modes"
    /\ \/ Sound /\ ino' = [ino EXCEPT ![w.out].mode = "copied"] /\ UNCHANGED exit
       \/ Fault /\ ino' = [ino EXCEPT ![w.out].mode = "no_setid"]
          /\ (UNCHANGED exit \/ Warn)
    /\ Go("disarm")
    /\ UNCHANGED <<dir, used, env, arg, buf, armed, live, w, owed, made, excused>>

\* remove_file = NULL
Disarm ==
    /\ pc = "disarm"
    /\ armed' = FALSE
    /\ Go("stat_in")
    /\ UNCHANGED <<fs, env, arg, buf, live, w, exit, faults, owed, made, excused>>

\* Mutant: that there is a file of that name is enough.
StillNamed == dir[w.file] # Absent
\* unlink_input: only if the name still is the file that was read.
StillInput == dir[w.file] = w.in

StatInput ==
    /\ pc = "stat_in"
    /\ IF scene.k \/ ~StillInput
       THEN Return
       ELSE Go("unlink_in") /\ UNCHANGED <<arg, live, w>>
    /\ UNCHANGED <<fs, env, buf, armed, exit, faults, owed, made, excused>>

UnlinkInput ==
    /\ pc = "unlink_in"
    /\ Unlink(w.file)
    /\ Return
    /\ UNCHANGED <<ino, used, env, buf, armed, exit, faults, owed, made, excused>>

(***************************************************************************)
(* file_compress and gz_compress                                           *)
(***************************************************************************)
COpen ==
    /\ pc = "c_open"
    /\ Open("c_name")
    /\ UNCHANGED <<fs, env, buf, armed, faults, owed, made, excused>>

CName ==
    /\ pc = "c_name"
    /\ \/ scene.c /\ Go("z_init") /\ UNCHANGED <<arg, live, w, exit, buf>>
       \/ /\ ~scene.c /\ ~scene.f /\ (Links(w.in) > 1 \/ HasSuffix(w.file))
          /\ Lose /\ UNCHANGED buf
       \/ /\ ~scene.c /\ (scene.f \/ (Links(w.in) <= 1 /\ ~HasSuffix(w.file)))
          /\ w.file \in Plainly
          /\ buf' = Zipped[w.file]
          /\ Go("check") /\ UNCHANGED <<arg, live, w, exit>>
    /\ UNCHANGED <<fs, env, armed, faults, owed, made, excused>>

\* The header goes into the buffer; deflateInit2 may fail.
DeflateInit ==
    /\ pc = "z_init"
    /\ \/ /\ w' = [w EXCEPT !.held = <<Header>>]
          /\ Go("deflate") /\ Sound /\ UNCHANGED exit
       \/ w' = [w EXCEPT !.err = TRUE] /\ Go("c_size") /\ Fault /\ Warn
    /\ ino' = [ino EXCEPT ![w.out].name =
                  IF scene.n \/ w.out = Stdout THEN @ ELSE w.file]
    /\ UNCHANGED <<dir, used, env, arg, buf, armed, live, owed, made, excused>>

\* The output buffer is full: write it.
DeflateFlush ==
    /\ pc = "deflate" /\ w.held # <<>>
    /\ \/ /\ Wrote(w.held)
          /\ w' = [w EXCEPT !.held = <<>>, !.tot = @ + Len(w.held)]
          /\ UNCHANGED <<pc, exit>>
       \/ /\ WroteSome(w.held)
          /\ w' = [w EXCEPT !.tot = -1]
          /\ Go("c_size") /\ Warn
    /\ UNCHANGED <<dir, used, env, arg, buf, armed, live, owed, made, excused>>

DeflateRead ==
    /\ pc = "deflate"
    /\ LET d == ino[w.in].data IN
       \/ /\ w.pos <= Len(d)
          /\ w' = [w EXCEPT !.pos = @ + 1, !.held = Append(@, d[w.pos]),
                            !.sum = Append(@, d[w.pos].v[1])]
          /\ Sound /\ UNCHANGED <<pc, exit>>
       \/ w.pos > Len(d) /\ Go("finish") /\ Sound /\ UNCHANGED <<w, exit>>
       \/ w' = [w EXCEPT !.err = TRUE] /\ Go("c_size") /\ Fault /\ Warn
    /\ UNCHANGED <<fs, env, arg, buf, armed, live, owed, made, excused>>

\* Z_FINISH: what deflate still has.
DeflateFinish ==
    /\ pc = "finish"
    /\ \/ /\ Wrote(w.held)
          /\ w' = [w EXCEPT !.held = <<>>, !.tot = @ + Len(w.held)]
          /\ Go("trailer") /\ UNCHANGED exit
       \/ /\ w.held # <<>> /\ WroteSome(w.held)
          /\ w' = [w EXCEPT !.tot = -1]
          /\ Go("c_size") /\ Warn
    /\ UNCHANGED <<dir, used, env, arg, buf, armed, live, owed, made, excused>>

Trailer == <<Crc(w.sum), Length(w.sum)>>

DeflateTrailer ==
    /\ pc = "trailer"
    /\ \/ Wrote(Trailer) /\ w' = [w EXCEPT !.tot = @ + 2] /\ UNCHANGED exit
       \/ WroteSome(Trailer) /\ w' = [w EXCEPT !.err = TRUE] /\ Warn
    /\ Go("c_size")
    /\ UNCHANGED <<dir, used, env, arg, buf, armed, live, owed, made, excused>>

\* The length that was written against the length of the file: what
\* gz_compress returned is not looked at.
SizeAgrees == w.tot = Len(ino[w.out].data)
Accepted == SizeAgrees

CSize ==
    /\ pc = "c_size"
    /\ \/ scene.c /\ Return /\ UNCHANGED excused
       \/ /\ ~scene.c /\ Accepted
          /\ excused' = IF w.err THEN excused \cup {"error"} ELSE excused
          /\ Go("modes") /\ UNCHANGED <<arg, live, w>>
       \/ /\ ~scene.c /\ ~Accepted
          /\ Go("bad") /\ UNCHANGED <<arg, live, w, excused>>
    /\ UNCHANGED <<fs, env, buf, armed, exit, faults, owed, made>>

\* bad_outfile: remove_file stays as it is.
BadOutfile ==
    /\ pc = "bad"
    /\ Unlink(buf)
    /\ Warn /\ Return
    /\ UNCHANGED <<ino, used, env, buf, armed, faults, owed, made, excused>>

(***************************************************************************)
(* file_uncompress, gz_uncompress and cat_fd                               *)
(***************************************************************************)
DOpen ==
    /\ pc = "d_open"
    /\ Open("d_copy")
    /\ UNCHANGED <<fs, env, buf, armed, faults, owed, made, excused>>

\* strlcpy(outfile, file): the buffer holds the name of the input.
DCopyName ==
    /\ pc = "d_copy"
    /\ buf' = w.file
    /\ Go("d_suffix")
    /\ UNCHANGED <<fs, env, arg, armed, live, w, exit, faults, owed, made, excused>>

DSuffix ==
    /\ pc = "d_suffix"
    /\ IF HasSuffix(w.file)
       THEN buf' = Unzipped(w.file) /\ Go("d_magic") /\ UNCHANGED <<arg, live, w, exit>>
       ELSE /\ UNCHANGED buf
            /\ IF scene.c THEN Go("d_magic") /\ UNCHANGED <<arg, live, w, exit>>
                          ELSE Lose
    /\ UNCHANGED <<fs, env, armed, faults, owed, made, excused>>

\* The first bytes say what it is; with -N the header says how to call it.
DMagic ==
    /\ pc = "d_magic"
    /\ LET d == ino[w.in].data
           gz == d # <<>> /\ d[1] = Header
       IN  IF d = <<>>
           THEN /\ Return /\ UNCHANGED buf
                /\ IF scene.f THEN UNCHANGED exit ELSE Warn
           ELSE IF ~gz /\ ~scene.f
           THEN Lose /\ UNCHANGED buf
           ELSE /\ w' = [w EXCEPT !.st = IF gz THEN "MAGIC0" ELSE "cat"]
                /\ buf' = IF gz /\ scene.N /\ ino[w.in].name # ""
                          THEN ino[w.in].name ELSE buf
                /\ Go(IF ~scene.c THEN "d_links" ELSE IF gz THEN "inflate" ELSE "cat")
                /\ UNCHANGED <<arg, live, exit>>
    /\ UNCHANGED <<fs, env, armed, faults, owed, made, excused>>

DLinks ==
    /\ pc = "d_links"
    /\ IF Links(w.in) > 1 /\ ~scene.f
       THEN Lose
       ELSE Go("check") /\ UNCHANGED <<arg, live, w, exit>>
    /\ UNCHANGED <<fs, env, buf, armed, faults, owed, made, excused>>

AtEnd == w.pos > Len(ino[w.in].data)
Nothing == [t |-> "", v |-> <<>>]
Here == IF AtEnd THEN Nothing ELSE ino[w.in].data[w.pos]
Step(st) == w' = [w EXCEPT !.pos = @ + 1, !.st = st] /\ UNCHANGED <<pc, exit>>
Stop == Go("d_close") /\ UNCHANGED <<w, exit>>
StopAndFail == Go("d_close") /\ w' = [w EXCEPT !.tot = -1] /\ Warn

\* Mutant: garbage behind a member is waited out.
InflateMagicWaits ==
    /\ pc = "inflate" /\ w.st = "MAGIC0"
    /\ \/ AtEnd /\ Stop
       \/ /\ Here = Header
          /\ w' = [w EXCEPT !.pos = @ + 1, !.st = "READ", !.sum = <<>>]
          /\ UNCHANGED <<pc, exit>>
       \/ ~AtEnd /\ Here # Header /\ exit' = 2 /\ UNCHANGED <<pc, w>>
    /\ UNCHANGED <<fs, env, arg, buf, armed, live, faults, owed, made, excused>>

\* The states of gz_uncompress between two members and inside one.
InflateMagic ==
    /\ pc = "inflate" /\ w.st = "MAGIC0"
    /\ \/ AtEnd /\ Stop
       \/ /\ Here = Header
          /\ w' = [w EXCEPT !.pos = @ + 1, !.st = "READ", !.sum = <<>>]
          /\ UNCHANGED <<pc, exit>>
       \/ ~AtEnd /\ Here # Header /\ exit' = 2 /\ Go("d_close") /\ UNCHANGED w
    /\ UNCHANGED <<fs, env, arg, buf, armed, live, faults, owed, made, excused>>

InflateRead ==
    /\ pc = "inflate" /\ w.st = "READ"
    /\ \/ Here.t \notin {"B", "C"} /\ StopAndFail /\ Sound /\ UNCHANGED ino
       \/ /\ Here.t = "B"
          /\ IF scene.t THEN Sound /\ UNCHANGED ino ELSE Wrote(<<Here>>)
          /\ w' = [w EXCEPT !.pos = @ + 1, !.tot = @ + 1, !.sum = @ \o Here.v]
          /\ UNCHANGED <<pc, exit>>
       \/ /\ Here.t = "B" /\ ~scene.t
          /\ WroteSome(<<Here>>) /\ StopAndFail
       \/ /\ Here.t = "C"
          /\ w' = [w EXCEPT !.st = "CRC"] /\ Sound /\ UNCHANGED <<ino, pc, exit>>
       \/ StopAndFail /\ Fault /\ UNCHANGED ino
    /\ UNCHANGED <<dir, used, env, arg, buf, armed, live, owed, made, excused>>

InflateCrc ==
    /\ pc = "inflate" /\ w.st = "CRC"
    /\ IF Here.v = w.sum THEN Step("LEN") ELSE StopAndFail
    /\ UNCHANGED <<fs, env, arg, buf, armed, live, faults, owed, made, excused>>

InflateLen ==
    /\ pc = "inflate" /\ w.st = "LEN"
    /\ IF Here = Length(w.sum) THEN Step("MAGIC0") ELSE StopAndFail
    /\ UNCHANGED <<fs, env, arg, buf, armed, live, faults, owed, made, excused>>

\* cat_fd: to the standard output; an error ends it with what it has counted.
CatFd ==
    /\ pc = "cat"
    /\ \/ AtEnd /\ Go("d_close") /\ Sound /\ UNCHANGED <<ino, w, exit>>
       \/ /\ ~AtEnd
          /\ ino' = [ino EXCEPT ![Stdout].data = Append(@, Here)]
          /\ w' = [w EXCEPT !.pos = @ + 1, !.tot = @ + 1]
          /\ Sound /\ UNCHANGED <<pc, exit>>
       \/ /\ Fault /\ Warn /\ Go("d_close") /\ UNCHANGED ino
          /\ w' = [w EXCEPT !.err = TRUE]
    /\ UNCHANGED <<dir, used, env, arg, buf, armed, live, owed, made, excused>>

DClose ==
    /\ pc = "d_close"
    /\ IF w.tot = -1
       THEN /\ IF scene.c THEN UNCHANGED dir ELSE Unlink(buf)
            /\ Lose
       ELSE /\ IF scene.c THEN Return
               ELSE Go("d_reopen") /\ UNCHANGED <<arg, live, w>>
            /\ UNCHANGED <<dir, exit>>
    /\ UNCHANGED <<ino, used, env, buf, armed, faults, owed, made, excused>>

\* The output is opened again by its name, and its length looked at.
DReopen ==
    /\ pc = "d_reopen"
    /\ \/ dir[buf] = Absent /\ Sound /\ Lose /\ UNCHANGED <<dir, excused>>
       \/ Fault /\ Lose /\ UNCHANGED <<dir, excused>>
       \/ /\ dir[buf] # Absent /\ Sound
          /\ IF Len(ino[dir[buf]].data) # w.tot
             THEN Unlink(buf) /\ Lose /\ UNCHANGED excused
             ELSE /\ w' = [w EXCEPT !.out = dir[buf]]
                  /\ excused' = IF w.err THEN excused \cup {"error"} ELSE excused
                  /\ Go("modes") /\ UNCHANGED <<arg, live, exit, dir>>
    /\ UNCHANGED <<ino, used, env, buf, armed, owed, made>>

(***************************************************************************)
(* SIGINT, and another program in the directory                            *)
(***************************************************************************)

\* got_sigint: unlink(remove_file).  When the operation that set it has
\* returned, it points into a dead frame: the next operation on a file has
\* its buffer there, or something else has.
Sigint ==
    /\ pc \notin {"done", "interrupted"}
    /\ Go("interrupted")
    /\ \/ armed /\ buf # "" /\ Unlink(buf)
          /\ excused' = IF live THEN excused ELSE excused \cup {"stray"}
       \/ ~(armed /\ live) /\ UNCHANGED <<dir, excused>>
    /\ UNCHANGED <<scene, ino, used, arg, buf, armed, live, w, exit, faults,
                   others, owed, made>>

Other == pc \notin {"done", "interrupted"} /\ others < MaxOthers /\ others' = others + 1

New == Plain(<<9>>)

\* The operands that are there and are not what the program has made.
Operands == {scene.argv[i] : i \in DOMAIN scene.argv}
Foreign == {n \in Operands : dir[n] # Absent /\ dir[n] \notin made}

\* What it writes is owed too; but what comes to the name between the look of
\* unlink_input and its unlink cannot be seen.
NewOwed(n) == IF pc = "unlink_in" /\ n = w.file THEN {} ELSE {New}

\* It saves a new file under the name of an operand.
OtherSaves ==
    /\ Other /\ used < MaxIno
    /\ \E n \in Foreign :
          /\ used' = used + 1
          /\ dir' = [dir EXCEPT ![n] = used']
          /\ ino' = [ino EXCEPT ![used'] = [data |-> New, name |-> "", mode |-> "copied"]]
          /\ owed' = (owed \ {ino[dir[n]].data}) \cup NewOwed(n)
    /\ UNCHANGED <<scene, pc, arg, buf, armed, live, w, exit, faults, made, excused>>

\* It makes a file where there is none.
OtherMakes ==
    /\ Other /\ used < MaxIno
    /\ \E n \in Names :
          /\ dir[n] = Absent
          /\ used' = used + 1
          /\ dir' = [dir EXCEPT ![n] = used']
          /\ ino' = [ino EXCEPT ![used'] = [data |-> New, name |-> "", mode |-> "copied"]]
          /\ owed' = owed \cup NewOwed(n)
    /\ UNCHANGED <<scene, pc, arg, buf, armed, live, w, exit, faults, made, excused>>

\* It removes an operand.
OtherDrops ==
    /\ Other
    /\ \E n \in Foreign :
          /\ Unlink(n)
          /\ owed' = owed \ {ino[dir[n]].data}
    /\ UNCHANGED <<scene, ino, used, pc, arg, buf, armed, live, w, exit, faults,
                   made, excused>>

Compress == \/ COpen \/ CName \/ DeflateInit \/ DeflateFlush \/ DeflateRead
            \/ DeflateFinish \/ DeflateTrailer \/ CSize \/ BadOutfile
Uncompress == \/ DOpen \/ DCopyName \/ DSuffix \/ DMagic \/ DLinks
              \/ InflateMagic \/ InflateRead \/ InflateCrc \/ InflateLen
              \/ CatFd \/ DClose \/ DReopen
Shared == \/ HandlePathname \/ Finish \/ CheckOutfile \/ UnlinkOut \/ Create
          \/ Arm \/ CopyModes \/ Disarm \/ StatInput \/ UnlinkInput
Program == Compress \/ Uncompress \/ Shared

Next == Program \/ Sigint \/ OtherSaves \/ OtherMakes \/ OtherDrops

Spec == Init /\ [][Next]_vars
FairSpec == Spec /\ WF_vars(Program)

-----------------------------------------------------------------------------
(***************************************************************************)
(* What gzip and gunzip promise about the files they replace.              *)
(***************************************************************************)

Ended == pc \in {"done", "interrupted"}

\* The shape of the state: pieces in inodes, names on inodes that exist, a
\* buffer that holds a name when remove_file points at it.
TypeOK ==
    /\ scene \in Scenes
    /\ dir \in [Names -> 0..used]
    /\ used \in 0..MaxIno
    /\ \A i \in 0..MaxIno : /\ ino[i].data \in Seq(Piece)
                            /\ ino[i].mode \in {"private", "copied", "no_setid"}
    /\ buf \in Names \cup {""}
    /\ armed \in BOOLEAN /\ live \in BOOLEAN
    /\ (armed \/ live) => buf \in Names
    /\ exit \in 0..2
    /\ faults \in 0..MaxFaults /\ others \in 0..MaxOthers
    /\ made \subseteq 1..used
    /\ excused \subseteq {"error", "stray"}

Kept(d) == \E n \in Names : dir[n] # Absent /\ Same(d, ino[dir[n]].data)

\* Whatever stops the program, and whatever the other program does, what the
\* operands held is whole under some name: as it was, packed or unpacked.
\* Only a file that -f or the user gave up may go.  (file_compress,
\* file_uncompress, check_outfile, unlink_input; apart from an error of
\* gz_compress or cat_fd that the length does not show, and from a
\* remove_file that an earlier operation has left behind.)
SourceKept == excused = {} => \A d \in owed : Kept(d)

\* The operand is unlinked only when "output is good" (gzip.c:1519): the same
\* without the exception for errors.
OutputGood == "stray" \notin excused => \A d \in owed : Kept(d)

\* A file that is another one packed or unpacked.
Whole(i) == \E j \in 1..(i - 1) : Converts(ino[j].data, ino[i].data)

\* When the program has ended or was interrupted, an output that is still
\* there is whole, or nothing was written to it yet (bad_outfile, the unlinks
\* of file_uncompress, got_sigint).
NothingHalf ==
    Ended /\ excused = {} =>
       \A n \in Names : dir[n] \in made =>
          ino[dir[n]].data = <<>> \/ Whole(dir[n])

\* An output that is not whole is readable by its owner only: the modes of
\* the input come last (0600 in open, then copymodes).
PrivateUntilWhole ==
    excused = {} =>
       \A i \in made : ino[i].mode # "private" => Whole(i)

OutputKept == NothingHalf /\ PrivateUntilWhole

\* Both, of the operands and of the outputs.
FilesKept == SourceKept /\ OutputKept

\* What becomes of operand p when it is done: the name of the result.
Result(p) == IF ~scene.d THEN Zipped[p]
             ELSE IF HasSuffix(p) THEN Unzipped(p) ELSE p
Source(p) == IF scene.d /\ p \in Plainly /\ p \notin DOMAIN scene.files
             THEN Zipped[p] ELSE p

\* Exit status 0 means that every operand was replaced: the result is there
\* and whole, and the operand is gone unless -k (exit_value, maybe_warn).
Told ==
    pc = "done" /\ exit = 0 /\ others = 0 /\ ~scene.c /\ ~scene.f /\ ~scene.tty =>
       \A p \in Operands :
          /\ (scene.d \/ p \in Plainly) /\ Source(p) \in DOMAIN scene.files
          /\ LET d == scene.data[scene.files[Source(p)]]
                 r == IF scene.d /\ scene.N /\ scene.stored # ""
                      THEN scene.stored ELSE Result(p)
             IN  /\ dir[r] # Absent /\ dir[r] \in made
                 /\ Converts(d, ino[dir[r]].data)
                 /\ scene.k \/ dir[Source(p)] = Absent

\* With -c and -t the files stay as they are; what -c writes before an exit
\* status of 0 is the result for all operands, in order, and -t writes nothing.
ToStdout ==
    scene.c =>
       /\ made = {} /\ (others = 0 => \A n \in DOMAIN scene.files : dir[n] = scene.files[n])
       /\ scene.t => ino[Stdout].data = <<>>
       /\ pc = "done" /\ exit = 0 /\ others = 0 /\ ~scene.t /\ Len(scene.argv) = 1 =>
             LET p == scene.argv[1]
                 d == scene.data[scene.files[Source(p)]]
                 o == ino[Stdout].data
             IN  /\ Source(p) \in DOMAIN scene.files
                 /\ IF ~scene.d THEN Converts(d, o)
                    ELSE IF d # <<>> /\ d[1] = Header THEN UnpacksTo(d, o) ELSE o = d

ResultRight == Told /\ ToStdout

\* gzip comes to an end, whatever the archives hold.
Terminates == <>Ended
=============================================================================
