------------------------------ MODULE Compress ------------------------------
(***************************************************************************)
(* compress, uncompress and zcat (compress.c): which file becomes which,   *)
(* and when the one it came from is removed; and gzip -dc reading what     *)
(* they wrote.  A job is a sequence of commands on the same files.         *)
(*                                                                         *)
(*   fs    names to inodes, inodes to files   pc    where the command is   *)
(*   n     number of the command              io    the two files in hand  *)
(*   args  names still to be treated          cat   output to stdout       *)
(*   eval  exit status so far                 rets  those of the commands  *)
(*   was   the files when the command began   left  failures still to come *)
(***************************************************************************)
EXTENDS Zopen

CONSTANTS
  Jobs,    \* files, commands and failures of an instance
  Names,   \* the files there may be, with stdin and stdout
  ZNames,  \* names that end in .Z, and what stands before that
  Num      \* bytes of one read or write of the program (1024)

VARIABLES job, fs, n, args, pc, io, cat, eval, rets, was, left
vars == <<job, fs, n, args, pc, io, cat, eval, rets, was, left>>

Cmd   == job.cmds[n]
Force == "f" \in Cmd.opt
Squeezes == Cmd.prog = "compress"
Strip(x) == ZNames[x]
WithZ(x) == CHOOSE z \in DOMAIN ZNames : ZNames[z] = x
NoIO == [in |-> "", out |-> "", oreg |-> FALSE, isreg |-> FALSE, fd |-> 0, ofd |-> 0, pos |-> 0,
         isb |-> [type |-> "none", data |-> <<>>, st |-> ""], z |-> New(0, TRUE)]

There(name)   == fs.ent[name] # 0
File(name)    == fs.node[fs.ent[name]]
Regular(name) == There(name) /\ File(name).type = "reg"
Unused        == CHOOSE i \in DOMAIN fs.node : \A x \in Names : fs.ent[x] # i
(* fopen for writing, and what is written *)
Opened(name) ==
  IF ~ There(name)
  THEN [fs EXCEPT !.ent[name] = Unused,
                  !.node[Unused] = [type |-> "reg", data |-> <<>>, st |-> "new"]]
  ELSE IF Regular(name) THEN [fs EXCEPT !.node[fs.ent[name]].data = <<>>] ELSE fs
More(tree, ino, data) == [tree EXCEPT !.node[ino].data = @ \o data]
Without(name) == [fs EXCEPT !.ent[name] = 0]
Half(data)    == SubSeq(data, 1, Len(data) \div 2)

Init ==
  /\ job \in Jobs
  /\ fs = job.fs /\ was = job.fs /\ n = 1 /\ args = <<>> /\ pc = "main" /\ io = NoIO
  /\ cat = FALSE /\ eval = 0 /\ rets = <<>> /\ left = job.faults

Warn      == eval' = 1
NextArg   == pc' = "arg"
May(what) == what \in left /\ left' = left \ {what}
keep == <<job, n, args, cat, rets, was>>

---------------------------------------------------------------------------
(* main: without names, from stdin to stdout *)
Main ==
  /\ pc = "main" /\ Cmd.prog \in {"compress", "uncompress", "zcat"}
  /\ LET c == Cmd.prog = "zcat" \/ "c" \in Cmd.opt IN
     IF c /\ Squeezes /\ Len(Cmd.args) > 1
     THEN args' = <<>> /\ Warn /\ UNCHANGED cat
     ELSE /\ args' = (IF Cmd.args = <<>> THEN <<"-">> ELSE Cmd.args)
          /\ cat' = (c \/ Cmd.args = <<>>) /\ UNCHANGED eval
  /\ NextArg /\ UNCHANGED <<job, fs, n, io, rets, was, left>>

Between(in, out) == io' = [NoIO EXCEPT !.in = in, !.out = out] /\ pc' = "ask"
Arg ==
  /\ pc = "arg" /\ args # <<>>
  /\ args' = Tail(args)
  /\ LET x == Head(args)
         named == x \in DOMAIN ZNames
         z == IF named THEN x ELSE WithZ(x)
     IN IF x = "-" THEN Between("stdin", "stdout") /\ cat' = TRUE /\ UNCHANGED eval
        ELSE /\ UNCHANGED cat
             /\ IF Squeezes /\ ~ cat /\ named THEN Warn /\ NextArg /\ UNCHANGED io
                ELSE /\ IF Squeezes THEN Between(x, IF cat THEN "stdout" ELSE z)
                        ELSE Between(z, IF cat THEN "stdout" ELSE Strip(z))
                     /\ UNCHANGED eval
  /\ UNCHANGED <<job, fs, n, rets, was, left>>

(* permission: the question, when there is a terminal to ask on *)
Ask ==
  /\ pc = "ask"
  /\ IF ~ Force /\ Regular(io.out) /\ ~ cat /\ Cmd.answer # "yes"
     THEN Warn /\ NextArg /\ UNCHANGED io
     ELSE /\ io' = [io EXCEPT !.oreg = ~ There(io.out) \/ Regular(io.out),
                              !.isreg = ~ There(io.out) \/ Regular(io.out)]
          /\ pc' = (IF Squeezes THEN "open" ELSE "zopen") /\ UNCHANGED eval
  /\ UNCHANGED <<keep, fs, left>>

(* What stat tells of the input, and whether it may be removed *)
Looked == [io EXCEPT !.fd = fs.ent[io.in], !.isb = File(io.in),
                     !.isreg = @ /\ Regular(io.in)]
BadBits == Cmd.bits > BITS
(* err: the output is removed, when it is open and a regular file *)
Err == /\ Warn /\ NextArg /\ UNCHANGED io
       /\ fs' = IF io.ofd # 0 /\ ~ cat /\ io.oreg THEN Without(io.out) ELSE fs

---------------------------------------------------------------------------
(* compress() *)
Open ==
  /\ pc = "open"
  /\ \/ /\ ~ There(io.in) \/ BadBits
        /\ Warn /\ NextArg /\ UNCHANGED <<fs, io, left>>
     \/ /\ There(io.in) /\ ~ BadBits /\ May("open")
        /\ Warn /\ NextArg /\ UNCHANGED <<fs, io>>
     \/ /\ There(io.in) /\ ~ BadBits
        /\ fs' = Opened(io.out)
        /\ io' = [Looked EXCEPT !.ofd = fs'.ent[io.out], !.z = New(Cmd.bits, TRUE)]
        /\ pc' = "squeeze" /\ UNCHANGED <<eval, left>>
  /\ UNCHANGED keep

(* The loop of fread and fwrite; what zwrite has put out is in the file *)
Input == SubSeq(fs.node[io.fd].data, io.pos + 1, Len(fs.node[io.fd].data))
Chunk == SubSeq(Input, 1, IF Len(Input) < Num THEN Len(Input) ELSE Num)
New1(z) == SubSeq(z.file, Len(io.z.file) + 1, Len(z.file))
Squeeze ==
  /\ pc = "squeeze" /\ Chunk # <<>> /\ fs.node[io.fd].type # "dir"
  /\ \E z \in {ZWrite(io.z, Chunk)} :
       \/ /\ fs' = More(fs, io.ofd, New1(z))
          /\ io' = [io EXCEPT !.z = z, !.pos = @ + Len(Chunk)]
          /\ UNCHANGED <<pc, eval, left>>
       \/ May("write") /\ Err
  /\ UNCHANGED keep
(* ferror and fclose of the input *)
Unread == fs.node[io.fd].type = "dir"
CloseIn ==
  /\ pc = "squeeze" /\ (Unread \/ Chunk = <<>>)
  /\ \/ Unread /\ Err /\ UNCHANGED left
     \/ May("read") /\ Err
     \/ ~ Unread /\ pc' = "close" /\ UNCHANGED <<fs, io, eval, left>>
  /\ UNCHANGED keep
(* fclose of the output: zclose puts the last code out.  When that fails the
   output is removed and closed a second time, which may kill the program. *)
Dies == pc' = "died"
CloseOut ==
  /\ pc = "close"
  /\ \E z \in {IF Squeezes THEN ZClose(io.z) ELSE io.z} :
       \/ /\ fs' = More(fs, io.ofd, IF Squeezes THEN New1(z) ELSE <<>>)
          /\ pc' = IF ~ cat /\ io.isreg THEN "done" ELSE "arg"
          /\ UNCHANGED <<io, eval, left>>
       \/ May("close") /\ Err
       \/ May("close") /\ Dies /\ fs' = (IF ~ cat /\ io.oreg THEN Without(io.out) ELSE fs)
          /\ UNCHANGED <<io, eval>>
  /\ UNCHANGED keep

(* A file that would grow is left as it is, and its output removed. *)
Grows == Squeezes /\ ~ Force /\ Len(File(io.out).data) >= Len(io.isb.data)
Grow ==
  /\ pc = "done" /\ Grows
  /\ NextArg
  /\ \/ eval' = 2 /\ fs' = Without(io.out) /\ UNCHANGED left
     \/ May("unlink") /\ Warn /\ UNCHANGED fs
  /\ UNCHANGED <<keep, io>>
(* setfile: times, owner, mode and flags *)
SetFile ==
  /\ pc = "done" /\ ~ Grows
  /\ pc' = "remove"
  /\ \/ fs' = [fs EXCEPT !.node[fs.ent[io.out]].st = io.isb.st] /\ UNCHANGED <<eval, left>>
     \/ May("attr") /\ Warn /\ UNCHANGED fs
  /\ UNCHANGED <<keep, io>>
RemoveIn ==
  /\ pc = "remove"
  /\ NextArg
  /\ \/ fs' = Without(io.in) /\ UNCHANGED <<eval, left>>
     \/ May("unlink") /\ Warn /\ UNCHANGED fs
  /\ UNCHANGED <<keep, io>>

---------------------------------------------------------------------------
(* decompress(): nothing is opened for writing before something was read *)
ZOpen ==
  /\ pc = "zopen"
  /\ IF ~ There(io.in) \/ BadBits THEN Warn /\ NextArg /\ UNCHANGED io
     ELSE /\ io' = [Looked EXCEPT !.z = [New(Cmd.bits, TRUE) EXCEPT !.src = File(io.in).data]]
          /\ pc' = "first" /\ UNCHANGED eval
  /\ UNCHANGED <<keep, fs, left>>
FirstBlind ==
  /\ pc = "first"
  /\ \E z \in {ZRead(io.z, Num, FALSE)} :
       /\ fs' = More(Opened(io.out), Opened(io.out).ent[io.out], z.res)
       /\ IF z.res = <<>> THEN Warn /\ NextArg /\ UNCHANGED io
          ELSE /\ io' = [io EXCEPT !.z = z, !.ofd = fs'.ent[io.out]]
               /\ pc' = "expand" /\ UNCHANGED eval
  /\ UNCHANGED <<keep, left>>
First ==
  /\ pc = "first"
  /\ \E z \in {ZRead(io.z, Num, FALSE)} :
       \/ z.res = <<>> /\ Warn /\ NextArg /\ UNCHANGED <<fs, io, left>>
       \/ z.res # <<>> /\ May("open") /\ Warn /\ NextArg /\ UNCHANGED <<fs, io>>
       \/ /\ z.res # <<>> /\ May("write") /\ Warn /\ NextArg /\ UNCHANGED io
          /\ fs' = More(Opened(io.out), Opened(io.out).ent[io.out], Half(z.res))
       \/ /\ z.res # <<>>
          /\ fs' = More(Opened(io.out), Opened(io.out).ent[io.out], z.res)
          /\ io' = [io EXCEPT !.z = z, !.ofd = fs'.ent[io.out]]
          /\ pc' = "expand" /\ UNCHANGED <<eval, left>>
  /\ UNCHANGED keep
Expanding ==
  /\ pc = "expand"
  /\ \E z \in {ZRead(io.z, Num, FALSE)} :
       \/ z.fail /\ Err /\ UNCHANGED left
       \/ z.res # <<>> /\ May("write") /\ Err
       \/ z.res = <<>> /\ ~ z.fail /\ May("read") /\ Err
       \/ /\ ~ z.fail
          /\ fs' = More(fs, io.ofd, z.res) /\ io' = [io EXCEPT !.z = z]
          /\ pc' = IF z.res = <<>> THEN "close" ELSE pc
          /\ UNCHANGED <<eval, left>>
  /\ UNCHANGED keep

---------------------------------------------------------------------------
(* gzip -dc < file: four bytes tell the format and are given to the reader;
   that it failed is not looked at                                         *)
Gzip ==
  /\ pc = "main" /\ Cmd.prog = "gzip"
  /\ LET s == IF There(Cmd.args[1]) THEN File(Cmd.args[1]).data ELSE <<>> IN
     IF Len(s) < 4 \/ SubSeq(s, 1, 2) # Magic
     THEN Warn /\ NextArg /\ UNCHANGED io
     ELSE /\ io' = [NoIO EXCEPT !.in = Cmd.args[1], !.z.pre = SubSeq(s, 1, 4),
                                !.z.src = SubSeq(s, 5, Len(s))]
          /\ pc' = "gunzip" /\ UNCHANGED eval
  /\ UNCHANGED <<keep, fs, left>>
Gunzip ==
  /\ pc = "gunzip"
  /\ \E z \in {ZRead(io.z, Num, TRUE)} :
       /\ fs' = More(fs, fs.ent["stdout"], z.res)
       /\ io' = [io EXCEPT !.z = z]
       /\ pc' = IF z.res = <<>> THEN "arg" ELSE pc
  /\ UNCHANGED <<keep, eval, left>>
(* Between two commands a file may lose its end. *)
Cut ==
  /\ pc = "main" /\ Cmd.prog = "cut" /\ There("f.Z")
  /\ \E k \in 0..(Len(File("f.Z").data) - 1) :
       fs' = [fs EXCEPT !.node[fs.ent["f.Z"]].data = SubSeq(@, 1, k)]
  /\ NextArg /\ UNCHANGED <<keep, io, eval, left>>

(* exit, and the next command with a stdout of its own *)
Exit ==
  /\ pc = "arg" /\ args = <<>>
  /\ rets' = Append(rets, eval) /\ pc' = "exit"
  /\ UNCHANGED <<job, fs, n, args, io, cat, eval, was, left>>
NextCommand ==
  /\ pc = "exit" /\ n < Len(job.cmds)
  /\ n' = n + 1 /\ fs' = [fs EXCEPT !.node[fs.ent["stdout"]].data = <<>>] /\ was' = fs'
  /\ pc' = "main" /\ args' = <<>> /\ io' = NoIO /\ cat' = FALSE /\ eval' = 0
  /\ UNCHANGED <<job, rets, left>>
Over == pc = "died" \/ (pc = "exit" /\ n = Len(job.cmds))

Next ==
  \/ Main \/ Arg \/ Ask \/ Open \/ Squeeze \/ CloseIn \/ CloseOut \/ Grow \/ SetFile \/ RemoveIn
  \/ ZOpen \/ First \/ Expanding \/ Gzip \/ Gunzip \/ Cut \/ Exit \/ NextCommand
  \/ (Over /\ UNCHANGED vars)
Spec == Init /\ [][Next]_vars

-----------------------------------------------------------------------------
(***************************************************************************)
(* What compress, uncompress and gzip promise about files and contents.    *)
(***************************************************************************)

(* Every variable keeps its type: the table holds no code above the limit,
   what waits on the stack is the string of one code, and the buffer of codes
   is never overrun.                                                        *)
TypeOK ==
  /\ n \in DOMAIN job.cmds /\ eval \in 0..2 /\ Len(rets) <= Len(job.cmds)
  /\ pc \in {"main", "arg", "ask", "open", "squeeze", "close", "done", "remove", "zopen",
             "first", "expand", "gunzip", "exit", "died"}
  /\ \A x \in Names : There(x) => File(x).type \in {"reg", "dir", "pipe"}
  /\ LET z == io.z IN
       /\ z.state # "start" => Free(z) <= Most(z) \/ z.table = <<>>
       /\ z.n <= BITS /\ z.offset <= BITS * Width
       /\ Len(z.stack) <= Len(z.table) + 2 /\ Len(z.res) <= Num
       /\ \A k \in DOMAIN z.table : z.table[k][1] < Base(z) + k /\ z.table[k][2] < CLEAR

(* The contents that compress has put into a stream, read in pieces of another
   size than the program's; <<-1>> when there are none                       *)
RECURSIVE All(_, _)
All(z, done) ==
  IF z.fail THEN <<-1>> ELSE IF z.res = <<>> THEN done
  ELSE CHOOSE all \in {All(y, done \o z.res) : y \in {ZRead(z, 7, FALSE)}} : TRUE
Contents(s) ==
  CHOOSE all \in {All(z, <<>>) : z \in {ZRead([New(0, TRUE) EXCEPT !.src = s], 7, FALSE)}} : TRUE

Ended     == pc \in {"exit", "died"}
Wrote(x)  == was.node[was.ent[x]].data
Had(x)    == was.ent[x] # 0 /\ was.node[was.ent[x]].type = "reg"
Disk      == {x \in Names : Regular(x)}
IsCmd(p)  == Cmd.prog = p
Expands   == Cmd.prog \in {"uncompress", "zcat"}
InPlace   == Cmd.prog \in {"compress", "uncompress"} /\ "c" \notin Cmd.opt
             /\ Cmd.args # <<>> /\ "-" \notin ToSet(Cmd.args)
Allowed   == Force \/ Cmd.answer = "yes"
(* The reader refuses streams whose codes are limited to fewer bits than any
   compress would use, and the stream of nothing, which is nothing.         *)
Unreadable == Squeezes /\ (Cmd.bits \in 1..(LeastBits - 1) \/ (Force /\ Had("f") /\ Wrote("f") = <<>>))
OneFile    == was.ent["f"] = was.ent["f.Z"]

(* At every moment, and so also when a command is killed, each file there was
   before a command can be had back: it is there, or what it was made into
   is; unless the user let it be overwritten, and there is something to write:
   a stream that gives nothing overwrites nothing.                          *)
Same(c, d)  == c = d \/ Contents(c) = d \/ Contents(d) = c
Gives(x)    == Had(x) /\ ZRead([New(0, TRUE) EXCEPT !.src = Wrote(x)], Num, FALSE).res # <<>>
Given(x)    ==
  /\ Allowed /\ InPlace
  /\ IF Squeezes THEN x \in DOMAIN ZNames /\ was.ent[ZNames[x]] # 0
     ELSE x \notin DOMAIN ZNames /\ \E z \in DOMAIN ZNames : ZNames[z] = x /\ Gives(z)
Kept ==
  fs # was /\ ~ IsCmd("cut") /\ ~ Unreadable /\ ~ (Allowed /\ OneFile) =>
    \A x \in Names : Had(x) /\ ~ Given(x) =>
      \/ Regular(x) /\ File(x).data = Wrote(x)
      \/ \E y \in Disk : Same(File(y).data, Wrote(x))

(* Exit status 0 of compress and uncompress means that the files named have
   become others with the same contents and attributes, or were written to a
   pipe of that name and stay; 2 that a file was left alone since it would
   grow; and 1 leaves no half of an output behind, unless the very first write
   to it failed.  A command that writes to stdout changes no file, and what it
   writes is what was compressed, however large the reads and writes are,
   whichever of the two readers reads.  The stream g.Z, where there is one, was
   made of f by another writer, and stands for it.                           *)
Other(x) == IF x \in DOMAIN ZNames THEN ZNames[x] ELSE WithZ(x)
Source(x) == IF Squeezes THEN x ELSE IF x \in DOMAIN ZNames THEN x ELSE WithZ(x)
ToPipe(x) == was.ent[x] # 0 /\ was.node[was.ent[x]].type = "pipe"
Became(x) ==
  /\ ~ There(x) /\ Regular(Other(x))
  /\ Squeezes => Contents(File(Other(x)).data) = Wrote(x)
  /\ Expands  => File(Other(x)).data = Contents(Wrote(x))
  /\ File(Other(x)).st = was.node[was.ent[x]].st
NoHalf ==
  \A x \in Disk : \/ Had(x)
                  \/ Expands /\ "write" \in job.faults
                  \/ \E y \in Names : Had(y) /\ Same(File(x).data, Wrote(y))
From0 == IF Cmd.args \in {<<>>, <<"-">>} THEN "stdin" ELSE Source(Cmd.args[1])
Piped == IF Squeezes THEN Contents(File("stdout").data) = Wrote(From0)
         ELSE File("stdout").data = Contents(Wrote(From0))
Untouched(x) == was.ent[x] = fs.ent[x] /\ (was.ent[x] # 0 => File(x) = was.node[was.ent[x]])
Done0 ==
  /\ InPlace /\ Len(Cmd.args) = 1 =>
       IF ToPipe(Other(Source(Cmd.args[1]))) THEN Untouched(Source(Cmd.args[1]))
       ELSE Became(Source(Cmd.args[1]))
  /\ ~ InPlace /\ Len(Cmd.args) < 2 => Piped /\ \A x \in Names \ {"stdout"} : Untouched(x)
ResultRight ==
  Ended /\ ~ IsCmd("cut") /\ ~ Unreadable /\ ~ (Allowed /\ OneFile) =>
    /\ pc = "exit" /\ eval = 0 => Done0
    /\ Had("g.Z") => Contents(Wrote("g.Z")) = Wrote("f")
    /\ eval = 2 => There("f") /\ fs.ent["f.Z"] = 0
    /\ ~ Allowed => NoHalf
=============================================================================
