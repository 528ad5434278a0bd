----------------------------- MODULE GzipProofs -----------------------------
(***************************************************************************)
(* gzip and gunzip lose nothing: whatever fails, whatever another program  *)
(* does and whenever SIGINT comes, what the operands held is whole under   *)
(* some name, and no output that is half done is left or shown to others.  *)
(* For any calls, files and numbers of failures.                           *)
(***************************************************************************)
EXTENDS Gzip, SequenceTheorems, WellFoundedInduction, TLAPS

-----------------------------------------------------------------------------
(* The invariant.  First the types. *)

Pcs == {"next", "done", "interrupted", "c_open", "c_name", "check", "unlink_out", "create",
        "arm", "z_init", "deflate", "finish", "trailer", "c_size", "bad", "d_open", "d_copy",
        "d_suffix", "d_magic", "d_links", "inflate", "cat", "d_close", "d_reopen", "modes",
        "disarm", "stat_in", "unlink_in"}
Inode  == [data : Seq(Piece), name : Names \cup {""}, mode : {"private", "copied", "no_setid"}]
Locals == [file : Names \cup {""}, in : Nat, out : Nat, pos : Nat \ {0}, held : Seq(Piece),
           sum : Seq(Nat), tot : Int, err : BOOLEAN,
           st : {"", "MAGIC0", "READ", "CRC", "LEN", "cat"}]

Files ==
  /\ scene \in Scenes /\ used \in 0..MaxIno /\ dir \in [Names -> 0..used]
  /\ ino \in [0..MaxIno -> Inode] /\ made \subseteq 1..used
  /\ others \in 0..MaxOthers
Control ==
  /\ pc \in Pcs /\ arg \in Nat \ {0} /\ buf \in Names \cup {""}
  /\ armed \in BOOLEAN /\ live \in BOOLEAN /\ w \in Locals
  /\ exit \in 0..2 /\ faults \in 0..MaxFaults /\ excused \subseteq {"error", "stray"}

(* Where the program is at an operand, where it has opened it, where it has
   made its output (but for -c), where remove_file is set for it.            *)
Between == {"next", "done"}
Opening == {"c_open", "d_open"}
Naming  == {"c_name", "check", "unlink_out", "create", "d_copy", "d_suffix", "d_magic", "d_links"}
Filling == {"z_init", "deflate", "finish", "trailer", "c_size", "bad", "inflate", "cat",
            "d_close", "d_reopen", "modes", "disarm"}
Leaving == {"stat_in", "unlink_in"}
Writing == {"arm"} \cup Filling \cup Leaving
Working == Opening \cup Naming \cup Writing
Zipping   == {"c_open", "c_name", "z_init", "deflate", "finish", "trailer", "c_size", "bad"}
Unzipping == {"d_open", "d_copy", "d_suffix", "d_magic", "d_links", "inflate", "cat",
              "d_close", "d_reopen"}
ToFile    == {"check", "unlink_out", "create", "arm", "bad", "modes", "disarm", "d_links",
              "d_reopen"} \cup Leaving
Input  == ino[w.in].data
Output  == ino[w.out].data

(* Locals that nothing has been done to. *)
Fresh == w.pos = 1 /\ w.held = <<>> /\ w.sum = <<>> /\ w.tot = 0 /\ ~ w.err

(* The output has one name, and is the last file that was made. *)
Own == /\ w.out \in made /\ w.in < w.out
       /\ buf \in Names /\ dir[buf] = w.out
       /\ \A n \in Names : dir[n] = w.out => n = buf
       /\ \A i \in made : i <= w.out

Pointer ==
  /\ pc \in Between \cup Opening \cup Naming => ~ live
  /\ scene.c => ~ live
  /\ ~ scene.c /\ pc \in Filling => armed /\ live
  /\ live => pc \in Filling \cup Leaving \cup {"interrupted"}
  /\ armed \/ live => buf \in Names
  /\ pc \in Leaving => ~ armed
Places ==
  /\ pc \in Between => w = Idle
  /\ pc \in Working => w.file \in Names /\ arg \in DOMAIN scene.argv
  /\ pc \in Opening \cup Naming => w.out = 0 /\ Fresh
  /\ pc \in {"arm", "z_init"} => Fresh
  /\ pc \in Naming \cup Writing => w.in \in 1..used
  /\ pc \in Zipping => ~ scene.d
  /\ pc \in Unzipping => scene.d
  /\ pc \in ToFile => ~ scene.c
  /\ scene.c => made = {} /\ w.out = 0
  /\ ~ scene.c /\ pc \in Writing => Own
  /\ pc \in Naming \ {"c_name", "d_copy"} => buf \in Names
  /\ pc = "unlink_in" => buf # w.file

(* What is packed is plain, and what was unpacked is; so a file that the
   program has made is never its input.                                     *)
Plains ==
  /\ ~ scene.d => /\ \A i \in 1..used : i \notin made => IsPlain(ino[i].data)
                  /\ \A n \in Plainly : dir[n] \notin made
  /\ scene.d => \A i \in made : IsPlain(ino[i].data)
Kinds ==
  /\ ~ scene.d => /\ pc \in Naming \cup Writing /\ w.file \in Plainly => w.in \notin made
                  /\ ~ scene.c /\ pc \in Writing \cup (Naming \ {"c_name"}) => w.file \in Plainly
                  /\ pc \in {"check", "unlink_out", "create"} => buf \notin Plainly
  /\ scene.d => /\ pc \in {"d_links", "check", "unlink_out", "create", "arm", "modes",
                           "disarm", "inflate", "cat", "d_close", "d_reopen"} \cup Leaving =>
                     Input # <<>> /\ w.st # ""
                /\ pc \in Opening \cup {"d_copy", "d_suffix", "d_magic"} => w.st = ""
                /\ w.st \notin {"", "cat"} /\ pc \in Working => Input # <<>> /\ Input[1].t = "H"
                /\ pc \in {"d_links", "check", "unlink_out", "create", "arm"} =>
                     w.st \in {"MAGIC0", "cat"}
                /\ pc \in {"inflate"} => w.st # "cat"
                /\ pc \in {"cat"} => w.st = "cat"

(* What the output holds while it is written. *)
Deflated ==
  /\ w.pos <= Len(Input) + 1
  /\ w.sum = Values(SubSeq(Input, 1, w.pos - 1))
  /\ Output \o w.held = <<Header>> \o SubSeq(Input, 1, w.pos - 1)
  /\ w.tot = Len(Output) /\ ~ w.err

Members(d, k) ==
  \A i \in 1..k : d[i].t = "H" =>
     \E j \in i..k : Member(d, i, j) /\ (j < k => d[j + 1].t = "H")

(* A member has been read up to pos, with n pieces of its trailer; it began
   at m.                                                                    *)
Began(n) == w.pos - 1 - Len(w.sum) - n
Since(d, s, m) ==
  /\ m \in 1..Len(d)
  /\ d[m].t = "H" /\ Members(d, m - 1)
  /\ \A x \in 1..Len(s) : d[m + x] = Block(s[x])
Inside(m) == Since(Input, w.sum, m)
Inflated ==
  /\ w.pos <= Len(Input) + 1 /\ w.tot = Len(Output) /\ Blocks(Input, w.pos - 1) = Output
  /\ w.st = "MAGIC0" => Members(Input, w.pos - 1)
  /\ w.st = "READ" => Inside(Began(0))
  /\ w.st = "CRC" => Inside(Began(0)) /\ w.pos <= Len(Input) /\ Input[w.pos].t = "C"
  /\ w.st = "LEN" => Inside(Began(1)) /\ Input[w.pos - 1] = Crc(w.sum)

Written ==
  /\ w.st = "cat"    => Output = <<>> /\ (w.err \/ w.tot > 0)
  /\ w.st = "MAGIC0" => UnpacksTo(Input, Output) /\ w.tot = Len(Output)
  /\ w.st \in {"MAGIC0", "cat"}

Contents ==
  ~ scene.c =>
    /\ pc \in {"arm", "z_init"} => Output = <<>>
    /\ pc \in {"deflate", "finish", "trailer"} => Deflated
    /\ pc \in {"finish", "trailer"} => w.pos = Len(Input) + 1
    /\ pc = "trailer" => w.held = <<>>
    /\ pc = "c_size" => \/ w.err \/ w.tot = -1
                        \/ w.tot = Len(Output) /\ Output = Packed(Values(Input))
    /\ pc = "inflate" => Inflated
    /\ pc = "cat" => /\ Output = <<>> /\ w.tot = w.pos - 1 /\ ~ w.err
                     /\ w.pos <= Len(Input) + 1
    /\ pc = "d_close" => w.tot = -1 \/ Written
    /\ pc = "d_reopen" => Written
    /\ pc \in {"modes", "disarm"} \cup Leaving /\ excused = {} => Converts(Input, Output)

(* Everything that is owed is held under some name: as it was by a file of
   others, or in any form by an output of an operation that is over; and at
   the unlink of the input not by what has come to its name since.          *)
Holds(n, d) ==
  /\ dir[n] # Absent /\ dir[n] # w.out
  /\ IF dir[n] \in made THEN Same(d, ino[dir[n]].data) ELSE ino[dir[n]].data = d
  /\ pc = "unlink_in" => n # w.file \/ dir[n] = w.in
Held == excused = {} => \A d \in owed : \E n \in Names : Holds(n, d)

(* The outputs of operations that are over are whole, or nothing was ever
   written to them; and those that others may read are whole.               *)
Settled ==
  excused = {} =>
    \A n \in Names : dir[n] \in made /\ (dir[n] = w.out => Ended) =>
      ino[dir[n]].data = <<>> \/ Whole(dir[n])
Hidden ==
  ~ scene.c /\ pc \in (Writing \ Leaving) \ {"disarm"} => ino[w.out].mode = "private"

Locally == Control /\ Pointer /\ Places /\ Kinds /\ Contents /\ Hidden
Overall == Files /\ Plains /\ Held /\ Settled /\ PrivateUntilWhole
IInv  == Locally /\ Overall

-----------------------------------------------------------------------------
(* Pieces and plain data. *)

LEMMA PieceShape ==
  ASSUME NEW x \in Piece
  PROVE  /\ x = [t |-> x.t, v |-> x.v] /\ x.t \in Tags /\ x.v \in Seq(Nat)
         /\ x.t = "H" => x.v = <<>>
         /\ x.t = "B" => Len(x.v) = 1
<1>1. x \in [t : Tags, v : Seq(Nat)] /\ Shaped(x)
  BY DEF Piece
<1>2. x = [t |-> x.t, v |-> x.v] /\ x.t \in Tags /\ x.v \in Seq(Nat)
  BY <1>1
<1> QED BY <1>1, <1>2 DEF Shaped

LEMMA PieceFacts ==
  /\ Header \in Piece /\ <<Header>> \in Seq(Piece)
  /\ \A n \in Nat : Block(n) \in Piece
  /\ \A s \in Seq(Nat) : Crc(s) \in Piece /\ Length(s) \in Piece
  /\ \A x \in Piece : /\ x.t \in Tags /\ x.v \in Seq(Nat)
                      /\ x.t = "H" => x = Header
                      /\ x.t = "B" => x.v[1] \in Nat /\ x.v = <<x.v[1]>> /\ x = Block(x.v[1])
<1>1. Header \in Piece
  BY DEF Header, Piece, Shaped, Tags
<1>2. ASSUME NEW n \in Nat PROVE Block(n) \in Piece
  BY DEF Block, Piece, Shaped, Tags
<1>3. ASSUME NEW s \in Seq(Nat) PROVE Crc(s) \in Piece /\ Length(s) \in Piece
  <2>1. Len(s) \in Nat
    BY LenProperties
  <2> QED BY <2>1 DEF Crc, Length, Piece, Shaped, Tags
<1>4. ASSUME NEW x \in Piece
      PROVE  /\ x.t \in Tags /\ x.v \in Seq(Nat)
             /\ x.t = "H" => x = Header
             /\ x.t = "B" => x.v[1] \in Nat /\ x.v = <<x.v[1]>> /\ x = Block(x.v[1])
  <2>1. ASSUME x.t = "B" PROVE x.v[1] \in Nat /\ x.v = <<x.v[1]>>
    <3>1. x.v \in Seq(Nat) /\ Len(x.v) = 1
      BY <2>1, PieceShape
    <3>2. x.v[1] \in Nat
      BY <3>1, ElementOfSeq
    <3> QED BY <3>1, <3>2, SeqEqual
  <2>2. x.t = "H" => x = Header
    BY PieceShape DEF Header
  <2>3. x.t = "B" => x = Block(x.v[1])
    BY <2>1, PieceShape DEF Block
  <2> QED BY <2>1, <2>2, <2>3, PieceShape
<1>5. <<Header>> \in Seq(Piece)
  BY <1>1
<1> QED BY <1>1, <1>2, <1>3, <1>4, <1>5

LEMMA ValuesType ==
  ASSUME NEW d \in Seq(Piece), IsPlain(d)
  PROVE  Values(d) \in Seq(Nat) /\ Len(Values(d)) = Len(d)
         /\ \A i \in 1 .. Len(d) : Values(d)[i] = d[i].v[1]
<1>1. Len(d) \in Nat /\ DOMAIN d = 1 .. Len(d)
  BY LenProperties
<1>2. \A i \in 1 .. Len(d) : d[i].v[1] \in Nat
  BY <1>1, ElementOfSeq, PieceFacts DEF IsPlain
<1>3. Values(d) = [i \in 1 .. Len(d) |-> d[i].v[1]]
  BY <1>1 DEF Values
<1>4. Values(d) \in [1 .. Len(d) -> Nat]
  BY <1>2, <1>3
<1>5. Values(d) \in Seq(Nat)
  BY <1>1, <1>4, SeqDef
<1>6. DOMAIN Values(d) = 1 .. Len(d)
  BY <1>3
<1>7. Len(Values(d)) = Len(d)
  BY <1>1, <1>5, <1>6, LenProperties
<1> QED BY <1>3, <1>5, <1>7

LEMMA PlainOfValues ==
  ASSUME NEW d \in Seq(Piece), IsPlain(d)
  PROVE  Plain(Values(d)) = d
<1>1. Len(d) \in Nat /\ d \in [1 .. Len(d) -> Piece]
  BY LenProperties
<1>2. \A i \in 1 .. Len(d) : d[i].t = "B"
  BY <1>1 DEF IsPlain
<1>3. \A i \in 1 .. Len(d) : Block(Values(d)[i]) = d[i]
  BY <1>1, <1>2, ValuesType, PieceFacts
<1>4. Plain(Values(d)) = [i \in 1 .. Len(d) |-> Block(Values(d)[i])]
  BY ValuesType DEF Plain
<1> QED BY <1>1, <1>3, <1>4

(* A piece more. *)
LEMMA ValuesMore ==
  ASSUME NEW d \in Seq(Piece), IsPlain(d), NEW k \in 1 .. Len(d)
  PROVE  Values(SubSeq(d, 1, k)) = Append(Values(SubSeq(d, 1, k - 1)), d[k].v[1])
<1>1. Len(d) \in Nat /\ DOMAIN d = 1 .. Len(d)
  BY LenProperties
<1> DEFINE a == SubSeq(d, 1, k - 1)
           b == SubSeq(d, 1, k)
<1>2. /\ a \in Seq(Piece) /\ Len(a) = k - 1 /\ \A i \in 1 .. k - 1 : a[i] = d[i]
  <2>1. \A i \in 1 .. k - 1 : d[i] \in Piece
    BY <1>1, ElementOfSeq
  <2> QED BY <2>1, SubSeqProperties
<1>3. /\ b \in Seq(Piece) /\ Len(b) = k /\ \A i \in 1 .. k : b[i] = d[i]
  <2>1. \A i \in 1 .. k : d[i] \in Piece
    BY <1>1, ElementOfSeq
  <2> QED BY <2>1, SubSeqProperties
<1>4. DOMAIN a = 1 .. k - 1 /\ DOMAIN b = 1 .. k
  BY <1>2, <1>3, LenProperties
<1> HIDE DEF a, b
<1>5. IsPlain(a) /\ IsPlain(b)
  BY <1>1, <1>2, <1>3, <1>4 DEF IsPlain
<1>6. /\ Values(a) \in Seq(Nat) /\ Len(Values(a)) = k - 1
      /\ \A i \in 1 .. k - 1 : Values(a)[i] = d[i].v[1]
  <2>1. /\ Values(a) \in Seq(Nat) /\ Len(Values(a)) = Len(a)
        /\ \A i \in 1 .. Len(a) : Values(a)[i] = a[i].v[1]
    BY <1>2, <1>5, ValuesType
  <2> QED BY <1>2, <2>1
<1>7. /\ Values(b) \in Seq(Nat) /\ Len(Values(b)) = k
      /\ \A i \in 1 .. k : Values(b)[i] = d[i].v[1]
  BY <1>3, <1>5, ValuesType
<1>8. d[k].v[1] \in Nat
  BY <1>1, ElementOfSeq, PieceFacts DEF IsPlain
<1> DEFINE c == Append(Values(a), d[k].v[1])
<1>9. /\ c \in Seq(Nat) /\ Len(c) = k /\ c[k] = d[k].v[1]
      /\ \A i \in 1 .. k - 1 : c[i] = Values(a)[i]
  BY <1>6, <1>8, AppendProperties
<1> HIDE DEF c
<1>10. ASSUME NEW i \in 1 .. k PROVE c[i] = Values(b)[i]
  <2>1. i = k \/ i \in 1 .. k - 1
    BY <1>1
  <2> QED BY <2>1, <1>6, <1>7, <1>9
<1>11. c = Values(b)
  BY <1>7, <1>9, <1>10, SeqEqual
<1> QED BY <1>11 DEF a, b, c

LEMMA Regroup ==
  ASSUME NEW o \in Seq(Piece), NEW h \in Seq(Piece), NEW x \in Seq(Piece)
  PROVE  (o \o h) \o x = o \o (h \o x)
BY ConcatAssociative

LEMMA TakeMore ==
  ASSUME NEW d \in Seq(Piece), NEW k \in 1 .. Len(d),
         NEW o \in Seq(Piece), NEW h \in Seq(Piece),
         o \o h = <<Header>> \o SubSeq(d, 1, k - 1)
  PROVE  /\ Append(h, d[k]) \in Seq(Piece)
         /\ o \o Append(h, d[k]) = <<Header>> \o SubSeq(d, 1, k)
<1> DEFINE a == SubSeq(d, 1, k - 1)
           H == <<Header>>
           x == <<d[k]>>
<1>1. Len(d) \in Nat /\ d[k] \in Piece /\ x \in Seq(Piece) /\ H \in Seq(Piece)
  BY LenProperties, ElementOfSeq, PieceFacts
<1>2. \A i \in 1 .. k - 1 : d[i] \in Piece
  BY <1>1, ElementOfSeq
<1>3. a \in Seq(Piece)
  BY <1>2, SubSeqProperties
<1>4. 1 \in 1 .. Len(d) /\ k \in 1 .. Len(d)
  BY <1>1
<1>5. SubSeq(d, 1, k) = a \o x
  BY <1>4, SubSeqRecursiveSecond
<1>6. Append(h, d[k]) \in Seq(Piece) /\ Append(h, d[k]) = h \o x
  BY <1>1, AppendProperties, AppendIsConcat
<1>7. o \o h = H \o a
  OBVIOUS
<1> HIDE DEF a, H, x
<1>8. (o \o h) \o x = o \o (h \o x)
  <2>1. x \in Seq(Piece)
    BY <1>1
  <2> QED BY <2>1, Regroup
<1>9. (H \o a) \o x = H \o (a \o x)
  <2>1. x \in Seq(Piece) /\ H \in Seq(Piece) /\ a \in Seq(Piece)
    BY <1>1, <1>3
  <2> QED BY <2>1, Regroup
<1>10. o \o Append(h, d[k]) = H \o SubSeq(d, 1, k)
  BY <1>5, <1>6, <1>7, <1>8, <1>9
<1> QED BY <1>6, <1>10 DEF H

LEMMA ConcatLen ==
  ASSUME NEW o \in Seq(Piece), NEW h \in Seq(Piece)
  PROVE  /\ o \o h \in Seq(Piece) /\ Len(o \o h) = Len(o) + Len(h)
         /\ Len(o) \in Nat /\ Len(h) \in Nat /\ o \o <<>> = o /\ <<>> \o h = h
         /\ <<>> \in Seq(Piece) /\ Len(<<>>) = 0
<1>1. o \o h \in Seq(Piece) /\ Len(o \o h) = Len(o) + Len(h)
  BY ConcatProperties
<1>2. Len(o) \in Nat /\ Len(h) \in Nat
  BY LenProperties
<1>3. o \o <<>> = o /\ <<>> \o h = h
  BY ConcatEmptySeq
<1> QED BY <1>1, <1>2, <1>3, EmptySeq

-----------------------------------------------------------------------------
(* The blocks among the first pieces. *)

LEMMA LeastExists ==
  ASSUME NEW T \in SUBSET Nat, T # {}
  PROVE  \E i \in T : \A j \in T : i <= j
<1>1. PICK i \in T : \A j \in T : ~ (<<j, i>> \in OpToRel(<, Nat))
  BY NatLessThanWellFounded, WFMin
<1>2. \A j \in T : ~ (j < i)
  BY <1>1 DEF OpToRel
<1> QED BY <1>2

Further(d, f, i) == IF d[i].t = "B" THEN Append(f[i - 1], d[i]) ELSE f[i - 1]
BlocksSo(d, k, f) == f = [i \in 0 .. k |-> IF i = 0 THEN <<>> ELSE Further(d, f, i)]

LEMMA BlocksSoExists ==
  ASSUME NEW d, NEW k \in Nat
  PROVE  \E f : BlocksSo(d, k, f)
<1> DEFINE T == {m \in Nat : ~ \E f : BlocksSo(d, m, f)}
<1>1. SUFFICES ASSUME T # {} PROVE FALSE
  OBVIOUS
<1>2. PICK m \in T : \A j \in T : m <= j
  BY <1>1, LeastExists
<1>3. m \in Nat /\ ~ \E f : BlocksSo(d, m, f)
  BY <1>2
<1>4. m # 0
  <2>1. BlocksSo(d, 0, [i \in 0 .. 0 |-> <<>>])
    BY DEF BlocksSo
  <2> QED BY <1>3, <2>1
<1>5. m - 1 \in Nat /\ m - 1 \notin T
  BY <1>2, <1>3, <1>4
<1>6. PICK f : BlocksSo(d, m - 1, f)
  BY <1>5
<1> DEFINE g == [i \in 0 .. m |-> IF i = m THEN Further(d, f, i) ELSE f[i]]
           h == [i \in 0 .. m |-> IF i = 0 THEN <<>> ELSE Further(d, g, i)]
<1>7. ASSUME NEW i \in 0 .. m PROVE g[i] = h[i]
  <2>1. CASE i = 0
    BY <2>1, <1>3, <1>4, <1>6 DEF BlocksSo
  <2>2. CASE i # 0
    <3>1. i - 1 \in 0 .. m - 1 /\ i - 1 \in 0 .. m /\ i - 1 # m
      BY <2>2, <1>3
    <3>2. g[i - 1] = f[i - 1]
      BY <3>1
    <3>3. Further(d, g, i) = Further(d, f, i)
      BY <3>2 DEF Further
    <3>4. i = m \/ i \in 0 .. m - 1
      BY <1>3
    <3>5. g[i] = Further(d, f, i)
      BY <3>4, <2>2, <1>6 DEF BlocksSo
    <3> QED BY <2>2, <3>3, <3>5
  <2> QED BY <2>1, <2>2
<1>8. g = h
  BY <1>7
<1>9. BlocksSo(d, m, g)
  BY <1>8 DEF BlocksSo
<1> QED BY <1>3, <1>9

LEMMA BlocksSoAgree ==
  ASSUME NEW d, NEW k \in Nat, NEW n \in 0 .. k, NEW f, NEW g,
         BlocksSo(d, k, f), BlocksSo(d, n, g)
  PROVE  f[n] = g[n]
<1> DEFINE T == {i \in 0 .. n : f[i] # g[i]}
<1>1. SUFFICES ASSUME T # {} PROVE FALSE
  OBVIOUS
<1>2. T \in SUBSET Nat
  OBVIOUS
<1>3. PICK m \in T : \A j \in T : m <= j
  BY <1>1, <1>2, LeastExists
<1>4. m \in 0 .. n /\ m \in 0 .. k /\ f[m] # g[m]
  BY <1>3
<1>5. m # 0
  BY <1>4 DEF BlocksSo
<1>6. m - 1 \in 0 .. n /\ m - 1 \notin T
  BY <1>3, <1>4, <1>5
<1>7. f[m - 1] = g[m - 1]
  BY <1>6
<1>8. f[m] = Further(d, f, m) /\ g[m] = Further(d, g, m)
  BY <1>4, <1>5 DEF BlocksSo
<1> QED BY <1>4, <1>7, <1>8 DEF Further

LEMMA BlocksAre ==
  ASSUME NEW d, NEW k \in Nat
  PROVE  \E f : BlocksSo(d, k, f) /\ Blocks(d, k) = f[k]
<1> DEFINE c == CHOOSE f : BlocksSo(d, k, f)
<1>1. BlocksSo(d, k, c)
  BY BlocksSoExists
<1>2. Blocks(d, k) = c[k]
  BY DEF Blocks, BlocksSo, Further
<1> QED BY <1>1, <1>2

LEMMA BlocksProp ==
  ASSUME NEW d
  PROVE  /\ Blocks(d, 0) = <<>>
         /\ \A k \in Nat \ {0} :
              Blocks(d, k) = IF d[k].t = "B" THEN Append(Blocks(d, k - 1), d[k])
                                             ELSE Blocks(d, k - 1)
<1>1. Blocks(d, 0) = <<>>
  <2>1. PICK f : BlocksSo(d, 0, f) /\ Blocks(d, 0) = f[0]
    BY BlocksAre
  <2> QED BY <2>1 DEF BlocksSo
<1>2. ASSUME NEW k \in Nat \ {0}
      PROVE  Blocks(d, k) = IF d[k].t = "B" THEN Append(Blocks(d, k - 1), d[k])
                                            ELSE Blocks(d, k - 1)
  <2>1. k \in Nat /\ k - 1 \in Nat /\ k - 1 \in 0 .. k /\ k \in 0 .. k /\ k # 0
    OBVIOUS
  <2>2. PICK f : BlocksSo(d, k, f) /\ Blocks(d, k) = f[k]
    BY <2>1, BlocksAre
  <2>3. PICK g : BlocksSo(d, k - 1, g) /\ Blocks(d, k - 1) = g[k - 1]
    BY <2>1, BlocksAre
  <2>4. f[k - 1] = g[k - 1]
    BY <2>1, <2>2, <2>3, BlocksSoAgree
  <2>5. f[k] = Further(d, f, k)
    BY <2>1, <2>2 DEF BlocksSo
  <2> QED BY <2>2, <2>3, <2>4, <2>5 DEF Further
<1> QED BY <1>1, <1>2

-----------------------------------------------------------------------------
(* Members, packing and unpacking. *)

LEMMA MembersMore ==
  ASSUME NEW d, NEW m \in Nat \ {0}, NEW s \in Seq(Nat), NEW p \in Nat,
         p = m + Len(s) + 2, d[m].t = "H", Members(d, m - 1),
         \A x \in 1 .. Len(s) : d[m + x] = Block(s[x]),
         d[p - 1] = Crc(s), d[p] = Length(s)
  PROVE  Members(d, p)
<1>1. Len(s) \in Nat
  BY LenProperties
<1>2. ASSUME NEW x \in 1 .. Len(s) PROVE d[m + x].t = "B" /\ d[m + x].v[1] = s[x]
  <2>1. Block(s[x]).t = "B" /\ Block(s[x]).v[1] = s[x]
    BY DEF Block
  <2> QED BY <2>1
<1>3. d[p - 1].t = "C" /\ d[p].t = "L"
  BY DEF Crc, Length
<1>4. \A x \in (m + 1) .. (p - 2) : d[x].t = "B"
  <2>1. SUFFICES ASSUME NEW x \in (m + 1) .. (p - 2) PROVE d[x].t = "B"
    OBVIOUS
  <2>2. x - m \in 1 .. Len(s) /\ m + (x - m) = x
    BY <1>1
  <2> QED BY <1>2, <2>2
<1>5. [x \in 1 .. (p - m - 2) |-> d[m + x].v[1]] = s
  <2>1. p - m - 2 = Len(s)
    BY <1>1
  <2>2. s = [x \in 1 .. Len(s) |-> s[x]]
    BY LenProperties
  <2> QED BY <1>2, <2>1, <2>2
<1>6. Member(d, m, p)
  <2> DEFINE q == [x \in 1 .. (p - m - 2) |-> d[m + x].v[1]]
  <2>1. d[p - 1] = Crc(q) /\ d[p] = Length(q)
    BY <1>5
  <2>2. m + 2 <= p
    BY <1>1
  <2> QED BY <1>4, <2>1, <2>2 DEF Member
<1>7. SUFFICES ASSUME NEW i \in 1 .. p, d[i].t = "H"
               PROVE  \E j \in i .. p : Member(d, i, j) /\ (j < p => d[j + 1].t = "H")
  BY DEF Members
<1>8. i \in 1 .. m - 1 \/ i = m \/ i \in (m + 1) .. (p - 2) \/ i = p - 1 \/ i = p
  BY <1>1
<1>9. i \in 1 .. m - 1 \/ i = m
  BY <1>3, <1>4, <1>7, <1>8
<1>10. CASE i = m
  BY <1>1, <1>6, <1>10
<1>11. CASE i \in 1 .. m - 1
  <2>1. PICK j \in i .. m - 1 : Member(d, i, j) /\ (j < m - 1 => d[j + 1].t = "H")
    BY <1>7, <1>11 DEF Members
  <2>2. j \in i .. p /\ (j < m - 1 \/ j + 1 = m)
    BY <1>1, <1>11, <2>1
  <2> QED BY <2>1, <2>2
<1> QED BY <1>9, <1>10, <1>11

LEMMA Unpacked ==
  ASSUME NEW d, NEW k \in 1 .. Len(d), d[1].t = "H", Members(d, k),
         k < Len(d) => d[k + 1].t # "H"
  PROVE  UnpacksTo(d, Blocks(d, k))
BY DEF UnpacksTo, Members

LEMMA PackedProp ==
  ASSUME NEW s \in Seq(Nat)
  PROVE  /\ Packed(s) # <<>> /\ 1 \in DOMAIN Packed(s) /\ Packed(s)[1] = Header
<1> DEFINE T == <<Crc(s), Length(s)>>
           H == <<Header>>
<1>1. Len(s) \in Nat /\ \A i \in 1 .. Len(s) : s[i] \in Nat
  BY LenProperties, ElementOfSeq
<1>2. Plain(s) \in Seq(Piece)
  <2>1. Plain(s) \in [1 .. Len(s) -> Piece]
    BY <1>1, PieceFacts DEF Plain
  <2> QED BY <1>1, <2>1, SeqDef
<1>3. T \in Seq(Piece) /\ Len(T) = 2 /\ H \in Seq(Piece) /\ Len(H) = 1 /\ H[1] = Header
  BY PieceFacts
<1>4. Packed(s) = (H \o Plain(s)) \o T
  BY DEF Packed
<1> HIDE DEF H, T
<1>5. /\ H \o Plain(s) \in Seq(Piece) /\ Len(H \o Plain(s)) = Len(H) + Len(Plain(s))
      /\ \A i \in 1 .. Len(H) + Len(Plain(s)) :
           (H \o Plain(s))[i] = IF i <= Len(H) THEN H[i] ELSE Plain(s)[i - Len(H)]
  BY <1>2, <1>3, ConcatProperties
<1>6. Len(Plain(s)) \in Nat
  BY <1>2, LenProperties
<1> DEFINE a == H \o Plain(s)
<1>7. a \in Seq(Piece) /\ Len(a) \in Nat \ {0} /\ a[1] = Header
  BY <1>3, <1>5, <1>6
<1> HIDE DEF a
<1>8. /\ a \o T \in Seq(Piece) /\ Len(a \o T) = Len(a) + 2
      /\ (a \o T)[1] = Header
  <2>1. /\ a \o T \in Seq(Piece) /\ Len(a \o T) = Len(a) + Len(T)
        /\ \A i \in 1 .. Len(a) + Len(T) :
             (a \o T)[i] = IF i <= Len(a) THEN a[i] ELSE T[i - Len(a)]
    BY <1>3, <1>7, ConcatProperties
  <2>2. 1 \in 1 .. Len(a) + Len(T)
    BY <1>3, <1>7
  <2> QED BY <1>3, <1>7, <2>1, <2>2
<1>9. Packed(s) = a \o T
  BY <1>4 DEF a
<1>10. Packed(s) \in Seq(Piece) /\ Len(Packed(s)) \in Nat \ {0} /\ Packed(s)[1] = Header
  BY <1>7, <1>8, <1>9
<1>11. DOMAIN Packed(s) = 1 .. Len(Packed(s))
  BY <1>10, LenProperties
<1>12. 1 \in DOMAIN Packed(s)
  BY <1>10, <1>11
<1>13. Packed(s) # <<>>
  BY <1>10, EmptySeq
<1> QED BY <1>10, <1>12, <1>13

(* Neither packing nor unpacking gives plain data for plain data. *)
LEMMA NotBothPlain ==
  ASSUME NEW d \in Seq(Piece), NEW e, Converts(d, e), IsPlain(e)
  PROVE  ~ IsPlain(d)
<1>1. SUFFICES ASSUME IsPlain(d) PROVE FALSE
  OBVIOUS
<1>2. CASE e = Packed(Values(d))
  <2>1. Values(d) \in Seq(Nat)
    BY <1>1, ValuesType
  <2>2. 1 \in DOMAIN e /\ e[1] = Header
    BY <1>2, <2>1, PackedProp
  <2> QED BY <2>2 DEF IsPlain, Header
<1>3. CASE UnpacksTo(d, e)
  <2>1. PICK k \in 1 .. Len(d) : d[1].t = "H"
    BY <1>3 DEF UnpacksTo
  <2>2. 1 \in DOMAIN d
    BY LenProperties
  <2> QED BY <1>1, <2>1, <2>2 DEF IsPlain
<1> QED BY <1>2, <1>3 DEF Converts

LEMMA SameSelf ==
  ASSUME NEW d PROVE Same(d, d)
BY DEF Same

-----------------------------------------------------------------------------
(* What a step does to the files.  A file that is done stays whole. *)

WholeIn(f, i) == \E j \in 1 .. (i - 1) : Converts(f[j].data, f[i].data)

LEMMA WholeStays ==
  ASSUME NEW f, NEW g, NEW i \in Nat \ {0}, \A j \in 1 .. i : g[j].data = f[j].data,
         WholeIn(f, i)
  PROVE  WholeIn(g, i)
<1>1. PICK j \in 1 .. (i - 1) : Converts(f[j].data, f[i].data)
  BY DEF WholeIn
<1>2. j \in 1 .. i /\ i \in 1 .. i
  OBVIOUS
<1>3. Converts(g[j].data, g[i].data)
  BY <1>1, <1>2
<1> QED BY <1>1, <1>3 DEF WholeIn

LEMMA OutputFacts ==
  ASSUME Files, Control, Places, pc # "interrupted"
  PROVE  /\ w.out \in 0 .. used /\ w.in \in Nat /\ used \in 0 .. MaxIno /\ MaxIno \in Nat
         /\ w.out # 0 => ~ scene.c /\ pc \in Writing /\ Own
         /\ w.out # 0 => w.out \in made /\ \A i \in made : i <= w.out
<1>1. w.out \in Nat /\ w.in \in Nat
  BY DEF Control, Locals
<1>2. used \in 0 .. MaxIno /\ MaxIno \in Nat /\ made \subseteq 1 .. used
  BY BoundsAssumption DEF Files
<1>3. ASSUME w.out # 0 PROVE ~ scene.c /\ pc \in Writing
  <2>1. pc \in Between \cup Opening \cup Naming \cup Writing
    BY DEF Control, Pcs, Between, Opening, Naming, Writing, Filling, Leaving
  <2>2. Idle.out = 0
    BY DEF Idle
  <2>3. pc \notin Between \cup Opening \cup Naming
    BY <1>3, <2>2 DEF Places
  <2>4. pc \in Writing /\ ~ scene.c
    BY <1>3, <2>1, <2>3 DEF Places
  <2> QED BY <2>4
<1>4. w.out # 0 => Own
  BY <1>3 DEF Places
<1> QED BY <1>1, <1>2, <1>3, <1>4 DEF Own

(* A step on the output, and nothing else. *)
Apart == \A i \in 1 .. MaxIno : i # w.out => ino'[i] = ino[i]
OnOutput ==
  /\ UNCHANGED <<scene, used, others, owed, made>>
  /\ excused' = {} => excused = {}
  /\ dir' \in [Names -> 0 .. used]
  /\ \A n \in Names : dir'[n] \in {dir[n], Absent} /\ (dir[n] # w.out => dir'[n] = dir[n])
  /\ Apart
  /\ w'.out \in {w.out, 0}
Finished == w'.out # w.out \/ Ended'
Gone == \A n \in Names : dir'[n] # w.out

LEMMA HeldStep ==
  ASSUME Files, Held, OnOutput, pc' = "unlink_in" => dir'[w'.file] = w'.in
  PROVE  Held'
<1> SUFFICES ASSUME excused' = {}, NEW d \in owed' PROVE \E n \in Names : Holds(n, d)'
  BY DEF Held
<1>1. d \in owed /\ excused = {}
  BY DEF OnOutput
<1>2. PICK n \in Names : Holds(n, d)
  BY <1>1 DEF Held
<1>3. dir[n] # Absent /\ dir[n] # w.out /\ dir'[n] = dir[n] /\ made' = made
  BY <1>2 DEF Holds, OnOutput
<1>4. dir[n] \in 1 .. MaxIno
  BY <1>3, BoundsAssumption DEF Files, Absent
<1>5. ino'[dir[n]] = ino[dir[n]]
  BY <1>3, <1>4 DEF OnOutput, Apart
<1>6. dir'[n] # w'.out
  BY <1>3 DEF OnOutput, Absent
<1>7. pc' = "unlink_in" => n # w'.file \/ dir'[n] = w'.in
  OBVIOUS
<1>8. IF dir'[n] \in made' THEN Same(d, ino'[dir'[n]].data) ELSE ino'[dir'[n]].data = d
  BY <1>2, <1>3, <1>5 DEF Holds
<1> QED BY <1>3, <1>6, <1>7, <1>8 DEF Holds

LEMMA OthersStay ==
  ASSUME Files, Control, Places, pc # "interrupted", OnOutput,
         NEW i \in made, i # w.out, WholeIn(ino, i)
  PROVE  WholeIn(ino', i)
<1>1. i \in 1 .. used /\ used \in 0 .. MaxIno /\ MaxIno \in Nat
  BY OutputFacts DEF Files
<1>2. i < w.out \/ w.out = 0
  BY <1>1, OutputFacts
<1>3. \A j \in 1 .. i : j \in 1 .. MaxIno /\ j # w.out
  BY <1>1, <1>2, OutputFacts
<1>4. \A j \in 1 .. i : ino'[j].data = ino[j].data
  BY <1>3 DEF OnOutput, Apart
<1>5. i \in Nat \ {0}
  BY <1>1
<1> HIDE DEF WholeIn
<1> QED BY <1>4, <1>5, WholeStays

LEMMA SettledStep ==
  ASSUME Files, Control, Places, pc # "interrupted", Settled, OnOutput,
         excused' = {} /\ w.out # 0 /\ Finished =>
            Gone \/ ino'[w.out].data = <<>> \/ WholeIn(ino', w.out)
  PROVE  Settled'
<1> SUFFICES ASSUME excused' = {}, NEW n \in Names, dir'[n] \in made',
                    dir'[n] = w'.out => Ended'
             PROVE  ino'[dir'[n]].data = <<>> \/ WholeIn(ino', dir'[n])
  BY DEF Settled, Whole, WholeIn
<1>1. excused = {} /\ made' = made /\ dir'[n] \in made
  BY DEF OnOutput
<1>2. dir'[n] # Absent /\ dir'[n] \in 1 .. MaxIno
  <2>1. made \subseteq 1 .. used /\ used \in 0 .. MaxIno /\ MaxIno \in Nat
    BY OutputFacts DEF Files
  <2>2. dir'[n] \in 1 .. used
    BY <1>1, <2>1
  <2> QED BY <2>1, <2>2 DEF Absent
<1>3. dir'[n] = dir[n]
  BY <1>2 DEF OnOutput
<1>4. CASE dir[n] # w.out
  <2>1. ino[dir[n]].data = <<>> \/ WholeIn(ino, dir[n])
    BY <1>1, <1>3, <1>4 DEF Settled, Whole, WholeIn
  <2>2. ino'[dir[n]] = ino[dir[n]]
    BY <1>2, <1>3, <1>4 DEF OnOutput, Apart
  <2>3. WholeIn(ino, dir[n]) => WholeIn(ino', dir[n])
    BY <1>1, <1>3, <1>4, OthersStay
  <2> QED BY <1>3, <2>1, <2>2, <2>3
<1>5. CASE dir[n] = w.out
  <2>1. Finished
    BY <1>3, <1>5 DEF Finished
  <2>2. w.out # 0 /\ ~ Gone
    BY <1>2, <1>3, <1>5 DEF Gone, Absent
  <2> QED BY <2>1, <2>2, <1>3, <1>5
<1> QED BY <1>4, <1>5

LEMMA PrivateStep ==
  ASSUME Files, Control, Places, pc # "interrupted", PrivateUntilWhole, OnOutput,
         excused' = {} /\ w.out # 0 => \/ ino' = ino \/ ino'[w.out].mode = "private"
                                      \/ WholeIn(ino', w.out)
  PROVE  PrivateUntilWhole'
<1> SUFFICES ASSUME excused' = {}, NEW i \in made, ino'[i].mode # "private"
             PROVE  WholeIn(ino', i)
  BY DEF PrivateUntilWhole, Whole, WholeIn, OnOutput
<1>1. excused = {} /\ i \in 1 .. MaxIno
  BY OutputFacts DEF OnOutput, Files
<1>2. CASE i # w.out
  <2>1. ino'[i] = ino[i]
    BY <1>1, <1>2 DEF OnOutput, Apart
  <2>2. WholeIn(ino, i)
    BY <1>1, <2>1 DEF PrivateUntilWhole, Whole, WholeIn
  <2> QED BY <1>2, <2>2, OthersStay
<1>3. CASE i = w.out
  <2>1. CASE ino' = ino
    <3>1. WholeIn(ino, i)
      BY <1>1, <2>1 DEF PrivateUntilWhole, Whole, WholeIn
    <3> QED BY <2>1, <3>1
  <2>2. CASE ino' # ino
    BY <1>1, <1>3, <2>2
  <2> QED BY <2>1, <2>2
<1> QED BY <1>2, <1>3

LEMMA FilesStep ==
  ASSUME Files, OnOutput, ino' \in [0 .. MaxIno -> Inode]
  PROVE  Files'
BY DEF Files, OnOutput

LEMMA PlainsStep ==
  ASSUME Files, Control, Places, pc # "interrupted", Plains, OnOutput,
         scene.d /\ w.out # 0 => IsPlain(ino'[w.out].data)
  PROVE  Plains'
<1>1. /\ made \subseteq 1 .. used /\ used \in 0 .. MaxIno /\ MaxIno \in Nat
      /\ w.out # 0 => w.out \in made
  BY OutputFacts DEF Files
<1>2. scene' = scene /\ made' = made /\ used' = used
  BY DEF OnOutput
<1>3. ASSUME ~ scene.d, NEW i \in 1 .. used, i \notin made PROVE IsPlain(ino'[i].data)
  <2>1. i \in 1 .. MaxIno /\ i # w.out
    BY <1>1, <1>3
  <2>2. ino'[i] = ino[i]
    BY <2>1 DEF OnOutput, Apart
  <2> QED BY <1>3, <2>2 DEF Plains
<1>4. ASSUME ~ scene.d, NEW n \in Plainly PROVE dir'[n] \notin made
  <2>1. n \in Names
    BY DEF Names
  <2>2. dir'[n] \in {dir[n], 0}
    BY <2>1 DEF OnOutput, Absent
  <2>3. 0 \notin made
    BY <1>1
  <2> QED BY <1>4, <2>2, <2>3 DEF Plains
<1>5. ASSUME scene.d, NEW i \in made PROVE IsPlain(ino'[i].data)
  <2>1. CASE i = w.out
    <3>1. w.out # 0
      BY <1>1, <2>1
    <3> QED BY <1>5, <2>1, <3>1
  <2>2. CASE i # w.out
    <3>1. i \in 1 .. MaxIno
      BY <1>1
    <3>2. ino'[i] = ino[i]
      BY <2>2, <3>1 DEF OnOutput, Apart
    <3> QED BY <1>5, <3>2 DEF Plains
  <2> QED BY <2>1, <2>2
<1> QED BY <1>2, <1>3, <1>4, <1>5 DEF Plains

(* The three kinds of steps of the program itself: it stays at the operand,
   it writes to the output, it is over with the operand.                    *)
LEMMA GoOnStep ==
  ASSUME IInv, pc # "interrupted", UNCHANGED <<fs, env, owed, made>>,
         excused' = {} => excused = {}, w'.out = w.out,
         pc' \notin {"done", "interrupted"}, pc' = "unlink_in" => dir'[w'.file] = w'.in
  PROVE  Overall'
<1>1. /\ Files /\ Control /\ Places /\ Plains /\ Held /\ Settled /\ PrivateUntilWhole
  BY DEF IInv, Locally, Overall
<1>2. dir' = dir /\ ino' = ino /\ used' = used /\ scene' = scene /\ others' = others
  BY DEF fs, env
<1>3. OnOutput
  BY <1>1, <1>2 DEF OnOutput, Apart, Files
<1>4. ~ Finished
  BY DEF Finished, Ended
<1>5. scene.d /\ w.out # 0 => IsPlain(ino'[w.out].data)
  BY <1>1, <1>2, OutputFacts DEF Plains
<1>6. Plains'
  BY <1>1, <1>3, <1>5, PlainsStep
<1>7. Files'
  BY <1>1, <1>2, <1>3, FilesStep DEF Files
<1>8. Held' /\ Settled' /\ PrivateUntilWhole'
  BY <1>1, <1>2, <1>3, <1>4, HeldStep, SettledStep, PrivateStep
<1> QED BY <1>6, <1>7, <1>8 DEF Overall

LEMMA StayStep ==
  ASSUME IInv, pc # "interrupted", UNCHANGED <<fs, env, owed, made>>,
         excused' = {} => excused = {}, w'.out = w.out,
         pc' \notin {"done", "interrupted", "unlink_in"}
  PROVE  Overall'
BY GoOnStep

LEMMA WriteStep ==
  ASSUME IInv, pc # "interrupted", UNCHANGED <<dir, used, env, owed, made, excused>>,
         ino' \in [0 .. MaxIno -> Inode], Apart,
         excused = {} /\ w.out # 0 => ino'[w.out].mode = "private" \/ WholeIn(ino', w.out),
         scene.d /\ w.out # 0 => IsPlain(ino'[w.out].data),
         w'.out = w.out, pc' \notin {"done", "interrupted", "unlink_in"}
  PROVE  Overall'
<1>1. /\ Files /\ Control /\ Places /\ Plains /\ Held /\ Settled /\ PrivateUntilWhole
  BY DEF IInv, Locally, Overall
<1>2. dir' = dir /\ used' = used /\ scene' = scene /\ others' = others
  BY DEF env
<1>3. OnOutput
  BY <1>1, <1>2 DEF OnOutput, Files
<1>4. ~ Finished
  BY DEF Finished, Ended
<1>5. Plains' /\ Files'
  BY <1>1, <1>3, PlainsStep, FilesStep
<1>6. Held' /\ Settled' /\ PrivateUntilWhole'
  BY <1>1, <1>3, <1>4, HeldStep, SettledStep, PrivateStep
<1> QED BY <1>5, <1>6 DEF Overall

(* The output is gone, or good to leave. *)
LEMMA OverStep ==
  ASSUME IInv, pc # "interrupted", UNCHANGED <<ino, used, env, owed, made>>,
         excused' = {} => excused = {}, w'.out \in {w.out, 0},
         pc' # "unlink_in",
         \/ dir' = dir
         \/ w.out # 0 /\ Unlink(buf),
         excused' = {} /\ w.out # 0 /\ dir' = dir =>
            Output = <<>> \/ WholeIn(ino, w.out)
  PROVE  Overall'
<1>1. /\ Files /\ Control /\ Places /\ Plains /\ Held /\ Settled /\ PrivateUntilWhole
  BY DEF IInv, Locally, Overall
<1>2. ino' = ino /\ used' = used /\ scene' = scene /\ others' = others
  BY DEF env
<1>3. w.out # 0 => Own
  BY <1>1, OutputFacts
<1>4. dir' = dir \/ (w.out # 0 /\ dir' = [dir EXCEPT ![buf] = 0])
  BY DEF Unlink, Absent
<1>5. /\ dir' \in [Names -> 0 .. used]
      /\ \A n \in Names : dir'[n] \in {dir[n], 0} /\ (dir[n] # w.out => dir'[n] = dir[n])
      /\ dir' # dir => Gone
  <2>1. CASE dir' = dir
    BY <1>1, <2>1 DEF Files
  <2>2. CASE w.out # 0 /\ dir' = [dir EXCEPT ![buf] = 0]
    <3>1. /\ buf \in Names /\ dir[buf] = w.out
          /\ \A n \in Names : dir[n] = w.out => n = buf
      BY <1>3, <2>2 DEF Own
    <3>2. dir \in [Names -> 0 .. used] /\ used \in Nat /\ 0 \in 0 .. used
      BY <1>1, BoundsAssumption DEF Files
    <3>3. \A n \in Names : dir'[n] = IF n = buf THEN 0 ELSE dir[n]
      BY <2>2, <3>2
    <3>4. dir' \in [Names -> 0 .. used]
      BY <2>2, <3>2
    <3> QED BY <2>2, <3>1, <3>3, <3>4 DEF Gone
  <2> QED BY <1>4, <2>1, <2>2
<1>6. OnOutput
  BY <1>2, <1>5 DEF OnOutput, Absent, Apart
<1>7. scene.d /\ w.out # 0 => IsPlain(ino'[w.out].data)
  BY <1>1, <1>2, OutputFacts DEF Plains
<1>8. Plains' /\ Files'
  BY <1>1, <1>2, <1>6, <1>7, PlainsStep, FilesStep DEF Files
<1>9. Held' /\ PrivateUntilWhole'
  BY <1>1, <1>2, <1>6, HeldStep, PrivateStep
<1>10. excused' = {} /\ w.out # 0 => Gone \/ ino'[w.out].data = <<>> \/ WholeIn(ino', w.out)
  BY <1>2, <1>5 DEF Output
<1>11. Settled'
  BY <1>1, <1>6, <1>10, SettledStep
<1> QED BY <1>8, <1>9, <1>11 DEF Overall

-----------------------------------------------------------------------------
(* The steps, one after the other. *)

LEMMA Faulted ==
  ASSUME Control, Sound \/ Fault
  PROVE  faults' \in 0 .. MaxFaults
<1>1. faults \in 0 .. MaxFaults /\ MaxFaults \in Nat
  BY BoundsAssumption DEF Control
<1>2. faults' = faults \/ (faults < MaxFaults /\ faults' = faults + 1)
  BY DEF Sound, Fault
<1> QED BY <1>1, <1>2

LEMMA Warned ==
  ASSUME Control, Warn \/ exit' = exit \/ exit' = 2
  PROVE  exit' \in 0 .. 2
<1>1. exit \in 0 .. 2
  BY DEF Control
<1>2. exit' \in {1, 2, exit}
  BY DEF Warn
<1> QED BY <1>1, <1>2

LEMMA IdleType ==
  /\ Idle \in Locals /\ Idle.out = 0 /\ Idle.file = "" /\ Idle.st = ""
  /\ Idle.pos = 1 /\ Idle.held = <<>> /\ Idle.sum = <<>> /\ Idle.tot = 0 /\ ~ Idle.err
<1>1. <<>> \in Seq(Piece) /\ <<>> \in Seq(Nat)
  BY EmptySeq
<1> QED BY <1>1 DEF Idle, Locals

(* The operation returns. *)
LEMMA BackLocal ==
  ASSUME IInv, Return, UNCHANGED <<scene, made, buf, armed>>, exit' \in 0 .. 2,
         faults' \in 0 .. MaxFaults, excused' \subseteq {"error", "stray"}
  PROVE  Locally'
<1>1. /\ pc' = "next" /\ w' = Idle /\ ~ live' /\ arg' = arg + 1
      /\ scene' = scene /\ made' = made /\ buf' = buf /\ (armed' <=> armed)
  BY DEF Return
<1>2. Control'
  <2>1. arg \in Nat \ {0} /\ buf \in Names \cup {""}
    BY DEF IInv, Locally, Control
  <2>4. armed' \in BOOLEAN /\ live' \in BOOLEAN
    BY DEF IInv, Locally, Control, Return
  <2>2. pc' \in Pcs
    BY <1>1 DEF Pcs
  <2>3. arg' \in Nat \ {0}
    <3>1. arg' = arg + 1
      BY DEF Return
    <3>2. arg \in Nat \ {0}
      BY <2>1
    <3> QED BY <3>1, <3>2
  <2> QED BY <1>1, <2>1, <2>2, <2>3, <2>4, IdleType DEF Control
<1>3. /\ scene.c => made = {}
      /\ armed => buf \in Names
  BY DEF IInv, Locally, Places, Pointer
<1>4. pc' \notin Working /\ pc' \notin ToFile /\ pc' \notin Zipping /\ pc' \notin Unzipping
  BY <1>1 DEF Working, Opening, Naming, Writing, Filling, Leaving, ToFile, Zipping, Unzipping
<1>5. Places' /\ Pointer'
  <2>1. /\ pc' \in Between /\ pc' \notin Opening /\ pc' \notin Naming /\ pc' \notin Writing
        /\ pc' \notin Filling /\ pc' \notin Leaving
    BY <1>1 DEF Between, Opening, Naming, Writing, Filling, Leaving
  <2> QED BY <1>1, <1>3, <1>4, <2>1, IdleType DEF Places, Pointer
<1>6. Kinds'
  BY <1>1, <1>4 DEF Kinds, Working, Opening, Naming, Writing, Filling, Leaving
<1>7. Contents' /\ Hidden'
  BY <1>1, <1>4 DEF Contents, Hidden, Working, Opening, Naming, Writing, Filling, Leaving
<1> QED BY <1>2, <1>5, <1>6, <1>7 DEF Locally

LEMMA BackStep ==
  ASSUME IInv, pc # "interrupted", Return, UNCHANGED <<ino, used, env, buf, armed, owed, made>>,
         Warn \/ exit' = exit, Sound \/ Fault, excused' = excused,
         dir' = dir \/ (w.out # 0 /\ Unlink(buf)),
         excused = {} /\ w.out # 0 /\ dir' = dir => Output = <<>> \/ WholeIn(ino, w.out)
  PROVE  IInv'
<1>1. scene' = scene
  BY DEF env
<1>2. Control
  BY DEF IInv, Locally
<1>3. exit' \in 0 .. 2 /\ faults' \in 0 .. MaxFaults
  BY <1>2, Faulted, Warned
<1>4. excused' \subseteq {"error", "stray"}
  BY <1>2 DEF Control
<1>5. Locally'
  BY <1>1, <1>3, <1>4, BackLocal
<1>6. w'.out = 0 /\ pc' # "unlink_in"
  BY IdleType DEF Return
<1>7. Overall'
  BY <1>6, OverStep
<1> QED BY <1>5, <1>7 DEF IInv

LEMMA StepHandlePathname == ASSUME IInv, HandlePathname PROVE IInv'
<1>1. /\ pc = "next" /\ arg <= Len(scene.argv)
      /\ UNCHANGED <<fs, env, buf, armed, faults, owed, made, excused>>
  BY DEF HandlePathname
<1>2. w = Idle /\ ~ live /\ Control /\ Pointer /\ Places /\ Kinds /\ Contents /\ Hidden /\ Files /\ Plains
  BY <1>1 DEF IInv, Locally, Overall, Places, Pointer, Between
<1>3. w.out = 0
  BY <1>2, IdleType
<1> DEFINE p == scene.argv[arg]
           q == IF scene.d /\ dir[p] = Absent /\ p \in Plainly THEN Zipped[p] ELSE p
<1>4. CASE dir[q] = Absent
  <2>1. Warn /\ Return
    BY <1>4 DEF HandlePathname
  <2> QED BY <2>1, <1>1, <1>3, BackStep DEF fs, Sound
<1>5. CASE dir[q] # Absent
  <2>1. /\ w' = [Idle EXCEPT !.file = q]
        /\ pc' = IF scene.d THEN "d_open" ELSE "c_open"
        /\ arg' = arg /\ live' = live /\ exit' = exit
    BY <1>5 DEF HandlePathname, Go
  <2>2. arg \in DOMAIN scene.argv /\ p \in Names
    <3>1. scene.argv \in Seq(Names) /\ arg \in Nat \ {0}
      BY <1>2, ScenesAssumption DEF Files, Control
    <3>2. arg \in 1 .. Len(scene.argv) /\ DOMAIN scene.argv = 1 .. Len(scene.argv)
      BY <1>1, <3>1, LenProperties
    <3> QED BY <3>1, <3>2, ElementOfSeq
  <2>3. q \in Names
    BY <2>2 DEF Zipped, Names, Plainly
  <2> HIDE DEF p, q
  <2>4. /\ w'.file = q /\ w'.out = 0 /\ w'.st = "" /\ w' \in Locals
        /\ w'.pos = 1 /\ w'.held = <<>> /\ w'.sum = <<>> /\ w'.tot = 0 /\ ~ w'.err
    BY <2>1, <2>3, IdleType DEF Locals, Idle
  <2>5. pc' \in Opening /\ (pc' = "d_open" => scene.d) /\ (pc' = "c_open" => ~ scene.d)
    BY <2>1 DEF Opening
  <2>6. /\ scene' = scene /\ dir' = dir /\ used' = used /\ ino' = ino /\ made' = made
        /\ buf' = buf /\ (armed' <=> armed) /\ ~ live'
    BY <1>1, <1>2, <2>1 DEF env, fs
  <2>7. Control'
    BY <1>1, <1>2, <2>1, <2>4, <2>5 DEF Control, Pcs, Opening
  <2>8. Places' /\ Pointer'
    <3>1. pc' \notin Between /\ pc' \notin Naming /\ pc' \notin Writing /\ pc' \notin ToFile
      BY <2>5 DEF Between, Opening, Naming, Filling, Leaving, Writing, ToFile
    <3>2. Fresh'
      BY <2>4 DEF Fresh
    <3>3. (pc' \in Zipping => ~ scene.d) /\ (pc' \in Unzipping => scene.d)
      BY <2>5 DEF Opening, Zipping, Unzipping
    <3>4. (scene.c => made = {}) /\ (armed => buf \in Names)
      BY <1>2 DEF Places, Pointer
    <3>5. pc' \notin Filling /\ pc' \notin Leaving /\ pc' # "unlink_in" /\ pc' \notin {"arm", "z_init"}
      BY <2>5 DEF Opening, Filling, Leaving
    <3>6. Pointer'
      BY <2>6, <3>4, <3>5 DEF Pointer
    <3>7. arg' \in DOMAIN scene'.argv /\ w'.file \in Names /\ w'.out = 0
      BY <2>1, <2>2, <2>3, <2>4, <2>6
    <3>8. Places'
      BY <2>6, <3>1, <3>2, <3>3, <3>4, <3>5, <3>7 DEF Places
    <3> QED BY <3>6, <3>8
  <2>9. Kinds' /\ Contents' /\ Hidden'
    BY <2>4, <2>5 DEF Kinds, Contents, Hidden, Opening, Naming, Filling, Leaving, Writing, Working
  <2>10. Overall'
    BY <1>1, <1>3, <2>4, <2>5, StayStep DEF Opening
  <2> QED BY <2>7, <2>8, <2>9, <2>10 DEF IInv, Locally
<1> QED BY <1>4, <1>5

(* It goes on before there is an output. *)
LEMMA NameStep ==
  ASSUME IInv, pc \in Opening \cup Naming, UNCHANGED <<used, env, arg, armed, live, made>>,
         w' \in Locals, w'.file = w.file, w'.out = w.out, w'.in \in 1 .. used, Fresh',
         buf' = buf \/ buf' \in Names,
         pc' \in Naming, pc' \notin {"c_name", "d_copy"} => buf' \in Names,
         pc' \in Zipping => ~ scene.d, pc' \in Unzipping => scene.d, pc' \in ToFile => ~ scene.c,
         Warn \/ exit' = exit \/ exit' = 2, Sound \/ Fault, excused' = excused
  PROVE  (Control /\ Pointer /\ Places /\ Contents /\ Hidden)'
<1>1. Control /\ Pointer /\ Places /\ w.out = 0 /\ w.file \in Names /\ arg \in DOMAIN scene.argv
  BY DEF IInv, Locally, Places, Working
<1>2. scene' = scene /\ used' = used /\ made' = made /\ arg' = arg
  BY DEF env
<1>3. exit' \in 0 .. 2 /\ faults' \in 0 .. MaxFaults
  BY <1>1, Faulted, Warned
<1>4. buf' \in Names \cup {""}
  BY <1>1 DEF Control
<1>5. pc' \in Pcs
  BY DEF Naming, Pcs
<1>6. Control'
  <2>1. armed' \in BOOLEAN /\ live' \in BOOLEAN /\ arg' \in Nat \ {0}
        /\ excused' \subseteq {"error", "stray"}
    BY <1>1 DEF Control
  <2> QED BY <1>3, <1>4, <1>5, <2>1 DEF Control
<1>7. /\ pc' \notin Between /\ pc' \notin Opening /\ pc' \notin Writing /\ pc' \notin Filling
      /\ pc' \notin Leaving /\ pc' \notin {"arm", "z_init"} /\ pc' # "unlink_in" /\ pc' \in Working
  BY DEF Between, Opening, Naming, Writing, Filling, Leaving, Working
<1>8. Pointer'
  <2>1. ~ live /\ (armed => buf \in Names)
    BY <1>1 DEF Pointer
  <2>2. ~ live' /\ (armed' => buf' \in Names)
    BY <2>1
  <2> QED BY <2>2, <1>7 DEF Pointer
<1>9. Places'
  <2>1. scene.c => made = {}
    BY <1>1 DEF Places
  <2> QED BY <1>1, <1>2, <1>7, <2>1 DEF Places
<1>10. Contents' /\ Hidden'
  BY <1>7 DEF Contents, Hidden, Naming, Leaving
<1> QED BY <1>6, <1>8, <1>9, <1>10

(* It goes on while it makes the output. *)
LEMMA FillStep ==
  ASSUME IInv, pc \in Filling, UNCHANGED <<dir, used, env, arg, buf, armed, live, made>>,
         w' \in Locals, w'.file = w.file, w'.in = w.in, w'.out = w.out, Apart,
         pc' \in Filling \ {"z_init"},
         pc' \in Zipping => ~ scene.d, pc' \in Unzipping => scene.d, pc' \in ToFile => ~ scene.c,
         scene.d => /\ w'.st = w.st \/ {w'.st, w.st} \cap {"", "cat"} = {}
                    /\ pc' = "inflate" => w'.st # "cat"
                    /\ pc' = "cat" => w'.st = "cat",
         Warn \/ exit' = exit \/ exit' = 2, Sound \/ Fault, excused' \subseteq {"error", "stray"}
  PROVE  (Control /\ Pointer /\ Places /\ Kinds)' /\ Input' = Input
<1>1. /\ Files /\ Control /\ Pointer /\ Places /\ Kinds /\ pc \in Writing /\ pc \in Working
      /\ pc # "interrupted"
  BY DEF IInv, Locally, Overall, Writing, Working, Filling
<1>2. scene' = scene /\ used' = used /\ made' = made /\ arg' = arg /\ dir' = dir /\ buf' = buf
  BY DEF env
<1>3. exit' \in 0 .. 2 /\ faults' \in 0 .. MaxFaults
  BY <1>1, Faulted, Warned
<1>4. Control'
  <2>1. armed' \in BOOLEAN /\ live' \in BOOLEAN /\ arg' \in Nat \ {0} /\ buf' \in Names \cup {""}
    BY <1>1 DEF Control
  <2>2. pc' \in Pcs
    BY DEF Filling, Pcs
  <2> QED BY <1>3, <2>1, <2>2 DEF Control
<1>5. /\ pc' \notin Between /\ pc' \notin Opening /\ pc' \notin Naming /\ pc' \in Writing
      /\ pc' \notin Leaving /\ pc' \notin {"arm", "z_init"} /\ pc' # "unlink_in" /\ pc' \in Working
  BY DEF Between, Opening, Naming, Writing, Filling, Leaving, Working
<1>6. Pointer'
  <2>1. ~ scene.c => armed /\ live
    BY <1>1 DEF Pointer
  <2>2. (armed \/ live => buf \in Names) /\ (scene.c => ~ live)
    BY <1>1 DEF Pointer
  <2>3. (~ scene'.c => armed' /\ live') /\ (armed' \/ live' => buf' \in Names)
        /\ (scene'.c => ~ live')
    BY <2>1, <2>2, <1>2
  <2> QED BY <2>3, <1>5 DEF Pointer
<1>7. /\ w.file \in Names /\ arg \in DOMAIN scene.argv /\ w.in \in 1 .. used
      /\ (~ scene.c => Own) /\ (scene.c => made = {} /\ w.out = 0)
  BY <1>1 DEF Places
<1>8. Own => Own'
  BY <1>2 DEF Own
<1>9. Places'
  BY <1>2, <1>5, <1>7, <1>8 DEF Places
<1>10. w.in \in 1 .. MaxIno /\ w.in # w.out
  <2>1. w.in \in 1 .. MaxIno
    BY <1>7, <1>1, OutputFacts
  <2>2. scene.c => w.in # w.out
    BY <1>7
  <2>3. ~ scene.c => w.in # w.out
    BY <1>1, <1>7, OutputFacts DEF Own
  <2> QED BY <2>1, <2>2, <2>3
<1>11. Input' = Input
  <2>1. ino'[w.in] = ino[w.in]
    BY <1>10 DEF Apart
  <2> QED BY <2>1 DEF Input
<1>12. Kinds'
  <2>1. ~ scene.d => /\ w.file \in Plainly => w.in \notin made
                     /\ ~ scene.c => w.file \in Plainly
    BY <1>1 DEF Kinds
  <2>2. ASSUME scene.d
        PROVE  /\ Input # <<>> /\ w'.st # ""
               /\ w'.st # "cat" => Input[1].t = "H"
    <3>1. pc \notin Zipping
      BY <1>1, <2>2 DEF Places
    <3>2. pc \in {"modes", "disarm", "inflate", "cat", "d_close", "d_reopen"}
      BY <3>1 DEF Filling, Zipping
    <3>3. Input # <<>> /\ w.st # ""
      BY <1>1, <2>2, <3>2 DEF Kinds
    <3>4. w.st # "cat" => Input[1].t = "H"
      BY <1>1, <2>2, <3>3 DEF Kinds
    <3>5. w'.st = w.st \/ (w'.st # "" /\ w.st # "cat")
      BY <2>2
    <3> QED BY <3>3, <3>4, <3>5
  <2>3. pc' \notin {"d_links", "check", "unlink_out", "create", "arm"}
        /\ pc' \notin Opening \cup {"d_copy", "d_suffix", "d_magic"}
    BY DEF Filling, Opening
  <2> QED BY <1>2, <1>5, <1>11, <2>1, <2>2, <2>3 DEF Kinds
<1> QED BY <1>4, <1>6, <1>9, <1>11, <1>12

LEMMA NameInv ==
  ASSUME IInv, pc \in Opening \cup Naming, UNCHANGED <<fs, env, arg, armed, live, made, owed>>,
         w' \in Locals, w'.file = w.file, w'.out = w.out, w'.in \in 1 .. used, Fresh',
         buf' = buf \/ buf' \in Names,
         pc' \in Naming, pc' \notin {"c_name", "d_copy"} => buf' \in Names,
         pc' \in Zipping => ~ scene.d, pc' \in Unzipping => scene.d, pc' \in ToFile => ~ scene.c,
         Warn \/ exit' = exit \/ exit' = 2, Sound \/ Fault, excused' = excused, Kinds'
  PROVE  IInv'
<1>1. used' = used
  BY DEF fs
<1>2. (Control /\ Pointer /\ Places /\ Contents /\ Hidden)'
  BY <1>1, NameStep
<1>3. pc # "interrupted" /\ pc' \notin {"done", "interrupted", "unlink_in"}
  BY DEF Opening, Naming
<1>4. Overall'
  BY <1>3, StayStep
<1> QED BY <1>2, <1>4 DEF IInv, Locally

(* What the invariant says before there is an output. *)
LEMMA NameFacts ==
  ASSUME IInv, pc \in Opening \cup Naming
  PROVE  /\ Files /\ Control /\ Pointer /\ Places /\ Kinds /\ Plains
         /\ w \in Locals /\ w.file \in Names /\ w.out = 0 /\ Fresh /\ pc # "interrupted"
         /\ pc \in Naming => w.in \in 1 .. used
BY DEF IInv, Locally, Overall, Control, Places, Working, Opening, Naming

LEMMA StepOpen ==
  ASSUME IInv, NEW q \in {"c_name", "d_copy"}, pc \in Opening, Open(q),
         q = "c_name" => ~ scene.d, q = "d_copy" => scene.d,
         UNCHANGED <<fs, env, buf, armed, faults, owed, made, excused>>
  PROVE  IInv'
<1>1. /\ Files /\ Control /\ Pointer /\ Places /\ Kinds /\ Plains
      /\ w \in Locals /\ w.file \in Names /\ w.out = 0 /\ Fresh /\ pc # "interrupted"
  BY NameFacts
<1>2. CASE dir[w.file] = Absent
  <2>1. Warn /\ Return
    BY <1>2 DEF Open, Lose
  <2> QED BY <1>1, <2>1, BackStep DEF fs, Sound
<1>3. CASE dir[w.file] # Absent
  <2>1. /\ w' = [w EXCEPT !.in = dir[w.file]] /\ pc' = q
        /\ UNCHANGED <<arg, live, exit>>
    BY <1>3 DEF Open, Go
  <2>2. dir[w.file] \in 1 .. used /\ used \in Nat
    BY <1>1, <1>3, BoundsAssumption DEF Files, Absent
  <2>3. /\ w' \in Locals /\ w'.file = w.file /\ w'.out = w.out /\ w'.in = dir[w.file]
        /\ w'.st = w.st
        /\ w'.pos = w.pos /\ w'.held = w.held /\ w'.sum = w.sum /\ w'.tot = w.tot
        /\ w'.err = w.err
    <3>1. w \in Locals /\ dir[w.file] \in Nat
      BY <1>1, <2>2
    <3>2. w' = [w EXCEPT !.in = dir[w.file]]
      BY <2>1
    <3> QED BY <3>1, <3>2 DEF Locals
  <2>4. Fresh'
    BY <1>1, <2>3 DEF Fresh
  <2>5. pc' \in Naming /\ (pc' \in Zipping => ~ scene.d) /\ (pc' \in Unzipping => scene.d)
        /\ pc' \notin ToFile /\ pc' \in {"c_name", "d_copy"}
    BY <2>1 DEF Naming, Zipping, Unzipping, ToFile, Leaving
  <2>6. Kinds'
    <3>1. /\ scene' = scene /\ made' = made /\ dir' = dir
      BY DEF fs, env
    <3>2. ~ scene.d /\ w.file \in Plainly => dir[w.file] \notin made
      BY <1>1 DEF Plains
    <3>3. scene.d => w.st = ""
      BY <1>1 DEF Kinds
    <3>4. /\ pc' \notin Writing /\ pc' \notin Leaving
          /\ pc' \notin {"check", "unlink_out", "create"}
          /\ pc' \notin {"d_links", "check", "unlink_out", "create", "arm", "modes", "disarm",
                         "inflate", "cat", "d_close", "d_reopen"}
          /\ pc' \notin {"d_links", "check", "unlink_out", "create", "arm"} /\ pc' # "inflate" /\ pc' # "cat"
          /\ (pc' = "d_copy" => scene.d)
      BY <2>5, <2>1 DEF Writing, Filling, Leaving
    <3>5. ~ scene.d => pc' \notin Naming \ {"c_name"}
      BY <2>1
    <3> QED BY <2>3, <3>1, <3>2, <3>3, <3>4, <3>5 DEF Kinds
  <2> QED BY <1>1, <2>1, <2>2, <2>3, <2>4, <2>5, <2>6, NameInv DEF Sound
<1> QED BY <1>2, <1>3

LEMMA StepCOpen == ASSUME IInv, COpen PROVE IInv'
<1>1. pc = "c_open" /\ Open("c_name")
      /\ UNCHANGED <<fs, env, buf, armed, faults, owed, made, excused>>
  BY DEF COpen
<1>2. ~ scene.d /\ pc \in Opening
  BY <1>1 DEF IInv, Locally, Places, Zipping, Opening
<1> QED BY <1>1, <1>2, StepOpen

LEMMA StepDOpen == ASSUME IInv, DOpen PROVE IInv'
<1>1. pc = "d_open" /\ Open("d_copy")
      /\ UNCHANGED <<fs, env, buf, armed, faults, owed, made, excused>>
  BY DEF DOpen
<1>2. scene.d /\ pc \in Opening
  BY <1>1 DEF IInv, Locally, Places, Unzipping, Opening
<1> QED BY <1>1, <1>2, StepOpen

LEMMA StepCheckOutfile == ASSUME IInv, CheckOutfile PROVE IInv'
<1>1. pc = "check" /\ pc \in Naming /\ UNCHANGED <<fs, env, buf, armed, faults, owed, made, excused>>
  BY DEF CheckOutfile, Naming
<1>2. /\ Files /\ Control /\ Places /\ Kinds /\ w \in Locals /\ w.file \in Names /\ w.out = 0
      /\ Fresh /\ w.in \in 1 .. used /\ pc # "interrupted"
  BY <1>1, NameFacts
<1>3. buf \in Names /\ ~ scene.c
  BY <1>1, <1>2 DEF Places, ToFile, Naming
<1>4. CASE Return
  <2>1. Warn \/ exit' = exit
    BY <1>1, <1>4 DEF CheckOutfile, Lose, Return, Go
  <2> QED BY <1>1, <1>2, <1>4, <2>1, BackStep DEF fs, Sound
<1>5. CASE ~ Return
  <2>1. pc' \in {"create", "unlink_out"} /\ UNCHANGED <<arg, live, w, exit>>
    BY <1>5 DEF CheckOutfile, Lose, Go
  <2>2. w' \in Locals /\ w' = w /\ w'.file = w.file /\ w'.out = w.out /\ w'.in \in 1 .. used
    BY <1>2, <2>1
  <2>3. Fresh'
    BY <1>2, <2>1 DEF Fresh
  <2>4. pc' \in Naming /\ pc' \notin Zipping /\ pc' \notin Unzipping
    BY <2>1 DEF Naming, Zipping, Unzipping
  <2>5. Kinds'
    BY <1>1, <1>2, <2>2, <2>1 DEF Kinds, fs, env, Input, Naming, Writing, Filling, Leaving, Opening, Working
  <2> QED BY <1>1, <1>3, <2>1, <2>2, <2>3, <2>4, <2>5, NameInv DEF Sound
<1> QED BY <1>4, <1>5

LEMMA StepUnlinkOut == ASSUME IInv, UnlinkOut PROVE IInv'
<1>1. /\ pc = "unlink_out" /\ pc \in Naming /\ pc' = "create" /\ Unlink(buf)
      /\ owed' = {d \in owed : dir[buf] = Absent \/ ~ Same(d, ino[dir[buf]].data)}
      /\ UNCHANGED <<ino, used, env, arg, buf, armed, live, w, exit, faults, made, excused>>
  BY DEF UnlinkOut, Naming, Go
<1>2. /\ Files /\ Control /\ Places /\ Kinds /\ Plains /\ w \in Locals /\ w.file \in Names
      /\ w.out = 0 /\ Fresh /\ w.in \in 1 .. used /\ pc # "interrupted"
  BY <1>1, NameFacts
<1>3. /\ buf \in Names /\ ~ scene.c
      /\ Held /\ Settled /\ PrivateUntilWhole
  BY <1>1, <1>2 DEF Places, ToFile, Naming, IInv, Overall
<1>4. /\ dir' = [dir EXCEPT ![buf] = 0] /\ dir \in [Names -> 0 .. used] /\ used \in Nat
      /\ 0 \in 0 .. used
  BY <1>1, <1>2, BoundsAssumption DEF Unlink, Absent, Files
<1>5. dir' \in [Names -> 0 .. used] /\ \A n \in Names : dir'[n] = IF n = buf THEN 0 ELSE dir[n]
  BY <1>4
<1>6. /\ scene' = scene /\ ino' = ino /\ used' = used /\ made' = made /\ w' = w
      /\ others' = others /\ excused' = excused
  BY <1>1 DEF env
<1>7. (Control /\ Pointer /\ Places /\ Contents /\ Hidden)'
  <2>1. w' \in Locals /\ w'.file = w.file /\ w'.out = w.out /\ w'.in \in 1 .. used /\ Fresh'
    BY <1>2, <1>6 DEF Fresh
  <2>2. pc' \in Naming /\ pc' \notin Zipping /\ pc' \notin Unzipping
    BY <1>1 DEF Naming, Zipping, Unzipping
  <2> QED BY <1>1, <1>3, <2>1, <2>2, NameStep DEF Sound
<1>8. Kinds'
  BY <1>1, <1>2, <1>6 DEF Kinds, Input, Naming, Writing, Filling, Leaving, Opening, Working
<1>9. Files'
  BY <1>2, <1>5, <1>6 DEF Files
<1>10. 0 \notin made
  BY <1>2, <1>4 DEF Files
<1>11. Plains'
  <2>1. ~ scene.d => \A n \in Plainly : dir'[n] \notin made
    BY <1>2, <1>5, <1>10 DEF Plains, Names
  <2> QED BY <1>2, <1>6, <2>1 DEF Plains
<1>12. Held'
  <2> SUFFICES ASSUME excused = {}, NEW d \in owed' PROVE \E n \in Names : Holds(n, d)'
    BY <1>6 DEF Held
  <2>1. d \in owed /\ (dir[buf] = Absent \/ ~ Same(d, ino[dir[buf]].data))
    BY <1>1
  <2>2. PICK n \in Names : Holds(n, d)
    BY <1>3, <2>1 DEF Held
  <2>3. dir[n] # Absent /\ (Same(d, ino[dir[n]].data) \/ ino[dir[n]].data = d)
    BY <2>2 DEF Holds
  <2>4. n # buf
    BY <2>1, <2>3, SameSelf
  <2>5. dir'[n] = dir[n]
    BY <1>5, <2>4
  <2>6. pc' # "unlink_in"
    BY <1>1
  <2> QED BY <1>6, <2>2, <2>5, <2>6 DEF Holds
<1>13. Settled'
  <2> SUFFICES ASSUME excused = {}, NEW n \in Names, dir'[n] \in made
               PROVE  ino[dir'[n]].data = <<>> \/ WholeIn(ino, dir'[n])
    BY <1>6 DEF Settled, Whole, WholeIn
  <2>1. dir'[n] = dir[n]
    BY <1>5, <1>10
  <2>2. dir[n] # w.out
    BY <1>2, <1>10, <2>1
  <2> QED BY <1>3, <2>1, <2>2 DEF Settled, Whole, WholeIn
<1>14. PrivateUntilWhole'
  BY <1>3, <1>6 DEF PrivateUntilWhole, Whole
<1> QED BY <1>7, <1>8, <1>9, <1>11, <1>12, <1>13, <1>14 DEF IInv, Locally, Overall

LEMMA StepCreate == ASSUME IInv, Create PROVE IInv'
<1>1. pc = "create" /\ pc \in Naming /\ UNCHANGED <<env, buf, armed, owed, excused>>
  BY DEF Create, Naming
<1>2. /\ Files /\ Control /\ Pointer /\ Places /\ Kinds /\ Plains /\ w \in Locals /\ w.file \in Names
      /\ w.out = 0 /\ Fresh /\ w.in \in 1 .. used /\ pc # "interrupted"
  BY <1>1, NameFacts
<1>3. /\ buf \in Names /\ ~ scene.c /\ arg \in DOMAIN scene.argv
      /\ Held /\ Settled /\ PrivateUntilWhole
  BY <1>1, <1>2 DEF Places, ToFile, Naming, Working, IInv, Overall
<1>4. CASE Lose /\ (Sound \/ Fault) /\ UNCHANGED <<fs, made>>
  <2>1. Warn /\ Return
    BY <1>4 DEF Lose
  <2> QED BY <1>1, <1>2, <1>4, <2>1, BackStep DEF fs
<1>5. CASE /\ dir[buf] = Absent /\ used < MaxIno /\ used' = used + 1
           /\ dir' = [dir EXCEPT ![buf] = used'] /\ ino' = [ino EXCEPT ![used'] = Blank]
           /\ made' = made \cup {used'} /\ w' = [w EXCEPT !.out = used'] /\ Go("arm")
           /\ Sound /\ UNCHANGED <<arg, live, exit>>
  <2> DEFINE u == used + 1
  <2>1. /\ used \in Nat /\ u \in Nat /\ u \in 1 .. MaxIno /\ used' = u /\ used < u
        /\ w.in < u /\ u # 0 /\ u = used + 1
        /\ u \in 0 .. MaxIno /\ MaxIno \in Nat
    BY <1>2, <1>5, BoundsAssumption DEF Files
  <2>2. /\ dir' = [dir EXCEPT ![buf] = u] /\ ino' = [ino EXCEPT ![u] = Blank]
        /\ made' = made \cup {u} /\ w' = [w EXCEPT !.out = u] /\ pc' = "arm" /\ arg' = arg
        /\ scene' = scene /\ others' = others /\ excused' = excused /\ buf' = buf /\ owed' = owed
    BY <1>1, <1>5 DEF Go, env
  <2> HIDE DEF u
  <2>3. dir \in [Names -> 0 .. used] /\ ino \in [0 .. MaxIno -> Inode] /\ made \subseteq 1 .. used
    BY <1>2 DEF Files
  <2>4. /\ dir' \in [Names -> 0 .. u]
        /\ \A n \in Names : dir'[n] = IF n = buf THEN u ELSE dir[n]
    <3>1. dir \in [Names -> 0 .. u] /\ u \in 0 .. u
      BY <2>1, <2>3
    <3> QED BY <2>2, <3>1
  <2>5. Blank \in Inode /\ Blank.data = <<>> /\ Blank.mode = "private"
    <3>1. <<>> \in Seq(Piece)
      BY EmptySeq
    <3> QED BY <3>1 DEF Blank, Inode
  <2>6. /\ ino' \in [0 .. MaxIno -> Inode] /\ ino'[u] = Blank
        /\ \A i \in 0 .. used : ino'[i] = ino[i]
    <3>1. u \in 0 .. MaxIno
      BY <2>1
    <3>2. \A i \in 0 .. used : i \in 0 .. MaxIno /\ i # u
      BY <2>1
    <3> QED BY <2>2, <2>3, <2>5, <3>1, <3>2
  <2>7. /\ \A n \in Names : dir[n] # u /\ dir[n] \in 0 .. used
        /\ \A i \in made : i \in 1 .. used /\ i # u
    BY <2>1, <2>3
  <2>8. Files'
    <3>1. u \in 0 .. MaxIno
      BY <2>1
    <3>2. \A i \in made' : i \in 1 .. u
      BY <2>1, <2>2, <2>7
    <3> QED BY <1>2, <2>1, <2>2, <2>4, <2>6, <3>1, <3>2 DEF Files
  <2>9. Plains'
    <3>1. ASSUME ~ scene.d, NEW i \in 1 .. u, i \notin made' PROVE IsPlain(ino'[i].data)
      <4>1. i \in 1 .. used /\ i \notin made
        BY <2>1, <2>2, <3>1
      <4> QED BY <1>2, <2>6, <3>1, <4>1 DEF Plains
    <3>2. ASSUME ~ scene.d, NEW n \in Plainly PROVE dir'[n] \notin made'
      <4>1. n # buf /\ n \in Names
        BY <1>1, <1>2, <3>2 DEF Kinds, Names
      <4>2. dir'[n] = dir[n] /\ dir[n] # u
        BY <2>4, <2>7, <4>1
      <4> QED BY <1>2, <2>2, <3>2, <4>2 DEF Plains
    <3>3. ASSUME scene.d, NEW i \in made' PROVE IsPlain(ino'[i].data)
      <4>1. CASE i = u
        BY <2>5, <2>6, <4>1 DEF IsPlain
      <4>2. CASE i # u
        <5>1. i \in made /\ i \in 0 .. used
          BY <2>2, <2>7, <4>2
        <5> QED BY <1>2, <2>6, <3>3, <5>1 DEF Plains
      <4> QED BY <4>1, <4>2
    <3> QED BY <2>1, <2>2, <3>1, <3>2, <3>3 DEF Plains
  <2>10. w' \in Locals /\ w'.file = w.file /\ w'.in = w.in /\ w'.out = u /\ w'.st = w.st
         /\ w'.pos = w.pos /\ w'.held = w.held /\ w'.sum = w.sum /\ w'.tot = w.tot
         /\ w'.err = w.err
    <3>1. w \in Locals /\ u \in Nat
      BY <1>2, <2>1
    <3> QED BY <2>2, <3>1 DEF Locals
  <2>11. Held'
    <3> SUFFICES ASSUME excused = {}, NEW d \in owed PROVE \E n \in Names : Holds(n, d)'
      BY <2>2 DEF Held
    <3>1. PICK n \in Names : Holds(n, d)
      BY <1>3 DEF Held
    <3>2. n # buf /\ dir[n] # Absent
      BY <1>5, <3>1 DEF Holds
    <3>3. dir'[n] = dir[n] /\ dir[n] # u /\ ino'[dir[n]] = ino[dir[n]]
          /\ (dir[n] \in made' <=> dir[n] \in made)
      BY <2>2, <2>4, <2>6, <2>7, <3>2
    <3>4. pc' # "unlink_in" /\ dir'[n] # w'.out
      BY <2>2, <2>10, <3>3
    <3> QED BY <3>1, <3>2, <3>3, <3>4 DEF Holds
  <2>12. ASSUME NEW i \in made, WholeIn(ino, i) PROVE WholeIn(ino', i)
    <3>1. i \in Nat \ {0} /\ \A j \in 1 .. i : j \in 0 .. used
      BY <2>1, <2>7
    <3>2. \A j \in 1 .. i : ino'[j].data = ino[j].data
      BY <2>6, <3>1
    <3> QED BY <2>12, <3>1, <3>2, WholeStays
  <2>13. Settled'
    <3> SUFFICES ASSUME excused = {}, NEW n \in Names, dir'[n] \in made', dir'[n] # u
                 PROVE  ino'[dir'[n]].data = <<>> \/ WholeIn(ino', dir'[n])
      BY <2>2, <2>10 DEF Settled, Whole, WholeIn, Ended
    <3>1. dir'[n] = dir[n] /\ dir[n] \in made /\ dir[n] \in 0 .. used
      BY <2>2, <2>4, <2>7
    <3>2. dir[n] # w.out
      BY <1>2, <2>7, <3>1
    <3>3. ino[dir[n]].data = <<>> \/ WholeIn(ino, dir[n])
      BY <1>3, <3>1, <3>2 DEF Settled, Whole, WholeIn
    <3> QED BY <2>6, <2>12, <3>1, <3>3
  <2>14. PrivateUntilWhole'
    <3> SUFFICES ASSUME excused = {}, NEW i \in made', ino'[i].mode # "private"
                 PROVE  WholeIn(ino', i)
      BY <2>2 DEF PrivateUntilWhole, Whole, WholeIn
    <3>1. i # u
      BY <2>5, <2>6
    <3>2. i \in made /\ ino'[i] = ino[i]
      BY <2>2, <2>6, <2>7, <3>1
    <3>3. WholeIn(ino, i)
      BY <1>3, <3>2 DEF PrivateUntilWhole, Whole, WholeIn
    <3> QED BY <2>12, <3>2, <3>3
  <2>15. Control'
    <3>1. exit' \in 0 .. 2 /\ faults' \in 0 .. MaxFaults
      BY <1>2, <1>5, Faulted, Warned
    <3>2. armed' \in BOOLEAN /\ live' \in BOOLEAN
      BY <1>1, <1>2, <1>5 DEF Control
    <3>3. pc' \in Pcs /\ arg' \in Nat \ {0} /\ buf' \in Names \cup {""}
          /\ excused' \subseteq {"error", "stray"}
      BY <1>2, <2>2 DEF Control, Pcs
    <3> QED BY <2>10, <3>1, <3>2, <3>3 DEF Control
  <2>16. /\ pc' \notin Between /\ pc' \notin Opening /\ pc' \notin Naming /\ pc' \in Writing
         /\ pc' \notin Leaving /\ pc' \notin Filling /\ pc' # "unlink_in" /\ pc' \in Working
         /\ pc' \notin Zipping /\ pc' \notin Unzipping
    BY <2>2 DEF Between, Opening, Naming, Writing, Filling, Leaving, Working, Zipping, Unzipping
  <2>17. Pointer'
    <3>1. ~ live /\ (armed => buf \in Names)
      BY <1>1, <1>2 DEF Pointer
    <3>2. ~ live' /\ (armed' => buf' \in Names)
      BY <1>1, <1>5, <3>1
    <3> QED BY <2>16, <3>2 DEF Pointer
  <2>18. Own'
    <3>1. buf \in Names /\ dir'[buf] = u /\ \A n \in Names : dir'[n] = u => n = buf
      BY <1>3, <2>4, <2>7
    <3>2. \A i \in made' : i <= u
      BY <2>1, <2>2, <2>7
    <3> QED BY <2>1, <2>2, <2>10, <3>1, <3>2 DEF Own
  <2>19. Places'
    <3>1. Fresh'
      BY <1>2, <2>10 DEF Fresh
    <3>2. w.in \in 1 .. u
      BY <1>2, <2>1
    <3> QED BY <1>2, <1>3, <2>1, <2>2, <2>10, <2>16, <2>18, <3>1, <3>2 DEF Places
  <2>20. Input' = Input
    <3>1. w.in \in 0 .. used
      BY <1>2, <2>1
    <3> QED BY <2>6, <2>10, <3>1 DEF Input
  <2>21. Kinds'
    <3>1. ~ scene.d => w.file \in Plainly /\ w.in \notin made /\ w.in # u
      <4>1. pc \in Naming \ {"c_name"} /\ w.in # u
        BY <1>1, <1>2, <2>1
      <4> QED BY <1>2, <1>3, <4>1 DEF Kinds
    <3>2. scene.d => /\ Input # <<>> /\ w.st \in {"MAGIC0", "cat"}
                     /\ w.st # "cat" => Input[1].t = "H"
      BY <1>1, <1>2 DEF Kinds, Naming, Working
    <3>3. pc' \notin {"check", "unlink_out", "create"} /\ pc' # "inflate" /\ pc' # "cat"
          /\ pc' \notin Opening \cup {"d_copy", "d_suffix", "d_magic"}
      BY <2>2, <2>16
    <3>4. w'.file = w.file /\ w'.in = w.in /\ w'.st = w.st /\ scene' = scene
          /\ (w.in \in made' <=> w.in \in made \/ w.in = u)
      BY <2>2, <2>10
    <3>5. ~ scene.d => /\ w'.file \in Plainly => w'.in \notin made'
                       /\ w'.file \in Plainly
      BY <3>1, <3>4
    <3>6. scene.d => /\ Input' # <<>> /\ w'.st # "" /\ w'.st \in {"MAGIC0", "cat"}
                     /\ w'.st \notin {"", "cat"} => Input'[1].t = "H"
      BY <2>20, <3>2, <3>4
    <3> QED BY <3>3, <3>4, <3>5, <3>6 DEF Kinds
  <2>22. Contents' /\ Hidden'
    <3>1. ino'[w'.out] = Blank
      BY <2>6, <2>10
    <3>2. Output' = <<>>
      BY <2>5, <3>1 DEF Output
    <3> QED BY <2>2, <2>5, <3>1, <3>2, <2>16 DEF Contents, Hidden
  <2> QED BY <2>8, <2>9, <2>11, <2>13, <2>14, <2>15, <2>17, <2>19, <2>21, <2>22
          DEF IInv, Locally, Overall
<1> QED BY <1>4, <1>5 DEF Create

(* The locals after an assignment. *)
LEMMA LocalsSet ==
  ASSUME NEW v \in Locals
  PROVE  /\ v.file \in Names \cup {""} /\ v.in \in Nat /\ v.out \in Nat /\ v.pos \in Nat \ {0}
         /\ v.held \in Seq(Piece) /\ v.sum \in Seq(Nat) /\ v.tot \in Int /\ v.err \in BOOLEAN
         /\ v.st \in {"", "MAGIC0", "READ", "CRC", "LEN", "cat"}
         /\ \A x \in {"", "MAGIC0", "READ", "CRC", "LEN", "cat"} :
              /\ [v EXCEPT !.st = x] \in Locals
              /\ [v EXCEPT !.pos = @ + 1, !.st = x] \in Locals
              /\ [v EXCEPT !.pos = @ + 1, !.st = x, !.sum = <<>>] \in Locals
         /\ [v EXCEPT !.err = TRUE] \in Locals
         /\ \A x \in Int : [v EXCEPT !.tot = x] \in Locals
         /\ \A h \in Seq(Piece) : [v EXCEPT !.held = h] \in Locals
         /\ \A h \in Seq(Piece), x \in Int : [v EXCEPT !.held = h, !.tot = x] \in Locals
         /\ \A h \in Seq(Piece), s \in Seq(Nat) :
              [v EXCEPT !.pos = @ + 1, !.held = h, !.sum = s] \in Locals
         /\ \A x \in Int : [v EXCEPT !.pos = @ + 1, !.tot = x] \in Locals
         /\ \A x \in Int, s \in Seq(Nat) : [v EXCEPT !.pos = @ + 1, !.tot = x, !.sum = s] \in Locals
<1>1. /\ v.file \in Names \cup {""} /\ v.in \in Nat /\ v.out \in Nat /\ v.pos \in Nat \ {0}
      /\ v.held \in Seq(Piece) /\ v.sum \in Seq(Nat) /\ v.tot \in Int /\ v.err \in BOOLEAN
      /\ v.st \in {"", "MAGIC0", "READ", "CRC", "LEN", "cat"}
  BY DEF Locals
<1>2. v.pos + 1 \in Nat \ {0}
  <2>1. v.pos \in Nat
    BY <1>1
  <2> QED BY <2>1
<1>3. <<>> \in Seq(Nat)
  BY EmptySeq
<1> QED BY <1>1, <1>2, <1>3 DEF Locals

LEMMA LocalsFail ==
  ASSUME NEW v \in Locals
  PROVE  [v EXCEPT !.tot = -1] \in Locals
<1> DEFINE m == -1
<1>1. m \in Int
  OBVIOUS
<1> HIDE DEF m
<1>2. [v EXCEPT !.tot = m] \in Locals
  BY <1>1, LocalsSet
<1> QED BY <1>2 DEF m

LEMMA NamesOf ==
  /\ \A n \in Plainly : n \in Names /\ Zipped[n] \in Names /\ Zipped[n] \notin Plainly
  /\ \A n : HasSuffix(n) => Unzipped(n) \in Plainly /\ n \notin Plainly
<1>1. \A n \in Plainly : n \in Names /\ Zipped[n] \in Names /\ Zipped[n] \notin Plainly
  BY DEF Zipped, Names, Plainly
<1> QED BY <1>1 DEF HasSuffix, Unzipped

LEMMA StepCName == ASSUME IInv, CName PROVE IInv'
<1>1. pc = "c_name" /\ pc \in Naming /\ UNCHANGED <<fs, env, armed, faults, owed, made, excused>>
  BY DEF CName, Naming
<1>2. /\ Files /\ Control /\ Pointer /\ Places /\ Kinds /\ Plains /\ w \in Locals /\ w.file \in Names
      /\ w.out = 0 /\ Fresh /\ w.in \in 1 .. used /\ pc # "interrupted"
  BY <1>1, NameFacts
<1>3. ~ scene.d
  BY <1>1, <1>2 DEF Places, Zipping
<1>4. /\ scene' = scene /\ dir' = dir /\ ino' = ino /\ used' = used /\ made' = made
      /\ (armed' <=> armed) /\ excused' = excused /\ others' = others
  BY <1>1 DEF fs, env
<1>5. CASE Lose /\ UNCHANGED buf
  BY <1>1, <1>2, <1>5, BackStep DEF fs, Lose, Sound
<1>6. CASE /\ ~ scene.c /\ w.file \in Plainly /\ buf' = Zipped[w.file] /\ Go("check")
           /\ UNCHANGED <<arg, live, w, exit>>
  <2>1. /\ w' \in Locals /\ w' = w /\ w'.file = w.file /\ w'.out = w.out /\ w'.in \in 1 .. used
        /\ pc' = "check" /\ buf' \in Names /\ buf' \notin Plainly
    BY <1>2, <1>6, NamesOf DEF Go
  <2>2. Fresh'
    BY <1>2, <1>6 DEF Fresh
  <2>3. pc' \in Naming /\ pc' \notin Zipping /\ pc' \notin Unzipping
    BY <2>1 DEF Naming, Zipping, Unzipping
  <2>4. Kinds'
    BY <1>1, <1>2, <1>3, <1>4, <1>6, <2>1 DEF Kinds, Naming
  <2> QED BY <1>1, <1>6, <2>1, <2>2, <2>3, <2>4, NameInv DEF Sound
<1>7. CASE scene.c /\ Go("z_init") /\ UNCHANGED <<arg, live, w, exit, buf>>
  <2>1. /\ w' = w /\ pc' = "z_init" /\ arg' = arg /\ buf' = buf /\ exit' = exit
        /\ (live' <=> live)
    BY <1>7 DEF Go
  <2>2. /\ pc' \notin Between /\ pc' \notin Opening /\ pc' \notin Naming /\ pc' \in Writing
        /\ pc' \notin Leaving /\ pc' \in Filling /\ pc' # "unlink_in" /\ pc' \in Working
        /\ pc' \notin Unzipping /\ pc' \notin ToFile
    BY <2>1 DEF Between, Opening, Naming, Writing, Filling, Leaving, Working, Unzipping, ToFile
  <2>3. /\ ~ live /\ (armed => buf \in Names) /\ arg \in DOMAIN scene.argv /\ made = {}
    BY <1>1, <1>2, <1>7 DEF Pointer, Places, Naming, Working
  <2>4. Control'
    <3>1. armed' \in BOOLEAN /\ live' \in BOOLEAN
      BY <1>1, <1>2, <1>7 DEF Control
    <3>2. exit' \in 0 .. 2 /\ faults' \in 0 .. MaxFaults /\ pc' \in Pcs
      BY <1>1, <1>2, <2>1 DEF Control, Pcs
    <3> QED BY <1>2, <1>4, <2>1, <3>1, <3>2 DEF Control
  <2>5. Pointer'
    <3>1. ~ live' /\ (armed' => buf' \in Names) /\ scene'.c
      BY <1>4, <1>7, <2>1, <2>3
    <3> QED BY <2>2, <3>1 DEF Pointer
  <2>6. Places'
    <3>1. Fresh'
      BY <1>2, <2>1 DEF Fresh
    <3> QED BY <1>2, <1>3, <1>4, <1>7, <2>1, <2>2, <2>3, <3>1 DEF Places
  <2>7. Kinds'
    BY <1>2, <1>3, <1>4, <1>7, <2>1, <2>2, <2>3 DEF Kinds
  <2>8. Contents' /\ Hidden'
    BY <1>4, <1>7 DEF Contents, Hidden
  <2>9. pc' \notin {"done", "interrupted", "unlink_in"} /\ w'.out = w.out
    BY <2>1
  <2>10. Overall'
    BY <1>1, <1>2, <2>9, StayStep
  <2> QED BY <2>4, <2>5, <2>6, <2>7, <2>8, <2>10 DEF IInv, Locally
<1> QED BY <1>5, <1>6, <1>7 DEF CName

(* What a decompression knows before it has an output. *)
LEMMA StepDCopyName == ASSUME IInv, DCopyName PROVE IInv'
<1>1. /\ pc = "d_copy" /\ pc \in Naming /\ pc' = "d_suffix" /\ buf' = w.file
      /\ UNCHANGED <<fs, env, arg, armed, live, w, exit, faults, owed, made, excused>>
  BY DEF DCopyName, Naming, Go
<1>2. /\ Kinds /\ Places /\ w \in Locals /\ w.file \in Names /\ w.out = 0 /\ Fresh
      /\ w.in \in 1 .. used
  BY <1>1, NameFacts
<1>3. scene.d /\ w.st = ""
  BY <1>1, <1>2 DEF Places, Kinds, Unzipping
<1>4. /\ w' \in Locals /\ w' = w /\ w'.file = w.file /\ w'.out = w.out /\ w'.in \in 1 .. used
      /\ buf' \in Names
  BY <1>1, <1>2
<1>5. Fresh'
  BY <1>1, <1>2 DEF Fresh
<1>6. pc' \in Naming /\ pc' \notin Zipping /\ pc' \notin ToFile
  BY <1>1 DEF Naming, Zipping, ToFile, Leaving
<1>7. scene' = scene
  BY <1>1 DEF env
<1>8. Kinds'
  <2>1. pc' \notin Leaving
    BY <1>1 DEF Leaving
  <2> QED BY <1>1, <1>3, <1>7, <2>1 DEF Kinds
<1> QED BY <1>1, <1>3, <1>4, <1>5, <1>6, <1>8, NameInv DEF Sound

LEMMA StepDSuffix == ASSUME IInv, DSuffix PROVE IInv'
<1>1. /\ pc = "d_suffix" /\ pc \in Naming
      /\ UNCHANGED <<fs, env, armed, faults, owed, made, excused>>
  BY DEF DSuffix, Naming
<1>2. /\ Kinds /\ Places /\ w \in Locals /\ w.file \in Names /\ w.out = 0 /\ Fresh
      /\ w.in \in 1 .. used /\ pc # "interrupted"
  BY <1>1, NameFacts
<1>3. scene.d /\ w.st = "" /\ buf \in Names
  BY <1>1, <1>2 DEF Places, Kinds, Unzipping
<1>4. CASE Lose /\ UNCHANGED buf
  BY <1>1, <1>2, <1>4, BackStep DEF fs, Lose, Sound
<1>5. CASE ~ (Lose /\ UNCHANGED buf)
  <2>1. /\ pc' = "d_magic" /\ UNCHANGED <<arg, live, w, exit>>
        /\ buf' = buf \/ (HasSuffix(w.file) /\ buf' = Unzipped(w.file))
    BY <1>5 DEF DSuffix, Go
  <2>2. buf' \in Names
    BY <1>3, <2>1, NamesOf
  <2>3. /\ w' \in Locals /\ w' = w /\ w'.file = w.file /\ w'.out = w.out /\ w'.in \in 1 .. used
    BY <1>2, <2>1
  <2>4. Fresh'
    BY <1>2, <2>1 DEF Fresh
  <2>5. pc' \in Naming /\ pc' \notin Zipping /\ pc' \notin ToFile /\ pc' \notin Leaving
    BY <2>1 DEF Naming, Zipping, ToFile, Leaving
  <2>6. scene' = scene
    BY <1>1 DEF env
  <2>7. Kinds'
    BY <1>3, <2>1, <2>5, <2>6 DEF Kinds
  <2> QED BY <1>1, <1>3, <2>1, <2>2, <2>3, <2>4, <2>5, <2>7, NameInv DEF Sound
<1> QED BY <1>4, <1>5

LEMMA StepDMagic == ASSUME IInv, DMagic PROVE IInv'
<1> DEFINE d == ino[w.in].data
           gz == d # <<>> /\ d[1] = Header
<1>1. /\ pc = "d_magic" /\ pc \in Naming
      /\ UNCHANGED <<fs, env, armed, faults, owed, made, excused>>
  BY DEF DMagic, Naming
<1>2. /\ Files /\ Control /\ Pointer /\ Kinds /\ Places /\ w \in Locals /\ w.file \in Names
      /\ w.out = 0 /\ Fresh /\ w.in \in 1 .. used /\ pc # "interrupted"
  BY <1>1, NameFacts
<1>3. scene.d /\ w.st = "" /\ buf \in Names
  BY <1>1, <1>2 DEF Places, Kinds, Unzipping
<1>4. /\ scene' = scene /\ dir' = dir /\ ino' = ino /\ used' = used /\ made' = made
      /\ (armed' <=> armed) /\ excused' = excused /\ others' = others
  BY <1>1 DEF fs, env
<1>5. CASE Return /\ UNCHANGED buf /\ (Warn \/ exit' = exit)
  BY <1>1, <1>2, <1>5, BackStep DEF fs, Sound
<1>6. CASE /\ d # <<>>
           /\ w' = [w EXCEPT !.st = IF gz THEN "MAGIC0" ELSE "cat"]
           /\ buf' = IF gz /\ scene.N /\ ino[w.in].name # "" THEN ino[w.in].name ELSE buf
           /\ Go(IF ~ scene.c THEN "d_links" ELSE IF gz THEN "inflate" ELSE "cat")
           /\ UNCHANGED <<arg, live, exit>>
  <2>1. w.in \in 0 .. MaxIno
    BY <1>2, OutputFacts
  <2>2. ino[w.in].name \in Names \cup {""}
    BY <1>2, <2>1 DEF Files, Inode
  <2>3. buf' \in Names
    BY <1>3, <1>6, <2>2
  <2> DEFINE x == IF gz THEN "MAGIC0" ELSE "cat"
  <2>4. x \in {"", "MAGIC0", "READ", "CRC", "LEN", "cat"} /\ x # ""
        /\ (x # "cat" => d[1].t = "H") /\ x \in {"MAGIC0", "cat"} /\ (gz <=> x # "cat")
    BY DEF Header
  <2>5. w' = [w EXCEPT !.st = x]
    BY <1>6
  <2> HIDE DEF x
  <2>6. w' \in Locals /\ w'.file = w.file /\ w'.in = w.in /\ w'.out = w.out /\ w'.st = x
        /\ w'.pos = w.pos /\ w'.held = w.held /\ w'.sum = w.sum /\ w'.tot = w.tot
        /\ w'.err = w.err
    <3>1. w' \in Locals
      BY <1>2, <2>4, <2>5, LocalsSet
    <3>2. w \in Locals
      BY <1>2
    <3> QED BY <2>5, <3>1, <3>2 DEF Locals
  <2>7. Fresh'
    BY <1>2, <2>6 DEF Fresh
  <2>8. Input' = d /\ d # <<>>
    BY <1>4, <1>6, <2>6 DEF Input
  <2>9. pc' = IF ~ scene.c THEN "d_links" ELSE IF gz THEN "inflate" ELSE "cat"
    BY <1>6 DEF Go
  <2> HIDE DEF d, gz
  <2>10. Kinds'
    <3>1. pc' \in {"d_links", "inflate", "cat"} /\ (pc' = "inflate" => x # "cat")
          /\ (pc' = "cat" => x = "cat")
      BY <2>4, <2>9
    <3>2. pc' \notin Opening \cup {"d_copy", "d_suffix", "d_magic"}
      BY <3>1 DEF Opening
    <3> QED BY <1>3, <1>4, <2>4, <2>6, <2>8, <3>1, <3>2 DEF Kinds
  <2>11. CASE ~ scene.c
    <3>1. pc' = "d_links"
      BY <2>9, <2>11
    <3>2. pc' \in Naming /\ pc' \notin Zipping
      BY <3>1 DEF Naming, Zipping
    <3>3. w'.in \in 1 .. used
      BY <1>2, <2>6
    <3> QED BY <1>1, <1>3, <1>6, <2>3, <2>6, <2>7, <2>10, <2>11, <3>2, <3>3, NameInv DEF Sound
  <2>12. CASE scene.c
    <3>1. pc' \in {"inflate", "cat"}
      BY <2>9, <2>12
    <3>2. /\ pc' \notin Between /\ pc' \notin Opening /\ pc' \notin Naming /\ pc' \in Writing
          /\ pc' \notin Leaving /\ pc' \in Filling /\ pc' \notin {"arm", "z_init"}
          /\ pc' # "unlink_in" /\ pc' \in Working /\ pc' \notin Zipping /\ pc' \notin ToFile
      BY <3>1 DEF Between, Opening, Naming, Writing, Filling, Leaving, Working, Zipping, ToFile
    <3>3. /\ ~ live /\ (armed => buf \in Names) /\ arg \in DOMAIN scene.argv /\ made = {}
      BY <1>1, <1>2, <2>12 DEF Pointer, Places, Naming, Working
    <3>4. Control'
      <4>1. armed' \in BOOLEAN /\ live' \in BOOLEAN
        BY <1>1, <1>2, <1>6 DEF Control
      <4>2. exit' \in 0 .. 2 /\ faults' \in 0 .. MaxFaults /\ pc' \in Pcs /\ arg' \in Nat \ {0}
        BY <1>1, <1>2, <1>6, <3>1 DEF Control, Pcs
      <4> QED BY <1>2, <1>4, <2>3, <2>6, <4>1, <4>2 DEF Control
    <3>5. Pointer'
      <4>1. ~ live' /\ (armed' => buf' \in Names) /\ scene'.c
        BY <1>4, <1>6, <2>3, <2>12, <3>3
      <4> QED BY <3>2, <4>1 DEF Pointer
    <3>6. Places'
      <4>1. arg' = arg /\ w'.in \in 1 .. used
        BY <1>2, <1>6, <2>6
      <4> QED BY <1>2, <1>3, <1>4, <2>6, <2>12, <3>2, <3>3, <4>1 DEF Places
    <3>7. Contents' /\ Hidden'
      BY <1>4, <2>12 DEF Contents, Hidden
    <3>8. pc' \notin {"done", "interrupted", "unlink_in"}
      BY <3>1
    <3>9. Overall'
      BY <1>1, <1>2, <2>6, <3>8, StayStep
    <3> QED BY <2>10, <3>4, <3>5, <3>6, <3>7, <3>9 DEF IInv, Locally
  <2> QED BY <2>11, <2>12
<1>7. \/ Return /\ UNCHANGED buf /\ (Warn \/ exit' = exit)
      \/ /\ d # <<>>
         /\ w' = [w EXCEPT !.st = IF gz THEN "MAGIC0" ELSE "cat"]
         /\ buf' = IF gz /\ scene.N /\ ino[w.in].name # "" THEN ino[w.in].name ELSE buf
         /\ Go(IF ~ scene.c THEN "d_links" ELSE IF gz THEN "inflate" ELSE "cat")
         /\ UNCHANGED <<arg, live, exit>>
  <2>1. /\ d = <<>> => Return /\ UNCHANGED buf /\ (Warn \/ exit' = exit)
        /\ d # <<>> /\ ~ gz /\ ~ scene.f => Lose /\ UNCHANGED buf
        /\ ~ (d = <<>>) /\ ~ (~ gz /\ ~ scene.f) =>
             /\ w' = [w EXCEPT !.st = IF gz THEN "MAGIC0" ELSE "cat"]
             /\ buf' = IF gz /\ scene.N /\ ino[w.in].name # "" THEN ino[w.in].name ELSE buf
             /\ Go(IF ~ scene.c THEN "d_links" ELSE IF gz THEN "inflate" ELSE "cat")
             /\ UNCHANGED <<arg, live, exit>>
    BY DEF DMagic
  <2> HIDE DEF d, gz
  <2> QED BY <2>1 DEF Lose
<1> QED BY <1>5, <1>6, <1>7

LEMMA StepDLinks == ASSUME IInv, DLinks PROVE IInv'
<1>1. /\ pc = "d_links" /\ pc \in Naming
      /\ UNCHANGED <<fs, env, buf, armed, faults, owed, made, excused>>
  BY DEF DLinks, Naming
<1>2. /\ Kinds /\ Places /\ w \in Locals /\ w.file \in Names /\ w.out = 0 /\ Fresh
      /\ w.in \in 1 .. used /\ pc # "interrupted"
  BY <1>1, NameFacts
<1>3. scene.d /\ ~ scene.c /\ buf \in Names
  BY <1>1, <1>2 DEF Places, Unzipping, ToFile
<1>4. CASE Lose
  BY <1>1, <1>2, <1>4, BackStep DEF fs, Lose, Sound
<1>5. CASE Go("check") /\ UNCHANGED <<arg, live, w, exit>>
  <2>1. /\ w' \in Locals /\ w' = w /\ w'.file = w.file /\ w'.out = w.out /\ w'.in \in 1 .. used
        /\ pc' = "check" /\ buf' \in Names
    BY <1>1, <1>2, <1>3, <1>5 DEF Go
  <2>2. Fresh'
    BY <1>2, <1>5 DEF Fresh
  <2>3. pc' \in Naming /\ pc' \notin Zipping
    BY <2>1 DEF Naming, Zipping
  <2>4. scene' = scene /\ Input' = Input
    BY <1>1, <2>1 DEF env, fs, Input
  <2>5. Input # <<>> /\ w.st # "" /\ w.st \in {"MAGIC0", "cat"}
        /\ (w.st # "cat" => Input[1].t = "H")
    BY <1>1, <1>2, <1>3 DEF Kinds, Working
  <2>6. Kinds'
    <3>1. pc' \notin Opening \cup {"d_copy", "d_suffix", "d_magic"} /\ pc' # "inflate" /\ pc' # "cat"
      BY <2>1 DEF Opening
    <3> QED BY <1>3, <2>1, <2>4, <2>5, <3>1 DEF Kinds
  <2> QED BY <1>1, <1>3, <1>5, <2>1, <2>2, <2>3, <2>6, NameInv DEF Sound
<1> QED BY <1>4, <1>5 DEF DLinks

(* What the invariant says while there is an output. *)
LEMMA WriteFacts ==
  ASSUME IInv, pc \in Writing
  PROVE  /\ Files /\ Control /\ Pointer /\ Places /\ Kinds /\ Plains /\ Contents /\ Hidden
         /\ w \in Locals /\ w.file \in Names /\ w.in \in 1 .. used /\ w.in # w.out
         /\ w.in \in 0 .. MaxIno /\ w.out \in 0 .. MaxIno /\ ino \in [0 .. MaxIno -> Inode]
         /\ Input \in Seq(Piece) /\ Output \in Seq(Piece) /\ pc # "interrupted"
         /\ ~ scene.c => Own /\ w.out # 0
         /\ scene.c => w.out = 0
         /\ ~ scene.d => IsPlain(Input)
         /\ scene.d /\ w.out # 0 => IsPlain(Output)
<1>1. /\ Files /\ Control /\ Pointer /\ Places /\ Kinds /\ Plains /\ Contents /\ Hidden
  BY DEF IInv, Locally, Overall
<1>2. pc \in Working /\ pc # "interrupted"
  BY DEF Working, Writing, Filling, Leaving
<1>3. w \in Locals /\ w.file \in Names /\ w.in \in 1 .. used /\ (~ scene.c => Own)
      /\ (scene.c => w.out = 0 /\ made = {})
  BY <1>1, <1>2 DEF Control, Places
<1>4. used \in 0 .. MaxIno /\ MaxIno \in Nat /\ w.out \in 0 .. used /\ made \subseteq 1 .. used
  BY <1>1, <1>2, OutputFacts DEF Files
<1>5. w.in \in 0 .. MaxIno /\ w.out \in 0 .. MaxIno
  BY <1>3, <1>4
<1>6. ino \in [0 .. MaxIno -> Inode]
  BY <1>1 DEF Files
<1>7. Input \in Seq(Piece) /\ Output \in Seq(Piece)
  BY <1>5, <1>6 DEF Inode, Input, Output
<1>8. ~ scene.c => w.out \in made /\ w.in < w.out /\ w.out # 0
  <2>1. ~ scene.c => w.out \in made /\ w.in < w.out
    BY <1>3 DEF Own
  <2> QED BY <1>4, <2>1
<1>9. w.in # w.out
  BY <1>3, <1>4, <1>8
<1>10. ASSUME ~ scene.d PROVE IsPlain(Input)
  <2>1. w.in \notin made
    <3>1. CASE scene.c
      BY <1>3, <3>1
    <3>2. CASE ~ scene.c
      BY <1>1, <1>10, <3>2 DEF Kinds
    <3> QED BY <3>1, <3>2
  <2> QED BY <1>1, <1>3, <1>10, <2>1 DEF Plains, Input
<1>11. scene.d /\ w.out # 0 => IsPlain(Output)
  BY <1>1, <1>3, <1>8 DEF Plains, Output
<1> QED BY <1>1, <1>2, <1>3, <1>5, <1>6, <1>7, <1>8, <1>9, <1>10, <1>11

LEMMA FillStay ==
  ASSUME IInv, pc \in Filling \ {"disarm"}, UNCHANGED <<fs, env, arg, buf, armed, live, made, owed>>,
         w' \in Locals, w'.file = w.file, w'.in = w.in, w'.out = w.out,
         pc' \in Filling \ {"z_init"},
         pc' \in Zipping => ~ scene.d, pc' \in Unzipping => scene.d, pc' \in ToFile => ~ scene.c,
         scene.d => /\ w'.st = w.st \/ {w'.st, w.st} \cap {"", "cat"} = {}
                    /\ pc' = "inflate" => w'.st # "cat"
                    /\ pc' = "cat" => w'.st = "cat",
         Warn \/ exit' = exit \/ exit' = 2, Sound \/ Fault,
         excused' = excused \/ excused' = excused \cup {"error"}, Contents'
  PROVE  IInv'
<1>1. pc \in Writing
  BY DEF Writing
<1>2. Control /\ Hidden
  BY <1>1, WriteFacts
<1>3. excused' \subseteq {"error", "stray"}
  BY <1>2 DEF Control
<1>4. dir' = dir /\ used' = used /\ ino' = ino /\ scene' = scene
  BY DEF fs, env
<1>5. Apart
  BY <1>4 DEF Apart
<1>6. (Control /\ Pointer /\ Places /\ Kinds)'
  BY <1>3, <1>4, <1>5, FillStep
<1>7. pc # "interrupted" /\ pc' \notin {"done", "interrupted", "unlink_in"}
  BY DEF Filling
<1>8. excused' = {} => excused = {}
  OBVIOUS
<1>9. Overall'
  BY <1>7, <1>8, StayStep
<1>10. Hidden'
  <2>1. pc \in (Writing \ Leaving) \ {"disarm"}
    BY DEF Writing, Filling, Leaving
  <2> QED BY <1>2, <1>4, <2>1 DEF Hidden
<1> QED BY <1>6, <1>9, <1>10 DEF IInv, Locally

(* The output becomes x. *)
Becomes(x) == ino' = [ino EXCEPT ![w.out].data = x]

LEMMA BecomesProp ==
  ASSUME IInv, pc \in Writing, NEW x \in Seq(Piece), Becomes(x)
  PROVE  /\ ino' \in [0 .. MaxIno -> Inode] /\ Apart
         /\ ino'[w.out].data = x /\ ino'[w.out].mode = ino[w.out].mode /\ ino'[w.in] = ino[w.in]
<1>1. /\ ino \in [0 .. MaxIno -> Inode] /\ w.out \in 0 .. MaxIno /\ w.in \in 0 .. MaxIno
      /\ w.in # w.out
  BY WriteFacts
<1>2. ino[w.out] \in Inode
  BY <1>1
<1> DEFINE y == [ino[w.out] EXCEPT !.data = x]
<1>3. y \in Inode /\ y.data = x /\ y.mode = ino[w.out].mode
  BY <1>2 DEF Inode
<1>4. ino' = [ino EXCEPT ![w.out] = y]
  BY DEF Becomes
<1> HIDE DEF y
<1>5. ino' \in [0 .. MaxIno -> Inode] /\ ino'[w.out] = y /\ ino'[w.in] = ino[w.in]
  BY <1>1, <1>3, <1>4
<1>6. Apart
  <2> SUFFICES ASSUME NEW i \in 1 .. MaxIno, i # w.out PROVE ino'[i] = ino[i]
    BY DEF Apart
  <2>1. i \in 0 .. MaxIno
    OBVIOUS
  <2> QED BY <1>1, <1>4, <2>1
<1> QED BY <1>3, <1>5, <1>6

LEMMA FillWrite ==
  ASSUME IInv, pc \in Filling \ {"disarm"},
         UNCHANGED <<dir, used, env, arg, buf, armed, live, made, owed, excused>>,
         ino' \in [0 .. MaxIno -> Inode], Apart, ino'[w.out].mode = ino[w.out].mode,
         scene.d /\ w.out # 0 => IsPlain(ino'[w.out].data),
         w' \in Locals, w'.file = w.file, w'.in = w.in, w'.out = w.out, w'.st = w.st,
         pc' \in Filling \ {"z_init"},
         pc' \in Zipping => ~ scene.d, pc' \in Unzipping => scene.d, pc' \in ToFile => ~ scene.c,
         scene.d => /\ pc' = "inflate" => w'.st # "cat"
                    /\ pc' = "cat" => w'.st = "cat",
         Warn \/ exit' = exit \/ exit' = 2, Sound \/ Fault, Contents'
  PROVE  IInv'
<1>1. pc \in Writing
  BY DEF Writing
<1>2. Control /\ Hidden /\ (w.out # 0 => ~ scene.c)
  BY <1>1, WriteFacts
<1>4. excused' \subseteq {"error", "stray"}
  BY <1>2 DEF Control
<1>5. (Control /\ Pointer /\ Places /\ Kinds)'
  BY <1>4, FillStep
<1>6. pc # "interrupted" /\ pc' \notin {"done", "interrupted", "unlink_in"}
  BY DEF Filling
<1>7. ~ scene.c => ino[w.out].mode = "private"
  <2>1. pc \in (Writing \ Leaving) \ {"disarm"}
    BY DEF Writing, Filling, Leaving
  <2> QED BY <1>2, <2>1 DEF Hidden
<1>8. Overall'
  BY <1>2, <1>6, <1>7, WriteStep
<1>9. Hidden'
  BY <1>7 DEF Hidden, env
<1> QED BY <1>5, <1>8, <1>9 DEF IInv, Locally

LEMMA StepArm == ASSUME IInv, Arm PROVE IInv'
<1>1. /\ pc = "arm" /\ pc \in Writing
      /\ pc' = IF ~ scene.d THEN "z_init" ELSE IF w.st = "cat" THEN "cat" ELSE "inflate"
      /\ armed' /\ live' /\ armed' \in BOOLEAN /\ live' \in BOOLEAN
      /\ UNCHANGED <<fs, env, arg, buf, w, exit, faults, owed, made, excused>>
  BY DEF Arm, Writing, Go
<1>2. /\ Files /\ Control /\ Places /\ Kinds /\ Contents /\ Hidden /\ w \in Locals
      /\ w.file \in Names /\ w.in \in 1 .. used /\ pc # "interrupted" /\ Input \in Seq(Piece)
      /\ (~ scene.c => Own)
  BY <1>1, WriteFacts
<1>3. ~ scene.c /\ Fresh /\ arg \in DOMAIN scene.argv /\ Output = <<>>
  BY <1>1, <1>2 DEF Places, ToFile, Working, Contents
<1>4. /\ scene' = scene /\ dir' = dir /\ ino' = ino /\ used' = used /\ made' = made
      /\ excused' = excused /\ others' = others /\ w' = w /\ buf' = buf /\ arg' = arg
      /\ exit' = exit /\ faults' = faults
  BY <1>1 DEF fs, env
<1>5. /\ pc' \notin Between /\ pc' \notin Opening /\ pc' \notin Naming /\ pc' \in Writing
      /\ pc' \notin Leaving /\ pc' \in Filling /\ pc' # "unlink_in" /\ pc' \in Working
      /\ pc' \notin ToFile /\ (pc' \in Zipping => ~ scene.d) /\ (pc' \in Unzipping => scene.d)
      /\ pc' \in Pcs /\ pc' \notin {"done", "interrupted", "unlink_in"}
  BY <1>1 DEF Between, Opening, Naming, Writing, Filling, Leaving, Working, Zipping, Unzipping,
       ToFile, Pcs
<1>6. Control'
  BY <1>1, <1>2, <1>4, <1>5 DEF Control
<1>7. Pointer'
  <2>1. buf' \in Names /\ ~ scene'.c
    BY <1>2, <1>3, <1>4 DEF Own
  <2> QED BY <1>1, <1>5, <2>1 DEF Pointer
<1>8. Places'
  <2>1. Own' /\ Fresh'
    BY <1>2, <1>3, <1>4 DEF Own, Fresh
  <2> QED BY <1>2, <1>3, <1>4, <1>5, <2>1 DEF Places
<1>9. Input' = Input /\ Output' = Output
  BY <1>4 DEF Input, Output
<1>10. ~ scene.d => w.file \in Plainly /\ w.in \notin made
  BY <1>1, <1>2, <1>3 DEF Kinds
<1>11. scene.d => /\ Input # <<>> /\ w.st # "" /\ w.st \in {"MAGIC0", "cat"}
                  /\ w.st # "cat" => Input[1].t = "H"
  BY <1>1, <1>2 DEF Kinds, Working
<1>12. Kinds'
  <2>1. /\ pc' = "inflate" => w.st # "cat"
        /\ pc' = "cat" => w.st = "cat"
        /\ pc' \notin {"d_links", "check", "unlink_out", "create", "arm"}
        /\ pc' \notin Opening \cup {"d_copy", "d_suffix", "d_magic"}
    BY <1>1 DEF Opening
  <2> QED BY <1>4, <1>5, <1>9, <1>10, <1>11, <2>1 DEF Kinds
<1>13. Contents' /\ Hidden'
  <2>1. Len(Input) \in Nat /\ Len(Output) = 0
    BY <1>2, <1>3, LenProperties, EmptySeq
  <2>2. w.pos = 1 /\ w.tot = 0 /\ ~ w.err
    BY <1>3 DEF Fresh
  <2>3. w.pos - 1 = 0 /\ w.pos <= Len(Input) + 1
    BY <2>1, <2>2
  <2>4. scene.d /\ pc' = "inflate" => Inflated'
    <3>1. SUFFICES ASSUME scene.d, pc' = "inflate" PROVE Inflated'
      OBVIOUS
    <3>2. w.st = "MAGIC0"
      BY <1>1, <1>11, <3>1
    <3>3. Blocks(Input, w.pos - 1) = Output /\ Members(Input, w.pos - 1)
      BY <1>3, <2>3, BlocksProp DEF Members
    <3>4. w.tot = Len(Output)
      BY <2>1, <2>2
    <3> QED BY <1>4, <1>9, <2>3, <3>2, <3>3, <3>4 DEF Inflated
  <2>5. Hidden'
    BY <1>1, <1>2, <1>4 DEF Hidden, Writing, Leaving
  <2>6. pc' = "cat" => w'.tot = w'.pos - 1 /\ ~ w'.err /\ w'.pos <= Len(Input') + 1
    BY <1>4, <1>9, <2>2, <2>3
  <2>7. pc' \in {"z_init", "inflate", "cat"} /\ (pc' = "inflate" => scene.d)
    BY <1>1
  <2> QED BY <1>3, <1>9, <2>4, <2>5, <2>6, <2>7, <1>5 DEF Contents
<1>14. w'.out = w.out
  BY <1>4
<1>15. Overall'
  BY <1>1, <1>2, <1>4, <1>5, <1>14, StayStep
<1> QED BY <1>6, <1>7, <1>8, <1>12, <1>13, <1>15 DEF IInv, Locally

(* write_retry. *)
LEMMA WroteProp ==
  ASSUME IInv, pc \in Writing, NEW s \in Seq(Piece), Wrote(s)
  PROVE  /\ Becomes(Output \o s) /\ Output \o s \in Seq(Piece) /\ Sound
<1>1. /\ ino \in [0 .. MaxIno -> Inode] /\ w.out \in 0 .. MaxIno /\ Output \in Seq(Piece)
  BY WriteFacts
<1>2. Becomes(Output \o s)
  BY <1>1 DEF Wrote, Becomes, Output
<1> QED BY <1>1, <1>2, ConcatLen DEF Wrote

LEMMA WroteSomeProp ==
  ASSUME IInv, pc \in Writing, NEW s \in Seq(Piece), WroteSome(s)
  PROVE  /\ Fault
         /\ \E k \in 0 .. (Len(s) - 1) : /\ Becomes(Output \o SubSeq(s, 1, k))
                                         /\ Output \o SubSeq(s, 1, k) \in Seq(Piece)
<1>1. /\ ino \in [0 .. MaxIno -> Inode] /\ w.out \in 0 .. MaxIno /\ Output \in Seq(Piece)
  BY WriteFacts
<1>2. Fault
  BY DEF WroteSome
<1>3. PICK k \in 0 .. (Len(s) - 1) :
         ino' = [ino EXCEPT ![w.out].data = @ \o SubSeq(s, 1, k)]
  BY DEF WroteSome
<1>4. SubSeq(s, 1, k) \in Seq(Piece)
  <2>1. Len(s) \in Nat
    BY LenProperties
  <2>2. \A i \in 1 .. k : s[i] \in Piece
    BY <2>1, ElementOfSeq
  <2> QED BY <2>2, SubSeqProperties
<1>5. Becomes(Output \o SubSeq(s, 1, k))
  BY <1>1, <1>3 DEF Becomes, Output
<1>6. Output \o SubSeq(s, 1, k) \in Seq(Piece)
  BY <1>1, <1>4, ConcatLen
<1> QED BY <1>2, <1>5, <1>6

LEMMA EmptyPrefix ==
  ASSUME NEW d \in Seq(Piece)
  PROVE  Values(SubSeq(d, 1, 0)) = <<>> /\ SubSeq(d, 1, 0) = <<>> /\ IsPlain(<<>>)
<1>1. SubSeq(d, 1, 0) = <<>>
  BY SubSeqEmpty
<1>2. <<>> \in Seq(Piece) /\ Len(<<>>) = 0 /\ IsPlain(<<>>)
  BY EmptySeq DEF IsPlain
<1>3. Values(<<>>) \in Seq(Nat) /\ Len(Values(<<>>)) = 0
  BY <1>2, ValuesType
<1> QED BY <1>1, <1>2, <1>3, EmptySeq

(* A compression, and where it goes. *)
LEMMA ZipFacts ==
  ASSUME IInv, pc \in {"z_init", "deflate", "finish", "trailer", "c_size"}
  PROVE  /\ pc \in Filling \ {"disarm"} /\ pc \in Writing /\ ~ scene.d
         /\ Control /\ Contents /\ w \in Locals /\ Input \in Seq(Piece) /\ Output \in Seq(Piece)
         /\ IsPlain(Input) /\ pc # "interrupted"
         /\ {"z_init", "deflate", "finish", "trailer", "c_size", "bad", "modes"} \subseteq Filling
         /\ {"z_init", "deflate", "finish", "trailer", "c_size", "bad", "modes"} \cap Unzipping = {}
         /\ {"z_init", "deflate", "finish", "trailer", "c_size"} \cap ToFile = {}
<1>1. pc \in Filling \ {"disarm"} /\ pc \in Writing /\ pc \in Zipping
  BY DEF Filling, Writing, Zipping
<1>2. ~ scene.d
  BY <1>1, WriteFacts DEF Places
<1>3. /\ Control /\ Contents /\ w \in Locals /\ Input \in Seq(Piece) /\ Output \in Seq(Piece)
      /\ IsPlain(Input) /\ pc # "interrupted"
  BY <1>1, <1>2, WriteFacts
<1>4. /\ {"z_init", "deflate", "finish", "trailer", "c_size", "bad", "modes"} \subseteq Filling
      /\ {"z_init", "deflate", "finish", "trailer", "c_size", "bad", "modes"} \cap Unzipping = {}
      /\ {"z_init", "deflate", "finish", "trailer", "c_size"} \cap ToFile = {}
  BY DEF Filling, Unzipping, ToFile, Leaving
<1> QED BY <1>1, <1>2, <1>3, <1>4

LEMMA StepDeflateInit == ASSUME IInv, DeflateInit PROVE IInv'
<1>1. /\ pc = "z_init"
      /\ ino' = [ino EXCEPT ![w.out].name = IF scene.n \/ w.out = Stdout THEN @ ELSE w.file]
      /\ UNCHANGED <<dir, used, env, arg, buf, armed, live, owed, made, excused>>
  BY DEF DeflateInit
<1>2. /\ pc \in Filling \ {"disarm"} /\ pc \in Writing /\ ~ scene.d /\ Control /\ Contents
      /\ w \in Locals /\ Input \in Seq(Piece) /\ Output \in Seq(Piece) /\ IsPlain(Input)
      /\ pc # "interrupted"
  BY <1>1, ZipFacts
<1>3. Fresh
  BY <1>1, <1>2, WriteFacts DEF Places
<1>4. /\ ino' \in [0 .. MaxIno -> Inode] /\ Apart /\ ino'[w.in] = ino[w.in]
      /\ ino'[w.out].data = ino[w.out].data /\ ino'[w.out].mode = ino[w.out].mode
  <2>1. /\ ino \in [0 .. MaxIno -> Inode] /\ w.out \in 0 .. MaxIno /\ w.in \in 0 .. MaxIno
        /\ w.in # w.out /\ w.file \in Names
    BY <1>2, WriteFacts
  <2> DEFINE n == IF scene.n \/ w.out = Stdout THEN ino[w.out].name ELSE w.file
             y == [ino[w.out] EXCEPT !.name = n]
  <2>2. ino[w.out] \in Inode
    BY <2>1
  <2>3. n \in Names \cup {""}
    BY <2>1, <2>2 DEF Inode
  <2>4. ino' = [ino EXCEPT ![w.out] = y]
    BY <1>1, <2>1
  <2> HIDE DEF n
  <2>5. y \in Inode /\ y.data = ino[w.out].data /\ y.mode = ino[w.out].mode
    BY <2>2, <2>3 DEF Inode
  <2> HIDE DEF y
  <2>6. ino' \in [0 .. MaxIno -> Inode] /\ ino'[w.out] = y /\ ino'[w.in] = ino[w.in]
    BY <2>1, <2>4, <2>5
  <2>7. Apart
    <3> SUFFICES ASSUME NEW i \in 1 .. MaxIno, i # w.out PROVE ino'[i] = ino[i]
      BY DEF Apart
    <3>1. i \in 0 .. MaxIno
      OBVIOUS
    <3> QED BY <2>1, <2>4, <3>1
  <2> QED BY <2>5, <2>6, <2>7
<1>5. scene' = scene
  BY <1>1 DEF env
<1>6. CASE w' = [w EXCEPT !.held = <<Header>>] /\ Go("deflate") /\ Sound /\ UNCHANGED exit
  <2>1. <<Header>> \in Seq(Piece) /\ pc' = "deflate"
    BY <1>6, PieceFacts DEF Go
  <2>2. w' \in Locals /\ w'.file = w.file /\ w'.in = w.in /\ w'.out = w.out /\ w'.st = w.st
        /\ w'.pos = w.pos /\ w'.held = <<Header>> /\ w'.sum = w.sum /\ w'.tot = w.tot
        /\ w'.err = w.err
    <3>1. w \in Locals
      BY <1>2
    <3>2. w' \in Locals
      BY <1>6, <2>1, <3>1, LocalsSet
    <3>3. w' = [w EXCEPT !.held = <<Header>>]
      BY <1>6
    <3> QED BY <3>1, <3>2, <3>3 DEF Locals
  <2>3. Input' = Input /\ Output' = Output
    BY <1>4, <2>2 DEF Input, Output
  <2>4. ~ scene.c => Deflated'
    <3> SUFFICES ASSUME ~ scene.c PROVE Deflated'
      OBVIOUS
    <3>1. Output = <<>>
      BY <1>1, <1>2 DEF Contents
    <3>2. Len(Input) \in Nat /\ Len(Output) = 0
      BY <1>2, <3>1, LenProperties, EmptySeq
    <3>3. w.pos = 1 /\ w.sum = <<>> /\ w.tot = 0 /\ ~ w.err
      BY <1>3 DEF Fresh
    <3>4. w.pos <= Len(Input) + 1 /\ w.pos - 1 = 0
      BY <3>2, <3>3
    <3>5. w.sum = Values(SubSeq(Input, 1, w.pos - 1))
      BY <1>2, <3>3, <3>4, EmptyPrefix
    <3>6. Output \o <<Header>> = <<Header>> \o SubSeq(Input, 1, w.pos - 1)
      <4>1. SubSeq(Input, 1, w.pos - 1) = <<>>
        BY <1>2, <3>4, EmptyPrefix
      <4> QED BY <2>1, <3>1, <4>1, ConcatLen
    <3> QED BY <2>2, <2>3, <3>2, <3>3, <3>4, <3>5, <3>6 DEF Deflated
  <2>5. Contents'
    BY <1>5, <2>1, <2>4 DEF Contents, Leaving
  <2>6. pc' \in Filling \ {"z_init"} /\ pc' \notin Unzipping /\ pc' \notin ToFile
    BY <2>1 DEF Filling, Unzipping, ToFile, Leaving
  <2> QED BY <1>1, <1>2, <1>4, <1>6, <2>2, <2>5, <2>6, FillWrite
<1>7. CASE w' = [w EXCEPT !.err = TRUE] /\ Go("c_size") /\ Fault /\ Warn
  <2>1. pc' = "c_size"
    BY <1>7 DEF Go
  <2>2. w' \in Locals /\ w'.file = w.file /\ w'.in = w.in /\ w'.out = w.out /\ w'.st = w.st
        /\ w'.err
    <3>1. w \in Locals
      BY <1>2
    <3>2. w' \in Locals
      BY <1>7, <3>1, LocalsSet
    <3> QED BY <1>7, <3>1, <3>2 DEF Locals
  <2>3. Contents'
    BY <2>1, <2>2 DEF Contents, Leaving
  <2>4. pc' \in Filling \ {"z_init"} /\ pc' \notin Unzipping /\ pc' \notin ToFile
    BY <2>1 DEF Filling, Unzipping, ToFile, Leaving
  <2> QED BY <1>1, <1>2, <1>4, <1>7, <2>2, <2>3, <2>4, FillWrite
<1> QED BY <1>6, <1>7 DEF DeflateInit

(* A compression goes on, or ends with an error or with all of it. *)
LEMMA ZipStep ==
  ASSUME IInv, pc \in {"z_init", "deflate", "finish", "trailer", "c_size"},
         UNCHANGED <<dir, used, env, arg, buf, armed, live, made, owed, excused>>,
         ino' \in [0 .. MaxIno -> Inode], Apart, ino'[w.out].mode = ino[w.out].mode,
         w' \in Locals, w'.file = w.file, w'.in = w.in, w'.out = w.out, w'.st = w.st,
         pc' \in {"deflate", "finish", "trailer", "c_size"},
         Warn \/ exit' = exit \/ exit' = 2, Sound \/ Fault,
         ~ scene.c /\ pc' # "c_size" => /\ Deflated'
                                        /\ pc' # "deflate" => w'.pos = Len(Input') + 1
                                        /\ pc' = "trailer" => w'.held = <<>>,
         ~ scene.c /\ pc' = "c_size" => \/ w'.err \/ w'.tot = -1
                                        \/ /\ w'.tot = Len(Output')
                                           /\ Output' = Packed(Values(Input'))
  PROVE  IInv'
<1>1. pc \in Filling \ {"disarm"} /\ ~ scene.d
  BY ZipFacts
<1>2. pc' \in Filling \ {"z_init"} /\ pc' \notin Unzipping /\ pc' \notin ToFile
  BY DEF Filling, Unzipping, ToFile, Leaving
<1>3. scene' = scene
  BY DEF env
<1>4. Contents'
  BY <1>3 DEF Contents, Leaving
<1> QED BY <1>1, <1>2, <1>4, FillWrite

LEMMA StepDeflateFlush == ASSUME IInv, DeflateFlush PROVE IInv'
<1>1. /\ pc = "deflate"
      /\ UNCHANGED <<dir, used, env, arg, buf, armed, live, owed, made, excused>>
  BY DEF DeflateFlush
<1>2. /\ pc \in Writing /\ Contents /\ w \in Locals /\ Input \in Seq(Piece) /\ Output \in Seq(Piece)
  BY <1>1, ZipFacts
<1>3. /\ w.held \in Seq(Piece) /\ w.tot \in Int /\ Len(w.held) \in Nat
  BY <1>2, LocalsSet, LenProperties
<1>4. CASE /\ Wrote(w.held) /\ w' = [w EXCEPT !.held = <<>>, !.tot = @ + Len(w.held)]
           /\ UNCHANGED <<pc, exit>>
  <2>1. Becomes(Output \o w.held) /\ Output \o w.held \in Seq(Piece) /\ Sound
    BY <1>2, <1>3, <1>4, WroteProp
  <2>2. /\ ino' \in [0 .. MaxIno -> Inode] /\ Apart
        /\ ino'[w.out].data = Output \o w.held /\ ino'[w.out].mode = ino[w.out].mode
        /\ ino'[w.in] = ino[w.in]
    BY <1>2, <2>1, BecomesProp
  <2> DEFINE n == w.tot + Len(w.held)
  <2>3. n \in Int /\ n = w.tot + Len(w.held) /\ w' = [w EXCEPT !.held = <<>>, !.tot = n]
    BY <1>3, <1>4
  <2> HIDE DEF n
  <2>4. w' \in Locals /\ w'.file = w.file /\ w'.in = w.in /\ w'.out = w.out /\ w'.st = w.st
        /\ w'.pos = w.pos /\ w'.held = <<>> /\ w'.sum = w.sum /\ w'.tot = n
        /\ w'.err = w.err
    <3>1. w \in Locals
      BY <1>2
    <3>2. <<>> \in Seq(Piece)
      BY EmptySeq
    <3>3. w' = [w EXCEPT !.held = <<>>, !.tot = n]
      BY <2>3
    <3>4. w' \in Locals
      <4>1. n \in Int
        BY <2>3
      <4>2. [w EXCEPT !.held = <<>>, !.tot = n] \in Locals
        BY <3>1, <3>2, <4>1, LocalsSet
      <4> QED BY <3>3, <4>2
    <3> QED BY <3>1, <3>3, <3>4 DEF Locals
  <2>5. Input' = Input /\ Output' = Output \o w.held
    BY <2>2, <2>4 DEF Input, Output
  <2>6. ~ scene.c => Deflated'
    <3> SUFFICES ASSUME ~ scene.c PROVE Deflated'
      OBVIOUS
    <3>1. Deflated
      BY <1>1, <1>2 DEF Contents
    <3>2. Output' \o <<>> = Output \o w.held
      BY <2>1, <2>5, ConcatLen
    <3>3. Len(Output') = Len(Output) + Len(w.held) /\ Len(Output) \in Nat
      BY <1>2, <1>3, <2>5, ConcatLen
    <3>4. w'.tot = Len(Output')
      BY <2>3, <2>4, <3>1, <3>3 DEF Deflated
    <3> QED BY <2>4, <2>5, <3>1, <3>2, <3>4 DEF Deflated
  <2>7. pc' = "deflate" /\ exit' = exit
    BY <1>1, <1>4
  <2> QED BY <1>1, <2>1, <2>2, <2>4, <2>6, <2>7, ZipStep
<1>5. CASE WroteSome(w.held) /\ w' = [w EXCEPT !.tot = -1] /\ Go("c_size") /\ Warn
  <2>1. PICK k \in 0 .. (Len(w.held) - 1) : /\ Becomes(Output \o SubSeq(w.held, 1, k))
                                            /\ Output \o SubSeq(w.held, 1, k) \in Seq(Piece)
    BY <1>2, <1>3, <1>5, WroteSomeProp
  <2>2. Fault
    BY <1>2, <1>3, <1>5, WroteSomeProp
  <2>3. /\ ino' \in [0 .. MaxIno -> Inode] /\ Apart /\ ino'[w.out].mode = ino[w.out].mode
    BY <1>2, <2>1, BecomesProp
  <2>4. w' \in Locals /\ w'.file = w.file /\ w'.in = w.in /\ w'.out = w.out /\ w'.st = w.st
        /\ w'.tot = -1
    <3>1. w \in Locals
      BY <1>2
    <3>2. w' = [w EXCEPT !.tot = -1]
      BY <1>5
    <3>3. w' \in Locals
      BY <3>1, <3>2, LocalsFail
    <3> QED BY <3>1, <3>2, <3>3 DEF Locals
  <2>5. pc' = "c_size"
    BY <1>5 DEF Go
  <2> QED BY <1>1, <1>5, <2>2, <2>3, <2>4, <2>5, ZipStep
<1> QED BY <1>4, <1>5 DEF DeflateFlush

(* One more block is taken in. *)
LEMMA DeflatedMore ==
  ASSUME IInv, Deflated, pc \in Writing, ~ scene.d, w.pos <= Len(Input),
         w'.pos = w.pos + 1, w'.held = Append(w.held, Input[w.pos]),
         w'.sum = Append(w.sum, Input[w.pos].v[1]), w'.tot = w.tot, w'.err = w.err,
         Input' = Input, Output' = Output
  PROVE  Deflated'
<1>1. Input \in Seq(Piece) /\ Output \in Seq(Piece) /\ IsPlain(Input) /\ w \in Locals
  BY WriteFacts
<1>2. w.pos \in Nat \ {0} /\ Len(Input) \in Nat /\ w.held \in Seq(Piece)
  BY <1>1, LocalsSet, LenProperties
<1> DEFINE k == w.pos
<1>3. k \in 1 .. Len(Input)
  BY <1>2
<1>4. w.sum = Values(SubSeq(Input, 1, k - 1))
  BY DEF Deflated
<1>5. Output \o Append(w.held, Input[k]) = <<Header>> \o SubSeq(Input, 1, k)
  <2> DEFINE o == Output
             h == w.held
             d == Input
  <2>1. o \o h = <<Header>> \o SubSeq(d, 1, k - 1)
    BY DEF Deflated
  <2>2. o \in Seq(Piece) /\ h \in Seq(Piece) /\ d \in Seq(Piece) /\ k \in 1 .. Len(d)
    BY <1>1, <1>2, <1>3
  <2> HIDE DEF o, h, d, k
  <2>3. o \o Append(h, d[k]) = <<Header>> \o SubSeq(d, 1, k)
    BY <2>1, <2>2, TakeMore
  <2> QED BY <2>3 DEF o, h, d, k
<1>6. Append(w.sum, Input[k].v[1]) = Values(SubSeq(Input, 1, k))
  BY <1>1, <1>3, <1>4, ValuesMore
<1>7. w'.pos - 1 = k /\ w'.pos <= Len(Input) + 1
  BY <1>2
<1>8. w'.tot = Len(Output') /\ ~ w'.err
  BY DEF Deflated
<1> QED BY <1>5, <1>6, <1>7, <1>8 DEF Deflated

LEMMA StepDeflateRead == ASSUME IInv, DeflateRead PROVE IInv'
<1>1. /\ pc = "deflate"
      /\ UNCHANGED <<fs, env, arg, buf, armed, live, owed, made, excused>>
  BY DEF DeflateRead
<1>2. /\ pc \in Writing /\ Contents /\ w \in Locals /\ Input \in Seq(Piece) /\ Output \in Seq(Piece)
      /\ IsPlain(Input) /\ ~ scene.d
  BY <1>1, ZipFacts
<1>3. /\ w.held \in Seq(Piece) /\ w.sum \in Seq(Nat) /\ w.pos \in Nat \ {0} /\ Len(Input) \in Nat
  BY <1>2, LocalsSet, LenProperties
<1>4. /\ ino' \in [0 .. MaxIno -> Inode] /\ Apart /\ ino'[w.out].mode = ino[w.out].mode
      /\ dir' = dir /\ used' = used /\ ino' = ino
  BY <1>1, <1>2, WriteFacts DEF fs, Apart
<1>5. CASE /\ w.pos <= Len(Input)
           /\ w' = [w EXCEPT !.pos = @ + 1, !.held = Append(@, Input[w.pos]),
                             !.sum = Append(@, Input[w.pos].v[1])]
           /\ Sound /\ UNCHANGED <<pc, exit>>
  <2>1. w.pos \in 1 .. Len(Input)
    BY <1>3, <1>5
  <2>2. Input[w.pos] \in Piece /\ Input[w.pos].t = "B"
    <3>1. DOMAIN Input = 1 .. Len(Input)
      BY <1>2, LenProperties
    <3> QED BY <1>2, <2>1, <3>1, ElementOfSeq DEF IsPlain
  <2>3. Input[w.pos].v[1] \in Nat
    BY <2>2, PieceFacts
  <2> DEFINE h == Append(w.held, Input[w.pos])
             s == Append(w.sum, Input[w.pos].v[1])
  <2>4. h \in Seq(Piece) /\ s \in Seq(Nat)
    BY <1>3, <2>2, <2>3, AppendProperties
  <2>5. w' = [w EXCEPT !.pos = @ + 1, !.held = h, !.sum = s]
    BY <1>5
  <2>6. w'.held = h /\ w'.sum = s /\ h = Append(w.held, Input[w.pos])
        /\ s = Append(w.sum, Input[w.pos].v[1])
        /\ w' \in Locals /\ w'.file = w.file /\ w'.in = w.in /\ w'.out = w.out /\ w'.st = w.st
        /\ w'.pos = w.pos + 1 /\ w'.tot = w.tot /\ w'.err = w.err
    <3> HIDE DEF h, s
    <3>1. w \in Locals
      BY <1>2
    <3>2. w' \in Locals
      BY <2>4, <2>5, <3>1, LocalsSet
    <3>3. w'.held = h /\ w'.sum = s /\ w'.file = w.file /\ w'.in = w.in /\ w'.out = w.out
          /\ w'.st = w.st /\ w'.pos = w.pos + 1 /\ w'.tot = w.tot /\ w'.err = w.err
      BY <2>5, <3>1, <3>2 DEF Locals
    <3> USE DEF h, s
    <3> QED BY <3>2, <3>3
  <2> HIDE DEF h, s
  <2>7. Input' = Input /\ Output' = Output
    BY <1>4, <2>6 DEF Input, Output
  <2>8. ~ scene.c => Deflated'
    <3>1. ~ scene.c => Deflated
      BY <1>1, <1>2 DEF Contents
    <3> QED BY <1>2, <1>5, <2>6, <2>7, <3>1, DeflatedMore
  <2>9. pc' = "deflate" /\ exit' = exit /\ Sound
    BY <1>1, <1>5
  <2> QED BY <1>1, <1>4, <2>6, <2>8, <2>9, ZipStep
<1>6. CASE w.pos > Len(Input) /\ Go("finish") /\ Sound /\ UNCHANGED <<w, exit>>
  <2>1. pc' = "finish" /\ w' = w
    BY <1>6 DEF Go
  <2>2. Input' = Input /\ Output' = Output
    BY <1>4, <2>1 DEF Input, Output
  <2>3. ~ scene.c => Deflated' /\ w'.pos = Len(Input') + 1
    <3> SUFFICES ASSUME ~ scene.c PROVE Deflated' /\ w'.pos = Len(Input') + 1
      OBVIOUS
    <3>1. Deflated
      BY <1>1, <1>2 DEF Contents
    <3>2. w.pos = Len(Input) + 1
      <4>1. w.pos <= Len(Input) + 1
        BY <3>1 DEF Deflated
      <4> QED BY <1>3, <1>6, <4>1
    <3> QED BY <2>1, <2>2, <3>1, <3>2 DEF Deflated
  <2> QED BY <1>1, <1>2, <1>4, <1>6, <2>1, <2>3, ZipStep
<1>7. CASE w' = [w EXCEPT !.err = TRUE] /\ Go("c_size") /\ Fault /\ Warn
  <2>1. pc' = "c_size"
    BY <1>7 DEF Go
  <2>2. w' \in Locals /\ w'.file = w.file /\ w'.in = w.in /\ w'.out = w.out /\ w'.st = w.st
        /\ w'.err
    <3>1. w \in Locals
      BY <1>2
    <3>2. w' \in Locals
      BY <1>7, <3>1, LocalsSet
    <3>3. w' = [w EXCEPT !.err = TRUE]
      BY <1>7
    <3> QED BY <3>1, <3>2, <3>3 DEF Locals
  <2> QED BY <1>1, <1>4, <1>7, <2>1, <2>2, ZipStep
<1> QED BY <1>5, <1>6, <1>7 DEF DeflateRead, Input

LEMMA StepDeflateFinish == ASSUME IInv, DeflateFinish PROVE IInv'
<1>1. /\ pc = "finish"
      /\ UNCHANGED <<dir, used, env, arg, buf, armed, live, owed, made, excused>>
  BY DEF DeflateFinish
<1>2. /\ pc \in Writing /\ Contents /\ w \in Locals /\ Input \in Seq(Piece) /\ Output \in Seq(Piece)
  BY <1>1, ZipFacts
<1>3. /\ w.held \in Seq(Piece) /\ w.tot \in Int /\ Len(w.held) \in Nat
  BY <1>2, LocalsSet, LenProperties
<1>4. CASE /\ Wrote(w.held) /\ w' = [w EXCEPT !.held = <<>>, !.tot = @ + Len(w.held)]
           /\ Go("trailer") /\ UNCHANGED exit
  <2>1. Becomes(Output \o w.held) /\ Output \o w.held \in Seq(Piece) /\ Sound
    BY <1>2, <1>3, <1>4, WroteProp
  <2>2. /\ ino' \in [0 .. MaxIno -> Inode] /\ Apart
        /\ ino'[w.out].data = Output \o w.held /\ ino'[w.out].mode = ino[w.out].mode
        /\ ino'[w.in] = ino[w.in]
    BY <1>2, <2>1, BecomesProp
  <2> DEFINE n == w.tot + Len(w.held)
  <2>3. n \in Int /\ n = w.tot + Len(w.held) /\ w' = [w EXCEPT !.held = <<>>, !.tot = n]
    BY <1>3, <1>4
  <2> HIDE DEF n
  <2>4. w' \in Locals /\ w'.file = w.file /\ w'.in = w.in /\ w'.out = w.out /\ w'.st = w.st
        /\ w'.pos = w.pos /\ w'.held = <<>> /\ w'.sum = w.sum /\ w'.tot = n
        /\ w'.err = w.err
    <3>1. w \in Locals
      BY <1>2
    <3>2. <<>> \in Seq(Piece)
      BY EmptySeq
    <3>3. w' = [w EXCEPT !.held = <<>>, !.tot = n]
      BY <2>3
    <3>4. w' \in Locals
      <4>1. n \in Int
        BY <2>3
      <4>2. [w EXCEPT !.held = <<>>, !.tot = n] \in Locals
        BY <3>1, <3>2, <4>1, LocalsSet
      <4> QED BY <3>3, <4>2
    <3> QED BY <3>1, <3>3, <3>4 DEF Locals
  <2>5. Input' = Input /\ Output' = Output \o w.held
    BY <2>2, <2>4 DEF Input, Output
  <2>6. ~ scene.c => Deflated' /\ w'.pos = Len(Input') + 1
    <3> SUFFICES ASSUME ~ scene.c PROVE Deflated' /\ w'.pos = Len(Input') + 1
      OBVIOUS
    <3>1. Deflated /\ w.pos = Len(Input) + 1
      BY <1>1, <1>2 DEF Contents
    <3>2. Output' \o <<>> = Output \o w.held
      BY <2>1, <2>5, ConcatLen
    <3>3. Len(Output') = Len(Output) + Len(w.held) /\ Len(Output) \in Nat
      BY <1>2, <1>3, <2>5, ConcatLen
    <3>4. w'.tot = Len(Output')
      BY <2>3, <2>4, <3>1, <3>3 DEF Deflated
    <3> QED BY <2>4, <2>5, <3>1, <3>2, <3>4 DEF Deflated
  <2>7. pc' = "trailer" /\ exit' = exit
    BY <1>1, <1>4 DEF Go
  <2> QED BY <1>1, <2>1, <2>2, <2>4, <2>6, <2>7, ZipStep
<1>5. CASE WroteSome(w.held) /\ w' = [w EXCEPT !.tot = -1] /\ Go("c_size") /\ Warn
  <2>1. PICK k \in 0 .. (Len(w.held) - 1) : /\ Becomes(Output \o SubSeq(w.held, 1, k))
                                            /\ Output \o SubSeq(w.held, 1, k) \in Seq(Piece)
    BY <1>2, <1>3, <1>5, WroteSomeProp
  <2>2. Fault
    BY <1>2, <1>3, <1>5, WroteSomeProp
  <2>3. /\ ino' \in [0 .. MaxIno -> Inode] /\ Apart /\ ino'[w.out].mode = ino[w.out].mode
    BY <1>2, <2>1, BecomesProp
  <2>4. w' \in Locals /\ w'.file = w.file /\ w'.in = w.in /\ w'.out = w.out /\ w'.st = w.st
        /\ w'.tot = -1
    <3>1. w \in Locals
      BY <1>2
    <3>2. w' = [w EXCEPT !.tot = -1]
      BY <1>5
    <3>3. w' \in Locals
      BY <3>1, <3>2, LocalsFail
    <3> QED BY <3>1, <3>2, <3>3 DEF Locals
  <2>5. pc' = "c_size"
    BY <1>5 DEF Go
  <2> QED BY <1>1, <1>5, <2>2, <2>3, <2>4, <2>5, ZipStep
<1> QED BY <1>4, <1>5 DEF DeflateFinish

(* All of it, and what is written after it. *)
LEMMA PackedIs ==
  ASSUME NEW d \in Seq(Piece), IsPlain(d), NEW o \in Seq(Piece),
         o \o <<>> = <<Header>> \o SubSeq(d, 1, Len(d))
  PROVE  o \o <<Crc(Values(d)), Length(Values(d))>> = Packed(Values(d))
<1>1. Plain(Values(d)) = d
  BY PlainOfValues
<1>2. SubSeq(d, 1, Len(d)) = d
  BY SubSeqFull
<1>3. o = <<Header>> \o d
  <2>1. o \o <<>> = o
    BY ConcatLen
  <2> QED BY <1>2, <2>1
<1> QED BY <1>1, <1>3 DEF Packed

LEMMA StepDeflateTrailer == ASSUME IInv, DeflateTrailer PROVE IInv'
<1>1. /\ pc = "trailer" /\ pc' = "c_size"
      /\ UNCHANGED <<dir, used, env, arg, buf, armed, live, owed, made, excused>>
  BY DEF DeflateTrailer, Go
<1>2. /\ pc \in Writing /\ Contents /\ w \in Locals /\ Input \in Seq(Piece) /\ Output \in Seq(Piece)
      /\ IsPlain(Input)
  BY <1>1, ZipFacts
<1>3. /\ w.sum \in Seq(Nat) /\ w.tot \in Int
  BY <1>2, LocalsSet
<1>4. Trailer \in Seq(Piece) /\ Len(Trailer) = 2
  BY <1>3, PieceFacts DEF Trailer
<1>5. CASE Wrote(Trailer) /\ w' = [w EXCEPT !.tot = @ + 2] /\ UNCHANGED exit
  <2>1. Becomes(Output \o Trailer) /\ Output \o Trailer \in Seq(Piece) /\ Sound
    BY <1>2, <1>4, <1>5, WroteProp
  <2>2. /\ ino' \in [0 .. MaxIno -> Inode] /\ Apart
        /\ ino'[w.out].data = Output \o Trailer /\ ino'[w.out].mode = ino[w.out].mode
        /\ ino'[w.in] = ino[w.in]
    BY <1>2, <2>1, BecomesProp
  <2> DEFINE n == w.tot + 2
  <2>3. n \in Int /\ n = w.tot + 2 /\ w' = [w EXCEPT !.tot = n]
    BY <1>3, <1>5
  <2> HIDE DEF n
  <2>4. w' \in Locals /\ w'.file = w.file /\ w'.in = w.in /\ w'.out = w.out /\ w'.st = w.st
        /\ w'.tot = n
    <3>1. w \in Locals
      BY <1>2
    <3>3. w' = [w EXCEPT !.tot = n]
      BY <2>3
    <3>4. w' \in Locals
      <4>1. n \in Int
        BY <2>3
      <4>2. [w EXCEPT !.tot = n] \in Locals
        BY <3>1, <4>1, LocalsSet
      <4> QED BY <3>3, <4>2
    <3> QED BY <3>1, <3>3, <3>4 DEF Locals
  <2>5. Input' = Input /\ Output' = Output \o Trailer
    BY <2>2, <2>4 DEF Input, Output
  <2>6. ~ scene.c => w'.tot = Len(Output') /\ Output' = Packed(Values(Input'))
    <3> SUFFICES ASSUME ~ scene.c
                 PROVE  w'.tot = Len(Output') /\ Output' = Packed(Values(Input'))
      OBVIOUS
    <3>1. Deflated /\ w.held = <<>> /\ w.pos = Len(Input) + 1
      BY <1>1, <1>2 DEF Contents
    <3>2. Len(Output') = Len(Output) + 2
      BY <1>2, <1>4, <2>5, ConcatLen
    <3>3. Len(Output) \in Nat /\ Len(Input) \in Nat
      BY <1>2, LenProperties
    <3>4. w'.tot = Len(Output')
      BY <2>3, <2>4, <3>1, <3>2, <3>3 DEF Deflated
    <3>5. w.pos - 1 = Len(Input)
      BY <3>1, <3>3
    <3>6. /\ Output \o <<>> = <<Header>> \o SubSeq(Input, 1, Len(Input))
          /\ w.sum = Values(SubSeq(Input, 1, Len(Input)))
      BY <3>1, <3>5 DEF Deflated
    <3>7. w.sum = Values(Input)
      <4>1. SubSeq(Input, 1, Len(Input)) = Input
        BY <1>2, SubSeqFull
      <4> QED BY <3>6, <4>1
    <3>8. Output \o Trailer = Packed(Values(Input))
      BY <1>2, <3>6, <3>7, PackedIs DEF Trailer
    <3> QED BY <2>5, <3>4, <3>8
  <2> QED BY <1>1, <1>5, <2>1, <2>2, <2>4, <2>6, ZipStep
<1>6. CASE WroteSome(Trailer) /\ w' = [w EXCEPT !.err = TRUE] /\ Warn
  <2>1. PICK k \in 0 .. (Len(Trailer) - 1) : /\ Becomes(Output \o SubSeq(Trailer, 1, k))
                                             /\ Output \o SubSeq(Trailer, 1, k) \in Seq(Piece)
    BY <1>2, <1>4, <1>6, WroteSomeProp
  <2>2. Fault
    BY <1>2, <1>4, <1>6, WroteSomeProp
  <2>3. /\ ino' \in [0 .. MaxIno -> Inode] /\ Apart /\ ino'[w.out].mode = ino[w.out].mode
    BY <1>2, <2>1, BecomesProp
  <2>4. w' \in Locals /\ w'.file = w.file /\ w'.in = w.in /\ w'.out = w.out /\ w'.st = w.st
        /\ w'.err
    <3>1. w \in Locals
      BY <1>2
    <3>2. w' \in Locals
      BY <1>6, <3>1, LocalsSet
    <3>3. w' = [w EXCEPT !.err = TRUE]
      BY <1>6
    <3> QED BY <3>1, <3>2, <3>3 DEF Locals
  <2> QED BY <1>1, <1>6, <2>2, <2>3, <2>4, ZipStep
<1> QED BY <1>5, <1>6 DEF DeflateTrailer

LEMMA StepCSize == ASSUME IInv, CSize PROVE IInv'
<1>1. /\ pc = "c_size"
      /\ UNCHANGED <<fs, env, buf, armed, exit, faults, owed, made>>
  BY DEF CSize
<1>2. /\ pc \in Filling \ {"disarm"} /\ pc \in Writing /\ ~ scene.d /\ Contents /\ w \in Locals
      /\ Input \in Seq(Piece) /\ Output \in Seq(Piece) /\ IsPlain(Input) /\ pc # "interrupted"
  BY <1>1, ZipFacts
<1>3. scene' = scene /\ ino' = ino
  BY <1>1 DEF env, fs
<1>4. CASE scene.c /\ Return /\ UNCHANGED excused
  <2>1. w.out = 0
    BY <1>2, <1>4, WriteFacts
  <2> QED BY <1>1, <1>2, <1>4, <2>1, BackStep DEF fs, Sound
<1>5. CASE /\ ~ scene.c /\ Accepted
           /\ excused' = IF w.err THEN excused \cup {"error"} ELSE excused
           /\ Go("modes") /\ UNCHANGED <<arg, live, w>>
  <2>1. pc' = "modes" /\ w' = w /\ w' \in Locals
    BY <1>2, <1>5 DEF Go
  <2>2. Input' = Input /\ Output' = Output
    BY <1>3, <2>1 DEF Input, Output
  <2>3. excused' = {} => Converts(Input, Output)
    <3> SUFFICES ASSUME excused' = {} PROVE Converts(Input, Output)
      OBVIOUS
    <3>1. ~ w.err
      BY <1>5
    <3>2. w.tot = Len(Output) /\ Len(Output) \in Nat
      BY <1>2, <1>5, LenProperties DEF Accepted, SizeAgrees, Output
    <3>3. w.tot # -1
      BY <3>2
    <3>4. Output = Packed(Values(Input))
      BY <1>1, <1>2, <1>5, <3>1, <3>3 DEF Contents
    <3> QED BY <1>2, <3>4 DEF Converts
  <2>4. Contents'
    BY <2>1, <2>2, <2>3 DEF Contents, Leaving
  <2>5. pc' \in Filling \ {"z_init"} /\ pc' \notin Zipping /\ pc' \notin Unzipping
    BY <2>1 DEF Filling, Zipping, Unzipping
  <2>6. excused' = excused \/ excused' = excused \cup {"error"}
    BY <1>5
  <2> QED BY <1>1, <1>2, <1>5, <2>1, <2>4, <2>5, <2>6, FillStay DEF Sound
<1>6. CASE ~ scene.c /\ ~ Accepted /\ Go("bad") /\ UNCHANGED <<arg, live, w, excused>>
  <2>1. pc' = "bad" /\ w' = w /\ w' \in Locals
    BY <1>2, <1>6 DEF Go
  <2>2. Contents'
    BY <2>1 DEF Contents, Leaving
  <2>3. pc' \in Filling \ {"z_init"} /\ pc' \notin Unzipping
    BY <2>1 DEF Filling, Unzipping
  <2> QED BY <1>1, <1>2, <1>6, <2>1, <2>2, <2>3, FillStay DEF Sound
<1> QED BY <1>4, <1>5, <1>6 DEF CSize

LEMMA StepBadOutfile == ASSUME IInv, BadOutfile PROVE IInv'
<1>1. /\ pc = "bad" /\ Unlink(buf) /\ Warn /\ Return
      /\ UNCHANGED <<ino, used, env, buf, armed, faults, owed, made, excused>>
  BY DEF BadOutfile
<1>2. pc \in Writing /\ pc \in ToFile
  BY <1>1 DEF Writing, Filling, ToFile
<1>3. Places /\ pc # "interrupted" /\ (~ scene.c => w.out # 0)
  BY <1>2, WriteFacts
<1>4. w.out # 0
  BY <1>2, <1>3 DEF Places
<1>5. dir' # dir
  <2>1. /\ Own /\ Files /\ 0 # w.out
    BY <1>2, <1>3, <1>4, WriteFacts
  <2>2. buf \in Names /\ dir[buf] = w.out /\ dir \in [Names -> 0 .. used]
    BY <2>1 DEF Own, Files
  <2>3. dir' = [dir EXCEPT ![buf] = 0]
    BY <1>1 DEF Unlink, Absent
  <2>4. dir'[buf] = 0
    BY <2>2, <2>3
  <2> QED BY <2>1, <2>2, <2>4
<1> QED BY <1>1, <1>3, <1>4, <1>5, BackStep DEF Sound

-----------------------------------------------------------------------------
(* Decompression. *)

LEMMA UnzipFacts ==
  ASSUME IInv, pc \in {"inflate", "cat", "d_close", "d_reopen"}
  PROVE  /\ pc \in Filling \ {"disarm"} /\ pc \in Writing /\ scene.d /\ Contents /\ w \in Locals
         /\ Input \in Seq(Piece) /\ Output \in Seq(Piece) /\ pc # "interrupted"
         /\ Input # <<>> /\ Len(Input) \in Nat \ {0} /\ w.st # ""
         /\ w.st # "cat" => Input[1].t = "H"
         /\ pc = "inflate" => w.st # "cat"
         /\ pc = "cat" => w.st = "cat"
         /\ scene.t => scene.c
<1>1. pc \in Filling \ {"disarm"} /\ pc \in Writing /\ pc \in Unzipping /\ pc \in Working
  BY DEF Filling, Writing, Unzipping, Working
<1>2. /\ Files /\ Kinds /\ Places /\ Contents /\ w \in Locals /\ Input \in Seq(Piece)
      /\ Output \in Seq(Piece) /\ pc # "interrupted"
  BY <1>1, WriteFacts
<1>3. scene.d
  BY <1>1, <1>2 DEF Places
<1>4. /\ Input # <<>> /\ w.st # ""
      /\ w.st # "cat" => Input[1].t = "H"
      /\ pc = "inflate" => w.st # "cat"
      /\ pc = "cat" => w.st = "cat"
  BY <1>1, <1>2, <1>3 DEF Kinds
<1>5. Len(Input) \in Nat \ {0}
  BY <1>2, <1>4, LenProperties, EmptySeq
<1>6. scene.t => scene.c
  BY <1>2, ScenesAssumption DEF Files
<1> QED BY <1>1, <1>2, <1>3, <1>4, <1>5, <1>6

(* A decompression goes on, or comes to its end. *)
LEMMA InflateStay ==
  ASSUME IInv, pc = "inflate",
         UNCHANGED <<fs, env, arg, buf, armed, live, made, owed, excused>>,
         w' \in Locals, w'.file = w.file, w'.in = w.in, w'.out = w.out,
         w'.st = w.st \/ {w'.st, w.st} \cap {"", "cat"} = {},
         pc' \in {"inflate", "d_close"},
         Warn \/ exit' = exit \/ exit' = 2, Sound \/ Fault,
         ~ scene.c /\ pc' = "inflate" => Inflated',
         ~ scene.c /\ pc' = "d_close" => w'.tot = -1 \/ Written'
  PROVE  IInv'
<1>1. pc \in Filling \ {"disarm"} /\ scene.d /\ w.st # "cat"
  BY UnzipFacts
<1>2. pc' \in Filling \ {"z_init"} /\ pc' \notin Zipping /\ pc' \notin ToFile
  BY DEF Filling, Zipping, ToFile, Leaving
<1>3. scene' = scene
  BY DEF env
<1>4. Contents'
  BY <1>3 DEF Contents, Leaving
<1>5. w'.st # "cat"
  BY <1>1
<1> QED BY <1>1, <1>2, <1>4, <1>5, FillStay

LEMMA InflateWrite ==
  ASSUME IInv, pc = "inflate",
         UNCHANGED <<dir, used, env, arg, buf, armed, live, made, owed, excused>>,
         ino' \in [0 .. MaxIno -> Inode], Apart, ino'[w.out].mode = ino[w.out].mode,
         w.out # 0 => IsPlain(ino'[w.out].data),
         w' \in Locals, w'.file = w.file, w'.in = w.in, w'.out = w.out, w'.st = w.st,
         pc' \in {"inflate", "d_close"},
         Warn \/ exit' = exit \/ exit' = 2, Sound \/ Fault,
         ~ scene.c /\ pc' = "inflate" => Inflated',
         ~ scene.c /\ pc' = "d_close" => w'.tot = -1 \/ Written'
  PROVE  IInv'
<1>1. pc \in Filling \ {"disarm"} /\ scene.d /\ w.st # "cat"
  BY UnzipFacts
<1>2. pc' \in Filling \ {"z_init"} /\ pc' \notin Zipping /\ pc' \notin ToFile
  BY DEF Filling, Zipping, ToFile, Leaving
<1>3. scene' = scene
  BY DEF env
<1>4. Contents'
  BY <1>3 DEF Contents, Leaving
<1> QED BY <1>1, <1>2, <1>4, FillWrite

(* The piece it is at. *)
LEMMA HereFacts ==
  ASSUME IInv, pc \in {"inflate", "cat"}
  PROVE  /\ w.pos \in Nat \ {0}
         /\ AtEnd <=> w.pos > Len(Input)
         /\ AtEnd => Here = Nothing
         /\ ~ AtEnd => w.pos \in 1 .. Len(Input) /\ Here = Input[w.pos] /\ Here \in Piece
         /\ Here.t # "" => ~ AtEnd
<1>1. Input \in Seq(Piece) /\ Len(Input) \in Nat /\ w \in Locals
  BY UnzipFacts
<1>2. w.pos \in Nat \ {0}
  BY <1>1, LocalsSet
<1>3. AtEnd <=> w.pos > Len(Input)
  BY DEF AtEnd, Input
<1>4. ASSUME AtEnd PROVE Here = Nothing
  BY <1>4 DEF Here
<1>5. ASSUME ~ AtEnd PROVE w.pos \in 1 .. Len(Input) /\ Here = Input[w.pos] /\ Here \in Piece
  <2>1. w.pos \in 1 .. Len(Input)
    BY <1>1, <1>2, <1>3, <1>5
  <2>2. Here = Input[w.pos]
    BY <1>5 DEF Here, Input
  <2> QED BY <1>1, <2>1, <2>2, ElementOfSeq
<1>6. ASSUME AtEnd PROVE Here.t = ""
  <2>1. Nothing.t = ""
    BY DEF Nothing
  <2>2. Here = Nothing
    BY <1>4, <1>6
  <2> QED BY <2>1, <2>2
<1> QED BY <1>2, <1>3, <1>4, <1>5, <1>6

LEMMA StepInflateMagic == ASSUME IInv, InflateMagic PROVE IInv'
<1>1. /\ pc = "inflate" /\ w.st = "MAGIC0"
      /\ UNCHANGED <<fs, env, arg, buf, armed, live, faults, owed, made, excused>>
  BY DEF InflateMagic
<1>2. /\ scene.d /\ Contents /\ w \in Locals /\ Input \in Seq(Piece) /\ Output \in Seq(Piece)
      /\ Len(Input) \in Nat \ {0} /\ Input[1].t = "H"
  BY <1>1, UnzipFacts
<1>3. /\ w.pos \in Nat \ {0}
      /\ AtEnd <=> w.pos > Len(Input)
      /\ ~ AtEnd => w.pos \in 1 .. Len(Input) /\ Here = Input[w.pos] /\ Here \in Piece
      /\ Here.t # "" => ~ AtEnd
  BY <1>1, HereFacts
<1>4. ~ scene.c => Inflated
  BY <1>1, <1>2 DEF Contents
<1>5. ino' = ino /\ scene' = scene
  BY <1>1 DEF fs, env
<1>6. CASE /\ w' = w /\ pc' = "d_close" /\ (exit' = exit \/ exit' = 2)
           /\ AtEnd \/ (~ AtEnd /\ Here # Header)
  <2>1. Input' = Input /\ Output' = Output /\ w' \in Locals
    BY <1>2, <1>5, <1>6 DEF Input, Output
  <2>2. ~ scene.c => Written
    <3> SUFFICES ASSUME ~ scene.c PROVE Written
      OBVIOUS
    <3>1. /\ w.pos <= Len(Input) + 1 /\ w.tot = Len(Output) /\ Blocks(Input, w.pos - 1) = Output
          /\ Members(Input, w.pos - 1)
      BY <1>1, <1>4 DEF Inflated
    <3>2. ASSUME ~ AtEnd PROVE Input[w.pos].t # "H"
      <4>1. Here # Header /\ Here = Input[w.pos] /\ Here \in Piece
        BY <1>3, <1>6, <3>2
      <4> QED BY <4>1, PieceFacts
    <3>3. w.pos # 1
      <4>1. SUFFICES ASSUME w.pos = 1 PROVE FALSE
        OBVIOUS
      <4>2. ~ (w.pos > Len(Input))
        <5>1. Len(Input) \in Nat \ {0}
          BY <1>2
        <5> QED BY <4>1, <5>1
      <4>3. ~ AtEnd
        BY <1>3, <4>2
      <4>4. Input[1].t # "H"
        BY <3>2, <4>1, <4>3
      <4> QED BY <1>2, <4>4
    <3> DEFINE k == w.pos - 1
    <3>4. k \in 1 .. Len(Input) /\ k + 1 = w.pos
      <4>1. w.pos \in Nat \ {0} /\ Len(Input) \in Nat /\ w.pos <= Len(Input) + 1
        BY <1>2, <1>3, <3>1
      <4> QED BY <3>3, <4>1
    <3>5. k < Len(Input) => Input[k + 1].t # "H"
      <4> SUFFICES ASSUME k < Len(Input) PROVE Input[k + 1].t # "H"
        OBVIOUS
      <4>1. ~ (w.pos > Len(Input))
        <5>1. w.pos \in Nat /\ Len(Input) \in Nat
          BY <1>2, <1>3
        <5> QED BY <3>4, <5>1
      <4>2. ~ AtEnd
        BY <1>3, <4>1
      <4> QED BY <3>2, <3>4, <4>2
    <3>6. UnpacksTo(Input, Blocks(Input, k))
      BY <1>2, <3>1, <3>4, <3>5, Unpacked
    <3> QED BY <1>1, <3>1, <3>6 DEF Written
  <2>3. ~ scene.c => Written'
    BY <1>6, <2>1, <2>2 DEF Written
  <2> QED BY <1>1, <1>6, <2>1, <2>3, InflateStay DEF Sound
<1>7. CASE /\ Here = Header /\ w' = [w EXCEPT !.pos = @ + 1, !.st = "READ", !.sum = <<>>]
           /\ UNCHANGED <<pc, exit>>
  <2>1. w' \in Locals /\ w'.file = w.file /\ w'.in = w.in /\ w'.out = w.out /\ w'.st = "READ"
        /\ w'.pos = w.pos + 1 /\ w'.tot = w.tot /\ w'.sum = <<>>
    <3>1. w \in Locals
      BY <1>2
    <3>2. w' = [w EXCEPT !.pos = @ + 1, !.st = "READ", !.sum = <<>>]
      BY <1>7
    <3>3. w' \in Locals
      BY <3>1, <3>2, LocalsSet
    <3> QED BY <3>1, <3>2, <3>3 DEF Locals
  <2>2. Input' = Input /\ Output' = Output
    BY <1>5, <2>1 DEF Input, Output
  <2>3. w.pos \in 1 .. Len(Input) /\ Input[w.pos].t = "H"
    BY <1>3, <1>7 DEF Header
  <2>4. ~ scene.c => Inflated'
    <3> SUFFICES ASSUME ~ scene.c PROVE Inflated'
      OBVIOUS
    <3>1. /\ w.pos <= Len(Input) + 1 /\ w.tot = Len(Output) /\ Blocks(Input, w.pos - 1) = Output
          /\ Members(Input, w.pos - 1)
      BY <1>1, <1>4 DEF Inflated
    <3>2. Len(w'.sum) = 0
      BY <2>1, EmptySeq
    <3>3. w'.pos - 1 = w.pos /\ w'.pos <= Len(Input) + 1
      BY <1>2, <2>1, <2>3
    <3>4. Began(0)' = w.pos
      <4>1. w.pos \in Nat
        BY <1>3
      <4>2. w'.pos = w.pos + 1
        BY <2>1
      <4>3. w'.pos - 1 - 0 - 0 = w.pos
        BY <4>1, <4>2
      <4> QED BY <3>2, <4>3 DEF Began
    <3>5. Blocks(Input, w.pos) = Output
      BY <1>3, <2>3, <3>1, BlocksProp
    <3>6. Since(Input, w'.sum, w.pos)
      <4>1. \A x \in 1 .. Len(w'.sum) : FALSE
        BY <3>2
      <4> QED BY <2>3, <3>1, <4>1 DEF Since
    <3>7. Inside(Began(0))'
      BY <2>2, <3>4, <3>6 DEF Inside
    <3> QED BY <2>1, <2>2, <3>1, <3>3, <3>5, <3>7 DEF Inflated
  <2>5. {w'.st, w.st} \cap {"", "cat"} = {} /\ pc' = "inflate" /\ exit' = exit
    BY <1>1, <1>7, <2>1
  <2> QED BY <1>1, <2>1, <2>4, <2>5, InflateStay DEF Sound
<1> QED BY <1>6, <1>7 DEF InflateMagic, Stop, Go

(* A block of the member is taken in. *)
LEMMA SinceMore ==
  ASSUME NEW d, NEW s \in Seq(Nat), NEW m \in Nat \ {0}, NEW v \in Nat, Since(d, s, m),
         d[m + Len(s) + 1] = Block(v)
  PROVE  Since(d, Append(s, v), m)
<1>1. Len(s) \in Nat
  BY LenProperties
<1> DEFINE e == Append(s, v)
<1>2. Len(e) = Len(s) + 1 /\ e[Len(s) + 1] = v /\ \A x \in 1 .. Len(s) : e[x] = s[x]
  BY AppendProperties
<1> HIDE DEF e
<1>3. ASSUME NEW x \in 1 .. Len(e) PROVE d[m + x] = Block(e[x])
  <2>1. x \in 1 .. Len(s) \/ x = Len(s) + 1
    BY <1>1, <1>2
  <2>2. CASE x \in 1 .. Len(s)
    BY <1>2, <2>2 DEF Since
  <2>3. CASE x = Len(s) + 1
    <3>1. m + x = m + Len(s) + 1
      BY <1>1, <2>3
    <3> QED BY <1>2, <2>3, <3>1
  <2> QED BY <2>1, <2>2, <2>3
<1>4. Since(d, e, m)
  BY <1>3 DEF Since
<1> QED BY <1>4 DEF e

LEMMA InflatedMore ==
  ASSUME NEW d \in Seq(Piece), NEW o \in Seq(Piece), NEW s \in Seq(Nat), NEW p \in 1 .. Len(d),
         d[p].t = "B", Blocks(d, p - 1) = o, Since(d, s, p - 1 - Len(s) - 0)
  PROVE  /\ d[p].v[1] \in Nat /\ s \o d[p].v \in Seq(Nat)
         /\ o \o <<d[p]>> \in Seq(Piece) /\ Len(o \o <<d[p]>>) = Len(o) + 1
         /\ Blocks(d, p) = o \o <<d[p]>>
         /\ Since(d, s \o d[p].v, p + 1 - 1 - Len(s \o d[p].v) - 0)
<1> DEFINE v == d[p].v[1]
<1>1. d[p] \in Piece
  BY ElementOfSeq
<1>2. v \in Nat /\ d[p].v = <<v>> /\ d[p] = Block(v)
  BY <1>1, PieceFacts
<1> HIDE DEF v
<1>3. Len(s) \in Nat /\ Len(d) \in Nat
  BY LenProperties
<1>4. s \o <<v>> = Append(s, v) /\ Append(s, v) \in Seq(Nat) /\ Len(Append(s, v)) = Len(s) + 1
  BY <1>2, AppendProperties, AppendIsConcat
<1>5. /\ o \o <<d[p]>> = Append(o, d[p]) /\ Append(o, d[p]) \in Seq(Piece)
      /\ Len(Append(o, d[p])) = Len(o) + 1
  BY <1>1, AppendProperties, AppendIsConcat
<1>6. p \in Nat \ {0}
  BY <1>3
<1>7. Blocks(d, p) = Append(o, d[p])
  BY <1>6, BlocksProp
<1> DEFINE m == p - 1 - Len(s) - 0
<1>8. m \in Nat \ {0} /\ m + Len(s) + 1 = p
  <2>1. m \in 1 .. Len(d)
    BY DEF Since
  <2> QED BY <1>3, <1>6, <2>1
<1>9. p + 1 - 1 - (Len(s) + 1) - 0 = m
  BY <1>3, <1>6
<1>10. Since(d, s, m)
  OBVIOUS
<1> HIDE DEF m
<1>11. Since(d, Append(s, v), m)
  BY <1>2, <1>8, <1>10, SinceMore
<1>12. Since(d, s \o d[p].v, p + 1 - 1 - Len(s \o d[p].v) - 0)
  BY <1>2, <1>4, <1>9, <1>11
<1> QED BY <1>2, <1>4, <1>5, <1>7, <1>12 DEF v

LEMMA PlainMore ==
  ASSUME NEW o \in Seq(Piece), NEW x \in Piece, IsPlain(o), x.t = "B"
  PROVE  IsPlain(o \o <<x>>) /\ IsPlain(o \o SubSeq(<<x>>, 1, 0)) /\ IsPlain(o \o <<>>)
<1>1. Len(o) \in Nat /\ DOMAIN o = 1 .. Len(o)
  BY LenProperties
<1> DEFINE e == Append(o, x)
<1>2. e \in Seq(Piece) /\ Len(e) = Len(o) + 1 /\ e[Len(o) + 1] = x
      /\ \A i \in 1 .. Len(o) : e[i] = o[i]
  BY AppendProperties
<1>3. o \o <<x>> = e
  BY AppendIsConcat
<1> HIDE DEF e
<1>4. DOMAIN e = 1 .. Len(o) + 1
  BY <1>2, LenProperties
<1>5. ASSUME NEW i \in 1 .. Len(o) + 1 PROVE e[i].t = "B"
  <2>1. i \in 1 .. Len(o) \/ i = Len(o) + 1
    BY <1>1
  <2> QED BY <1>1, <1>2, <2>1 DEF IsPlain
<1>6. IsPlain(e)
  BY <1>4, <1>5 DEF IsPlain
<1>7. SubSeq(<<x>>, 1, 0) = <<>>
  <2>1. <<x>> \in Seq(Piece)
    OBVIOUS
  <2> QED BY <2>1, SubSeqEmpty
<1>8. o \o <<>> = o
  BY ConcatLen
<1> QED BY <1>3, <1>6, <1>7, <1>8

(* It stops with an error. *)
LEMMA LocalsStop ==
  ASSUME w \in Locals, StopAndFail
  PROVE  /\ w' \in Locals /\ w'.file = w.file /\ w'.in = w.in /\ w'.out = w.out /\ w'.st = w.st
         /\ w'.tot = -1 /\ pc' = "d_close" /\ Warn
<1>1. w' = [w EXCEPT !.tot = -1]
  BY DEF StopAndFail
<1>2. w' \in Locals
  BY <1>1, LocalsFail
<1>3. /\ w'.file = w.file /\ w'.in = w.in /\ w'.out = w.out /\ w'.st = w.st /\ w'.tot = -1
  BY <1>1, <1>2 DEF Locals
<1> QED BY <1>2, <1>3 DEF StopAndFail, Go

LEMMA One ==
  ASSUME NEW x \in Piece
  PROVE  <<x>> \in Seq(Piece) /\ Len(<<x>>) = 1
OBVIOUS

LEMMA StepInflateRead == ASSUME IInv, InflateRead PROVE IInv'
<1>1. /\ pc = "inflate" /\ w.st = "READ"
      /\ UNCHANGED <<dir, used, env, arg, buf, armed, live, owed, made, excused>>
  BY DEF InflateRead
<1>2. /\ pc \in Writing /\ scene.d /\ Contents /\ w \in Locals /\ Input \in Seq(Piece)
      /\ Output \in Seq(Piece) /\ Len(Input) \in Nat \ {0} /\ (scene.t => scene.c)
  BY <1>1, UnzipFacts
<1>3. /\ w.pos \in Nat \ {0}
      /\ ~ AtEnd => w.pos \in 1 .. Len(Input) /\ Here = Input[w.pos] /\ Here \in Piece
      /\ Here.t # "" => ~ AtEnd
  BY <1>1, HereFacts
<1>4. ~ scene.c =>
        /\ w.pos <= Len(Input) + 1 /\ w.tot = Len(Output) /\ Blocks(Input, w.pos - 1) = Output
        /\ Since(Input, w.sum, w.pos - 1 - Len(w.sum) - 0)
  BY <1>1, <1>2 DEF Contents, Inflated, Inside, Began
<1>5. scene' = scene
  BY <1>1 DEF env
<1>6. w.out # 0 => IsPlain(Output)
  BY <1>2, WriteFacts
<1>7. w.sum \in Seq(Nat) /\ w.tot \in Int
  BY <1>2, LocalsSet
<1>8. CASE StopAndFail /\ (Sound \/ Fault) /\ UNCHANGED ino
  <2>1. /\ w' \in Locals /\ w'.file = w.file /\ w'.in = w.in /\ w'.out = w.out /\ w'.st = w.st
        /\ w'.tot = -1 /\ pc' = "d_close" /\ Warn
    BY <1>2, <1>8, LocalsStop
  <2> QED BY <1>1, <1>8, <2>1, InflateStay DEF fs
<1>9. CASE /\ Here.t = "B"
           /\ IF scene.t THEN Sound /\ UNCHANGED ino ELSE Wrote(<<Here>>)
           /\ w' = [w EXCEPT !.pos = @ + 1, !.tot = @ + 1, !.sum = @ \o Here.v]
           /\ UNCHANGED <<pc, exit>>
  <2>1. ~ AtEnd
    BY <1>3, <1>9
  <2>2. w.pos \in 1 .. Len(Input) /\ Here = Input[w.pos] /\ Here \in Piece /\ <<Here>> \in Seq(Piece)
    <3>1. w.pos \in 1 .. Len(Input) /\ Here = Input[w.pos] /\ Here \in Piece
      BY <1>3, <2>1
    <3> QED BY <3>1, One
  <2>3. w.sum \o Here.v \in Seq(Nat)
    BY <1>7, <2>2, PieceFacts, ConcatProperties
  <2> DEFINE n == w.tot + 1
             s == w.sum \o Here.v
  <2>4. n \in Int /\ s \in Seq(Nat)
    BY <1>7, <2>3
  <2>5. w' = [w EXCEPT !.pos = @ + 1, !.tot = n, !.sum = s]
    BY <1>9
  <2>6. w' \in Locals /\ w'.file = w.file /\ w'.in = w.in /\ w'.out = w.out /\ w'.st = w.st
        /\ w'.pos = w.pos + 1 /\ w'.tot = w.tot + 1 /\ w'.sum = w.sum \o Here.v
    <3> HIDE DEF n, s
    <3>1. w \in Locals
      BY <1>2
    <3>2. [w EXCEPT !.pos = @ + 1, !.tot = n, !.sum = s] \in Locals
      BY <2>4, <3>1, LocalsSet
    <3>3. w' \in Locals
      BY <2>5, <3>2
    <3>4. w'.file = w.file /\ w'.in = w.in /\ w'.out = w.out /\ w'.st = w.st
          /\ w'.pos = w.pos + 1 /\ w'.tot = n /\ w'.sum = s
      BY <2>5, <3>1, <3>3 DEF Locals
    <3> USE DEF n, s
    <3> QED BY <3>3, <3>4
  <2> HIDE DEF n, s
  <2>7. pc' = "inflate" /\ exit' = exit
    BY <1>1, <1>9
  <2>8. CASE scene.t
    <3>1. Sound /\ ino' = ino /\ scene.c
      BY <1>2, <1>9, <2>8
    <3> QED BY <1>1, <2>6, <2>7, <3>1, InflateStay DEF fs
  <2>9. CASE ~ scene.t
    <3>1. Wrote(<<Here>>)
      BY <1>9, <2>9
    <3>2. Becomes(Output \o <<Here>>) /\ Output \o <<Here>> \in Seq(Piece) /\ Sound
      BY <1>2, <2>2, <3>1, WroteProp
    <3>3. /\ ino' \in [0 .. MaxIno -> Inode] /\ Apart
          /\ ino'[w.out].data = Output \o <<Here>> /\ ino'[w.out].mode = ino[w.out].mode
          /\ ino'[w.in] = ino[w.in]
      BY <1>2, <3>2, BecomesProp
    <3>4. w.out # 0 => IsPlain(ino'[w.out].data)
      BY <1>2, <1>6, <1>9, <2>2, <3>3, PlainMore
    <3>5. Input' = Input /\ Output' = Output \o <<Here>>
      BY <2>6, <3>3 DEF Input, Output
    <3>6. ~ scene.c => Inflated'
      <4> SUFFICES ASSUME ~ scene.c PROVE Inflated'
        OBVIOUS
      <4> DEFINE d == Input
                 o == Output
                 q == w.sum
                 p == w.pos
      <4>1. /\ d \in Seq(Piece) /\ o \in Seq(Piece) /\ q \in Seq(Nat) /\ p \in 1 .. Len(d)
            /\ d[p].t = "B" /\ Blocks(d, p - 1) = o /\ Since(d, q, p - 1 - Len(q) - 0)
        BY <1>2, <1>4, <1>7, <1>9, <2>2
      <4> HIDE DEF d, o, q, p
      <4>2. /\ Len(o \o <<d[p]>>) = Len(o) + 1
            /\ Blocks(d, p) = o \o <<d[p]>>
            /\ Since(d, q \o d[p].v, p + 1 - 1 - Len(q \o d[p].v) - 0)
        BY <4>1, InflatedMore
      <4>8. o \o <<d[p]>> = Output' /\ o = Output /\ d = Input /\ p = w.pos
        BY <2>2, <3>5 DEF d, o, p
      <4>9. w'.sum = q \o d[p].v /\ w'.pos = p + 1
        BY <2>2, <2>6 DEF d, q, p
      <4>3. /\ Len(Output') = Len(Output) + 1 /\ Blocks(Input, w.pos) = Output'
            /\ Since(Input, w'.sum, w'.pos - 1 - Len(w'.sum) - 0)
        <5>1. Len(Output') = Len(Output) + 1
          BY <4>2, <4>8
        <5>2. Blocks(Input, w.pos) = Output'
          BY <4>2, <4>8
        <5>3. Since(d, w'.sum, w'.pos - 1 - Len(w'.sum) - 0)
          <6>1. w'.sum = q \o d[p].v
            BY <4>9
          <6>2. Since(d, q \o d[p].v, p + 1 - 1 - Len(q \o d[p].v) - 0)
            BY <4>2
          <6>3. Since(d, w'.sum, p + 1 - 1 - Len(w'.sum) - 0)
            BY <6>1, <6>2
          <6>4. w'.pos = p + 1
            BY <4>9
          <6>5. w'.pos - 1 - Len(w'.sum) - 0 = p + 1 - 1 - Len(w'.sum) - 0
            <7>1. p \in 1 .. Len(d) /\ Len(d) \in Nat
              BY <4>1, LenProperties
            <7>2. p \in Nat
              BY <7>1
            <7>3. Len(w'.sum) \in Nat
              BY <2>6, LocalsSet, LenProperties
            <7> QED BY <6>4, <7>2, <7>3
          <6> QED BY <6>3, <6>5
        <5> QED BY <4>8, <5>1, <5>2, <5>3
      <4> USE DEF d, o, q, p
      <4>4. w'.tot = Len(Output')
        BY <1>4, <2>6, <4>3
      <4>5. w'.pos - 1 = w.pos /\ w'.pos <= Len(Input) + 1
        <5>0. Len(Input) \in Nat /\ w.pos \in 1 .. Len(Input)
          BY <1>2, <2>2
        <5>1. w.pos \in Nat /\ Len(Input) \in Nat /\ w.pos <= Len(Input)
          BY <5>0
        <5>2. w'.pos = w.pos + 1
          BY <2>6
        <5> QED BY <5>1, <5>2
      <4>6. Inside(Began(0))'
        BY <3>5, <4>3 DEF Inside, Began
      <4>7. w'.st = "READ"
        BY <1>1, <2>6
      <4> QED BY <3>5, <4>3, <4>4, <4>5, <4>6, <4>7 DEF Inflated
    <3> QED BY <1>1, <2>6, <2>7, <3>2, <3>3, <3>4, <3>6, InflateWrite
  <2> QED BY <2>8, <2>9
<1>10. CASE Here.t = "B" /\ WroteSome(<<Here>>) /\ StopAndFail
  <2>1. ~ AtEnd
    BY <1>3, <1>10
  <2>2. Here \in Piece /\ <<Here>> \in Seq(Piece) /\ Len(<<Here>>) = 1
    <3>1. Here \in Piece
      BY <1>3, <2>1
    <3> QED BY <3>1, One
  <2>3. /\ w' \in Locals /\ w'.file = w.file /\ w'.in = w.in /\ w'.out = w.out /\ w'.st = w.st
        /\ w'.tot = -1 /\ pc' = "d_close" /\ Warn
    BY <1>2, <1>10, LocalsStop
  <2>4. PICK k \in 0 .. (Len(<<Here>>) - 1) : /\ Becomes(Output \o SubSeq(<<Here>>, 1, k))
                                              /\ Output \o SubSeq(<<Here>>, 1, k) \in Seq(Piece)
    BY <1>2, <1>10, <2>2, WroteSomeProp
  <2>5. Fault
    BY <1>2, <1>10, <2>2, WroteSomeProp
  <2>6. k = 0
    BY <2>2
  <2>7. Becomes(Output \o SubSeq(<<Here>>, 1, 0)) /\ Output \o SubSeq(<<Here>>, 1, 0) \in Seq(Piece)
    BY <2>4, <2>6
  <2>8. /\ ino' \in [0 .. MaxIno -> Inode] /\ Apart /\ ino'[w.out].mode = ino[w.out].mode
        /\ ino'[w.out].data = Output \o SubSeq(<<Here>>, 1, 0)
    BY <1>2, <2>7, BecomesProp
  <2>9. w.out # 0 => IsPlain(ino'[w.out].data)
    BY <1>2, <1>6, <1>10, <2>2, <2>8, PlainMore
  <2> QED BY <1>1, <2>3, <2>5, <2>8, <2>9, InflateWrite
<1>11. CASE Here.t = "C" /\ w' = [w EXCEPT !.st = "CRC"] /\ Sound /\ UNCHANGED <<ino, pc, exit>>
  <2>1. ~ AtEnd
    BY <1>3, <1>11
  <2>2. w.pos \in 1 .. Len(Input) /\ Here = Input[w.pos]
    BY <1>3, <2>1
  <2>3. w' \in Locals /\ w'.file = w.file /\ w'.in = w.in /\ w'.out = w.out /\ w'.st = "CRC"
        /\ w'.pos = w.pos /\ w'.tot = w.tot /\ w'.sum = w.sum
    <3>1. w \in Locals
      BY <1>2
    <3>2. w' = [w EXCEPT !.st = "CRC"]
      BY <1>11
    <3>3. w' \in Locals
      BY <3>1, <3>2, LocalsSet
    <3> QED BY <3>1, <3>2, <3>3 DEF Locals
  <2>4. Input' = Input /\ Output' = Output /\ ino' = ino
    BY <1>11, <2>3 DEF Input, Output
  <2>5. ~ scene.c => Inflated'
    <3> SUFFICES ASSUME ~ scene.c PROVE Inflated'
      OBVIOUS
    <3>1. Inside(Began(0))'
      BY <1>4, <2>3, <2>4 DEF Inside, Began
    <3>2. w.pos <= Len(Input) /\ Input[w.pos].t = "C"
      BY <1>11, <2>2
    <3> QED BY <1>4, <2>3, <2>4, <3>1, <3>2 DEF Inflated
  <2>6. {w'.st, w.st} \cap {"", "cat"} = {} /\ pc' = "inflate" /\ exit' = exit
    BY <1>1, <1>11, <2>3
  <2> QED BY <1>1, <1>11, <2>3, <2>4, <2>5, <2>6, InflateStay DEF fs
<1> QED BY <1>8, <1>9, <1>10, <1>11 DEF InflateRead

(* The locals of a step through the trailer. *)
LEMMA LocalsStep ==
  ASSUME w \in Locals, NEW x \in {"LEN", "MAGIC0"}, Step(x)
  PROVE  /\ w' \in Locals /\ w'.file = w.file /\ w'.in = w.in /\ w'.out = w.out /\ w'.st = x
         /\ w'.pos = w.pos + 1 /\ w'.tot = w.tot /\ w'.sum = w.sum /\ pc' = pc /\ exit' = exit
<1>1. w' = [w EXCEPT !.pos = @ + 1, !.st = x]
  BY DEF Step
<1>2. [w EXCEPT !.pos = @ + 1, !.st = x] \in Locals
  BY LocalsSet
<1>3. w' \in Locals
  BY <1>1, <1>2
<1>4. /\ w'.file = w.file /\ w'.in = w.in /\ w'.out = w.out /\ w'.st = x
      /\ w'.pos = w.pos + 1 /\ w'.tot = w.tot /\ w'.sum = w.sum
  BY <1>1, <1>3 DEF Locals
<1> QED BY <1>3, <1>4 DEF Step

(* A piece that is no block. *)
LEMMA NoBlock ==
  ASSUME NEW d, NEW p \in Nat \ {0}, d[p].t # "B"
  PROVE  Blocks(d, p) = Blocks(d, p - 1)
BY BlocksProp

LEMMA StepInflateCrc == ASSUME IInv, InflateCrc PROVE IInv'
<1>1. /\ pc = "inflate" /\ w.st = "CRC"
      /\ UNCHANGED <<fs, env, arg, buf, armed, live, faults, owed, made, excused>>
  BY DEF InflateCrc
<1>2. /\ scene.d /\ Contents /\ w \in Locals /\ Input \in Seq(Piece) /\ Output \in Seq(Piece)
      /\ Len(Input) \in Nat \ {0}
  BY <1>1, UnzipFacts
<1>3. ino' = ino
  BY <1>1 DEF fs
<1>4. CASE StopAndFail
  <2>1. /\ w' \in Locals /\ w'.file = w.file /\ w'.in = w.in /\ w'.out = w.out /\ w'.st = w.st
        /\ w'.tot = -1 /\ pc' = "d_close" /\ Warn
    BY <1>2, <1>4, LocalsStop
  <2> QED BY <1>1, <2>1, InflateStay DEF Sound
<1>5. CASE Here.v = w.sum /\ Step("LEN")
  <2>1. /\ w' \in Locals /\ w'.file = w.file /\ w'.in = w.in /\ w'.out = w.out /\ w'.st = "LEN"
        /\ w'.pos = w.pos + 1 /\ w'.tot = w.tot /\ w'.sum = w.sum /\ pc' = pc /\ exit' = exit
    BY <1>2, <1>5, LocalsStep
  <2>2. Input' = Input /\ Output' = Output
    BY <1>3, <2>1 DEF Input, Output
  <2>3. ~ scene.c => Inflated'
    <3> SUFFICES ASSUME ~ scene.c PROVE Inflated'
      OBVIOUS
    <3>1. /\ w.tot = Len(Output) /\ Blocks(Input, w.pos - 1) = Output
          /\ Since(Input, w.sum, w.pos - 1 - Len(w.sum) - 0)
          /\ w.pos <= Len(Input) /\ Input[w.pos].t = "C"
      BY <1>1, <1>2 DEF Contents, Inflated, Inside, Began
    <3>2. w.pos \in Nat \ {0} /\ w.sum \in Seq(Nat)
      BY <1>2, LocalsSet
    <3>3. w.pos \in Nat \ {0} /\ Len(Input) \in Nat /\ Len(w.sum) \in Nat
      BY <1>2, <3>2, LenProperties
    <3>4. w.pos \in 1 .. Len(Input)
      BY <3>1, <3>3
    <3>5. w'.pos = w.pos + 1
      BY <2>1
    <3>6. /\ w'.pos - 1 = w.pos /\ w'.pos <= Len(Input) + 1
          /\ w'.pos - 1 - Len(w.sum) - 1 = w.pos - 1 - Len(w.sum) - 0
      BY <3>3, <3>4, <3>5
    <3>7. Inside(Began(1))'
      BY <2>1, <2>2, <3>1, <3>6 DEF Inside, Began
    <3>8. Input[w.pos] = Crc(w.sum)
      <4>1. Here.t # ""
        <5>1. ~ AtEnd
          <6>1. ~ (w.pos > Len(Input))
            BY <3>3, <3>4
          <6> QED BY <1>1, <6>1, HereFacts
        <5>2. Here = Input[w.pos]
          BY <1>1, <5>1, HereFacts
        <5> QED BY <3>1, <5>2
      <4>2. Here = Input[w.pos] /\ Here \in Piece
        BY <1>1, <4>1, HereFacts
      <4>3. Here = [t |-> Here.t, v |-> Here.v]
        BY <4>2, PieceShape
      <4> QED BY <1>5, <3>1, <4>2, <4>3 DEF Crc
    <3>9. Blocks(Input, w.pos) = Output
      BY <3>1, <3>2, NoBlock
    <3> QED BY <2>1, <2>2, <3>1, <3>6, <3>7, <3>8, <3>9 DEF Inflated
  <2>4. {w'.st, w.st} \cap {"", "cat"} = {} /\ pc' = "inflate"
    BY <1>1, <2>1
  <2> QED BY <1>1, <2>1, <2>3, <2>4, InflateStay DEF Sound
<1> QED BY <1>4, <1>5 DEF InflateCrc

LEMMA StepInflateLen == ASSUME IInv, InflateLen PROVE IInv'
<1>1. /\ pc = "inflate" /\ w.st = "LEN"
      /\ UNCHANGED <<fs, env, arg, buf, armed, live, faults, owed, made, excused>>
  BY DEF InflateLen
<1>2. /\ scene.d /\ Contents /\ w \in Locals /\ Input \in Seq(Piece) /\ Output \in Seq(Piece)
      /\ Len(Input) \in Nat \ {0}
  BY <1>1, UnzipFacts
<1>3. ino' = ino
  BY <1>1 DEF fs
<1>4. CASE StopAndFail
  <2>1. /\ w' \in Locals /\ w'.file = w.file /\ w'.in = w.in /\ w'.out = w.out /\ w'.st = w.st
        /\ w'.tot = -1 /\ pc' = "d_close" /\ Warn
    BY <1>2, <1>4, LocalsStop
  <2> QED BY <1>1, <2>1, InflateStay DEF Sound
<1>5. CASE Here = Length(w.sum) /\ Step("MAGIC0")
  <2>1. /\ w' \in Locals /\ w'.file = w.file /\ w'.in = w.in /\ w'.out = w.out /\ w'.st = "MAGIC0"
        /\ w'.pos = w.pos + 1 /\ w'.tot = w.tot /\ w'.sum = w.sum /\ pc' = pc /\ exit' = exit
    BY <1>2, <1>5, LocalsStep
  <2>2. Input' = Input /\ Output' = Output
    BY <1>3, <2>1 DEF Input, Output
  <2>3. Here.t = "L"
    BY <1>5 DEF Length
  <2>4. w.pos \in 1 .. Len(Input) /\ Here = Input[w.pos] /\ Here \in Piece
    <3>1. ~ AtEnd
      BY <1>1, <2>3, HereFacts
    <3> QED BY <1>1, <3>1, HereFacts
  <2>5. ~ scene.c => Inflated'
    <3> SUFFICES ASSUME ~ scene.c PROVE Inflated'
      OBVIOUS
    <3>1. /\ w.tot = Len(Output) /\ Blocks(Input, w.pos - 1) = Output
          /\ Since(Input, w.sum, w.pos - 1 - Len(w.sum) - 1) /\ Input[w.pos - 1] = Crc(w.sum)
      BY <1>1, <1>2 DEF Contents, Inflated, Inside, Began
    <3>2. w.sum \in Seq(Nat) /\ w.pos \in Nat \ {0}
      BY <1>2, LocalsSet
    <3>3. w.pos \in Nat \ {0} /\ Len(Input) \in Nat /\ Len(w.sum) \in Nat
      BY <1>2, <3>2, LenProperties
    <3> DEFINE d == Input
               s == w.sum
               p == w.pos
               m == p - 1 - Len(s) - 1
    <3>4. Since(d, s, m) /\ d[p - 1] = Crc(s) /\ d[p] = Length(s) /\ s \in Seq(Nat)
      BY <1>5, <2>4, <3>1, <3>2
    <3>5. m \in 1 .. Len(d)
      BY <3>4 DEF Since
    <3>6. m \in Nat \ {0} /\ p = m + Len(s) + 2 /\ p \in Nat
      BY <3>3, <3>5
    <3> HIDE DEF d, s, p, m
    <3>7. d[m].t = "H" /\ Members(d, m - 1) /\ \A x \in 1 .. Len(s) : d[m + x] = Block(s[x])
      BY <3>4 DEF Since
    <3>8. Members(d, p)
      BY <3>4, <3>6, <3>7, MembersMore
    <3>9. Members(Input, w.pos)
      BY <3>8 DEF d, p
    <3>10. Blocks(Input, w.pos) = Output
      <4>1. Input[w.pos].t # "B"
        BY <2>3, <2>4
      <4> QED BY <3>1, <3>2, <4>1, NoBlock
    <3>11. w'.pos = w.pos + 1
      BY <2>1
    <3>12. w'.pos - 1 = w.pos /\ w'.pos <= Len(Input) + 1
      BY <2>4, <3>3, <3>11
    <3> QED BY <2>1, <2>2, <3>1, <3>9, <3>10, <3>12 DEF Inflated
  <2>6. {w'.st, w.st} \cap {"", "cat"} = {} /\ pc' = "inflate"
    BY <1>1, <2>1
  <2> QED BY <1>1, <2>1, <2>5, <2>6, InflateStay DEF Sound
<1> QED BY <1>4, <1>5 DEF InflateLen

(* A file that is not packed: to the standard output. *)
LEMMA StepCatFd == ASSUME IInv, CatFd PROVE IInv'
<1>1. /\ pc = "cat"
      /\ UNCHANGED <<dir, used, env, arg, buf, armed, live, owed, made, excused>>
  BY DEF CatFd
<1>2. /\ pc \in Filling \ {"disarm"} /\ pc \in Writing /\ scene.d /\ Contents /\ w \in Locals
      /\ Input \in Seq(Piece) /\ Output \in Seq(Piece) /\ Len(Input) \in Nat \ {0} /\ w.st = "cat"
  BY <1>1, UnzipFacts
<1>3. /\ w.pos \in Nat \ {0}
      /\ AtEnd <=> w.pos > Len(Input)
      /\ ~ AtEnd => w.pos \in 1 .. Len(Input) /\ Here = Input[w.pos] /\ Here \in Piece
  BY <1>1, HereFacts
<1>4. ~ scene.c => /\ Output = <<>> /\ w.tot = w.pos - 1 /\ ~ w.err
                   /\ w.pos <= Len(Input) + 1
  BY <1>1, <1>2 DEF Contents
<1>5. scene' = scene
  BY <1>1 DEF env
<1>6. ASSUME pc' \in {"cat", "d_close"}
      PROVE  /\ pc' \in Filling \ {"z_init"} /\ pc' \notin Zipping /\ pc' \notin ToFile
             /\ pc' # "inflate"
  BY <1>6 DEF Filling, Zipping, ToFile, Leaving
<1>7. CASE AtEnd /\ Go("d_close") /\ Sound /\ UNCHANGED <<ino, w, exit>>
  <2>1. pc' = "d_close" /\ w' = w /\ w' \in Locals
    BY <1>2, <1>7 DEF Go
  <2>2. Input' = Input /\ Output' = Output
    BY <1>7, <2>1 DEF Input, Output
  <2>3. ~ scene.c => w.tot > 0
    <3> SUFFICES ASSUME ~ scene.c PROVE w.tot > 0
      OBVIOUS
    <3>1. w.pos > Len(Input)
      BY <1>3, <1>7
    <3>2. Len(Input) \in Nat \ {0} /\ w.pos \in Nat
      BY <1>2, <1>3
    <3>3. w.tot = w.pos - 1
      BY <1>4
    <3> QED BY <3>1, <3>2, <3>3
  <2>4. Contents'
    BY <1>2, <1>4, <1>5, <2>1, <2>2, <2>3 DEF Contents, Written, Leaving
  <2> QED BY <1>1, <1>2, <1>6, <1>7, <2>1, <2>4, FillStay DEF fs
<1>8. CASE /\ ~ AtEnd
           /\ ino' = [ino EXCEPT ![Stdout].data = Append(@, Here)]
           /\ w' = [w EXCEPT !.pos = @ + 1, !.tot = @ + 1]
           /\ Sound /\ UNCHANGED <<pc, exit>>
  <2>1. w.pos \in 1 .. Len(Input) /\ Here \in Piece
    BY <1>3, <1>8
  <2>2. /\ ino \in [0 .. MaxIno -> Inode] /\ w.in \in 1 .. used /\ w.out \in 0 .. MaxIno
        /\ w.in \in 0 .. MaxIno /\ w.in # 0 /\ (w.out # 0 => IsPlain(Output))
    <3>1. w.in # 0
      <4>1. w.in \in 1 .. used /\ used \in Nat
        BY <1>2, WriteFacts, BoundsAssumption DEF Files
      <4> QED BY <4>1
    <3> QED BY <1>2, <3>1, WriteFacts
  <2> DEFINE y == [ino[0] EXCEPT !.data = Append(@, Here)]
  <2>3. 0 \in 0 .. MaxIno
    BY BoundsAssumption
  <2>4. ino[0] \in Inode
    BY <2>2, <2>3
  <2>5. y \in Inode /\ y.mode = ino[0].mode
    <3>1. ino[0].data \in Seq(Piece)
      BY <2>4 DEF Inode
    <3>2. Append(ino[0].data, Here) \in Seq(Piece)
      BY <2>1, <3>1, AppendProperties
    <3> QED BY <2>4, <3>2 DEF Inode
  <2>6. ino' = [ino EXCEPT ![0] = y]
    BY <1>8, <2>2, <2>3 DEF Stdout
  <2> HIDE DEF y
  <2>7. /\ ino' \in [0 .. MaxIno -> Inode] /\ ino'[w.out].mode = ino[w.out].mode
        /\ ino'[w.in] = ino[w.in] /\ (w.out # 0 => ino'[w.out] = ino[w.out])
    BY <2>2, <2>3, <2>5, <2>6
  <2>8. Apart
    <3> SUFFICES ASSUME NEW i \in 1 .. MaxIno PROVE ino'[i] = ino[i]
      BY DEF Apart
    <3>1. i \in 0 .. MaxIno /\ i # 0
      BY BoundsAssumption
    <3> QED BY <2>2, <2>6, <3>1
  <2>9. w' \in Locals /\ w'.file = w.file /\ w'.in = w.in /\ w'.out = w.out /\ w'.st = w.st
        /\ w'.pos = w.pos + 1 /\ w'.tot = w.tot + 1 /\ w'.err = w.err
    <3> DEFINE n == w.tot + 1
    <3>1. w \in Locals
      BY <1>2
    <3>2. n \in Int
      <4>1. w.tot \in Int
        BY <3>1, LocalsSet
      <4> QED BY <4>1
    <3>3. w' = [w EXCEPT !.pos = @ + 1, !.tot = n]
      BY <1>8
    <3>4. n = w.tot + 1
      OBVIOUS
    <3> HIDE DEF n
    <3>5. [w EXCEPT !.pos = @ + 1, !.tot = n] \in Locals
      BY <3>1, <3>2, LocalsSet
    <3>6. w' \in Locals
      BY <3>3, <3>5
    <3>7. w'.file = w.file /\ w'.in = w.in /\ w'.out = w.out /\ w'.st = w.st
          /\ w'.pos = w.pos + 1 /\ w'.tot = n /\ w'.err = w.err
      BY <3>1, <3>3, <3>6 DEF Locals
    <3> QED BY <3>4, <3>6, <3>7
  <2>10. Input' = Input /\ (w.out # 0 => Output' = Output)
    BY <2>7, <2>9 DEF Input, Output
  <2>11. pc' = "cat" /\ exit' = exit
    BY <1>1, <1>8
  <2>12. ~ scene.c => /\ Output' = <<>> /\ w'.tot = w'.pos - 1 /\ ~ w'.err
                      /\ w'.pos <= Len(Input') + 1
    <3> SUFFICES ASSUME ~ scene.c
                 PROVE  /\ Output' = <<>> /\ w'.tot = w'.pos - 1 /\ ~ w'.err
                        /\ w'.pos <= Len(Input') + 1
      OBVIOUS
    <3>1. w.out # 0
      BY <1>2, WriteFacts
    <3>2. Output' = <<>> /\ ~ w'.err
      BY <1>4, <2>9, <2>10, <3>1
    <3>3. w.pos \in Nat /\ Len(Input) \in Nat /\ w.pos \in 1 .. Len(Input) /\ w.tot = w.pos - 1
      BY <1>2, <1>3, <1>4, <2>1
    <3>4. w'.pos = w.pos + 1 /\ w'.tot = w.tot + 1
      BY <2>9
    <3>5. w'.tot = w'.pos - 1 /\ w'.pos <= Len(Input) + 1
      BY <3>3, <3>4
    <3> QED BY <2>10, <3>2, <3>5
  <2>13. Contents'
    BY <1>5, <2>11, <2>12 DEF Contents, Leaving
  <2>14. w.out # 0 => IsPlain(ino'[w.out].data)
    BY <2>2, <2>7 DEF Output
  <2> QED BY <1>1, <1>2, <1>6, <1>8, <2>7, <2>8, <2>9, <2>11, <2>13, <2>14, FillWrite
<1>9. CASE /\ Fault /\ Warn /\ Go("d_close") /\ UNCHANGED ino
           /\ w' = [w EXCEPT !.err = TRUE]
  <2>1. pc' = "d_close"
    BY <1>9 DEF Go
  <2>2. w' \in Locals /\ w'.file = w.file /\ w'.in = w.in /\ w'.out = w.out /\ w'.st = w.st
        /\ w'.err
    <3>1. w \in Locals
      BY <1>2
    <3>2. w' \in Locals
      BY <1>9, <3>1, LocalsSet
    <3>3. w' = [w EXCEPT !.err = TRUE]
      BY <1>9
    <3> QED BY <3>1, <3>2, <3>3 DEF Locals
  <2>3. Output' = Output
    BY <1>9, <2>2 DEF Output
  <2>4. Contents'
    BY <1>2, <1>4, <1>5, <2>1, <2>2, <2>3 DEF Contents, Written, Leaving
  <2> QED BY <1>1, <1>2, <1>6, <1>9, <2>1, <2>2, <2>4, FillStay DEF fs
<1> QED BY <1>7, <1>8, <1>9 DEF CatFd

(* An output that is what the input is in the other form is whole. *)
LEMMA WholeOf ==
  ASSUME IInv, pc \in Writing, w.out # 0, Converts(Input, Output)
  PROVE  WholeIn(ino, w.out)
<1>1. w.in \in 1 .. used /\ used \in Nat /\ Own
  <2>1. scene.c => w.out = 0
    BY WriteFacts
  <2>2. w.in \in 1 .. used /\ Files /\ (~ scene.c => Own)
    BY WriteFacts
  <2>3. used \in Nat
    BY <2>2, BoundsAssumption DEF Files
  <2> QED BY <2>1, <2>2, <2>3
<1>2. w.in < w.out /\ w.out \in made
  BY <1>1 DEF Own
<1>3. w.out \in Nat /\ w.in \in Nat
  <2>1. w \in Locals
    BY WriteFacts
  <2> QED BY <2>1, LocalsSet
<1>4. w.in \in 1 .. (w.out - 1)
  BY <1>1, <1>2, <1>3
<1> QED BY <1>4 DEF WholeIn, Input, Output

(* The output loses its name. *)
LEMMA UnlinkOwn ==
  ASSUME IInv, pc \in Writing, ~ scene.c, Unlink(buf)
  PROVE  w.out # 0 /\ dir' # dir
<1>1. /\ Own /\ Files /\ w.out # 0
  BY WriteFacts
<1>2. buf \in Names /\ dir[buf] = w.out /\ dir \in [Names -> 0 .. used]
  BY <1>1 DEF Own, Files
<1>3. dir' = [dir EXCEPT ![buf] = 0]
  BY DEF Unlink, Absent
<1>4. dir'[buf] = 0
  BY <1>2, <1>3
<1> QED BY <1>1, <1>2, <1>4

LEMMA StepDClose == ASSUME IInv, DClose PROVE IInv'
<1>1. /\ pc = "d_close"
      /\ UNCHANGED <<ino, used, env, buf, armed, faults, owed, made, excused>>
  BY DEF DClose
<1>2. /\ pc \in Filling \ {"disarm"} /\ pc \in Writing /\ scene.d /\ Contents /\ w \in Locals
      /\ pc # "interrupted"
  BY <1>1, UnzipFacts
<1>3. scene.c => w.out = 0
  BY <1>2, WriteFacts
<1>4. CASE scene.c /\ dir' = dir /\ Return /\ (Warn \/ exit' = exit)
  <2>1. w.out = 0
    BY <1>3, <1>4
  <2> QED BY <1>1, <1>2, <1>4, <2>1, BackStep DEF Sound
<1>5. CASE ~ scene.c /\ Unlink(buf) /\ Return /\ Warn
  <2>1. w.out # 0 /\ dir' # dir
    BY <1>2, <1>5, UnlinkOwn
  <2> QED BY <1>1, <1>2, <1>5, <2>1, BackStep DEF Sound
<1>6. CASE ~ scene.c /\ w.tot # -1 /\ pc' = "d_reopen" /\ UNCHANGED <<dir, arg, live, w, exit>>
  <2>1. w' \in Locals /\ w' = w
    BY <1>2, <1>6
  <2>2. Written
    BY <1>1, <1>2, <1>6 DEF Contents
  <2>3. Written'
    <3>1. Output' = Output /\ Input' = Input
      BY <1>1, <1>6 DEF Output, Input
    <3> QED BY <1>6, <2>2, <3>1 DEF Written
  <2>4. Contents'
    BY <1>6, <2>3 DEF Contents, Leaving
  <2>5. pc' \in Filling \ {"z_init"} /\ pc' \notin Zipping
    BY <1>6 DEF Filling, Zipping
  <2> QED BY <1>1, <1>2, <1>6, <2>1, <2>4, <2>5, FillStay DEF fs, Sound
<1>7. \/ scene.c /\ dir' = dir /\ Return /\ (Warn \/ exit' = exit)
      \/ ~ scene.c /\ Unlink(buf) /\ Return /\ Warn
      \/ ~ scene.c /\ w.tot # -1 /\ pc' = "d_reopen" /\ UNCHANGED <<dir, arg, live, w, exit>>
  <2>1. CASE w.tot = -1
    BY <2>1 DEF DClose, Lose
  <2>2. CASE w.tot # -1
    BY <2>2 DEF DClose, Go
  <2> QED BY <2>1, <2>2
<1> QED BY <1>4, <1>5, <1>6, <1>7

LEMMA StepDReopen == ASSUME IInv, DReopen PROVE IInv'
<1>1. /\ pc = "d_reopen"
      /\ UNCHANGED <<ino, used, env, buf, armed, owed, made>>
  BY DEF DReopen
<1>2. /\ pc \in Filling \ {"disarm"} /\ pc \in Writing /\ scene.d /\ Contents /\ w \in Locals
      /\ pc # "interrupted" /\ Output \in Seq(Piece)
  BY <1>1, UnzipFacts
<1>3. ~ scene.c
  BY <1>1, <1>2, WriteFacts DEF Places, ToFile
<1>4. Own /\ w.out # 0
  BY <1>2, <1>3, WriteFacts
<1>5. dir[buf] = w.out /\ dir[buf] # Absent
  BY <1>4 DEF Own, Absent
<1>6. Written
  BY <1>1, <1>2, <1>3 DEF Contents
<1>7. CASE Fault /\ Lose /\ UNCHANGED <<dir, excused>>
  <2>1. Output = <<>> \/ WholeIn(ino, w.out)
    <3>1. CASE w.st = "cat"
      BY <1>6, <3>1 DEF Written
    <3>2. CASE w.st = "MAGIC0"
      BY <1>2, <1>4, <1>6, <3>2, WholeOf DEF Written, Converts
    <3> QED BY <1>6, <3>1, <3>2 DEF Written
  <2>2. Return /\ Warn
    BY <1>7 DEF Lose
  <2> QED BY <1>1, <1>2, <1>7, <2>1, <2>2, BackStep
<1>8. CASE Sound /\ Unlink(buf) /\ Lose /\ UNCHANGED excused
  <2>1. Return /\ Warn
    BY <1>8 DEF Lose
  <2>2. w.out # 0 /\ dir' # dir
    BY <1>2, <1>3, <1>8, UnlinkOwn
  <2> QED BY <1>1, <1>2, <1>8, <2>1, <2>2, BackStep
<1>9. CASE /\ Sound /\ Len(ino[dir[buf]].data) = w.tot
           /\ w' = [w EXCEPT !.out = dir[buf]]
           /\ excused' = IF w.err THEN excused \cup {"error"} ELSE excused
           /\ Go("modes") /\ UNCHANGED <<arg, live, exit, dir>>
  <2>1. w' = w
    <3>1. w \in Locals
      BY <1>2
    <3>2. w' = [w EXCEPT !.out = w.out]
      BY <1>5, <1>9
    <3> QED BY <3>1, <3>2 DEF Locals
  <2>2. pc' = "modes" /\ w' \in Locals
    BY <1>2, <1>9, <2>1 DEF Go
  <2>3. Input' = Input /\ Output' = Output
    BY <1>1, <2>1 DEF Input, Output
  <2>4. excused' = {} => Converts(Input, Output)
    <3> SUFFICES ASSUME excused' = {} PROVE Converts(Input, Output)
      OBVIOUS
    <3>1. ~ w.err
      BY <1>9
    <3>2. Len(Output) = w.tot
      BY <1>5, <1>9 DEF Output
    <3>3. w.st # "cat"
      <4> SUFFICES ASSUME w.st = "cat" PROVE FALSE
        OBVIOUS
      <4>1. Output = <<>> /\ w.tot > 0
        BY <1>6, <3>1 DEF Written
      <4>2. Len(Output) = 0
        BY <4>1, EmptySeq
      <4> QED BY <3>2, <4>1, <4>2
    <3>4. w.st = "MAGIC0"
      BY <1>6, <3>3 DEF Written
    <3> QED BY <1>6, <3>4 DEF Written, Converts
  <2>5. Contents'
    BY <2>2, <2>3, <2>4 DEF Contents, Leaving
  <2>6. pc' \in Filling \ {"z_init"} /\ pc' \notin Zipping /\ pc' \notin Unzipping
    BY <2>2 DEF Filling, Zipping, Unzipping
  <2>7. excused' = excused \/ excused' = excused \cup {"error"}
    BY <1>9
  <2> QED BY <1>1, <1>2, <1>3, <1>9, <2>1, <2>2, <2>5, <2>6, <2>7, FillStay DEF fs
<1> QED BY <1>5, <1>7, <1>8, <1>9 DEF DReopen

-----------------------------------------------------------------------------
(* The end of an operation. *)

LEMMA StepCopyModes == ASSUME IInv, CopyModes PROVE IInv'
<1>1. /\ pc = "modes" /\ pc' = "disarm" /\ (Sound \/ Fault) /\ (Warn \/ exit' = exit)
      /\ UNCHANGED <<dir, used, env, arg, buf, armed, live, w, owed, made, excused>>
  BY DEF CopyModes, Go
<1>2. PICK m \in {"copied", "no_setid"} : ino' = [ino EXCEPT ![w.out].mode = m]
  BY DEF CopyModes
<1>3. /\ pc \in Filling /\ pc \in Writing /\ pc' \in Filling \ {"z_init"}
      /\ pc' \notin Zipping /\ pc' \notin Unzipping /\ pc \in ToFile
  BY <1>1 DEF Filling, Writing, Zipping, Unzipping, ToFile
<1>4. /\ Contents /\ Control /\ w \in Locals /\ ino \in [0 .. MaxIno -> Inode]
      /\ w.out \in 0 .. MaxIno /\ w.in \in 0 .. MaxIno /\ pc # "interrupted"
      /\ (scene.d /\ w.out # 0 => IsPlain(Output))
  BY <1>3, WriteFacts
<1>5. ~ scene.c
  BY <1>3, WriteFacts DEF Places
<1>6. scene' = scene /\ w' = w /\ excused' = excused
  BY <1>1 DEF env
<1> DEFINE y == [ino[w.out] EXCEPT !.mode = m]
<1>7. y \in Inode /\ y.data = ino[w.out].data
  <2>1. ino[w.out] \in Inode
    BY <1>4
  <2> QED BY <2>1 DEF Inode
<1>8. ino' = [ino EXCEPT ![w.out] = y]
  BY <1>2, <1>4
<1> HIDE DEF y
<1>9. /\ ino' \in [0 .. MaxIno -> Inode]
      /\ \A i \in 0 .. MaxIno : ino'[i].data = ino[i].data /\ (i # w.out => ino'[i] = ino[i])
  BY <1>4, <1>7, <1>8
<1>10. Apart
  <2> SUFFICES ASSUME NEW i \in 1 .. MaxIno, i # w.out PROVE ino'[i] = ino[i]
    BY DEF Apart
  <2>1. i \in 0 .. MaxIno
    OBVIOUS
  <2> QED BY <1>9, <2>1
<1>11. Input' = Input /\ Output' = Output
  BY <1>4, <1>6, <1>9 DEF Input, Output
<1>12. excused = {} => Converts(Input, Output)
  BY <1>1, <1>4, <1>5 DEF Contents
<1>13. excused = {} /\ w.out # 0 => WholeIn(ino', w.out)
  <2> SUFFICES ASSUME excused = {}, w.out # 0 PROVE WholeIn(ino', w.out)
    OBVIOUS
  <2>1. WholeIn(ino, w.out)
    BY <1>3, <1>12, WholeOf
  <2>2. w.out \in Nat \ {0} /\ MaxIno \in Nat
    BY <1>4, BoundsAssumption
  <2>3. \A j \in 1 .. w.out : j \in 0 .. MaxIno
    BY <1>4, <2>2
  <2>4. \A j \in 1 .. w.out : ino'[j].data = ino[j].data
    BY <1>9, <2>3
  <2> QED BY <2>1, <2>2, <2>4, WholeStays
<1>14. scene.d /\ w.out # 0 => IsPlain(ino'[w.out].data)
  BY <1>4, <1>9 DEF Output
<1>15. Overall'
  BY <1>1, <1>4, <1>6, <1>9, <1>10, <1>13, <1>14, WriteStep
<1>16. (Control /\ Pointer /\ Places /\ Kinds)'
  <2>1. excused' \subseteq {"error", "stray"}
    BY <1>4, <1>6 DEF Control
  <2>2. pc' # "inflate" /\ pc' # "cat" /\ (pc' \in ToFile => ~ scene.c)
    BY <1>1, <1>5
  <2> QED BY <1>1, <1>3, <1>4, <1>6, <1>10, <2>1, <2>2, FillStep
<1>17. Contents' /\ Hidden'
  BY <1>1, <1>6, <1>11, <1>12 DEF Contents, Hidden, Leaving
<1> QED BY <1>15, <1>16, <1>17 DEF IInv, Locally

(* From one step of the end to the next: the output is done. *)
LEMMA LeaveStep ==
  ASSUME IInv, pc \in {"disarm", "stat_in"}, pc' \in Leaving,
         UNCHANGED <<fs, env, arg, buf, live, w, exit, faults, owed, made, excused>>,
         ~ armed', armed' \in BOOLEAN,
         pc' = "unlink_in" => dir[w.file] = w.in
  PROVE  IInv'
<1>1. pc \in Writing /\ pc \in ToFile /\ pc \in {"modes", "disarm"} \cup Leaving
  BY DEF Writing, Filling, Leaving, ToFile
<1>2. /\ Control /\ Pointer /\ Places /\ Kinds /\ Contents /\ w \in Locals /\ w.file \in Names
      /\ w.in \in 1 .. used /\ w.in # w.out /\ pc # "interrupted"
  BY <1>1, WriteFacts
<1>3. ~ scene.c
  BY <1>1, <1>2 DEF Places
<1>4. Own /\ w.out # 0
  BY <1>1, <1>3, WriteFacts
<1>5. /\ scene' = scene /\ dir' = dir /\ ino' = ino /\ used' = used /\ made' = made
      /\ excused' = excused /\ others' = others /\ w' = w /\ buf' = buf /\ arg' = arg
      /\ exit' = exit /\ faults' = faults /\ (live' <=> live)
  BY DEF fs, env
<1>6. /\ pc' \notin Between /\ pc' \notin Opening /\ pc' \notin Naming /\ pc' \in Writing
      /\ pc' \notin Filling /\ pc' \in Working /\ pc' \notin {"arm", "z_init"}
      /\ pc' \notin Zipping /\ pc' \notin Unzipping /\ pc' \in Pcs
      /\ pc' \notin {"done", "interrupted"}
  BY DEF Between, Opening, Naming, Writing, Filling, Leaving, Working, Zipping, Unzipping, Pcs
<1>7. Control'
  <2>1. live' \in BOOLEAN
    BY <1>2 DEF Control
  <2> QED BY <1>2, <1>5, <1>6, <2>1 DEF Control
<1>8. Pointer'
  <2>1. buf' \in Names /\ ~ scene'.c
    BY <1>3, <1>4, <1>5 DEF Own
  <2> QED BY <1>6, <2>1 DEF Pointer
<1>9. Places'
  <2>1. Own'
    BY <1>4, <1>5 DEF Own
  <2>2. arg \in DOMAIN scene.argv
    BY <1>1, <1>2 DEF Places, Working
  <2>3. pc' = "unlink_in" => buf # w.file
    BY <1>2, <1>4 DEF Own
  <2> QED BY <1>2, <1>3, <1>5, <1>6, <2>1, <2>2, <2>3 DEF Places
<1>10. Input' = Input /\ Output' = Output
  BY <1>5 DEF Input, Output
<1>11. Kinds'
  <2>1. ~ scene.d => w.file \in Plainly /\ w.in \notin made
    BY <1>1, <1>2, <1>3 DEF Kinds
  <2>2. scene.d => /\ Input # <<>> /\ w.st # ""
                   /\ w.st # "cat" => Input[1].t = "H"
    <3>1. pc \in {"modes", "disarm"} \cup Leaving /\ pc \in Working
      BY <1>1 DEF Working
    <3> QED BY <1>2, <3>1 DEF Kinds
  <2>3. /\ pc' \notin {"d_links", "check", "unlink_out", "create", "arm"}
        /\ pc' \notin Opening \cup {"d_copy", "d_suffix", "d_magic"}
        /\ pc' # "inflate" /\ pc' # "cat"
    BY DEF Leaving, Opening
  <2> QED BY <1>5, <1>6, <1>10, <2>1, <2>2, <2>3 DEF Kinds
<1>12. Contents' /\ Hidden'
  <2>1. excused = {} => Converts(Input, Output)
    BY <1>1, <1>2, <1>3 DEF Contents
  <2>2. /\ pc' \notin {"arm", "z_init"} /\ pc' \notin {"deflate", "finish", "trailer"}
        /\ pc' \notin {"finish", "trailer"} /\ pc' \notin {"trailer", "c_size", "inflate", "cat",
                                                          "d_close", "d_reopen"}
    BY DEF Leaving
  <2> QED BY <1>5, <1>10, <2>1, <2>2 DEF Contents, Hidden
<1>13. Overall'
  <2>1. pc' = "unlink_in" => dir'[w'.file] = w'.in
    BY <1>5
  <2> QED BY <1>2, <1>5, <1>6, <2>1, GoOnStep
<1> QED BY <1>7, <1>8, <1>9, <1>11, <1>12, <1>13 DEF IInv, Locally

LEMMA StepDisarm == ASSUME IInv, Disarm PROVE IInv'
<1>1. /\ pc = "disarm" /\ pc' = "stat_in" /\ ~ armed' /\ armed' \in BOOLEAN
      /\ UNCHANGED <<fs, env, arg, buf, live, w, exit, faults, owed, made, excused>>
  BY DEF Disarm, Go
<1>2. pc' \in Leaving
  BY <1>1 DEF Leaving
<1> QED BY <1>1, <1>2, LeaveStep

LEMMA StepStatInput == ASSUME IInv, StatInput PROVE IInv'
<1>1. /\ pc = "stat_in" /\ pc \in Leaving /\ pc \in Writing /\ pc \in ToFile
      /\ UNCHANGED <<fs, env, buf, armed, exit, faults, owed, made, excused>>
  BY DEF StatInput, Leaving, Writing, ToFile
<1>2. /\ Control /\ Pointer /\ Places /\ Contents /\ pc # "interrupted"
  BY <1>1, WriteFacts
<1>3. ~ scene.c
  BY <1>1, <1>2 DEF Places
<1>4. CASE Return
  <2>1. excused = {} => Converts(Input, Output)
    BY <1>1, <1>2, <1>3 DEF Contents
  <2>2. excused = {} /\ w.out # 0 => WholeIn(ino, w.out)
    BY <1>1, <2>1, WholeOf
  <2> QED BY <1>1, <1>2, <1>4, <2>2, BackStep DEF fs, Sound
<1>5. CASE StillInput /\ Go("unlink_in") /\ UNCHANGED <<arg, live, w>>
  <2>1. pc' \in Leaving /\ dir[w.file] = w.in
    BY <1>5 DEF Leaving, Go, StillInput
  <2>2. ~ armed /\ armed \in BOOLEAN
    BY <1>1, <1>2 DEF Pointer, Control
  <2>3. ~ armed' /\ armed' \in BOOLEAN
    BY <1>1, <2>2
  <2> QED BY <1>1, <1>5, <2>1, <2>3, LeaveStep
<1> QED BY <1>4, <1>5 DEF StatInput

LEMMA StepUnlinkInput == ASSUME IInv, UnlinkInput PROVE IInv'
<1>1. /\ pc = "unlink_in" /\ Unlink(w.file) /\ Return /\ pc \in Leaving /\ pc \in Writing
      /\ pc \in ToFile
      /\ UNCHANGED <<ino, used, env, buf, armed, exit, faults, owed, made, excused>>
  BY DEF UnlinkInput, Leaving, Writing, ToFile
<1>2. /\ Files /\ Control /\ Places /\ Kinds /\ Plains /\ Contents /\ w.file \in Names
      /\ w.in \in 1 .. used /\ w.in # w.out /\ Input \in Seq(Piece) /\ Output \in Seq(Piece)
      /\ (scene.d /\ w.out # 0 => IsPlain(Output)) /\ pc # "interrupted"
  BY <1>1, WriteFacts
<1>3. ~ scene.c /\ buf # w.file
  BY <1>1, <1>2 DEF Places
<1>4. Own /\ w.out # 0
  BY <1>1, <1>3, WriteFacts
<1>5. /\ scene' = scene /\ ino' = ino /\ used' = used /\ made' = made /\ owed' = owed
      /\ others' = others /\ excused' = excused /\ exit' = exit /\ faults' = faults
      /\ pc' = "next" /\ w' = Idle /\ w'.out = 0
  BY <1>1, IdleType DEF env, Return
<1>6. Held /\ Settled /\ PrivateUntilWhole
  BY DEF IInv, Overall
<1>7. Locally'
  <2>1. exit' \in 0 .. 2 /\ faults' \in 0 .. MaxFaults /\ excused' \subseteq {"error", "stray"}
    BY <1>2, <1>5 DEF Control
  <2> QED BY <1>1, <1>5, <2>1, BackLocal
<1>8. dir \in [Names -> 0 .. used] /\ used \in Nat /\ made \subseteq 1 .. used
  BY <1>2, BoundsAssumption DEF Files
<1>9. /\ dir' \in [Names -> 0 .. used]
      /\ \A n \in Names : dir'[n] = IF n = w.file THEN 0 ELSE dir[n]
  <2>1. dir' = [dir EXCEPT ![w.file] = 0] /\ 0 \in 0 .. used
    BY <1>1, <1>8 DEF Unlink, Absent
  <2> QED BY <1>8, <2>1
<1>10. 0 \notin made
  BY <1>8
<1>11. Files' /\ PrivateUntilWhole'
  BY <1>2, <1>5, <1>6, <1>9 DEF Files, PrivateUntilWhole, Whole
<1>12. Plains'
  <2>1. ~ scene.d => \A n \in Plainly : dir'[n] \notin made
    BY <1>2, <1>9, <1>10 DEF Plains, Names
  <2> QED BY <1>2, <1>5, <2>1 DEF Plains
<1>13. excused = {} => Converts(Input, Output)
  BY <1>1, <1>2, <1>3 DEF Contents
<1>14. Held'
  <2> SUFFICES ASSUME excused = {}, NEW d \in owed PROVE \E n \in Names : Holds(n, d)'
    BY <1>5 DEF Held
  <2>1. PICK n \in Names : Holds(n, d)
    BY <1>6 DEF Held
  <2>2. /\ dir[n] # 0 /\ dir[n] # w.out
        /\ (dir[n] \in made => Same(d, ino[dir[n]].data))
        /\ (dir[n] \notin made => ino[dir[n]].data = d)
        /\ (n # w.file \/ dir[n] = w.in)
    BY <1>1, <2>1 DEF Holds, Absent
  <2>3. CASE n # w.file
    <3>1. dir'[n] = dir[n]
      BY <1>9, <2>3
    <3> QED BY <1>5, <2>2, <3>1 DEF Holds, Absent
  <2>4. CASE n = w.file
    <3>1. dir[n] = w.in
      BY <2>2, <2>4
    <3>2. w.in \notin made
      <4>1. CASE ~ scene.d
        BY <1>1, <1>2, <1>3, <4>1 DEF Kinds
      <4>2. CASE scene.d
        <5>1. SUFFICES ASSUME w.in \in made PROVE FALSE
          OBVIOUS
        <5>2. IsPlain(Input)
          BY <1>2, <4>2, <5>1 DEF Plains, Input
        <5>3. IsPlain(Output)
          BY <1>2, <1>4, <4>2
        <5> QED BY <1>2, <1>13, <5>2, <5>3, NotBothPlain
      <4> QED BY <4>1, <4>2
    <3>3. d = Input
      BY <2>2, <3>1, <3>2 DEF Input
    <3>4. Same(d, Output)
      BY <1>13, <3>3 DEF Same
    <3>5. buf \in Names /\ dir[buf] = w.out /\ w.out \in made
      BY <1>4 DEF Own
    <3>6. dir'[buf] = w.out
      BY <1>3, <1>9, <3>5
    <3> QED BY <1>4, <1>5, <3>4, <3>5, <3>6 DEF Holds, Absent, Output
  <2> QED BY <2>3, <2>4
<1>15. Settled'
  <2> SUFFICES ASSUME excused = {}, NEW n \in Names, dir'[n] \in made
               PROVE  ino[dir'[n]].data = <<>> \/ WholeIn(ino, dir'[n])
    BY <1>5 DEF Settled, Whole, WholeIn
  <2>1. dir'[n] = dir[n]
    BY <1>9, <1>10
  <2>2. CASE dir[n] = w.out
    <3>1. WholeIn(ino, w.out)
      BY <1>1, <1>4, <1>13, WholeOf
    <3> QED BY <2>1, <2>2, <3>1
  <2>3. CASE dir[n] # w.out
    BY <1>6, <2>1, <2>3 DEF Settled, Whole, WholeIn
  <2> QED BY <2>2, <2>3
<1> QED BY <1>7, <1>11, <1>12, <1>14, <1>15 DEF IInv, Overall

(* The program ends, or is ended: nothing is going on any more. *)
LEMMA EndLocal ==
  ASSUME IInv, pc' \in {"done", "interrupted"}, pc' = "done" => w = Idle /\ ~ live,
         UNCHANGED <<scene, arg, buf, armed, live, w, exit, faults, made>>,
         excused' \subseteq {"error", "stray"}
  PROVE  Locally'
<1>1. Control /\ Pointer /\ Places
  BY DEF IInv, Locally
<1>2. /\ pc' \in Pcs /\ pc' \notin Opening /\ pc' \notin Naming /\ pc' \notin Writing
      /\ pc' \notin Filling /\ pc' \notin Leaving /\ pc' \notin Working /\ pc' \notin ToFile
      /\ pc' \notin Zipping /\ pc' \notin Unzipping /\ (pc' \in Between => pc' = "done")
  BY DEF Pcs, Between, Opening, Naming, Writing, Filling, Leaving, Working, ToFile, Zipping,
         Unzipping
<1>3. Control'
  <2>1. armed' \in BOOLEAN /\ live' \in BOOLEAN
    BY <1>1 DEF Control
  <2> QED BY <1>1, <1>2, <2>1 DEF Control
<1>4. Pointer'
  <2>1. (scene.c => ~ live) /\ (armed \/ live => buf \in Names)
    BY <1>1 DEF Pointer
  <2>2. (scene'.c => ~ live') /\ (armed' \/ live' => buf' \in Names) /\ (pc' = "done" => ~ live')
    BY <2>1
  <2> QED BY <1>2, <2>2 DEF Pointer
<1>5. Places'
  <2>1. scene.c => made = {} /\ w.out = 0
    BY <1>1 DEF Places
  <2> QED BY <1>2, <2>1 DEF Places
<1>6. Kinds' /\ Contents' /\ Hidden'
  <2>1. /\ pc' \notin {"check", "unlink_out", "create"} /\ pc' \notin {"inflate"}
        /\ pc' \notin {"cat"} /\ pc' \notin {"d_links", "check", "unlink_out", "create", "arm"}
        /\ pc' \notin {"d_links", "check", "unlink_out", "create", "arm", "modes", "disarm",
                       "inflate", "cat", "d_close", "d_reopen"}
        /\ pc' \notin {"d_copy", "d_suffix", "d_magic"}
    OBVIOUS
  <2> QED BY <1>2, <2>1 DEF Kinds, Contents, Hidden
<1> QED BY <1>3, <1>4, <1>5, <1>6 DEF Locally

LEMMA StepFinish == ASSUME IInv, Finish PROVE IInv'
<1>1. /\ pc = "next" /\ pc' = "done"
      /\ UNCHANGED <<fs, env, arg, buf, armed, live, w, exit, faults, owed, made, excused>>
  BY DEF Finish, Go
<1>2. Control /\ w = Idle /\ ~ live
  BY <1>1 DEF IInv, Locally, Pointer, Places, Between
<1>3. /\ scene' = scene /\ dir' = dir /\ ino' = ino /\ used' = used /\ w' = w
      /\ excused' \subseteq {"error", "stray"}
  BY <1>1, <1>2 DEF fs, env, Control
<1>4. Locally'
  BY <1>1, <1>2, <1>3, EndLocal
<1>5. w.out = 0 /\ w'.out = 0
  BY <1>2, <1>3, IdleType
<1>6. Overall'
  BY <1>1, <1>3, <1>5, OverStep
<1> QED BY <1>4, <1>6 DEF IInv

LEMMA StepSigint == ASSUME IInv, Sigint PROVE IInv'
<1>1. /\ pc \notin {"done", "interrupted"} /\ pc' = "interrupted"
      /\ UNCHANGED <<scene, ino, used, arg, buf, armed, live, w, exit, faults, others, owed, made>>
  BY DEF Sigint, Go
<1>2. /\ Files /\ Control /\ Pointer /\ Places /\ Plains /\ Contents
  BY DEF IInv, Locally, Overall
<1>3. excused' \subseteq {"error", "stray"} /\ (excused' = {} => excused = {})
  BY <1>2 DEF Sigint, Control
<1>4. Locally'
  BY <1>1, <1>3, EndLocal
<1>5. w'.out = w.out /\ pc' # "unlink_in" /\ UNCHANGED <<ino, used, env, owed, made>>
  BY <1>1 DEF env
<1>6. CASE armed /\ buf # "" /\ Unlink(buf) /\ live
  <2>1. pc \in Filling \cup Leaving /\ pc \notin Leaving /\ ~ scene.c
    BY <1>1, <1>2, <1>6 DEF Pointer
  <2>2. pc \in Writing
    BY <2>1 DEF Writing
  <2>3. w.out # 0 /\ dir' # dir
    BY <1>6, <2>1, <2>2, UnlinkOwn
  <2>4. Overall'
    BY <1>1, <1>3, <1>5, <1>6, <2>3, OverStep
  <2> QED BY <1>4, <2>4 DEF IInv
<1>7. CASE armed /\ buf # "" /\ Unlink(buf) /\ excused' = excused \cup {"stray"}
  <2>1. excused' # {}
    BY <1>7
  <2>0. buf \in Names
    <3>1. buf # ""
      BY <1>7
    <3> QED BY <1>2, <3>1 DEF Control
  <2>2. dir \in [Names -> 0 .. used] /\ used \in Nat /\ made \subseteq 1 .. used
    BY <1>2, BoundsAssumption DEF Files
  <2>3. /\ dir' \in [Names -> 0 .. used]
        /\ \A n \in Names : dir'[n] = IF n = buf THEN 0 ELSE dir[n]
    <3>1. dir' = [dir EXCEPT ![buf] = 0]
      BY <1>7 DEF Unlink, Absent
    <3>2. 0 \in 0 .. used
      BY <2>2
    <3> QED BY <2>0, <2>2, <3>1, <3>2
  <2>4. Files'
    BY <1>1, <1>2, <2>3 DEF Files
  <2>5. 0 \notin made
    BY <2>2
  <2>6. Plains'
    <3>1. ~ scene.d => \A n \in Plainly : dir'[n] \notin made
      BY <1>2, <2>3, <2>5 DEF Plains, Names
    <3> QED BY <1>1, <1>2, <3>1 DEF Plains
  <2>7. Held' /\ Settled' /\ PrivateUntilWhole'
    BY <2>1 DEF Held, Settled, PrivateUntilWhole
  <2> QED BY <1>4, <2>4, <2>6, <2>7 DEF IInv, Overall
<1>8. CASE ~ (armed /\ live) /\ UNCHANGED <<dir, excused>>
  <2>1. excused = {} /\ w.out # 0 => Output = <<>> \/ WholeIn(ino, w.out)
    <3> SUFFICES ASSUME excused = {}, w.out # 0 PROVE Output = <<>> \/ WholeIn(ino, w.out)
      OBVIOUS
    <3>1. ~ scene.c /\ pc \in Writing
      BY <1>1, <1>2, OutputFacts
    <3>2. pc \notin Filling
      BY <1>2, <1>8, <3>1 DEF Pointer
    <3>3. pc = "arm" \/ pc \in Leaving
      BY <3>1, <3>2 DEF Writing
    <3>4. CASE pc = "arm"
      BY <1>2, <3>1, <3>4 DEF Contents
    <3>5. CASE pc \in Leaving
      <4>1. Converts(Input, Output)
        BY <1>2, <3>1, <3>5 DEF Contents
      <4> QED BY <3>1, <4>1, WholeOf
    <3> QED BY <3>3, <3>4, <3>5
  <2>2. Overall'
    BY <1>1, <1>3, <1>5, <1>8, <2>1, OverStep
  <2> QED BY <1>4, <2>2 DEF IInv
<1> QED BY <1>6, <1>7, <1>8 DEF Sigint

-----------------------------------------------------------------------------
(* A step of the other program: one name, that is no output's, and perhaps a
   new file.                                                                 *)
LEMMA OtherStep ==
  ASSUME IInv, UNCHANGED <<scene, pc, arg, buf, armed, live, w, exit, faults, made, excused>>,
         used' \in used .. MaxIno, dir' \in [Names -> 0 .. used'], others' \in 0 .. MaxOthers,
         NEW n \in Names, dir[n] \notin made, dir'[n] \notin made,
         \A m \in Names : m # n => dir'[m] = dir[m],
         ino' \in [0 .. MaxIno -> Inode], \A i \in 0 .. used : ino'[i] = ino[i],
         \A i \in (used + 1) .. used' : IsPlain(ino'[i].data),
         Held'
  PROVE  IInv'
<1>1. /\ Files /\ Control /\ Pointer /\ Places /\ Kinds /\ Contents /\ Hidden /\ Plains /\ Settled
      /\ PrivateUntilWhole
  BY DEF IInv, Locally, Overall
<1>2. /\ scene' = scene /\ pc' = pc /\ w' = w /\ buf' = buf /\ made' = made /\ arg' = arg
      /\ excused' = excused
  OBVIOUS
<1>3. used \in Nat /\ used' \in Nat /\ used <= used' /\ used' \in 0 .. MaxIno /\ MaxIno \in Nat
      /\ made \subseteq 1 .. used
  BY <1>1, BoundsAssumption DEF Files
<1>4. \A i \in made : i \in 0 .. used /\ ino'[i] = ino[i] /\ i \in 1 .. used'
  BY <1>3
<1>5. Files'
  <2>1. made' \subseteq 1 .. used'
    BY <1>2, <1>4
  <2> QED BY <1>1, <1>2, <1>3, <2>1 DEF Files
<1>6. Control'
  <2>1. armed' \in BOOLEAN /\ live' \in BOOLEAN
    BY <1>1 DEF Control
  <2> QED BY <1>1, <2>1 DEF Control
<1>7. Pointer'
  <2>1. (armed' <=> armed) /\ (live' <=> live)
    OBVIOUS
  <2> QED BY <1>1, <1>2, <2>1 DEF Pointer
<1>8. \A m \in Names : dir[m] \in made => m # n /\ dir'[m] = dir[m]
  OBVIOUS
<1>9. \A m \in Names : dir'[m] \in made => m # n /\ dir'[m] = dir[m]
  OBVIOUS
<1>10. Own => Own'
  <2> SUFFICES ASSUME Own PROVE Own'
    OBVIOUS
  <2>1. w.out \in made /\ buf \in Names /\ dir[buf] = w.out
    BY DEF Own
  <2>2. dir'[buf] = w.out
    BY <1>8, <2>1
  <2>3. \A m \in Names : dir'[m] = w.out => dir[m] = w.out
    BY <1>9, <2>1
  <2> QED BY <1>2, <2>1, <2>2, <2>3 DEF Own
<1>11. Places'
  <2>1. w.in \in 1 .. used => w.in \in 1 .. used'
    BY <1>3
  <2>2. Fresh' <=> Fresh
    BY <1>2 DEF Fresh
  <2> QED BY <1>1, <1>2, <1>10, <2>1, <2>2 DEF Places
<1>12. pc \in Working \ Opening => Input' = Input
  <2>1. pc \in Working \ Opening => pc \in Naming \cup Writing
    BY DEF Working
  <2>2. pc \in Working \ Opening => w.in \in 1 .. used
    BY <1>1, <2>1 DEF Places
  <2>3. w.in \in 1 .. used => ino'[w.in] = ino[w.in]
    BY <1>3
  <2> QED BY <1>2, <2>2, <2>3 DEF Input
<1>13. pc \in Writing /\ ~ scene.c => ino'[w.out] = ino[w.out] /\ Output' = Output
  <2> SUFFICES ASSUME pc \in Writing, ~ scene.c
               PROVE  ino'[w.out] = ino[w.out] /\ Output' = Output
    OBVIOUS
  <2>1. w.out \in made
    BY <1>1 DEF Places, Own
  <2> QED BY <1>2, <1>4, <2>1 DEF Output
<1>14. Kinds'
  <2>1. ~ scene.d => /\ pc' \in Naming \cup Writing /\ w'.file \in Plainly => w'.in \notin made'
                     /\ ~ scene.c /\ pc' \in Writing \cup (Naming \ {"c_name"}) => w'.file \in Plainly
                     /\ pc' \in {"check", "unlink_out", "create"} => buf' \notin Plainly
    BY <1>1, <1>2 DEF Kinds
  <2>2. pc \in {"d_links", "check", "unlink_out", "create", "arm", "modes",
                "disarm", "inflate", "cat", "d_close", "d_reopen"} \cup Leaving =>
          pc \in Working \ Opening
    BY DEF Working, Opening, Naming, Writing, Filling, Leaving
  <2>3. scene.d /\ pc \in Opening => w.st = ""
    BY <1>1 DEF Kinds
  <2>4. scene.d => /\ pc' \in {"d_links", "check", "unlink_out", "create", "arm", "modes",
                               "disarm", "inflate", "cat", "d_close", "d_reopen"} \cup Leaving =>
                        Input' # <<>> /\ w'.st # ""
                   /\ w'.st \notin {"", "cat"} /\ pc' \in Working => Input' # <<>> /\ Input'[1].t = "H"
    BY <1>1, <1>2, <1>12, <2>2, <2>3 DEF Kinds
  <2>5. scene.d => /\ pc' \in Opening \cup {"d_copy", "d_suffix", "d_magic"} => w'.st = ""
                   /\ pc' \in {"d_links", "check", "unlink_out", "create", "arm"} =>
                        w'.st \in {"MAGIC0", "cat"}
                   /\ pc' \in {"inflate"} => w'.st # "cat"
                   /\ pc' \in {"cat"} => w'.st = "cat"
    BY <1>1, <1>2 DEF Kinds
  <2> QED BY <1>2, <2>1, <2>4, <2>5 DEF Kinds
<1>15. pc \in Writing => Input' = Input
  <2>1. pc \in Writing => pc \in Working \ Opening
    BY DEF Working, Writing, Opening, Filling, Leaving
  <2> QED BY <1>12, <2>1
<1>16. Contents'
  <2> SUFFICES ASSUME ~ scene.c PROVE Contents'
    BY <1>2 DEF Contents
  <2>1. CASE pc \in Writing
    <3>1. Input' = Input /\ Output' = Output
      BY <1>13, <1>15, <2>1
    <3>2. (Deflated' <=> Deflated) /\ (Written' <=> Written)
      BY <1>2, <3>1 DEF Deflated, Written
    <3>3. Inflated' <=> Inflated
      BY <1>2, <3>1 DEF Inflated, Inside, Began
    <3> QED BY <1>1, <1>2, <3>1, <3>2, <3>3 DEF Contents
  <2>2. CASE pc \notin Writing
    <3>1. /\ pc' \notin {"arm", "z_init"} /\ pc' \notin {"deflate", "finish", "trailer"}
          /\ pc' \notin {"finish", "trailer"} /\ pc' # "trailer" /\ pc' # "c_size"
          /\ pc' # "inflate" /\ pc' # "cat" /\ pc' # "d_close" /\ pc' # "d_reopen"
          /\ pc' \notin {"modes", "disarm"} \cup Leaving
      BY <1>2, <2>2 DEF Writing, Filling
    <3> QED BY <3>1 DEF Contents
  <2> QED BY <2>1, <2>2
<1>17. Hidden'
  BY <1>1, <1>2, <1>13 DEF Hidden
<1>18. Plains'
  <2>1. ASSUME ~ scene.d, NEW i \in 1 .. used', i \notin made PROVE IsPlain(ino'[i].data)
    <3>1. i \in 1 .. used \/ i \in (used + 1) .. used'
      BY <1>3
    <3>2. CASE i \in 1 .. used
      <4>1. i \in 0 .. used
        BY <1>3, <3>2
      <4> QED BY <1>1, <2>1, <3>2, <4>1 DEF Plains
    <3> QED BY <3>1, <3>2
  <2>2. ~ scene.d => \A m \in Plainly : dir'[m] \notin made
    BY <1>1, <1>9 DEF Plains, Names
  <2>3. scene.d => \A i \in made : IsPlain(ino'[i].data)
    BY <1>1, <1>4 DEF Plains
  <2> QED BY <1>2, <2>1, <2>2, <2>3 DEF Plains
<1>19. ASSUME NEW i \in made, WholeIn(ino, i) PROVE WholeIn(ino', i)
  <2>1. i \in Nat \ {0} /\ \A j \in 1 .. i : j \in 0 .. used
    BY <1>3
  <2>2. \A j \in 1 .. i : ino'[j].data = ino[j].data
    BY <2>1
  <2> QED BY <1>19, <2>1, <2>2, WholeStays
<1>20. Settled'
  <2> SUFFICES ASSUME excused = {}, NEW m \in Names, dir'[m] \in made, dir'[m] = w.out => Ended
               PROVE  ino'[dir'[m]].data = <<>> \/ WholeIn(ino', dir'[m])
    BY <1>2 DEF Settled, Whole, WholeIn, Ended
  <2>1. dir'[m] = dir[m]
    BY <1>9
  <2>2. ino[dir[m]].data = <<>> \/ WholeIn(ino, dir[m])
    BY <1>1, <2>1 DEF Settled, Whole, WholeIn
  <2> QED BY <1>4, <1>19, <2>1, <2>2
<1>21. PrivateUntilWhole'
  <2> SUFFICES ASSUME excused = {}, NEW i \in made, ino'[i].mode # "private"
               PROVE  WholeIn(ino', i)
    BY <1>2 DEF PrivateUntilWhole, Whole, WholeIn
  <2>1. WholeIn(ino, i)
    BY <1>1, <1>4 DEF PrivateUntilWhole, Whole, WholeIn
  <2> QED BY <1>19, <2>1
<1> QED BY <1>5, <1>6, <1>7, <1>11, <1>14, <1>16, <1>17, <1>18, <1>20, <1>21
        DEF IInv, Locally, Overall

LEMMA NewType ==
  /\ New \in Seq(Piece) /\ IsPlain(New)
  /\ [data |-> New, name |-> "", mode |-> "copied"] \in Inode
<1>1. Len(<<9>>) = 1 /\ <<9>>[1] = 9
  OBVIOUS
<1>2. New = [i \in 1 .. 1 |-> Block(<<9>>[i])]
  BY <1>1 DEF New, Plain
<1>3. Block(9) \in Piece /\ Block(9).t = "B"
  BY PieceFacts DEF Block
<1>4. \A i \in 1 .. 1 : Block(<<9>>[i]) = Block(9)
  BY <1>1
<1>5. New \in [1 .. 1 -> Piece] /\ \A i \in 1 .. 1 : New[i] = Block(9)
  BY <1>2, <1>3, <1>4
<1>6. New \in Seq(Piece)
  BY <1>5, SeqDef
<1>7. DOMAIN New = 1 .. 1
  BY <1>2
<1>8. IsPlain(New)
  BY <1>3, <1>5, <1>7 DEF IsPlain
<1> QED BY <1>6, <1>8 DEF Inode

(* One inode more. *)
LEMMA NextInode ==
  ASSUME NEW o, NEW M, M \in Nat \ {0}, o \in 0 .. M, o < M
  PROVE  /\ o \in Nat /\ M \in Nat /\ o + 1 \in 0 .. M /\ o + 1 \in o .. M /\ o + 1 \in Nat
         /\ o + 1 # 0 /\ o + 1 \in 0 .. (o + 1)
         /\ \A i \in 0 .. o : i # o + 1 /\ i \in 0 .. M /\ i \in 0 .. (o + 1)
         /\ \A i \in (o + 1) .. (o + 1) : i = o + 1
         /\ \A i \in 1 .. o : i \in 0 .. o
OBVIOUS

LEMMA PutInode ==
  ASSUME ino \in [0 .. MaxIno -> Inode], NEW u, u \in 0 .. MaxIno, NEW y, y \in Inode,
         ino' = [ino EXCEPT ![u] = y]
  PROVE  /\ ino' \in [0 .. MaxIno -> Inode] /\ ino'[u] = y
         /\ \A i \in 0 .. MaxIno : i # u => ino'[i] = ino[i]
OBVIOUS

LEMMA NextStep ==
  ASSUME NEW o, NEW M, M \in Nat, o \in 0 .. M, o < M
  PROVE  o + 1 \in 0 .. M
OBVIOUS

LEMMA OtherPuts ==
  ASSUME IInv, Other, used < MaxIno, NEW n \in Names, dir[n] \notin made,
         used' = used + 1, dir' = [dir EXCEPT ![n] = used'],
         ino' = [ino EXCEPT ![used'] = [data |-> New, name |-> "", mode |-> "copied"]],
         UNCHANGED <<scene, pc, arg, buf, armed, live, w, exit, faults, made, excused>>,
         \A d \in owed' : \/ d \in owed /\ (dir[n] = Absent \/ d # ino[dir[n]].data)
                          \/ d \in NewOwed(n)
  PROVE  IInv'
<1> DEFINE u == used + 1
           y == [data |-> New, name |-> "", mode |-> "copied"]
<1>1. Files /\ Control /\ Places /\ Held /\ pc # "interrupted"
  BY DEF IInv, Locally, Overall, Other
<1>2. /\ used \in Nat /\ MaxIno \in Nat /\ u \in 0 .. MaxIno /\ u \in used .. MaxIno /\ u \in Nat
      /\ u # 0 /\ u = used + 1 /\ used' = u /\ u \in 0 .. u
      /\ \A i \in 0 .. used : i # u /\ i \in 0 .. MaxIno /\ i \in 0 .. u
      /\ \A i \in (used + 1) .. u : i = u
      /\ \A i \in 1 .. used : i \in 0 .. used
  <2>1. used \in 0 .. MaxIno
    BY <1>1 DEF Files
  <2>2. MaxIno \in Nat \ {0}
    BY BoundsAssumption
  <2>3. used < MaxIno /\ used' = used + 1
    OBVIOUS
  <2> QED BY <2>1, <2>2, <2>3, NextInode
<1>3. /\ dir \in [Names -> 0 .. used] /\ ino \in [0 .. MaxIno -> Inode] /\ made \subseteq 1 .. used
      /\ w.out \in 0 .. used
  BY <1>1, OutputFacts DEF Files
<1>4. u \notin made /\ u # w.out /\ \A i \in 0 .. used : i # u /\ i \in 0 .. MaxIno /\ i \in 0 .. u
  <2>1. \A i \in made : i \in 1 .. used
    BY <1>3
  <2>2. \A i \in made : i # u
    BY <1>2, <2>1
  <2> QED BY <1>2, <1>3, <2>2
<1>5. dir' = [dir EXCEPT ![n] = u] /\ ino' = [ino EXCEPT ![u] = y]
  BY <1>2
<1>6. y \in Inode /\ y.data = New /\ IsPlain(New)
  BY NewType
<1> HIDE DEF u, y
<1>7. /\ dir' \in [Names -> 0 .. u]
      /\ \A m \in Names : dir'[m] = IF m = n THEN u ELSE dir[m]
  <2>1. u \in 0 .. u /\ 0 .. used \subseteq 0 .. u
    BY <1>2
  <2>2. dir \in [Names -> 0 .. u]
    BY <1>3, <2>1
  <2> QED BY <1>5, <2>1, <2>2
<1>8. /\ ino' \in [0 .. MaxIno -> Inode] /\ ino'[u] = y
      /\ \A i \in 0 .. used : ino'[i] = ino[i]
  <2>1. u \in 0 .. MaxIno /\ \A i \in 0 .. used : i # u /\ i \in 0 .. MaxIno
    BY <1>2
  <2>2. ino \in [0 .. MaxIno -> Inode] /\ ino' = [ino EXCEPT ![u] = y]
    BY <1>3, <1>5
  <2>3. y \in Inode
    BY <1>6
  <2>4. ino' \in [0 .. MaxIno -> Inode] /\ ino'[u] = y /\ \A i \in 0 .. MaxIno : i # u => ino'[i] = ino[i]
    BY <2>1, <2>2, <2>3, PutInode, Zenon
  <2> QED BY <2>1, <2>4
<1>9. \A i \in (used + 1) .. u : IsPlain(ino'[i].data)
  <2>1. \A i \in (used + 1) .. u : i = u
    BY <1>2
  <2> QED BY <1>6, <1>8, <2>1
<1>10. others' \in 0 .. MaxOthers
  <2>1. others \in 0 .. MaxOthers
    BY <1>1 DEF Files
  <2>2. MaxOthers \in Nat /\ others < MaxOthers /\ others' = others + 1
    BY BoundsAssumption DEF Other
  <2> QED BY <2>1, <2>2, NextStep
<1>11. Held'
  <2> SUFFICES ASSUME excused = {}, NEW d \in owed' PROVE \E m \in Names : Holds(m, d)'
    BY DEF Held
  <2>1. CASE d \in owed /\ (dir[n] = Absent \/ d # ino[dir[n]].data)
    <3>1. PICK m \in Names : Holds(m, d)
      BY <1>1, <2>1 DEF Held
    <3>2. m # n
      BY <2>1, <3>1 DEF Holds
    <3>3. dir'[m] = dir[m] /\ ino'[dir[m]] = ino[dir[m]]
      BY <1>3, <1>7, <1>8, <3>2
    <3>4. pc' = pc /\ w' = w /\ made' = made
      OBVIOUS
    <3> QED BY <3>1, <3>3, <3>4 DEF Holds
  <2>2. CASE d \in NewOwed(n)
    <3>1. d = New /\ (pc = "unlink_in" => n # w.file)
      BY <2>2 DEF NewOwed
    <3>2. dir'[n] = u /\ ino'[u].data = New
      BY <1>6, <1>7, <1>8
    <3>3. pc' = pc /\ w' = w /\ made' = made
      OBVIOUS
    <3> QED BY <1>2, <1>4, <3>1, <3>2, <3>3 DEF Holds, Absent
  <2> QED BY <2>1, <2>2
<1>12. dir'[n] \notin made /\ \A m \in Names : m # n => dir'[m] = dir[m]
  BY <1>4, <1>7
<1>13. used' \in used .. MaxIno /\ dir' \in [Names -> 0 .. used']
       /\ \A i \in (used + 1) .. used' : IsPlain(ino'[i].data)
  BY <1>2, <1>7, <1>9
<1> QED BY <1>8, <1>10, <1>11, <1>12, <1>13, OtherStep

LEMMA ForeignNames ==
  ASSUME IInv, NEW n \in Foreign
  PROVE  n \in Names /\ dir[n] # Absent /\ dir[n] \notin made
<1>1. scene.argv \in Seq(Names)
  BY ScenesAssumption DEF IInv, Overall, Files
<1>2. \A i \in DOMAIN scene.argv : scene.argv[i] \in Names
  <2>1. DOMAIN scene.argv = 1 .. Len(scene.argv)
    BY <1>1, LenProperties
  <2> QED BY <1>1, <2>1, ElementOfSeq
<1> QED BY <1>2 DEF Foreign, Operands

LEMMA StepOtherSaves == ASSUME IInv, OtherSaves PROVE IInv'
<1>1. PICK n \in Foreign :
          /\ used' = used + 1
          /\ dir' = [dir EXCEPT ![n] = used']
          /\ ino' = [ino EXCEPT ![used'] = [data |-> New, name |-> "", mode |-> "copied"]]
          /\ owed' = (owed \ {ino[dir[n]].data}) \cup NewOwed(n)
  BY DEF OtherSaves
<1>2. /\ Other /\ used < MaxIno
      /\ UNCHANGED <<scene, pc, arg, buf, armed, live, w, exit, faults, made, excused>>
  BY DEF OtherSaves
<1>3. n \in Names /\ dir[n] \notin made
  BY ForeignNames
<1>4. \A d \in owed' : \/ d \in owed /\ (dir[n] = Absent \/ d # ino[dir[n]].data)
                       \/ d \in NewOwed(n)
  BY <1>1
<1> QED BY <1>1, <1>2, <1>3, <1>4, OtherPuts

LEMMA StepOtherMakes == ASSUME IInv, OtherMakes PROVE IInv'
<1>1. PICK n \in Names :
          /\ dir[n] = Absent
          /\ used' = used + 1
          /\ dir' = [dir EXCEPT ![n] = used']
          /\ ino' = [ino EXCEPT ![used'] = [data |-> New, name |-> "", mode |-> "copied"]]
          /\ owed' = owed \cup NewOwed(n)
  BY DEF OtherMakes
<1>2. /\ Other /\ used < MaxIno
      /\ UNCHANGED <<scene, pc, arg, buf, armed, live, w, exit, faults, made, excused>>
  BY DEF OtherMakes
<1>3. dir[n] \notin made
  <2>1. made \subseteq 1 .. used
    BY DEF IInv, Overall, Files
  <2>2. 0 \notin made
    BY <2>1
  <2>3. dir[n] = 0
    BY <1>1 DEF Absent
  <2> QED BY <2>2, <2>3
<1>4. \A d \in owed' : \/ d \in owed /\ (dir[n] = Absent \/ d # ino[dir[n]].data)
                       \/ d \in NewOwed(n)
  BY <1>1
<1> QED BY <1>1, <1>2, <1>3, <1>4, OtherPuts

LEMMA StepOtherDrops == ASSUME IInv, OtherDrops PROVE IInv'
<1>1. PICK n \in Foreign : Unlink(n) /\ owed' = owed \ {ino[dir[n]].data}
  BY DEF OtherDrops
<1>2. /\ Other
      /\ UNCHANGED <<scene, ino, used, pc, arg, buf, armed, live, w, exit, faults, made, excused>>
  BY DEF OtherDrops
<1>3. n \in Names /\ dir[n] # Absent /\ dir[n] \notin made
  BY ForeignNames
<1>4. Files /\ Held
  BY DEF IInv, Overall
<1>5. /\ dir \in [Names -> 0 .. used] /\ used \in Nat /\ used \in 0 .. MaxIno /\ MaxIno \in Nat
      /\ made \subseteq 1 .. used /\ ino \in [0 .. MaxIno -> Inode]
  BY <1>4, BoundsAssumption DEF Files
<1>6. /\ dir' \in [Names -> 0 .. used]
      /\ \A m \in Names : dir'[m] = IF m = n THEN 0 ELSE dir[m]
  <2>1. dir' = [dir EXCEPT ![n] = 0] /\ 0 \in 0 .. used
    BY <1>1, <1>5 DEF Unlink, Absent
  <2> QED BY <1>3, <1>5, <2>1
<1>7. dir'[n] \notin made /\ \A m \in Names : m # n => dir'[m] = dir[m]
  BY <1>3, <1>5, <1>6
<1>8. others' \in 0 .. MaxOthers
  <2>1. others \in 0 .. MaxOthers /\ MaxOthers \in Nat /\ others < MaxOthers /\ others' = others + 1
    BY <1>2, <1>4, BoundsAssumption DEF Other, Files
  <2> QED BY <2>1
<1>9. Held'
  <2> SUFFICES ASSUME excused = {}, NEW d \in owed' PROVE \E m \in Names : Holds(m, d)'
    BY <1>2 DEF Held
  <2>1. d \in owed /\ d # ino[dir[n]].data
    BY <1>1
  <2>2. PICK m \in Names : Holds(m, d)
    BY <1>4, <2>1 DEF Held
  <2>3. m # n
    BY <1>3, <2>1, <2>2 DEF Holds
  <2>4. dir'[m] = dir[m]
    BY <1>6, <2>3
  <2> QED BY <1>2, <2>2, <2>4 DEF Holds
<1>10. /\ used' \in used .. MaxIno /\ dir' \in [Names -> 0 .. used']
       /\ \A i \in 0 .. used : ino'[i] = ino[i]
       /\ \A i \in (used + 1) .. used' : IsPlain(ino'[i].data)
  BY <1>2, <1>5, <1>6
<1>11. ino' \in [0 .. MaxIno -> Inode]
  BY <1>2, <1>5
<1> QED BY <1>2, <1>3, <1>7, <1>8, <1>9, <1>10, <1>11, OtherStep

LEMMA StepNothing == ASSUME IInv, UNCHANGED vars PROVE IInv'
<1>1. /\ scene' = scene /\ dir' = dir /\ ino' = ino /\ used' = used /\ pc' = pc /\ arg' = arg
      /\ buf' = buf /\ (armed' <=> armed) /\ (live' <=> live) /\ w' = w /\ exit' = exit
      /\ faults' = faults /\ others' = others /\ owed' = owed /\ made' = made /\ excused' = excused
  BY DEF vars
<1>2. Control'
  <2>1. armed' = armed /\ live' = live
    BY DEF vars
  <2> QED BY <1>1, <2>1 DEF IInv, Locally, Control
<1>3. Pointer'
  BY <1>1 DEF IInv, Locally, Pointer
<1>4. (Own <=> Own') /\ (Fresh <=> Fresh')
  BY <1>1 DEF Own, Fresh
<1>5. Places'
  BY <1>1, <1>4 DEF IInv, Locally, Places
<1>6. Input' = Input /\ Output' = Output
  BY <1>1 DEF Input, Output
<1>7. Kinds'
  BY <1>1, <1>6 DEF IInv, Locally, Kinds
<1>8. (Deflated <=> Deflated') /\ (Written <=> Written')
  BY <1>1, <1>6 DEF Deflated, Written
<1>9. Inflated <=> Inflated'
  BY <1>1, <1>6 DEF Inflated, Inside, Began
<1>10. Contents'
  BY <1>1, <1>6, <1>8, <1>9 DEF IInv, Locally, Contents
<1>11. Hidden'
  BY <1>1 DEF IInv, Locally, Hidden
<1>12. Files' /\ Plains'
  BY <1>1 DEF IInv, Overall, Files, Plains
<1>13. Held'
  BY <1>1 DEF IInv, Overall, Held, Holds
<1>14. Settled' /\ PrivateUntilWhole'
  BY <1>1 DEF IInv, Overall, Settled, PrivateUntilWhole, Whole, Ended
<1> QED BY <1>2, <1>3, <1>5, <1>7, <1>10, <1>11, <1>12, <1>13, <1>14 DEF IInv, Locally, Overall

LEMMA FirstNumbers ==
  ASSUME NEW M \in Nat, NEW k \in Nat, k <= M
  PROVE  /\ k \in 0 .. M /\ 0 \in 0 .. M /\ 0 \in 0 .. k /\ 0 \notin 1 .. k
         /\ \A i \in 1 .. k : i \in 0 .. M /\ i \in 0 .. k
OBVIOUS

LEMMA Zero == 1 \in Nat \ {0} /\ 0 \in 0 .. 2 /\ \A M \in Nat : 0 \in 0 .. M
OBVIOUS

LEMMA InitInv == ASSUME Init PROVE IInv
<1>1. /\ scene \in Scenes /\ pc = "next" /\ arg = 1 /\ buf = "" /\ ~ armed /\ ~ live /\ w = Idle
      /\ exit = 0 /\ faults = 0 /\ others = 0 /\ made = {} /\ excused = {} /\ used = Len(scene.data)
      /\ owed = {scene.data[i] : i \in DOMAIN scene.data}
  BY DEF Init
<1>2. /\ scene.stored \in Names \cup {""}
      /\ scene.data \in Seq(Seq(Piece)) /\ Len(scene.data) <= MaxIno
      /\ ~ scene.d => \A i \in DOMAIN scene.data : IsPlain(scene.data[i])
      /\ DOMAIN scene.files \subseteq Names
      /\ \A n \in DOMAIN scene.files : scene.files[n] \in DOMAIN scene.data
      /\ \A i \in DOMAIN scene.data : \E n \in DOMAIN scene.files : scene.files[n] = i
  BY <1>1, ScenesAssumption
<1>3. MaxIno \in Nat \ {0} /\ MaxFaults \in Nat /\ MaxOthers \in Nat
  BY BoundsAssumption
<1>4. /\ DOMAIN scene.data = 1 .. used /\ used \in Nat
      /\ \A i \in 1 .. used : scene.data[i] \in Seq(Piece)
  BY <1>1, <1>2, LenProperties, ElementOfSeq
<1>5. used \in 0 .. MaxIno /\ 1 .. used \subseteq 0 .. MaxIno /\ 1 .. used \subseteq 0 .. used
      /\ 0 \in 0 .. used /\ 0 \notin 1 .. used
  <2>1. used \in Nat /\ used <= MaxIno /\ MaxIno \in Nat
    BY <1>1, <1>2, <1>3, <1>4
  <2> QED BY <2>1, FirstNumbers
<1>6. dir = [n \in Names |-> IF n \in DOMAIN scene.files THEN scene.files[n] ELSE 0]
  BY DEF Init, Absent
<1>7. /\ dir \in [Names -> 0 .. used]
      /\ \A i \in 1 .. used : \E n \in Names : dir[n] = i
  <2>1. ASSUME NEW n \in Names
        PROVE  (IF n \in DOMAIN scene.files THEN scene.files[n] ELSE 0) \in 0 .. used
    BY <1>2, <1>4, <1>5
  <2>2. ASSUME NEW i \in 1 .. used PROVE \E n \in Names : dir[n] = i
    <3>1. PICK n \in DOMAIN scene.files : scene.files[n] = i
      BY <1>2, <1>4
    <3> QED BY <1>2, <1>6, <3>1
  <2> QED BY <1>6, <2>1, <2>2
<1>8. ino = [i \in 0 .. MaxIno |->
               IF i \in 1 .. used
               THEN [data |-> scene.data[i], name |-> scene.stored, mode |-> "copied"] ELSE Blank]
  BY <1>4 DEF Init
<1>9. Blank \in Inode
  BY EmptySeq DEF Blank, Inode
<1>10. ASSUME NEW i \in 1 .. used
       PROVE  [data |-> scene.data[i], name |-> scene.stored, mode |-> "copied"] \in Inode
  BY <1>2, <1>4 DEF Inode
<1>11. ino \in [0 .. MaxIno -> Inode]
  BY <1>8, <1>9, <1>10
<1>12. \A i \in 1 .. used : ino[i].data = scene.data[i]
  BY <1>5, <1>8
<1>13. Files
  <2>1. others = 0 /\ 0 \in 0 .. MaxOthers
    BY <1>1, <1>3, Zero
  <2> QED BY <1>1, <1>5, <1>7, <1>11, <2>1 DEF Files
<1>14. Idle \in Locals
  BY EmptySeq DEF Idle, Locals
<1>15. Control
  <2>1. pc \in Pcs
    BY <1>1 DEF Pcs
  <2>2. arg = 1 /\ exit = 0 /\ 1 \in Nat \ {0} /\ 0 \in 0 .. 2
    BY <1>1, Zero
  <2>4. faults = 0 /\ 0 \in 0 .. MaxFaults
    BY <1>1, <1>3, Zero
  <2>3. armed \in BOOLEAN /\ live \in BOOLEAN
    BY DEF Init
  <2> QED BY <1>1, <1>14, <2>1, <2>2, <2>3, <2>4 DEF Control
<1>16. /\ pc \in Between /\ pc \notin Opening \cup Naming \cup Writing \cup Working \cup Zipping
       /\ pc \notin Unzipping \cup ToFile \cup Filling \cup Leaving
       /\ pc \notin {"arm", "z_init", "deflate", "finish", "trailer", "c_size", "bad", "inflate", "cat",
                     "d_close", "d_reopen", "modes", "disarm", "check", "unlink_out", "create",
                     "d_links", "d_copy", "d_suffix", "d_magic", "c_open", "d_open", "c_name"}
       /\ pc # "unlink_in"
  BY <1>1 DEF Between, Opening, Naming, Writing, Working, Zipping, Unzipping, ToFile, Filling, Leaving
<1>17. w.out = 0
  BY <1>1 DEF Idle
<1>18. Pointer
  BY <1>1, <1>16 DEF Pointer
<1>19. Places
  BY <1>1, <1>16, <1>17 DEF Places
<1>20. Kinds
  BY <1>16 DEF Kinds
<1>21. Contents
  BY <1>16 DEF Contents
<1>22. Hidden
  BY <1>16 DEF Hidden
<1>23. Plains
  BY <1>1, <1>2, <1>4, <1>12 DEF Plains
<1>24. Held
  <2> SUFFICES ASSUME NEW d \in owed PROVE \E n \in Names : Holds(n, d)
    BY DEF Held
  <2>1. PICK i \in 1 .. used : d = scene.data[i]
    BY <1>1, <1>4
  <2>2. PICK n \in Names : dir[n] = i
    BY <1>7
  <2>3. dir[n] # 0 /\ ino[dir[n]].data = d /\ dir[n] \notin made
    BY <1>1, <1>5, <1>12, <2>1, <2>2
  <2> QED BY <1>16, <1>17, <2>3 DEF Holds, Absent
<1>25. Settled /\ PrivateUntilWhole
  BY <1>1 DEF Settled, PrivateUntilWhole
<1> QED BY <1>13, <1>15, <1>18, <1>19, <1>20, <1>21, <1>22, <1>23, <1>24, <1>25
        DEF IInv, Locally, Overall

LEMMA NextInv == ASSUME IInv, [Next]_vars PROVE IInv'
<1>1. CASE Compress
  BY <1>1, StepCOpen, StepCName, StepDeflateInit, StepDeflateFlush, StepDeflateRead,
     StepDeflateFinish, StepDeflateTrailer, StepCSize, StepBadOutfile DEF Compress
<1>2. CASE Uncompress
  BY <1>2, StepDOpen, StepDCopyName, StepDSuffix, StepDMagic, StepDLinks, StepInflateMagic,
     StepInflateRead, StepInflateCrc, StepInflateLen, StepCatFd, StepDClose, StepDReopen
     DEF Uncompress
<1>3. CASE Shared
  BY <1>3, StepHandlePathname, StepFinish, StepCheckOutfile, StepUnlinkOut, StepCreate, StepArm,
     StepCopyModes, StepDisarm, StepStatInput, StepUnlinkInput DEF Shared
<1>4. CASE Sigint
  BY <1>4, StepSigint
<1>5. CASE OtherSaves \/ OtherMakes \/ OtherDrops
  BY <1>5, StepOtherSaves, StepOtherMakes, StepOtherDrops
<1>6. CASE UNCHANGED vars
  BY <1>6, StepNothing
<1> QED BY <1>1, <1>2, <1>3, <1>4, <1>5, <1>6 DEF Next, Program

LEMMA Invariance == Spec => []IInv
<1>1. Init => IInv
  BY InitInv
<1>2. IInv /\ [Next]_vars => IInv'
  BY NextInv
<1> QED BY <1>1, <1>2, PTL DEF Spec

-----------------------------------------------------------------------------
(* What gzip and gunzip promise. *)

(* The state keeps its shape: pieces in the inodes, names on inodes that
   exist, a name in the buffer of handle_file whenever remove_file points at
   it (gzip.c: remove_file, got_sigint).                                      *)
THEOREM TypeCorrect == Spec => []TypeOK
<1>1. IInv => TypeOK
  <2> SUFFICES ASSUME IInv PROVE TypeOK
    OBVIOUS
  <2>1. Files /\ Control /\ Pointer
    BY DEF IInv, Locally, Overall
  <2>2. \A i \in 0 .. MaxIno : /\ ino[i].data \in Seq(Piece)
                               /\ ino[i].mode \in {"private", "copied", "no_setid"}
    BY <2>1 DEF Files, Inode
  <2>3. armed \/ live => buf \in Names
    BY <2>1 DEF Pointer
  <2> QED BY <2>1, <2>2, <2>3 DEF TypeOK, Files, Control
<1> QED BY <1>1, Invariance, PTL

(* What an operand held is never lost: it is whole under some name, as it was
   or packed or unpacked, wherever a system call fails, another program saves
   or removes files or SIGINT comes; only what -f or the user gave up may go.
   And no output that is not whole is left behind, or can be read by others:
   the unlink of the operand and copymodes come after the output is known to
   be good (file_compress, file_uncompress, unlink_input, got_sigint).       *)
THEOREM KeepsFiles == Spec => []FilesKept
<1>1. IInv => FilesKept
  <2> SUFFICES ASSUME IInv PROVE FilesKept
    OBVIOUS
  <2>1. Held /\ Settled /\ PrivateUntilWhole
    BY DEF IInv, Overall
  <2>2. SourceKept
    <3> SUFFICES ASSUME excused = {}, NEW d \in owed PROVE Kept(d)
      BY DEF SourceKept
    <3>1. PICK n \in Names : Holds(n, d)
      BY <2>1 DEF Held
    <3>2. dir[n] # Absent /\ Same(d, ino[dir[n]].data)
      BY <3>1, SameSelf DEF Holds
    <3> QED BY <3>2 DEF Kept
  <2>3. NothingHalf
    BY <2>1 DEF Settled, NothingHalf
  <2> QED BY <2>1, <2>2, <2>3 DEF FilesKept, OutputKept
<1> QED BY <1>1, Invariance, PTL
=============================================================================
