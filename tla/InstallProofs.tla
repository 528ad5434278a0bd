---------------------------- MODULE InstallProofs ----------------------------
(***************************************************************************)
(* install() replaces a file the way Replace promises, whatever fails and  *)
(* however many installs compete for the name; and what it leaves behind   *)
(* when it exits.  For any finite set of processes and any scenes.         *)
(***************************************************************************)
EXTENDS InstallProps, FiniteSetTheorems, TLAPS

-----------------------------------------------------------------------------
(* The invariant.  A process is known by the call it is about to make.     *)

(* Nothing of p has been given the target's name. *)
Unseen == {"main", "start", "compare", "temp", "strip", "copy", "copying", "strip2",
           "reopen", "compare2", "unlock", "unlinkbak", "linkbak", "rename",
           "link", "symlink", "rmdir", "lunlock", "lrename"}
(* Between main's choice of a file and the end of the attributes. *)
Filling  == {"strip", "copy", "copying", "strip2"}
Filled   == {"reopen", "compare2", "unlock", "unlinkbak", "linkbak", "rename"}
FileCall == {"compare", "temp", "excl"} \cup Filling \cup Filled \cup Late
LinkCall == {"link", "symlink", "rmdir", "lunlock", "lrename", "lunlink"}
(* The calls that the sandbox never comes to, as it has no temporary file. *)
TempOnly == (Filled \cup {"strip2", "reopento"})

NewOf(p)   == <<p, "new">>
StripOf(p) == <<p, "strip">>
SymOf(p)   == <<p, "sym">>
Files(p)   == {NewOf(p), StripOf(p)}
Temp0(p)   == dir[Tmp(p)]

(* Which command lines come to which call. *)
Route(p) ==
  /\ pc[p] \in FileCall => req[p].link = "none" /\ dir["to"] # Dir
  /\ pc[p] \in LinkCall => req[p].link # "none"
  /\ pc[p] \in {"compare"} => ~ Has(p, "s")
  /\ pc[p] \in {"strip", "strip2", "reopen", "compare2"} => Has(p, "s")
  /\ pc[p] \in {"copying", "reopen", "compare2"} => ~ Has(p, "null")
  /\ pc[p] \in {"strip", "copy"} /\ ~ Has(p, "sandbox") => ~ Has(p, "null")
  /\ pc[p] = "excl" => Has(p, "sandbox")
  /\ pc[p] \in TempOnly => ~ Has(p, "sandbox")

(* Which name and which file it is working on. *)
Working(p) ==
  /\ l[p].work = Tmp(p) \/ (Has(p, "sandbox") /\ l[p].work = "to")
  /\ pc[p] \in {"main", "start"} \cup LinkCall => l[p].work = Tmp(p)
  /\ pc[p] \in Filling => l[p].fd = NewOf(p)
  /\ pc[p] \in Filling /\ Has(p, "sandbox") => l[p].work = "to"
  /\ pc[p] \in Late \ {"reopento"} => l[p].fd # None

(* What its temporary name leads to. *)
Temporary(p) ==
  /\ pc[p] \notin Filling \cup Filled \cup LinkCall \cup {"failed"} => Temp0(p) = None
  /\ pc[p] \in {"link", "symlink"} => Temp0(p) = None
  /\ pc[p] \in Filling => Temp0(p) = IF Has(p, "sandbox") THEN None ELSE NewOf(p)
  /\ pc[p] \in Filled => Temp0(p) \in Files(p) /\ file[Temp0(p)].data = Want(p)
  /\ pc[p] = "compare2" => l[p].fd = Temp0(p)
  /\ pc[p] \in {"rmdir", "lunlock", "lrename"} => Temp0(p) \in {Src, SymOf(p)}
  /\ pc[p] = "failed" => Temp0(p) = None \/ l[p].why \in {"reopen", "compare2"}

Hidden(p) ==
  pc[p] \in Unseen /\ ~ Has(p, "sandbox")
    => dir["to"] \notin {NewOf(p), StripOf(p), SymOf(p)}

ProcInv(p) == Route(p) /\ Working(p) /\ Temporary(p) /\ Hidden(p)
IInv ==
  /\ TypeOK
  /\ Runs \subseteq Proc
  /\ file[Src].data = SrcAttr.data
  /\ \A p \in Runs : ProcInv(p)

-----------------------------------------------------------------------------
(* The inodes are different files, and the names different names.          *)
LEMMA Distinct ==
  ASSUME NEW p \in Proc, NEW q \in Proc
  PROVE  /\ <<p, "new">> \notin {None, Old, OldBak, Dir, Src, <<q, "strip">>, <<q, "sym">>}
         /\ <<p, "strip">> \notin {None, Old, OldBak, Dir, Src, <<q, "sym">>}
         /\ <<p, "sym">> \notin {None, Old, OldBak, Dir, Src}
         /\ p # q => /\ <<p, "new">> # <<q, "new">> /\ <<p, "strip">> # <<q, "strip">>
                     /\ <<p, "sym">> # <<q, "sym">>
         /\ None \notin {Old, OldBak, Dir, Src} /\ Old \notin {OldBak, Dir, Src}
         /\ OldBak \notin {Dir, Src} /\ Dir # Src
BY DEF None, Old, OldBak, Dir, Src, Fixed

LEMMA InodeProp ==
  /\ Old \in Inode /\ OldBak \in Inode /\ Dir \in Inode /\ Src \in Inode /\ None \notin Inode
  /\ \A p \in Proc : <<p, "new">> \in Inode /\ <<p, "strip">> \in Inode /\ <<p, "sym">> \in Inode
BY DEF None, Old, OldBak, Dir, Src, Fixed, Inode

LEMMA NameProp ==
  ASSUME NEW p \in Proc
  PROVE  Tmp(p) \in Name /\ Tmp(p) \notin {"to", "bak", "alias"}
BY ProcAssumption DEF Name

LEMMA TmpProp ==
  ASSUME NEW p, NEW q, p # q
  PROVE  Tmp(p) # Tmp(q)
BY DEF Tmp

LEMMA LeadsType ==
  ASSUME TypeOK
  PROVE  Leads \in Inode \cup {None} /\ (dir["to"] # None => Leads \in Inode)
<1>1. "to" \in Name /\ Src \in Inode
  BY DEF Name, Inode
<1> QED BY <1>1 DEF TypeOK, Leads

LEMMA StatType ==
  ASSUME TypeOK, NEW i \in Inode
  PROVE  StatOf(i) \in Stat
<1>1. IsFiniteSet(Name)
  <2>1. {Tmp(p) : p \in Proc} = Proc
    BY DEF Tmp
  <2>2. IsFiniteSet({"to", "bak", "alias"})
    <3>1. IsFiniteSet({"to"}) /\ IsFiniteSet({"bak"}) /\ IsFiniteSet({"alias"})
      BY FS_Singleton
    <3>2. {"to", "bak", "alias"} = ({"to"} \cup {"bak"}) \cup {"alias"}
      OBVIOUS
    <3>3. IsFiniteSet({"to"} \cup {"bak"})
      BY <3>1, FS_Union
    <3> QED BY <3>1, <3>2, <3>3, FS_Union
  <2> QED BY <2>1, <2>2, ProcAssumption, FS_Union DEF Name
<1>2. NLink(i) \in Nat
  BY <1>1, FS_Subset, FS_CardinalityType DEF NLink
<1>3. file[i] \in Attr
  BY DEF TypeOK
<1> QED BY <1>2, <1>3 DEF StatOf, Stat, Attr

-----------------------------------------------------------------------------
(* A step of p leaves the other processes as they are, and what they have
   made for themselves; and it gives the target's name to nothing of theirs.*)
Alters(p) ==
  /\ UNCHANGED req
  /\ file'[Src].data = file[Src].data
  /\ \A i \in Inode \ Files(p) : file'[i].data = file[i].data
  /\ dir'["to"] \in {dir["to"], None, Src, NewOf(p), StripOf(p), SymOf(p)}
  /\ \A q \in Runs \ {p} :
       /\ l'[q] = l[q] /\ pc'[q] = pc[q] /\ dir'[Tmp(q)] = dir[Tmp(q)]
       /\ \A i \in Files(q) : file'[i].data = file[i].data

Fine(p) == TypeOK' /\ Alters(p) /\ ProcInv(p)'

LEMMA OthersKeep ==
  ASSUME IInv, NEW p \in Runs, Fine(p)
  PROVE  IInv'
<1>1. Runs' = Runs /\ req' = req
  BY DEF Fine, Alters, Runs
<1>2. ASSUME NEW q \in Runs PROVE ProcInv(q)'
  <2>1. CASE q = p
    BY <2>1 DEF Fine
  <2>2. CASE q # p
    <3>1. /\ l'[q] = l[q] /\ pc'[q] = pc[q] /\ Temp0(q)' = Temp0(q)
          /\ \A i \in Files(q) : file'[i].data = file[i].data
      BY <2>2 DEF Fine, Alters, Temp0
    <3>2. ProcInv(q) /\ p \in Proc /\ q \in Proc
      BY DEF IInv
    <3>3. dir'["to"] \notin {Dir} \/ dir'["to"] = dir["to"]
      BY <3>2, Distinct DEF Fine, Alters, NewOf, StripOf, SymOf
    <3>4. dir'["to"] \notin {NewOf(q), StripOf(q), SymOf(q)} \/ dir'["to"] = dir["to"]
      BY <2>2, <3>2, Distinct DEF Fine, Alters, NewOf, StripOf, SymOf
    <3>5. Route(q)'
      BY <1>1, <3>1, <3>2, <3>3 DEF ProcInv, Route, Has
    <3>6. Working(q)'
      BY <1>1, <3>1, <3>2 DEF ProcInv, Working, Has
    <3>7. Temporary(q)'
      <4>1. Temporary(q) BY <3>2 DEF ProcInv
      <4>2. Want(q)' = Want(q) BY <1>1 DEF Want, Plain, Has
      <4> QED BY <1>1, <3>1, <4>1, <4>2 DEF Temporary, Has
    <3>8. Hidden(q)'
      BY <1>1, <3>1, <3>2, <3>4 DEF ProcInv, Hidden, Has
    <3> QED BY <3>5, <3>6, <3>7, <3>8 DEF ProcInv
  <2> QED BY <2>1, <2>2
<1> QED BY <1>1, <1>2 DEF IInv, Fine, Alters

LEMMA InitInv == Init => IInv
<1> SUFFICES ASSUME Init PROVE IInv
  OBVIOUS
<1> PICK s \in Scenes :
      /\ dir = [n \in Name |-> IF n = "to" THEN s.at.to ELSE IF n = "bak" THEN s.at.bak
                               ELSE IF n = "alias" THEN s.at.alias ELSE None]
      /\ file = [i \in Inode |-> IF i = Old THEN s.at.attr
                                 ELSE IF i = Src THEN SrcAttr ELSE New]
      /\ req = s.req
      /\ l = [p \in Runs |-> [target |-> FALSE, match |-> FALSE, fd |-> None,
                sb |-> [mode |-> "priv", own |-> "me", imm |-> FALSE, nlink |-> 0],
                work |-> Tmp(p), why |-> "main"]]
      /\ pc = [p \in Runs |-> "main"]
      /\ was = s.at.to
  BY DEF Init
<1>1. req \in [Runs -> RequestType] /\ Runs \subseteq Proc /\ s.at \in TargetType
  BY InstallAssumption DEF Runs
<1>2. {None, Old, OldBak, Dir, Src} \subseteq Inode \cup {None}
  BY DEF Inode
<1>3. {"to", "bak", "alias"} \subseteq Name /\ \A p \in Runs : Tmp(p) \in Name
  BY <1>1 DEF Name
<1>4. New \in Attr /\ SrcAttr \in Attr
  BY DEF New, SrcAttr, Attr, Data
<1>5. TypeOK
  <2>1. dir \in [Name -> Inode \cup {None}] /\ was \in Inode \cup {None}
    BY <1>1, <1>2 DEF TargetType
  <2>2. file \in [Inode -> Attr]
    BY <1>1, <1>4 DEF TargetType
  <2>3. pc \in [Runs -> Pcs]
    BY DEF Pcs
  <2>4. l \in [Runs -> [target : BOOLEAN, match : BOOLEAN, fd : Inode \cup {None},
                        sb : Stat, work : Name, why : Pcs]]
    BY <1>3 DEF Pcs, Stat
  <2> QED BY <1>1, <2>1, <2>2, <2>3, <2>4 DEF TypeOK
<1>6. file[Src].data = SrcAttr.data
  BY DEF Inode, Src, Old, Fixed
<1>7. ASSUME NEW p \in Runs PROVE ProcInv(p)
  <2>1. pc[p] = "main" /\ l[p].work = Tmp(p) /\ p \in Proc
    BY <1>1
  <2>2. dir["to"] \in {None, Old, Dir, Src} /\ Temp0(p) = None
    BY <1>1, <1>3, <2>1, NameProp DEF TargetType, Temp0
  <2>3. pc[p] \notin FileCall /\ pc[p] \notin LinkCall /\ pc[p] \notin TempOnly
        /\ pc[p] \notin Filling /\ pc[p] \notin Filled /\ pc[p] \notin Late
    BY <2>1 DEF FileCall, LinkCall, Filling, Filled, Late, TempOnly
  <2>5. Route(p) /\ Working(p) /\ Temporary(p)
    BY <2>1, <2>2, <2>3 DEF Route, Working, Temporary
  <2>4. Hidden(p)
    BY <2>1, <2>2, Distinct DEF Hidden, NewOf, StripOf, SymOf
  <2> QED BY <2>4, <2>5 DEF ProcInv
<1> QED BY <1>1, <1>5, <1>6, <1>7 DEF IInv

-----------------------------------------------------------------------------
(* What keeps the types: a process has its locals set and goes on. *)
Locals == [target : BOOLEAN, match : BOOLEAN, fd : Inode \cup {None},
           sb : Stat, work : Name, why : Pcs]

LEMMA TypeKept ==
  ASSUME TypeOK, NEW p \in Runs, UNCHANGED <<req, was>>,
         dir' \in [Name -> Inode \cup {None}], file' \in [Inode -> Attr],
         NEW s \in Pcs, Goto(p, s), NEW r \in Locals, Set(p, r)
  PROVE  TypeOK'
BY DEF TypeOK, Runs, Goto, Set, Locals

LEMMA TypeOfLocals ==
  ASSUME TypeOK, NEW p \in Runs
  PROVE  /\ l[p] \in Locals /\ pc[p] \in Pcs
         /\ dir \in [Name -> Inode \cup {None}] /\ file \in [Inode -> Attr]
         /\ [l[p] EXCEPT !.why = pc[p]] \in Locals
         /\ Fail(p) => Goto(p, "failed") /\ Set(p, [l[p] EXCEPT !.why = pc[p]])
         /\ l' = l => Set(p, l[p])
<1>1. l[p] \in Locals /\ pc[p] \in Pcs /\ l \in [Runs -> Locals]
  BY DEF TypeOK, Locals
<1>2. [l[p] EXCEPT !.why = pc[p]] \in Locals
  BY <1>1 DEF Locals
<1>3. Fail(p) => Set(p, [l[p] EXCEPT !.why = pc[p]])
  BY <1>1 DEF Fail, Set
<1>4. l' = l => Set(p, l[p])
  BY <1>1 DEF Set
<1> QED BY <1>1, <1>2, <1>3, <1>4 DEF TypeOK, Fail

LEMMA PcsProp ==
  /\ {"main", "start", "failed", "done"} \cup FileCall \cup LinkCall \subseteq Pcs
BY DEF Pcs, FileCall, LinkCall, Filling, Filled, Late

LEMMA GotoProp ==
  ASSUME TypeOK, NEW p \in Runs, NEW s, Goto(p, s)
  PROVE  pc'[p] = s /\ \A q \in Runs \ {p} : pc'[q] = pc[q]
BY DEF TypeOK, Goto

LEMMA SetProp ==
  ASSUME TypeOK, NEW p \in Runs, NEW r, Set(p, r)
  PROVE  l'[p] = r /\ \A q \in Runs \ {p} : l'[q] = l[q]
BY DEF TypeOK, Set

(* What a failure does to the locals; it ends p's part. *)
LEMMA FailProp ==
  ASSUME TypeOK, NEW p \in Runs, Fail(p)
  PROVE  /\ pc'[p] = "failed" /\ l'[p].work = l[p].work /\ l'[p].fd = l[p].fd
         /\ l'[p].why = pc[p]
         /\ \A q \in Runs \ {p} : l'[q] = l[q] /\ pc'[q] = pc[q]
BY DEF TypeOK, Fail, Goto

LEMMA FailInv ==
  ASSUME IInv, NEW p \in Runs, Fail(p), UNCHANGED req,
         Temp0(p)' = None \/ pc[p] \in {"reopen", "compare2"}
  PROVE  ProcInv(p)'
<1>1. pc'[p] = "failed" /\ l'[p].work = l[p].work /\ l'[p].why = pc[p]
  BY FailProp DEF IInv
<1>2. "failed" \notin FileCall /\ "failed" \notin LinkCall /\ "failed" \notin Filling
      /\ "failed" \notin Filled /\ "failed" \notin TempOnly /\ "failed" \notin Unseen
      /\ "failed" \notin Late
  BY DEF FileCall, LinkCall, Filling, Filled, TempOnly, Late, Unseen
<1>3. l[p].work = Tmp(p) \/ (Has(p, "sandbox") /\ l[p].work = "to")
  BY DEF IInv, ProcInv, Working
<1> QED BY <1>1, <1>2, <1>3 DEF ProcInv, Route, Working, Temporary, Hidden, Has

(* A failure whatever it has cleaned up. *)
LEMMA FailFine ==
  ASSUME IInv, NEW p \in Runs, Fail(p), UNCHANGED <<dir, file, req, was>>,
         Temp0(p) = None \/ pc[p] \in {"reopen", "compare2"}
  PROVE  Fine(p)
<1>1. TypeOK /\ "failed" \in Pcs
  BY DEF IInv, Pcs
<1>2. TypeOK'
  BY <1>1, TypeOfLocals, TypeKept
<1>3. Alters(p)
  BY <1>1, FailProp DEF Alters
<1>4. ProcInv(p)'
  BY FailInv DEF Temp0
<1> QED BY <1>2, <1>3, <1>4 DEF Fine

LEMMA FailCleanFine ==
  ASSUME IInv, NEW p \in Runs, FailClean(p), UNCHANGED <<req, was>>,
         pc[p] \in Filling \cup Filled \cup {"rmdir", "lrename"}
  PROVE  Fine(p)
<1>1. TypeOK /\ ProcInv(p) /\ p \in Proc /\ "failed" \in Pcs
  BY DEF IInv, Pcs
<1>2. l[p].work \in Name
  BY <1>1, TypeOfLocals DEF Locals
<1>3. TypeOK'
  <2>1. dir' \in [Name -> Inode \cup {None}]
    BY <1>1, <1>2, TypeOfLocals DEF FailClean
  <2> QED BY <1>1, <2>1, TypeOfLocals, TypeKept DEF FailClean
<1>4. Temp0(p)' = None
  BY <1>1, <1>2, NameProp DEF FailClean, ProcInv, Working, Temporary, Temp0, TypeOK, Filling,
     Filled, LinkCall, Route, TempOnly
<1>5. Alters(p)
  <2>1. dir'["to"] \in {dir["to"], None}
    BY <1>1 DEF FailClean, TypeOK
  <2>2. ASSUME NEW q \in Runs \ {p} PROVE dir'[Tmp(q)] = dir[Tmp(q)]
    <3>1. q \in Proc /\ Tmp(q) # Tmp(p)
      BY TmpProp DEF IInv
    <3> QED BY <1>1, <3>1, NameProp DEF FailClean, TypeOK, ProcInv, Working
  <2> QED BY <1>1, <2>1, <2>2, FailProp DEF Alters, FailClean
<1>6. ProcInv(p)'
  BY <1>4, FailInv DEF FailClean
<1> QED BY <1>3, <1>5, <1>6 DEF Fine

LEMMA FailUnlinkFine ==
  ASSUME IInv, NEW p \in Runs, FailUnlink(p), UNCHANGED <<req, was>>, pc[p] \in Late
  PROVE  Fine(p)
<1>1. TypeOK /\ ProcInv(p) /\ p \in Proc /\ "failed" \in Pcs /\ "to" \in Name
  BY DEF IInv, Pcs, Name
<1>2. TypeOK'
  <2>1. dir' \in [Name -> Inode \cup {None}]
    BY <1>1, TypeOfLocals DEF FailUnlink
  <2> QED BY <1>1, <2>1, TypeOfLocals, TypeKept DEF FailUnlink
<1>3. \A q \in Runs : Temp0(q)' = Temp0(q)
  BY <1>1, NameProp DEF FailUnlink, TypeOK, Temp0, IInv
<1>4. Alters(p)
  BY <1>1, <1>3, FailProp DEF Alters, FailUnlink, TypeOK, Temp0
<1>5. Temp0(p) = None
  BY <1>1 DEF ProcInv, Temporary, Late, Filling, Filled, LinkCall
<1>6. ProcInv(p)'
  BY <1>3, <1>5, FailInv DEF FailUnlink
<1> QED BY <1>2, <1>4, <1>6 DEF Fine

(* What the calls do to the files. *)
LEMMA DataType ==
  ASSUME TypeOK, NEW p \in Runs
  PROVE  /\ Want(p) \in Data /\ Plain(p) \in Data
         /\ <<req[p].src, "part">> \in Data
<1>1. req[p].src \in {"x", "y"}
  BY DEF TypeOK, RequestType
<1> QED BY <1>1 DEF Want, Plain, Data

LEMMA WriteProp ==
  ASSUME TypeOK, NEW p \in Runs, NEW d \in Data, Write(p, d)
  PROVE  /\ file' \in [Inode -> Attr] /\ dir' = dir
         /\ \A i \in Inode : file'[i].data = IF i = l[p].fd THEN d ELSE file[i].data
<1>1. file \in [Inode -> Attr]
  BY DEF TypeOK
<1>2. \A i \in Inode : file'[i] = IF i = l[p].fd THEN [file[i] EXCEPT !.data = d] ELSE file[i]
  BY <1>1 DEF Write
<1>3. \A i \in Inode : [file[i] EXCEPT !.data = d] \in Attr
  BY <1>1 DEF Attr
<1> QED BY <1>1, <1>2, <1>3 DEF Write, Attr

LEMMA StrippedProp ==
  ASSUME TypeOK, NEW p \in Runs, p \in Proc, NEW s, Stripped(p, s), l[p].fd = NewOf(p)
  PROVE  /\ file' \in [Inode -> Attr] /\ dir' \in [Name -> Inode \cup {None}]
         /\ \A i \in Inode \ Files(p) : file'[i].data = file[i].data
         /\ \A n \in Name \ {l[p].work} : dir'[n] = dir[n]
         /\ \/ dir' = dir /\ file'[NewOf(p)].data = Want(p)
            \/ dir'[l[p].work] = StripOf(p) /\ file'[StripOf(p)].data = Want(p)
<1>1. Want(p) \in Data /\ NewOf(p) \in Inode /\ StripOf(p) \in Inode
  BY DataType, InodeProp DEF NewOf, StripOf
<1>2. CASE Write(p, Want(p))
  BY <1>1, <1>2, WriteProp DEF TypeOK, Files
<1>3. CASE /\ dir' = [dir EXCEPT ![l[p].work] = <<p, "strip">>]
           /\ file' = [file EXCEPT ![<<p, "strip">>] =
                         [file[l[p].fd] EXCEPT !.data = Want(p)]]
  <2>1. [file[l[p].fd] EXCEPT !.data = Want(p)] \in Attr
    BY <1>1 DEF TypeOK, Attr
  <2>2. l[p].work \in Name
    BY TypeOfLocals DEF Locals
  <2>3. [file[l[p].fd] EXCEPT !.data = Want(p)].data = Want(p)
    BY <1>1 DEF TypeOK, Attr
  <2> QED BY <1>1, <1>3, <2>1, <2>2, <2>3 DEF TypeOK, Files, NewOf, StripOf
<1> QED BY <1>2, <1>3 DEF Stripped

(* Immutable bits on or off. *)
Relabels == file' = file \/ (dir["to"] # None /\ \E b \in BOOLEAN : file' = [file EXCEPT ![Leads].imm = b])

LEMMA RelabelProp ==
  ASSUME TypeOK, Relabels
  PROVE  /\ file' \in [Inode -> Attr]
         /\ \A i \in Inode : file'[i].data = file[i].data
<1>1. file \in [Inode -> Attr]
  BY DEF TypeOK
<1>2. ASSUME NEW i \in Inode
      PROVE  /\ [file[i] EXCEPT !.imm = FALSE] \in Attr /\ [file[i] EXCEPT !.imm = TRUE] \in Attr
             /\ [file[i] EXCEPT !.imm = FALSE].data = file[i].data
             /\ [file[i] EXCEPT !.imm = TRUE].data = file[i].data
  BY <1>1 DEF Attr
<1>3. CASE dir["to"] # None /\ \E b \in BOOLEAN : file' = [file EXCEPT ![Leads].imm = b]
  <2>1. Leads \in Inode
    BY <1>3, LeadsType
  <2>2. file' = [file EXCEPT ![Leads].imm = FALSE] \/ file' = [file EXCEPT ![Leads].imm = TRUE]
    BY <1>3
  <2> QED BY <1>1, <1>2, <2>1, <2>2
<1> QED BY <1>1, <1>3 DEF Relabels

LEMMA NewType ==
  New \in Attr /\ New.data = <<"null", "plain">>
BY DEF New, Attr, Data

LEMMA ReqType ==
  ASSUME TypeOK, NEW p \in Runs
  PROVE  req[p].mode \in {"suid", "plain"}
BY DEF TypeOK, RequestType, Runs

LEMMA AltersProp ==
  ASSUME IInv, NEW p \in Runs, UNCHANGED req,
         \A q \in Runs \ {p} : l'[q] = l[q] /\ pc'[q] = pc[q],
         \A i \in Inode \ Files(p) : file'[i].data = file[i].data,
         \A n \in Name \ {"to", "bak", Tmp(p)} : dir'[n] = dir[n],
         dir'["to"] \in {dir["to"], None, Src, NewOf(p), StripOf(p), SymOf(p)}
  PROVE  Alters(p)
<1>1. p \in Proc /\ file'[Src].data = file[Src].data
  BY Distinct, InodeProp DEF IInv, Files, NewOf, StripOf
<1>2. ASSUME NEW q \in Runs \ {p}
      PROVE  dir'[Tmp(q)] = dir[Tmp(q)] /\ \A i \in Files(q) : file'[i].data = file[i].data
  <2>1. q \in Proc
    BY DEF IInv
  <2>2. dir'[Tmp(q)] = dir[Tmp(q)]
    BY <2>1, NameProp, TmpProp
  <2>3. \A i \in Files(q) : i \in Inode \ Files(p)
    BY <1>1, <2>1, Distinct, InodeProp DEF Files, NewOf, StripOf
  <2> QED BY <2>2, <2>3
<1> QED BY <1>1, <1>2 DEF Alters

LEMMA BackupFailsFine ==
  ASSUME IInv, NEW p \in Runs, BackupFails(p), UNCHANGED <<req, was>>,
         pc[p] \in {"unlinkbak", "linkbak"}
  PROVE  Fine(p)
<1>1. TypeOK /\ p \in Proc /\ "failed" \in Pcs
  BY DEF IInv, Pcs
<1>2. file' \in [Inode -> Attr] /\ \A i \in Inode : file'[i].data = file[i].data
  <2>1. Relabels
    BY DEF BackupFails, Relabel, Relabels
  <2> QED BY <1>1, <2>1, RelabelProp
<1>3. TypeOK'
  <2>1. dir' \in [Name -> Inode \cup {None}]
    BY <1>1, TypeOfLocals DEF BackupFails
  <2> QED BY <1>1, <1>2, <2>1, TypeOfLocals, TypeKept DEF BackupFails
<1>4. Temp0(p)' = None /\ dir'["to"] = dir["to"]
      /\ \A n \in Name \ {Tmp(p)} : dir'[n] = dir[n]
  BY <1>1, NameProp DEF BackupFails, TypeOK, Temp0, Name
<1>5. Fail(p)
  BY DEF BackupFails
<1>6. Alters(p)
  BY <1>1, <1>2, <1>4, <1>5, FailProp, AltersProp
<1>7. ProcInv(p)'
  BY <1>4, <1>5, FailInv
<1> QED BY <1>3, <1>6, <1>7 DEF Fine

(* The attributes of an inode are set; its data stays. *)
LEMMA ChownedProp ==
  ASSUME TypeOK, NEW p \in Runs, NEW off \in BOOLEAN, NEW drop \in BOOLEAN,
         file' = [file EXCEPT ![l[p].fd] = Chowned(p, off, drop)], l[p].fd # None
  PROVE  /\ file' \in [Inode -> Attr] /\ \A i \in Inode : file'[i].data = file[i].data
<1>1. file \in [Inode -> Attr] /\ l[p].fd \in Inode /\ file[l[p].fd] \in Attr
  BY TypeOfLocals DEF Locals
<1>2. (IF Owns(p) /\ drop /\ file[l[p].fd].mode = "suid" THEN "plain" ELSE file[l[p].fd].mode)
        \in {"suid", "plain", "priv"}
  BY <1>1 DEF Attr
<1>3. (IF Owns(p) THEN "want" ELSE file[l[p].fd].own) \in {"me", "want"}
  BY <1>1 DEF Attr
<1>4. Chowned(p, off, drop) \in Attr /\ Chowned(p, off, drop).data = file[l[p].fd].data
  BY <1>1, <1>2, <1>3 DEF Chowned, Attr
<1> QED BY <1>1, <1>4

LEMMA ModeProp ==
  ASSUME TypeOK, NEW p \in Runs, l[p].fd # None,
         file' = [file EXCEPT ![l[p].fd].mode = IF Has(p, "U") THEN "plain" ELSE req[p].mode]
  PROVE  file' \in [Inode -> Attr] /\ \A i \in Inode : file'[i].data = file[i].data
<1> DEFINE m == IF Has(p, "U") THEN "plain" ELSE req[p].mode
<1>1. m \in {"suid", "plain"}
  BY ReqType
<1> HIDE DEF m
<1>2. file \in [Inode -> Attr] /\ l[p].fd \in Inode
  BY TypeOfLocals DEF Locals
<1>3. \A i \in Inode : /\ [file[i] EXCEPT !.mode = m] \in Attr
                      /\ [file[i] EXCEPT !.mode = m].data = file[i].data
  BY <1>1, <1>2 DEF Attr
<1>4. file' = [file EXCEPT ![l[p].fd] = [file[l[p].fd] EXCEPT !.mode = m]]
  BY DEF m
<1> QED BY <1>2, <1>3, <1>4

LEMMA ImmProp ==
  ASSUME TypeOK, NEW p \in Runs, l[p].fd # None,
         file' = [file EXCEPT ![l[p].fd].imm = Has(p, "f") \/ Has(p, "simm")]
  PROVE  file' \in [Inode -> Attr] /\ \A i \in Inode : file'[i].data = file[i].data
<1> DEFINE m == Has(p, "f") \/ Has(p, "simm")
<1>1. m \in BOOLEAN
  BY DEF Has
<1> HIDE DEF m
<1>2. file \in [Inode -> Attr] /\ l[p].fd \in Inode
  BY TypeOfLocals DEF Locals
<1>3. \A i \in Inode : /\ [file[i] EXCEPT !.imm = m] \in Attr
                      /\ [file[i] EXCEPT !.imm = m].data = file[i].data
  BY <1>1, <1>2 DEF Attr
<1>4. file' = [file EXCEPT ![l[p].fd] = [file[l[p].fd] EXCEPT !.imm = m]]
  BY DEF m
<1> QED BY <1>2, <1>3, <1>4

(* One lemma per action. *)

LEMMA MainStep ==
  ASSUME IInv, NEW p \in Runs, Main(p)
  PROVE  Fine(p)
<1>1. TypeOK /\ ProcInv(p) /\ p \in Proc
  BY DEF IInv
<1>2. CASE pc[p] = "main" /\ Fail(p) /\ UNCHANGED <<fs, req, was>>
  BY <1>1, <1>2, FailFine DEF fs, At, ProcInv, Temporary, Filling, Filled, LinkCall
<1>3. CASE pc[p] = "main" /\ Goto(p, "start") /\ UNCHANGED <<fs, req, l, was>>
  <2>1. \A q \in Runs \ {p} : l'[q] = l[q] /\ pc'[q] = pc[q]
    BY <1>1, <1>3, GotoProp, SetProp
  <2>2. dir' = dir /\ file' = file /\ req' = req
    BY <1>1, <1>3 DEF fs
  <2>3. l' = l /\ pc'[p] = "start"
    BY <1>1, <1>3, GotoProp
  <2>4. TypeOK'
    <3>1. {"start"} \subseteq Pcs
      BY DEF Pcs
    <3>2. \E s \in Pcs : Goto(p, s)
      BY <1>1, <1>3, <3>1
    <3>3. \E r \in Locals : Set(p, r)
      BY <1>1, <1>3, TypeOfLocals DEF fs
    <3>4. UNCHANGED <<req, was>> /\ dir' \in [Name -> Inode \cup {None}] /\ file' \in [Inode -> Attr]
      BY <1>1, <1>3, TypeOfLocals DEF fs
    <3> QED BY <1>1, <1>3, <3>1, <3>2, <3>3, <3>4, TypeKept
  <2>5. Alters(p)
    BY <1>1, <1>3, <2>2, <2>1, AltersProp DEF fs, NewOf, StripOf, SymOf, Files
  <2>6. ProcInv(p)'
    <3>1. Route(p)'
      BY <1>1, <1>3, <2>2, <2>3 DEF ProcInv, Route, FileCall, LinkCall, Filling, Filled, TempOnly, Late, Has
    <3>2. Working(p)'
      BY <1>1, <1>3, <2>2, <2>3 DEF ProcInv, Working, FileCall, LinkCall, Filling, Filled, TempOnly, Late, Has, NewOf
    <3>3. Temporary(p)'
      BY <1>1, <1>3, <2>2, <2>3 DEF ProcInv, Temporary, NewOf, StripOf, SymOf, Filling, Filled, LinkCall, Temp0, Has, Files
    <3>4. Hidden(p)'
      BY <1>1, <1>3, <2>2, <2>3, Distinct DEF ProcInv, Hidden, Unseen, Has, NewOf, StripOf, SymOf
    <3> QED BY <3>1, <3>2, <3>3, <3>4 DEF ProcInv
  <2> QED BY <2>4, <2>5, <2>6 DEF Fine
<1> QED BY <1>2, <1>3 DEF Main, At, fs

LEMMA LstatStep ==
  ASSUME IInv, NEW p \in Runs, Lstat(p)
  PROVE  Fine(p)
<1>1. TypeOK /\ ProcInv(p) /\ p \in Proc
  BY DEF IInv
<1>2. \A q \in Runs \ {p} : l'[q] = l[q] /\ pc'[q] = pc[q]
  BY <1>1, GotoProp, SetProp DEF Lstat
<1>3. dir' = dir /\ file' = file /\ req' = req
  BY <1>1 DEF Lstat, fs
<1>4. pc[p] = "start"
  BY <1>1 DEF Lstat, At
<1>5. l'[p].work = l[p].work
  BY <1>1 DEF Lstat, Set, TypeOK
<1>6. req[p].link # "none" => pc'[p] \in {"link", "symlink"}
  BY <1>1 DEF Lstat, Goto, TypeOK
<1>7. req[p].link = "none" => dir["to"] # Dir /\ pc'[p] \in {"temp", "compare"}
  BY <1>1 DEF Lstat, Goto, TypeOK
<1>8. pc'[p] = "compare" => ~ Has(p, "s")
  BY <1>1 DEF Lstat, Goto, TypeOK, Has
<1>9. TypeOK'
  <2>1. {"start", "symlink", "link", "compare", "temp"} \subseteq Pcs /\ "to" \in Name
    BY DEF Pcs, Name
  <2>2. ASSUME NEW junk \in BOOLEAN
        PROVE  [l[p] EXCEPT !.sb.imm = junk] \in Locals
    <3>1. l[p] \in Locals /\ l[p].sb \in Stat
      BY <1>1, TypeOfLocals DEF Locals
    <3>2. [l[p].sb EXCEPT !.imm = junk] \in Stat
      BY <3>1 DEF Stat
    <3>3. [l[p] EXCEPT !.sb = [l[p].sb EXCEPT !.imm = junk]] \in Locals
      BY <3>1, <3>2 DEF Locals
    <3> QED BY <3>1, <3>3
  <2>3. dir["to"] # None => [l[p] EXCEPT !.target = TRUE, !.sb = StatOf(dir["to"])] \in Locals
    BY <1>1, <2>1, TypeOfLocals, StatType DEF Locals
  <2>4. \E s \in Pcs : Goto(p, s)
    BY <2>1 DEF Lstat
  <2>5. \E r \in Locals : Set(p, r)
    BY <2>2, <2>3 DEF Lstat
  <2> QED BY <1>1, <2>4, <2>5, TypeOfLocals, TypeKept DEF Lstat, fs
<1>10. Alters(p)
  BY <1>1, <1>3, <1>2, AltersProp DEF Lstat, fs, NewOf, StripOf, SymOf, Files
<1>11. ProcInv(p)'
  <2>1. Route(p)'
    BY <1>1, <1>3, <1>4, <1>6, <1>7, <1>8 DEF ProcInv, Route, FileCall, LinkCall, Filling, Filled, TempOnly, Late, Has
  <2>2. Working(p)'
    BY <1>1, <1>3, <1>4, <1>5, <1>6, <1>7, <1>8 DEF ProcInv, Working, FileCall, LinkCall, Filling, Filled, TempOnly, Late, Has, NewOf
  <2>3. Temporary(p)'
    BY <1>1, <1>3, <1>4, <1>5, <1>6, <1>7, <1>8 DEF ProcInv, Temporary, NewOf, StripOf, SymOf, Filling, Filled, LinkCall, Temp0, Has, Files
  <2>4. Hidden(p)'
    BY <1>1, <1>3, <1>4, <1>6, <1>7, <1>8, Distinct DEF ProcInv, Hidden, Unseen, Has, NewOf, StripOf, SymOf
  <2> QED BY <2>1, <2>2, <2>3, <2>4 DEF ProcInv
<1> QED BY <1>9, <1>10, <1>11 DEF Fine

LEMMA StartFailsStep ==
  ASSUME IInv, NEW p \in Runs, StartFails(p)
  PROVE  Fine(p)
<1>1. TypeOK /\ ProcInv(p) /\ p \in Proc
  BY DEF IInv
<1> QED BY <1>1, FailFine DEF StartFails, fs, At, ProcInv, Temporary, Filling, Filled, LinkCall

LEMMA TempFailsStep ==
  ASSUME IInv, NEW p \in Runs, TempFails(p)
  PROVE  Fine(p)
<1>1. TypeOK /\ ProcInv(p) /\ p \in Proc
  BY DEF IInv
<1> QED BY <1>1, FailFine DEF TempFails, fs, At, ProcInv, Temporary, Filling, Filled, LinkCall

LEMMA CompareStep ==
  ASSUME IInv, NEW p \in Runs, Compare(p)
  PROVE  Fine(p)
<1>1. TypeOK /\ ProcInv(p) /\ p \in Proc
  BY DEF IInv
<1>2. CASE pc[p] = "compare" /\ Fail(p) /\ UNCHANGED <<fs, req, was>>
  BY <1>1, <1>2, FailFine DEF fs, At, ProcInv, Temporary, Filling, Filled, LinkCall
<1>3. CASE pc[p] = "compare" /\ Goto(p, "temp") /\ UNCHANGED <<fs, req, l, was>>
  <2>1. \A q \in Runs \ {p} : l'[q] = l[q] /\ pc'[q] = pc[q]
    BY <1>1, <1>3, GotoProp, SetProp
  <2>2. dir' = dir /\ file' = file /\ req' = req
    BY <1>1, <1>3 DEF fs
  <2>3. l' = l /\ pc'[p] = "temp"
    BY <1>1, <1>3, GotoProp
  <2>4. TypeOK'
    <3>1. {"temp"} \subseteq Pcs
      BY DEF Pcs
    <3>2. \E s \in Pcs : Goto(p, s)
      BY <1>1, <1>3, <3>1
    <3>3. \E r \in Locals : Set(p, r)
      BY <1>1, <1>3, TypeOfLocals DEF fs
    <3>4. UNCHANGED <<req, was>> /\ dir' \in [Name -> Inode \cup {None}] /\ file' \in [Inode -> Attr]
      BY <1>1, <1>3, TypeOfLocals DEF fs
    <3> QED BY <1>1, <1>3, <3>1, <3>2, <3>3, <3>4, TypeKept
  <2>5. Alters(p)
    BY <1>1, <1>3, <2>2, <2>1, AltersProp DEF fs, NewOf, StripOf, SymOf, Files
  <2>6. ProcInv(p)'
    <3>1. Route(p)'
      BY <1>1, <1>3, <2>2, <2>3 DEF ProcInv, Route, FileCall, LinkCall, Filling, Filled, TempOnly, Late, Has
    <3>2. Working(p)'
      BY <1>1, <1>3, <2>2, <2>3 DEF ProcInv, Working, FileCall, LinkCall, Filling, Filled, TempOnly, Late, Has, NewOf
    <3>3. Temporary(p)'
      BY <1>1, <1>3, <2>2, <2>3 DEF ProcInv, Temporary, NewOf, StripOf, SymOf, Filling, Filled, LinkCall, Temp0, Has, Files
    <3>4. Hidden(p)'
      BY <1>1, <1>3, <2>2, <2>3, Distinct DEF ProcInv, Hidden, Unseen, Has, NewOf, StripOf, SymOf
    <3> QED BY <3>1, <3>2, <3>3, <3>4 DEF ProcInv
  <2> QED BY <2>4, <2>5, <2>6 DEF Fine
<1>4. CASE /\ pc[p] = "compare" /\ dir["to"] # None
           /\ Set(p, [l[p] EXCEPT !.match = TRUE, !.fd = Leads])
           /\ Goto(p, "fstat") /\ UNCHANGED <<fs, req, was>>
  <2>1. \A q \in Runs \ {p} : l'[q] = l[q] /\ pc'[q] = pc[q]
    BY <1>1, <1>4, GotoProp, SetProp
  <2>2. dir' = dir /\ file' = file /\ req' = req
    BY <1>1, <1>4 DEF fs
  <2>3. pc'[p] = "fstat"
    BY <1>1, <1>4, GotoProp
  <2>4. l'[p].work = l[p].work
    BY <1>1, <1>4 DEF Set, TypeOK
  <2>5. l'[p].fd # None
    BY <1>1, <1>4, LeadsType, InodeProp DEF Set, TypeOK
  <2>6. TypeOK'
    <3>1. {"fstat"} \subseteq Pcs
      BY DEF Pcs
    <3>2. \E s \in Pcs : Goto(p, s)
      BY <1>1, <1>4, <3>1
    <3>3. [l[p] EXCEPT !.match = TRUE, !.fd = Leads] \in Locals
      BY <1>1, <1>4, TypeOfLocals, LeadsType DEF Locals
    <3>4. \E r \in Locals : Set(p, r)
      BY <1>1, <1>4, <3>3, TypeOfLocals DEF fs
    <3>5. UNCHANGED <<req, was>> /\ dir' \in [Name -> Inode \cup {None}] /\ file' \in [Inode -> Attr]
      BY <1>1, <1>4, TypeOfLocals DEF fs
    <3> QED BY <1>1, <1>4, <3>1, <3>2, <3>4, <3>5, TypeKept
  <2>7. Alters(p)
    BY <1>1, <1>4, <2>2, <2>1, AltersProp DEF fs, NewOf, StripOf, SymOf, Files
  <2>8. ProcInv(p)'
    <3>1. Route(p)'
      BY <1>1, <1>4, <2>2, <2>3 DEF ProcInv, Route, FileCall, LinkCall, Filling, Filled, TempOnly, Late, Has
    <3>2. Working(p)'
      BY <1>1, <1>4, <2>2, <2>3, <2>4, <2>5 DEF ProcInv, Working, FileCall, LinkCall, Filling, Filled, TempOnly, Late, Has, NewOf
    <3>3. Temporary(p)'
      BY <1>1, <1>4, <2>2, <2>3, <2>4, <2>5 DEF ProcInv, Temporary, NewOf, StripOf, SymOf, Filling, Filled, LinkCall, Temp0, Has, Files
    <3>4. Hidden(p)'
      BY <1>1, <1>4, <2>2, <2>3, Distinct DEF ProcInv, Hidden, Unseen, Has, NewOf, StripOf, SymOf
    <3> QED BY <3>1, <3>2, <3>3, <3>4 DEF ProcInv
  <2> QED BY <2>6, <2>7, <2>8 DEF Fine
<1> QED BY <1>2, <1>3, <1>4 DEF Compare, At, fs

LEMMA TempStep ==
  ASSUME IInv, NEW p \in Runs, Temp(p)
  PROVE  Fine(p)
<1>1. TypeOK /\ ProcInv(p) /\ p \in Proc
  BY DEF IInv
<1>2. \A q \in Runs \ {p} : l'[q] = l[q] /\ pc'[q] = pc[q]
  BY <1>1, GotoProp, SetProp DEF Temp
<1>3. UNCHANGED req
  BY <1>1 DEF Temp
<1>4. pc[p] = "temp"
  BY <1>1 DEF Temp, At
<1>5. ~ Has(p, "sandbox")
  BY <1>1 DEF Temp, Has
<1>6. dir' \in [Name -> Inode \cup {None}] /\ file' \in [Inode -> Attr]
  BY <1>1, NameProp, InodeProp, NewType, TypeOfLocals DEF Temp
<1>7. \A n \in Name \ {Tmp(p)} : dir'[n] = dir[n]
  BY <1>1 DEF Temp, TypeOK
<1>8. dir'["to"] = dir["to"]
  BY <1>1, NameProp DEF Temp, Name, TypeOK
<1>9. Temp0(p)' = <<p, "new">>
  BY <1>1, NameProp DEF Temp, Temp0, TypeOK
<1>10. file'[<<p, "new">>].data = <<"null", "plain">>
  BY <1>1, InodeProp DEF Temp, New, TypeOK
<1>11. \A i \in Inode \ {<<p, "new">>} : file'[i] = file[i]
  BY <1>1 DEF Temp, TypeOK
<1>12. l'[p].work = l[p].work
  BY <1>1 DEF Temp, Set, TypeOK
<1>13. l'[p].fd = <<p, "new">>
  BY <1>1 DEF Temp, Set, TypeOK
<1>14. pc'[p] = IF Has(p, "null") THEN IF Has(p, "s") THEN "strip2" ELSE "unlock"
                ELSE IF Has(p, "s") THEN "strip" ELSE "copy"
  BY <1>1, GotoProp DEF Temp, Has
<1>15. TypeOK'
  <2>1. {"strip2", "unlock", "strip", "copy"} \subseteq Pcs
    BY DEF Pcs
  <2>2. \E s \in Pcs : Goto(p, s)
    BY <1>1, <2>1 DEF Temp
  <2>3. [l[p] EXCEPT !.fd = <<p, "new">>] \in Locals
    BY <1>1, TypeOfLocals, InodeProp DEF Locals
  <2>4. \E r \in Locals : Set(p, r)
    BY <1>1, <2>3, TypeOfLocals DEF Temp, fs
  <2>5. UNCHANGED <<req, was>> /\ dir' \in [Name -> Inode \cup {None}] /\ file' \in [Inode -> Attr]
    BY <1>1, TypeOfLocals, <1>6 DEF Temp, fs
  <2> QED BY <1>1, <2>1, <2>2, <2>4, <2>5, TypeKept
<1>16. Alters(p)
  BY <1>1, <1>3, <1>7, <1>8, <1>10, <1>11, <1>2, AltersProp DEF Temp, fs, NewOf, StripOf, SymOf, Files
<1>17. ProcInv(p)'
  <2>1. Route(p)'
    BY <1>1, <1>3, <1>4, <1>5, <1>8, <1>14 DEF ProcInv, Route, FileCall, LinkCall, Filling, Filled, TempOnly, Late, Has
  <2>2. Working(p)'
    BY <1>1, <1>3, <1>4, <1>5, <1>12, <1>13, <1>14 DEF ProcInv, Working, FileCall, LinkCall, Filling, Filled, TempOnly, Late, Has, NewOf
  <2>3. Temporary(p)'
    BY <1>1, <1>3, <1>4, <1>5, <1>6, <1>7, <1>8, <1>9, <1>10, <1>11, <1>12, <1>13, <1>14 DEF ProcInv, Temporary, NewOf, StripOf, SymOf, Filling, Filled, LinkCall, Temp0, Has, Files, Want, Plain
  <2>4. Hidden(p)'
    BY <1>1, <1>3, <1>4, <1>5, <1>6, <1>7, <1>8, <1>14, Distinct DEF ProcInv, Hidden, Unseen, Has, NewOf, StripOf, SymOf
  <2> QED BY <2>1, <2>2, <2>3, <2>4 DEF ProcInv
<1> QED BY <1>15, <1>16, <1>17 DEF Fine

LEMMA DirectStep ==
  ASSUME IInv, NEW p \in Runs, Direct(p)
  PROVE  Fine(p)
<1>1. TypeOK /\ ProcInv(p) /\ p \in Proc
  BY DEF IInv
<1>2. \A q \in Runs \ {p} : l'[q] = l[q] /\ pc'[q] = pc[q]
  BY <1>1, GotoProp, SetProp DEF Direct
<1>3. UNCHANGED <<file, req, l>>
  BY <1>1 DEF Direct
<1>4. pc[p] = "temp"
  BY <1>1 DEF Direct, At
<1>5. Has(p, "sandbox")
  BY <1>1 DEF Direct, Has
<1>6. dir' \in [Name -> Inode \cup {None}]
  BY <1>1, TypeOfLocals DEF Direct
<1>7. \A n \in Name \ {"to"} : dir'[n] = dir[n]
  BY <1>1 DEF Direct, TypeOK
<1>8. Temp0(p)' = Temp0(p)
  BY <1>1, NameProp DEF Direct, Temp0, TypeOK
<1>9. dir'["to"] \in {dir["to"], None} /\ pc'[p] = "excl"
  BY <1>1 DEF Direct, Goto, TypeOK
<1>10. TypeOK'
  <2>1. {"excl"} \subseteq Pcs
    BY DEF Pcs
  <2>2. \E s \in Pcs : Goto(p, s)
    BY <1>1, <2>1 DEF Direct
  <2>3. \E r \in Locals : Set(p, r)
    BY <1>1, TypeOfLocals DEF Direct, fs
  <2>4. UNCHANGED <<req, was>> /\ dir' \in [Name -> Inode \cup {None}] /\ file' \in [Inode -> Attr]
    BY <1>1, TypeOfLocals, <1>6 DEF Direct, fs
  <2> QED BY <1>1, <2>1, <2>2, <2>3, <2>4, TypeKept
<1>11. Alters(p)
  BY <1>1, <1>3, <1>7, <1>9, <1>2, AltersProp DEF Direct, fs, NewOf, StripOf, SymOf, Files
<1>12. ProcInv(p)'
  <2>1. Route(p)'
    BY <1>1, <1>3, <1>4, <1>5, <1>9, Distinct DEF ProcInv, Route, FileCall, LinkCall, Filling, Filled, TempOnly, Late, Has
  <2>2. Working(p)'
    BY <1>1, <1>3, <1>4, <1>5, <1>9 DEF ProcInv, Working, FileCall, LinkCall, Filling, Filled, TempOnly, Late, Has, NewOf
  <2>3. Temporary(p)'
    BY <1>1, <1>3, <1>4, <1>5, <1>6, <1>7, <1>8, <1>9 DEF ProcInv, Temporary, NewOf, StripOf, SymOf, Filling, Filled, LinkCall, Temp0, Has, Files
  <2>4. Hidden(p)'
    BY <1>1, <1>3, <1>4, <1>5, <1>6, <1>7, <1>9, Distinct DEF ProcInv, Hidden, Unseen, Has, NewOf, StripOf, SymOf
  <2> QED BY <2>1, <2>2, <2>3, <2>4 DEF ProcInv
<1> QED BY <1>10, <1>11, <1>12 DEF Fine

LEMMA DirectOpenStep ==
  ASSUME IInv, NEW p \in Runs, DirectOpen(p)
  PROVE  Fine(p)
<1>1. TypeOK /\ ProcInv(p) /\ p \in Proc
  BY DEF IInv
<1>2. CASE pc[p] = "excl" /\ Fail(p) /\ UNCHANGED <<fs, req, was>>
  BY <1>1, <1>2, FailFine DEF fs, At, ProcInv, Temporary, Filling, Filled, LinkCall
<1>3. CASE /\ DirectOpen(p) /\ dir["to"] = None
  <2>1. \A q \in Runs \ {p} : l'[q] = l[q] /\ pc'[q] = pc[q]
    BY <1>1, <1>3, GotoProp, SetProp DEF DirectOpen
  <2>2. UNCHANGED req
    BY <1>1, <1>3 DEF DirectOpen
  <2>3. pc[p] = "excl"
    BY <1>1, <1>3 DEF DirectOpen, At
  <2>4. Has(p, "sandbox")
    BY <1>1, <1>3 DEF DirectOpen, ProcInv, Route, Has, At
  <2>5. \A m \in {"plain", req[p].mode} : [New EXCEPT !.mode = m] \in Attr
    BY <1>1, <1>3, NewType, ReqType DEF DirectOpen, Attr
  <2>6. dir' \in [Name -> Inode \cup {None}] /\ file' \in [Inode -> Attr]
    BY <1>1, <1>3, InodeProp, TypeOfLocals, <2>5 DEF DirectOpen
  <2>7. \A n \in Name \ {"to"} : dir'[n] = dir[n]
    BY <1>1, <1>3 DEF DirectOpen, TypeOK
  <2>8. Temp0(p)' = Temp0(p)
    BY <1>1, <1>3, NameProp DEF DirectOpen, Temp0, TypeOK
  <2>9. dir'["to"] = <<p, "new">>
    BY <1>1, <1>3 DEF DirectOpen, Name, TypeOK
  <2>10. \A i \in Inode \ {<<p, "new">>} : file'[i] = file[i]
    BY <1>1, <1>3 DEF DirectOpen, TypeOK
  <2>11. l'[p] = [l[p] EXCEPT !.fd = <<p, "new">>, !.work = "to"]
    BY <1>1, <1>3 DEF DirectOpen, Set, TypeOK
  <2>12. pc'[p] = IF Has(p, "s") THEN "strip" ELSE "copy"
    BY <1>1, <1>3 DEF DirectOpen, Goto, TypeOK, Has
  <2>13. TypeOK'
    <3>1. {"strip", "copy"} \subseteq Pcs
      BY DEF Pcs
    <3>2. \E s \in Pcs : Goto(p, s)
      BY <1>1, <1>3, <3>1 DEF DirectOpen
    <3>3. [l[p] EXCEPT !.fd = <<p, "new">>, !.work = "to"] \in Locals
      BY <1>1, <1>3, TypeOfLocals, InodeProp DEF Locals, Name
    <3>4. \E r \in Locals : Set(p, r)
      BY <1>1, <1>3, <3>3, TypeOfLocals DEF DirectOpen, fs
    <3>5. UNCHANGED <<req, was>> /\ dir' \in [Name -> Inode \cup {None}] /\ file' \in [Inode -> Attr]
      BY <1>1, <1>3, TypeOfLocals, <2>6 DEF DirectOpen, fs
    <3> QED BY <1>1, <1>3, <3>1, <3>2, <3>4, <3>5, TypeKept
  <2>14. Alters(p)
    BY <1>1, <1>3, <2>2, <2>7, <2>9, <2>10, <2>1, AltersProp DEF DirectOpen, fs, NewOf, StripOf, SymOf, Files
  <2>15. ProcInv(p)'
    <3>1. Route(p)'
      BY <1>1, <1>3, <2>2, <2>3, <2>4, <2>5, <2>9, <2>12, Distinct DEF ProcInv, Route, FileCall, LinkCall, Filling, Filled, TempOnly, Late, Has
    <3>2. Working(p)'
      BY <1>1, <1>3, <2>2, <2>3, <2>4, <2>5, <2>11, <2>12, InodeProp DEF ProcInv, Working, FileCall, LinkCall, Filling, Filled, TempOnly, Late, Has, NewOf, TypeOK
    <3>3. Temporary(p)'
      BY <1>1, <1>3, <2>2, <2>3, <2>4, <2>5, <2>6, <2>7, <2>8, <2>9, <2>10, <2>11, <2>12 DEF ProcInv, Temporary, NewOf, StripOf, SymOf, Filling, Filled, LinkCall, Temp0, Has, Files
    <3>4. Hidden(p)'
      BY <1>1, <1>3, <2>2, <2>3, <2>4, <2>5, <2>6, <2>7, <2>9, <2>12, Distinct DEF ProcInv, Hidden, Unseen, Has, NewOf, StripOf, SymOf
    <3> QED BY <3>1, <3>2, <3>3, <3>4 DEF ProcInv
  <2> QED BY <2>13, <2>14, <2>15 DEF Fine
<1> QED BY <1>2, <1>3 DEF DirectOpen, At, fs

LEMMA StripStep ==
  ASSUME IInv, NEW p \in Runs, Strip(p)
  PROVE  Fine(p)
<1>1. TypeOK /\ ProcInv(p) /\ p \in Proc
  BY DEF IInv
<1>2. CASE /\ pc[p] = "strip" /\ ~ Has(p, "null") /\ UNCHANGED <<req, was>>
           /\ Stripped(p, IF l[p].work = "to" THEN "fstat" ELSE "reopen")
  <2>1. \A q \in Runs \ {p} : l'[q] = l[q] /\ pc'[q] = pc[q]
    BY <1>1, <1>2, GotoProp, SetProp DEF Stripped
  <2>2. UNCHANGED req /\ l' = l
    BY <1>1, <1>2 DEF Stripped, Stripped
  <2>3. pc[p] = "strip"
    BY <1>1, <1>2 DEF Stripped
  <2>4. l[p].fd = NewOf(p)
    BY <1>1, <1>2 DEF Stripped, ProcInv, Working, Filling
  <2>5. l[p].work = IF Has(p, "sandbox") THEN "to" ELSE Tmp(p)
    BY <1>1, <1>2 DEF Stripped, ProcInv, Working, Route, TempOnly, Filling, Has
  <2>6. file' \in [Inode -> Attr] /\ dir' \in [Name -> Inode \cup {None}]
    BY <1>1, <1>2, StrippedProp, <2>4 DEF Stripped
  <2>7. \A i \in Inode \ Files(p) : file'[i].data = file[i].data
    BY <1>1, <1>2, StrippedProp, <2>4 DEF Stripped
  <2>8. \A n \in Name \ {l[p].work} : dir'[n] = dir[n]
    BY <1>1, <1>2, StrippedProp, <2>4 DEF Stripped
  <2>9. \A n \in Name \ {"to", "bak", Tmp(p)} : dir'[n] = dir[n]
    BY <1>1, <1>2, <2>8, <2>5 DEF Stripped
  <2>10. (dir' = dir /\ file'[NewOf(p)].data = Want(p)) \/ (dir'[l[p].work] = StripOf(p) /\ file'[StripOf(p)].data = Want(p))
    BY <1>1, <1>2, StrippedProp, <2>4 DEF Stripped
  <2>11. dir'["to"] = dir["to"] \/ (Has(p, "sandbox") /\ dir'["to"] = StripOf(p))
    BY <1>1, <1>2, <2>8, <2>5, <2>10, NameProp DEF Stripped, Name
  <2>12. dir[Tmp(p)] = IF Has(p, "sandbox") THEN None ELSE NewOf(p)
    BY <1>1, <1>2 DEF Stripped, ProcInv, Temporary, Filling, Temp0, Has
  <2>13. ~ Has(p, "sandbox") => dir'[Tmp(p)] \in Files(p) /\ file'[dir'[Tmp(p)]].data = Want(p)
    BY <1>1, <1>2, <2>5, <2>10, <2>12 DEF Stripped, Files
  <2>14. Has(p, "sandbox") => dir'[Tmp(p)] = None
    BY <1>1, <1>2, <2>5, <2>8, <2>12, NameProp DEF Stripped
  <2>15. pc'[p] = IF Has(p, "sandbox") THEN "fstat" ELSE "reopen"
    BY <1>1, <1>2, <2>5, GotoProp, NameProp DEF Stripped, Stripped
  <2>16. TypeOK'
    <3>1. {"fstat", "reopen"} \subseteq Pcs
      BY DEF Pcs
    <3>2. \E s \in Pcs : Goto(p, s)
      BY <1>1, <1>2, <3>1 DEF Stripped
    <3>3. \E r \in Locals : Set(p, r)
      BY <1>1, <1>2, TypeOfLocals DEF Stripped, fs
    <3>4. UNCHANGED <<req, was>> /\ dir' \in [Name -> Inode \cup {None}] /\ file' \in [Inode -> Attr]
      BY <1>1, <1>2, TypeOfLocals, <2>6 DEF Stripped, fs
    <3> QED BY <1>1, <1>2, <3>1, <3>2, <3>3, <3>4, TypeKept
  <2>17. Alters(p)
    BY <1>1, <1>2, <2>2, <2>7, <2>8, <2>9, <2>10, <2>11, <2>13, <2>14, <2>1, AltersProp DEF Stripped, fs, NewOf, StripOf, SymOf, Files
  <2>18. ProcInv(p)'
    <3>1. Route(p)'
      BY <1>1, <1>2, <2>2, <2>3, <2>5, <2>10, <2>11, <2>12, <2>13, <2>14, <2>15, Distinct DEF ProcInv, Route, FileCall, LinkCall, Filling, Filled, TempOnly, Late, Has, At, StripOf
    <3>2. Working(p)'
      BY <1>1, <1>2, <2>2, <2>3, <2>4, <2>5, <2>8, <2>10, <2>11, <2>12, <2>13, <2>14, <2>15, Distinct DEF ProcInv, Working, FileCall, LinkCall, Filling, Filled, TempOnly, Late, Has, NewOf, At, Stripped
    <3>3. Temporary(p)'
      BY <1>1, <1>2, <2>2, <2>3, <2>5, <2>6, <2>7, <2>8, <2>9, <2>10, <2>11, <2>12, <2>13, <2>14, <2>15 DEF ProcInv, Temporary, NewOf, StripOf, SymOf, Filling, Filled, LinkCall, Temp0, Has, Files, At, Want, Plain
    <3>4. Hidden(p)'
      BY <1>1, <1>2, <2>2, <2>3, <2>5, <2>6, <2>8, <2>9, <2>10, <2>11, <2>12, <2>13, <2>14, <2>15, Distinct DEF ProcInv, Hidden, Unseen, Has, NewOf, StripOf, SymOf
    <3> QED BY <3>1, <3>2, <3>3, <3>4 DEF ProcInv
  <2> QED BY <2>16, <2>17, <2>18 DEF Fine
<1>3. CASE pc[p] = "strip" /\ Goto(p, "copy") /\ UNCHANGED <<fs, l, req, was>>
  <2>1. \A q \in Runs \ {p} : l'[q] = l[q] /\ pc'[q] = pc[q]
    BY <1>1, <1>3, GotoProp, SetProp DEF fs
  <2>2. UNCHANGED <<dir, file, req, l>>
    BY <1>1, <1>3 DEF fs
  <2>3. pc'[p] = "copy"
    BY <1>1, <1>3, GotoProp DEF fs
  <2>4. TypeOK'
    <3>1. {"copy"} \subseteq Pcs
      BY DEF Pcs
    <3>2. \E s \in Pcs : Goto(p, s)
      BY <1>1, <1>3, <3>1 DEF fs
    <3>3. \E r \in Locals : Set(p, r)
      BY <1>1, <1>3, TypeOfLocals DEF fs, fs
    <3>4. UNCHANGED <<req, was>> /\ dir' \in [Name -> Inode \cup {None}] /\ file' \in [Inode -> Attr]
      BY <1>1, <1>3, TypeOfLocals DEF fs, fs
    <3> QED BY <1>1, <1>3, <3>1, <3>2, <3>3, <3>4, TypeKept
  <2>5. Alters(p)
    BY <1>1, <1>3, <2>2, <2>1, AltersProp DEF fs, fs, NewOf, StripOf, SymOf, Files
  <2>6. ProcInv(p)'
    <3>1. Route(p)'
      BY <1>1, <1>3, <2>2, <2>3 DEF ProcInv, Route, FileCall, LinkCall, Filling, Filled, TempOnly, Late, Has
    <3>2. Working(p)'
      BY <1>1, <1>3, <2>2, <2>3 DEF ProcInv, Working, FileCall, LinkCall, Filling, Filled, TempOnly, Late, Has, NewOf
    <3>3. Temporary(p)'
      BY <1>1, <1>3, <2>2, <2>3 DEF ProcInv, Temporary, NewOf, StripOf, SymOf, Filling, Filled, LinkCall, Temp0, Has, Files
    <3>4. Hidden(p)'
      BY <1>1, <1>3, <2>2, <2>3, Distinct DEF ProcInv, Hidden, Unseen, Has, NewOf, StripOf, SymOf
    <3> QED BY <3>1, <3>2, <3>3, <3>4 DEF ProcInv
  <2> QED BY <2>4, <2>5, <2>6 DEF Fine
<1>4. CASE pc[p] = "strip" /\ FailClean(p) /\ UNCHANGED <<req, was>>
  BY <1>1, <1>4, FailCleanFine DEF Filling
<1> QED BY <1>2, <1>3, <1>4 DEF Strip, At, fs

LEMMA StripInPlaceStep ==
  ASSUME IInv, NEW p \in Runs, StripInPlace(p)
  PROVE  Fine(p)
<1>1. TypeOK /\ ProcInv(p) /\ p \in Proc
  BY DEF IInv
<1>2. CASE /\ pc[p] = "strip2" /\ ~ Has(p, "null") /\ UNCHANGED <<req, was>>
           /\ Stripped(p, "reopen")
  <2>1. \A q \in Runs \ {p} : l'[q] = l[q] /\ pc'[q] = pc[q]
    BY <1>1, <1>2, GotoProp, SetProp DEF Stripped
  <2>2. UNCHANGED req /\ l' = l
    BY <1>1, <1>2 DEF Stripped, Stripped
  <2>3. pc[p] = "strip2"
    BY <1>1, <1>2 DEF Stripped
  <2>4. l[p].fd = NewOf(p)
    BY <1>1, <1>2 DEF Stripped, ProcInv, Working, Filling
  <2>5. l[p].work = Tmp(p) /\ ~ Has(p, "sandbox")
    BY <1>1, <1>2 DEF Stripped, ProcInv, Working, Route, TempOnly, Filling, Has
  <2>6. file' \in [Inode -> Attr] /\ dir' \in [Name -> Inode \cup {None}]
    BY <1>1, <1>2, StrippedProp, <2>4 DEF Stripped
  <2>7. \A i \in Inode \ Files(p) : file'[i].data = file[i].data
    BY <1>1, <1>2, StrippedProp, <2>4 DEF Stripped
  <2>8. \A n \in Name \ {l[p].work} : dir'[n] = dir[n]
    BY <1>1, <1>2, StrippedProp, <2>4 DEF Stripped
  <2>9. \A n \in Name \ {"to", "bak", Tmp(p)} : dir'[n] = dir[n]
    BY <1>1, <1>2, <2>8, <2>5 DEF Stripped
  <2>10. (dir' = dir /\ file'[NewOf(p)].data = Want(p)) \/ (dir'[l[p].work] = StripOf(p) /\ file'[StripOf(p)].data = Want(p))
    BY <1>1, <1>2, StrippedProp, <2>4 DEF Stripped
  <2>11. dir'["to"] = dir["to"]
    BY <1>1, <1>2, <2>8, <2>5, <2>10, NameProp DEF Stripped, Name
  <2>12. dir[Tmp(p)] = IF Has(p, "sandbox") THEN None ELSE NewOf(p)
    BY <1>1, <1>2 DEF Stripped, ProcInv, Temporary, Filling, Temp0, Has
  <2>13. ~ Has(p, "sandbox") => dir'[Tmp(p)] \in Files(p) /\ file'[dir'[Tmp(p)]].data = Want(p)
    BY <1>1, <1>2, <2>5, <2>10, <2>12 DEF Stripped, Files
  <2>14. Has(p, "sandbox") => dir'[Tmp(p)] = None
    BY <1>1, <1>2, <2>5, <2>8, <2>12, NameProp DEF Stripped
  <2>15. pc'[p] = "reopen"
    BY <1>1, <1>2, GotoProp DEF Stripped, Stripped
  <2>16. TypeOK'
    <3>1. {"fstat", "reopen"} \subseteq Pcs
      BY DEF Pcs
    <3>2. \E s \in Pcs : Goto(p, s)
      BY <1>1, <1>2, <3>1 DEF Stripped
    <3>3. \E r \in Locals : Set(p, r)
      BY <1>1, <1>2, TypeOfLocals DEF Stripped, fs
    <3>4. UNCHANGED <<req, was>> /\ dir' \in [Name -> Inode \cup {None}] /\ file' \in [Inode -> Attr]
      BY <1>1, <1>2, TypeOfLocals, <2>6 DEF Stripped, fs
    <3> QED BY <1>1, <1>2, <3>1, <3>2, <3>3, <3>4, TypeKept
  <2>17. Alters(p)
    BY <1>1, <1>2, <2>2, <2>7, <2>8, <2>9, <2>10, <2>11, <2>13, <2>14, <2>1, AltersProp DEF Stripped, fs, NewOf, StripOf, SymOf, Files
  <2>18. ProcInv(p)'
    <3>1. Route(p)'
      BY <1>1, <1>2, <2>2, <2>3, <2>5, <2>10, <2>11, <2>12, <2>13, <2>14, <2>15, Distinct DEF ProcInv, Route, FileCall, LinkCall, Filling, Filled, TempOnly, Late, Has, At, StripOf
    <3>2. Working(p)'
      BY <1>1, <1>2, <2>2, <2>3, <2>4, <2>5, <2>8, <2>10, <2>12, <2>13, <2>14, <2>15, Distinct DEF ProcInv, Working, FileCall, LinkCall, Filling, Filled, TempOnly, Late, Has, NewOf, At, Stripped
    <3>3. Temporary(p)'
      BY <1>1, <1>2, <2>2, <2>3, <2>5, <2>6, <2>7, <2>8, <2>9, <2>10, <2>11, <2>12, <2>13, <2>14, <2>15 DEF ProcInv, Temporary, NewOf, StripOf, SymOf, Filling, Filled, LinkCall, Temp0, Has, Files, At, Want, Plain
    <3>4. Hidden(p)'
      BY <1>1, <1>2, <2>2, <2>3, <2>5, <2>6, <2>8, <2>9, <2>10, <2>11, <2>12, <2>13, <2>14, <2>15, Distinct DEF ProcInv, Hidden, Unseen, Has, NewOf, StripOf, SymOf
    <3> QED BY <3>1, <3>2, <3>3, <3>4 DEF ProcInv
  <2> QED BY <2>16, <2>17, <2>18 DEF Fine
<1>3. CASE pc[p] = "strip2" /\ FailClean(p) /\ UNCHANGED <<req, was>>
  BY <1>1, <1>3, FailCleanFine DEF Filling
<1> QED BY <1>2, <1>3 DEF StripInPlace, At, fs

LEMMA CopySomeStep ==
  ASSUME IInv, NEW p \in Runs, CopySome(p)
  PROVE  Fine(p)
<1>1. TypeOK /\ ProcInv(p) /\ p \in Proc
  BY DEF IInv
<1>2. CASE pc[p] = "copy" /\ Has(p, "null") /\ Fail(p) /\ UNCHANGED <<fs, req, was>>
  BY <1>1, <1>2, FailFine DEF fs, ProcInv, Route, Temporary, Filling, Has
<1>3. CASE /\ pc[p] = "copy" /\ ~ Has(p, "null") /\ Write(p, <<req[p].src, "part">>)
           /\ Goto(p, "copying") /\ UNCHANGED <<l, req, was>>
  <2>1. \A q \in Runs \ {p} : l'[q] = l[q] /\ pc'[q] = pc[q]
    BY <1>1, <1>3, GotoProp, SetProp
  <2>2. UNCHANGED <<req, l>>
    BY <1>1, <1>3
  <2>3. l[p].fd = NewOf(p) /\ NewOf(p) # None
    BY <1>1, <1>3, Distinct DEF ProcInv, Working, Filling, NewOf
  <2>4. l[p].work = IF Has(p, "sandbox") THEN "to" ELSE Tmp(p)
    BY <1>1, <1>3 DEF ProcInv, Working, Filling, Has
  <2>5. dir' = dir /\ file' \in [Inode -> Attr]
    BY <1>1, <1>3, WriteProp, DataType
  <2>6. \A i \in Inode \ Files(p) : file'[i].data = file[i].data
    BY <1>1, <1>3, WriteProp, DataType, <2>3 DEF Files
  <2>7. file'[NewOf(p)].data = <<req[p].src, "part">>
    BY <1>1, <1>3, WriteProp, DataType, InodeProp, <2>3 DEF NewOf
  <2>8. pc'[p] = "copying"
    BY <1>1, <1>3, GotoProp
  <2>9. TypeOK'
    <3>1. {"copying"} \subseteq Pcs
      BY DEF Pcs
    <3>2. \E s \in Pcs : Goto(p, s)
      BY <1>1, <1>3, <3>1
    <3>3. \E r \in Locals : Set(p, r)
      BY <1>1, <1>3, TypeOfLocals DEF fs
    <3>4. UNCHANGED <<req, was>> /\ dir' \in [Name -> Inode \cup {None}] /\ file' \in [Inode -> Attr]
      BY <1>1, <1>3, TypeOfLocals, <2>5 DEF fs
    <3> QED BY <1>1, <1>3, <3>1, <3>2, <3>3, <3>4, TypeKept
  <2>10. Alters(p)
    BY <1>1, <1>3, <2>2, <2>5, <2>6, <2>7, <2>1, AltersProp DEF fs, NewOf, StripOf, SymOf, Files
  <2>11. ProcInv(p)'
    <3>1. Route(p)'
      BY <1>1, <1>3, <2>2, <2>4, <2>5, <2>7, <2>8 DEF ProcInv, Route, FileCall, LinkCall, Filling, Filled, TempOnly, Late, Has
    <3>2. Working(p)'
      BY <1>1, <1>3, <2>2, <2>3, <2>4, <2>7, <2>8, NameProp DEF ProcInv, Working, FileCall, LinkCall, Filling, Filled, TempOnly, Late, Has, NewOf
    <3>3. Temporary(p)'
      BY <1>1, <1>3, <2>2, <2>4, <2>5, <2>6, <2>7, <2>8 DEF ProcInv, Temporary, NewOf, StripOf, SymOf, Filling, Filled, LinkCall, Temp0, Has, Files, Want, Plain
    <3>4. Hidden(p)'
      BY <1>1, <1>3, <2>2, <2>4, <2>5, <2>7, <2>8, NameProp, Distinct DEF ProcInv, Hidden, Unseen, Has, NewOf, StripOf, SymOf
    <3> QED BY <3>1, <3>2, <3>3, <3>4 DEF ProcInv
  <2> QED BY <2>9, <2>10, <2>11 DEF Fine
<1> QED BY <1>2, <1>3 DEF CopySome, At, fs

LEMMA CopyRestStep ==
  ASSUME IInv, NEW p \in Runs, CopyRest(p)
  PROVE  Fine(p)
<1>1. TypeOK /\ ProcInv(p) /\ p \in Proc
  BY DEF IInv
<1>2. CASE /\ pc[p] = "copying" /\ Write(p, Plain(p)) /\ UNCHANGED <<l, req, was>>
           /\ Goto(p, IF l[p].work = "to" THEN "fstat"
                      ELSE IF Has(p, "s") THEN "strip2" ELSE "unlock")
  <2>1. \A q \in Runs \ {p} : l'[q] = l[q] /\ pc'[q] = pc[q]
    BY <1>1, <1>2, GotoProp, SetProp
  <2>2. UNCHANGED <<req, l>>
    BY <1>1, <1>2
  <2>3. l[p].fd = NewOf(p) /\ NewOf(p) # None
    BY <1>1, <1>2, Distinct DEF ProcInv, Working, Filling, NewOf
  <2>4. l[p].work = IF Has(p, "sandbox") THEN "to" ELSE Tmp(p)
    BY <1>1, <1>2 DEF ProcInv, Working, Filling, Has
  <2>5. dir' = dir /\ file' \in [Inode -> Attr]
    BY <1>1, <1>2, WriteProp, DataType
  <2>6. \A i \in Inode \ Files(p) : file'[i].data = file[i].data
    BY <1>1, <1>2, WriteProp, DataType, <2>3 DEF Files
  <2>7. file'[NewOf(p)].data = Plain(p)
    BY <1>1, <1>2, WriteProp, DataType, InodeProp, <2>3 DEF NewOf
  <2>8. pc'[p] = IF Has(p, "sandbox") THEN "fstat"
               ELSE IF Has(p, "s") THEN "strip2" ELSE "unlock"
    BY <1>1, <1>2, <2>4, GotoProp, NameProp
  <2>9. TypeOK'
    <3>1. {"fstat", "strip2", "unlock"} \subseteq Pcs
      BY DEF Pcs
    <3>2. \E s \in Pcs : Goto(p, s)
      BY <1>1, <1>2, <3>1
    <3>3. \E r \in Locals : Set(p, r)
      BY <1>1, <1>2, TypeOfLocals DEF fs
    <3>4. UNCHANGED <<req, was>> /\ dir' \in [Name -> Inode \cup {None}] /\ file' \in [Inode -> Attr]
      BY <1>1, <1>2, TypeOfLocals, <2>5 DEF fs
    <3> QED BY <1>1, <1>2, <3>1, <3>2, <3>3, <3>4, TypeKept
  <2>10. Alters(p)
    BY <1>1, <1>2, <2>2, <2>5, <2>6, <2>7, <2>1, AltersProp DEF fs, NewOf, StripOf, SymOf, Files
  <2>11. ProcInv(p)'
    <3>1. Route(p)'
      BY <1>1, <1>2, <2>2, <2>4, <2>5, <2>8 DEF ProcInv, Route, FileCall, LinkCall, Filling, Filled, TempOnly, Late, Has
    <3>2. Working(p)'
      BY <1>1, <1>2, <2>2, <2>3, <2>4, <2>8, NameProp DEF ProcInv, Working, FileCall, LinkCall, Filling, Filled, TempOnly, Late, Has, NewOf
    <3>3. Temporary(p)'
      BY <1>1, <1>2, <2>2, <2>4, <2>5, <2>6, <2>7, <2>8 DEF ProcInv, Temporary, NewOf, StripOf, SymOf, Filling, Filled, LinkCall, Temp0, Has, Files, Want, Plain
    <3>4. Hidden(p)'
      BY <1>1, <1>2, <2>2, <2>4, <2>5, <2>8, NameProp, Distinct DEF ProcInv, Hidden, Unseen, Has, NewOf, StripOf, SymOf
    <3> QED BY <3>1, <3>2, <3>3, <3>4 DEF ProcInv
  <2> QED BY <2>9, <2>10, <2>11 DEF Fine
<1>3. CASE pc[p] = "copying" /\ FailClean(p) /\ UNCHANGED <<req, was>>
  BY <1>1, <1>3, FailCleanFine DEF Filling
<1> QED BY <1>2, <1>3 DEF CopyRest, At, fs

LEMMA CompareStrippedStep ==
  ASSUME IInv, NEW p \in Runs, CompareStripped(p)
  PROVE  Fine(p)
<1>1. TypeOK /\ ProcInv(p) /\ p \in Proc
  BY DEF IInv
<1>2. CASE /\ pc[p] = "compare2" /\ dir["to"] # None /\ UNCHANGED <<req, was>>
           /\ Set(p, [l[p] EXCEPT !.fd = Leads, !.match = TRUE])
           /\ dir' = [dir EXCEPT ![Tmp(p)] = None] /\ Goto(p, "fstat") /\ file' = file
  <2>1. \A q \in Runs \ {p} : l'[q] = l[q] /\ pc'[q] = pc[q]
    BY <1>1, <1>2, GotoProp, SetProp
  <2>2. UNCHANGED <<file, req>>
    BY <1>1, <1>2
  <2>3. dir' \in [Name -> Inode \cup {None}]
    BY <1>1, <1>2, TypeOfLocals
  <2>4. \A n \in Name \ {Tmp(p)} : dir'[n] = dir[n]
    BY <1>1, <1>2 DEF TypeOK
  <2>5. dir'["to"] = dir["to"]
    BY <1>1, <1>2, NameProp DEF TypeOK, Name
  <2>6. Temp0(p)' = None
    BY <1>1, <1>2, NameProp DEF Temp0, TypeOK
  <2>7. l'[p] = [l[p] EXCEPT !.fd = Leads, !.match = TRUE]
    BY <1>1, <1>2 DEF Set, TypeOK
  <2>8. l'[p].work = l[p].work
    BY <1>1, <1>2 DEF Set, TypeOK
  <2>9. l'[p].fd # None
    BY <1>1, <1>2, LeadsType, InodeProp DEF Set, TypeOK
  <2>10. pc'[p] = "fstat"
    BY <1>1, <1>2, GotoProp
  <2>11. TypeOK'
    <3>1. {"fstat"} \subseteq Pcs
      BY DEF Pcs
    <3>2. \E s \in Pcs : Goto(p, s)
      BY <1>1, <1>2, <3>1
    <3>3. [l[p] EXCEPT !.fd = Leads, !.match = TRUE] \in Locals
      BY <1>1, <1>2, TypeOfLocals, LeadsType DEF Locals
    <3>4. \E r \in Locals : Set(p, r)
      BY <1>1, <1>2, <3>3, TypeOfLocals DEF fs
    <3>5. UNCHANGED <<req, was>> /\ dir' \in [Name -> Inode \cup {None}] /\ file' \in [Inode -> Attr]
      BY <1>1, <1>2, TypeOfLocals, <2>3 DEF fs
    <3> QED BY <1>1, <1>2, <3>1, <3>2, <3>4, <3>5, TypeKept
  <2>12. Alters(p)
    BY <1>1, <1>2, <2>2, <2>4, <2>5, <2>1, AltersProp DEF fs, NewOf, StripOf, SymOf, Files
  <2>13. ProcInv(p)'
    <3>1. Route(p)'
      BY <1>1, <1>2, <2>2, <2>5, <2>10 DEF ProcInv, Route, FileCall, LinkCall, Filling, Filled, TempOnly, Late, Has
    <3>2. Working(p)'
      BY <1>1, <1>2, <2>2, <2>7, <2>8, <2>9, <2>10 DEF ProcInv, Working, FileCall, LinkCall, Filling, Filled, TempOnly, Late, Has, NewOf
    <3>3. Temporary(p)'
      BY <1>1, <1>2, <2>2, <2>3, <2>4, <2>5, <2>6, <2>7, <2>8, <2>9, <2>10 DEF ProcInv, Temporary, NewOf, StripOf, SymOf, Filling, Filled, LinkCall, Temp0, Has, Files
    <3>4. Hidden(p)'
      BY <1>1, <1>2, <2>2, <2>3, <2>4, <2>5, <2>10, Distinct DEF ProcInv, Hidden, Unseen, Has, NewOf, StripOf, SymOf
    <3> QED BY <3>1, <3>2, <3>3, <3>4 DEF ProcInv
  <2> QED BY <2>11, <2>12, <2>13 DEF Fine
<1>3. CASE /\ pc[p] = "compare2" /\ UNCHANGED <<fs, req, was>>
           /\ Set(p, [l[p] EXCEPT !.fd = Leads, !.match = FALSE]) /\ Goto(p, "unlock")
  <2>1. \A q \in Runs \ {p} : l'[q] = l[q] /\ pc'[q] = pc[q]
    BY <1>1, <1>3, GotoProp, SetProp
  <2>2. dir' = dir /\ file' = file /\ req' = req
    BY <1>1, <1>3 DEF fs
  <2>3. l'[p].work = l[p].work
    BY <1>1, <1>3 DEF Set, TypeOK
  <2>4. pc'[p] = "unlock"
    BY <1>1, <1>3, GotoProp
  <2>5. dir[Tmp(p)] \in Files(p) /\ file[dir[Tmp(p)]].data = Want(p)
    BY <1>1, <1>3 DEF ProcInv, Temporary, Filled, Temp0
  <2>6. TypeOK'
    <3>1. {"unlock"} \subseteq Pcs
      BY DEF Pcs
    <3>2. \E s \in Pcs : Goto(p, s)
      BY <1>1, <1>3, <3>1
    <3>3. [l[p] EXCEPT !.fd = Leads, !.match = FALSE] \in Locals
      BY <1>1, <1>3, TypeOfLocals, LeadsType DEF Locals
    <3>4. \E r \in Locals : Set(p, r)
      BY <1>1, <1>3, <3>3, TypeOfLocals DEF fs
    <3>5. UNCHANGED <<req, was>> /\ dir' \in [Name -> Inode \cup {None}] /\ file' \in [Inode -> Attr]
      BY <1>1, <1>3, TypeOfLocals DEF fs
    <3> QED BY <1>1, <1>3, <3>1, <3>2, <3>4, <3>5, TypeKept
  <2>7. Alters(p)
    BY <1>1, <1>3, <2>2, <2>1, AltersProp DEF fs, NewOf, StripOf, SymOf, Files
  <2>8. ProcInv(p)'
    <3>1. Route(p)'
      BY <1>1, <1>3, <2>2, <2>4 DEF ProcInv, Route, FileCall, LinkCall, Filling, Filled, TempOnly, Late, Has
    <3>2. Working(p)'
      BY <1>1, <1>3, <2>2, <2>3, <2>4 DEF ProcInv, Working, FileCall, LinkCall, Filling, Filled, TempOnly, Late, Has, NewOf
    <3>3. Temporary(p)'
      BY <1>1, <1>3, <2>2, <2>3, <2>4, <2>5 DEF ProcInv, Temporary, NewOf, StripOf, SymOf, Filling, Filled, LinkCall, Temp0, Has, Files, Want, Plain
    <3>4. Hidden(p)'
      BY <1>1, <1>3, <2>2, <2>4, Distinct DEF ProcInv, Hidden, Unseen, Has, NewOf, StripOf, SymOf
    <3> QED BY <3>1, <3>2, <3>3, <3>4 DEF ProcInv
  <2> QED BY <2>6, <2>7, <2>8 DEF Fine
<1>4. CASE pc[p] = "compare2" /\ Fail(p) /\ UNCHANGED <<fs, req, was>>
  BY <1>1, <1>4, FailFine DEF fs
<1>5. CASE pc[p] = "compare2" /\ FailClean(p) /\ UNCHANGED <<req, was>>
  BY <1>1, <1>5, FailCleanFine DEF Filled
<1> QED BY <1>2, <1>3, <1>4, <1>5 DEF CompareStripped, At, fs

LEMMA UnlockStep ==
  ASSUME IInv, NEW p \in Runs, Unlock(p)
  PROVE  Fine(p)
<1>1. TypeOK /\ ProcInv(p) /\ p \in Proc
  BY DEF IInv
<1>2. \A q \in Runs \ {p} : l'[q] = l[q] /\ pc'[q] = pc[q]
  BY <1>1, GotoProp, SetProp DEF Unlock
<1>3. pc[p] = "unlock"
  BY <1>1 DEF Unlock, At
<1>4. dir' = dir /\ l' = l /\ req' = req
  BY <1>1 DEF Unlock
<1>5. Relabels
  BY <1>1 DEF Unlock, Relabel, Relabels
<1>6. file' \in [Inode -> Attr]
  BY <1>1, <1>5, RelabelProp DEF Unlock
<1>7. \A i \in Inode : file'[i].data = file[i].data
  BY <1>1, <1>5, RelabelProp DEF Unlock
<1>8. dir[Tmp(p)] \in Files(p) /\ file[dir[Tmp(p)]].data = Want(p)
  BY <1>1 DEF Unlock, ProcInv, Temporary, Filled, Temp0, At
<1>9. file'[dir[Tmp(p)]].data = Want(p)
  BY <1>1, <1>8, <1>7, InodeProp DEF Unlock, Files, NewOf, StripOf
<1>10. pc'[p] \in {"unlinkbak", "rename"}
  BY <1>1, GotoProp DEF Unlock
<1>11. TypeOK'
  <2>1. {"unlinkbak", "rename"} \subseteq Pcs
    BY DEF Pcs
  <2>2. \E s \in Pcs : Goto(p, s)
    BY <1>1, <2>1 DEF Unlock
  <2>3. \E r \in Locals : Set(p, r)
    BY <1>1, TypeOfLocals DEF Unlock, fs
  <2>4. UNCHANGED <<req, was>> /\ dir' \in [Name -> Inode \cup {None}] /\ file' \in [Inode -> Attr]
    BY <1>1, TypeOfLocals, <1>6 DEF Unlock, fs
  <2> QED BY <1>1, <2>1, <2>2, <2>3, <2>4, TypeKept
<1>12. Alters(p)
  BY <1>1, <1>4, <1>7, <1>9, <1>2, AltersProp DEF Unlock, fs, NewOf, StripOf, SymOf, Files
<1>13. ProcInv(p)'
  <2>1. Route(p)'
    BY <1>1, <1>3, <1>4, <1>10 DEF ProcInv, Route, FileCall, LinkCall, Filling, Filled, TempOnly, Late, Has
  <2>2. Working(p)'
    BY <1>1, <1>3, <1>4, <1>10 DEF ProcInv, Working, FileCall, LinkCall, Filling, Filled, TempOnly, Late, Has, NewOf
  <2>3. Temporary(p)'
    BY <1>1, <1>3, <1>4, <1>7, <1>9, <1>10, <1>8 DEF ProcInv, Temporary, NewOf, StripOf, SymOf, Filling, Filled, LinkCall, Temp0, Has, Files, Want, Plain
  <2>4. Hidden(p)'
    BY <1>1, <1>3, <1>4, <1>10, Distinct DEF ProcInv, Hidden, Unseen, Has, NewOf, StripOf, SymOf
  <2> QED BY <2>1, <2>2, <2>3, <2>4 DEF ProcInv
<1> QED BY <1>11, <1>12, <1>13 DEF Fine

LEMMA UnlinkBackupStep ==
  ASSUME IInv, NEW p \in Runs, UnlinkBackup(p)
  PROVE  Fine(p)
<1>1. TypeOK /\ ProcInv(p) /\ p \in Proc
  BY DEF IInv
<1>2. CASE /\ pc[p] = "unlinkbak" /\ dir' = [dir EXCEPT !["bak"] = None]
           /\ Goto(p, "linkbak") /\ UNCHANGED <<file, l, req, was>>
  <2>1. \A q \in Runs \ {p} : l'[q] = l[q] /\ pc'[q] = pc[q]
    BY <1>1, <1>2, GotoProp, SetProp
  <2>2. UNCHANGED <<file, req, l>>
    BY <1>1, <1>2
  <2>3. dir' \in [Name -> Inode \cup {None}]
    BY <1>1, <1>2, TypeOfLocals DEF Name
  <2>4. \A n \in Name \ {"bak"} : dir'[n] = dir[n]
    BY <1>1, <1>2 DEF TypeOK
  <2>5. dir'["to"] = dir["to"]
    BY <1>1, <1>2, <2>4 DEF Name
  <2>6. Temp0(p)' = Temp0(p)
    BY <1>1, <1>2, <2>4, NameProp DEF Temp0
  <2>7. dir[Tmp(p)] \in Files(p) /\ file[dir[Tmp(p)]].data = Want(p)
    BY <1>1, <1>2 DEF ProcInv, Temporary, Filled, Temp0
  <2>8. pc'[p] = "linkbak"
    BY <1>1, <1>2, GotoProp
  <2>9. TypeOK'
    <3>1. {"linkbak"} \subseteq Pcs
      BY DEF Pcs
    <3>2. \E s \in Pcs : Goto(p, s)
      BY <1>1, <1>2, <3>1
    <3>3. \E r \in Locals : Set(p, r)
      BY <1>1, <1>2, TypeOfLocals DEF fs
    <3>4. UNCHANGED <<req, was>> /\ dir' \in [Name -> Inode \cup {None}] /\ file' \in [Inode -> Attr]
      BY <1>1, <1>2, TypeOfLocals, <2>3 DEF fs
    <3> QED BY <1>1, <1>2, <3>1, <3>2, <3>3, <3>4, TypeKept
  <2>10. Alters(p)
    BY <1>1, <1>2, <2>2, <2>4, <2>5, <2>1, AltersProp DEF fs, NewOf, StripOf, SymOf, Files
  <2>11. ProcInv(p)'
    <3>1. Route(p)'
      BY <1>1, <1>2, <2>2, <2>5, <2>8 DEF ProcInv, Route, FileCall, LinkCall, Filling, Filled, TempOnly, Late, Has
    <3>2. Working(p)'
      BY <1>1, <1>2, <2>2, <2>8 DEF ProcInv, Working, FileCall, LinkCall, Filling, Filled, TempOnly, Late, Has, NewOf
    <3>3. Temporary(p)'
      BY <1>1, <1>2, <2>2, <2>3, <2>4, <2>5, <2>6, <2>8 DEF ProcInv, Temporary, NewOf, StripOf, SymOf, Filling, Filled, LinkCall, Temp0, Has, Files, Want, Plain
    <3>4. Hidden(p)'
      BY <1>1, <1>2, <2>2, <2>3, <2>4, <2>5, <2>8, Distinct DEF ProcInv, Hidden, Unseen, Has, NewOf, StripOf, SymOf
    <3> QED BY <3>1, <3>2, <3>3, <3>4 DEF ProcInv
  <2> QED BY <2>9, <2>10, <2>11 DEF Fine
<1>3. CASE pc[p] = "unlinkbak" /\ BackupFails(p) /\ UNCHANGED <<req, was>>
  BY <1>1, <1>3, BackupFailsFine
<1> QED BY <1>2, <1>3 DEF UnlinkBackup, At, fs

LEMMA LinkBackupStep ==
  ASSUME IInv, NEW p \in Runs, LinkBackup(p)
  PROVE  Fine(p)
<1>1. TypeOK /\ ProcInv(p) /\ p \in Proc
  BY DEF IInv
<1>2. CASE /\ pc[p] = "linkbak" /\ dir["to"] # None /\ dir' = [dir EXCEPT !["bak"] = dir["to"]]
           /\ Goto(p, "rename") /\ UNCHANGED <<file, l, req, was>>
  <2>1. \A q \in Runs \ {p} : l'[q] = l[q] /\ pc'[q] = pc[q]
    BY <1>1, <1>2, GotoProp, SetProp
  <2>2. UNCHANGED <<file, req, l>>
    BY <1>1, <1>2
  <2>3. dir' \in [Name -> Inode \cup {None}]
    BY <1>1, <1>2, TypeOfLocals DEF Name
  <2>4. \A n \in Name \ {"bak"} : dir'[n] = dir[n]
    BY <1>1, <1>2 DEF TypeOK
  <2>5. dir'["to"] = dir["to"]
    BY <1>1, <1>2, <2>4 DEF Name
  <2>6. Temp0(p)' = Temp0(p)
    BY <1>1, <1>2, <2>4, NameProp DEF Temp0
  <2>7. dir[Tmp(p)] \in Files(p) /\ file[dir[Tmp(p)]].data = Want(p)
    BY <1>1, <1>2 DEF ProcInv, Temporary, Filled, Temp0
  <2>8. pc'[p] = "rename"
    BY <1>1, <1>2, GotoProp
  <2>9. TypeOK'
    <3>1. {"rename"} \subseteq Pcs
      BY DEF Pcs
    <3>2. \E s \in Pcs : Goto(p, s)
      BY <1>1, <1>2, <3>1
    <3>3. \E r \in Locals : Set(p, r)
      BY <1>1, <1>2, TypeOfLocals DEF fs
    <3>4. UNCHANGED <<req, was>> /\ dir' \in [Name -> Inode \cup {None}] /\ file' \in [Inode -> Attr]
      BY <1>1, <1>2, TypeOfLocals, <2>3 DEF fs
    <3> QED BY <1>1, <1>2, <3>1, <3>2, <3>3, <3>4, TypeKept
  <2>10. Alters(p)
    BY <1>1, <1>2, <2>2, <2>4, <2>5, <2>1, AltersProp DEF fs, NewOf, StripOf, SymOf, Files
  <2>11. ProcInv(p)'
    <3>1. Route(p)'
      BY <1>1, <1>2, <2>2, <2>5, <2>8 DEF ProcInv, Route, FileCall, LinkCall, Filling, Filled, TempOnly, Late, Has
    <3>2. Working(p)'
      BY <1>1, <1>2, <2>2, <2>8 DEF ProcInv, Working, FileCall, LinkCall, Filling, Filled, TempOnly, Late, Has, NewOf
    <3>3. Temporary(p)'
      BY <1>1, <1>2, <2>2, <2>3, <2>4, <2>5, <2>6, <2>8 DEF ProcInv, Temporary, NewOf, StripOf, SymOf, Filling, Filled, LinkCall, Temp0, Has, Files, Want, Plain
    <3>4. Hidden(p)'
      BY <1>1, <1>2, <2>2, <2>3, <2>4, <2>5, <2>8, Distinct DEF ProcInv, Hidden, Unseen, Has, NewOf, StripOf, SymOf
    <3> QED BY <3>1, <3>2, <3>3, <3>4 DEF ProcInv
  <2> QED BY <2>9, <2>10, <2>11 DEF Fine
<1>3. CASE pc[p] = "linkbak" /\ BackupFails(p) /\ UNCHANGED <<req, was>>
  BY <1>1, <1>3, BackupFailsFine
<1> QED BY <1>2, <1>3 DEF LinkBackup, At, fs

LEMMA RenameStep ==
  ASSUME IInv, NEW p \in Runs, Rename(p)
  PROVE  Fine(p)
<1>1. TypeOK /\ ProcInv(p) /\ p \in Proc
  BY DEF IInv
<1>2. CASE /\ pc[p] = "rename" /\ Goto(p, "reopento") /\ UNCHANGED <<file, l, req, was>>
           /\ dir' = [dir EXCEPT !["to"] = dir[Tmp(p)], ![Tmp(p)] = None]
  <2>1. \A q \in Runs \ {p} : l'[q] = l[q] /\ pc'[q] = pc[q]
    BY <1>1, <1>2, GotoProp, SetProp
  <2>2. UNCHANGED <<file, req, l>>
    BY <1>1, <1>2
  <2>3. dir[Tmp(p)] \in Files(p) /\ file[dir[Tmp(p)]].data = Want(p)
    BY <1>1, <1>2 DEF ProcInv, Temporary, Filled, Temp0
  <2>4. dir' \in [Name -> Inode \cup {None}]
    BY <1>1, <1>2, TypeOfLocals, NameProp
  <2>5. \A n \in Name \ {"to", Tmp(p)} : dir'[n] = dir[n]
    BY <1>1, <1>2 DEF TypeOK
  <2>6. dir'["to"] \in Files(p)
    BY <1>1, <1>2, <2>3, NameProp DEF TypeOK, Name
  <2>7. Temp0(p)' = None
    BY <1>1, <1>2, NameProp DEF Temp0, TypeOK
  <2>8. pc'[p] = "reopento"
    BY <1>1, <1>2, GotoProp
  <2>9. TypeOK'
    <3>1. {"reopento"} \subseteq Pcs
      BY DEF Pcs
    <3>2. \E s \in Pcs : Goto(p, s)
      BY <1>1, <1>2, <3>1
    <3>3. \E r \in Locals : Set(p, r)
      BY <1>1, <1>2, TypeOfLocals DEF fs
    <3>4. UNCHANGED <<req, was>> /\ dir' \in [Name -> Inode \cup {None}] /\ file' \in [Inode -> Attr]
      BY <1>1, <1>2, TypeOfLocals, <2>4 DEF fs
    <3> QED BY <1>1, <1>2, <3>1, <3>2, <3>3, <3>4, TypeKept
  <2>10. Alters(p)
    BY <1>1, <1>2, <2>2, <2>5, <2>6, <2>1, AltersProp DEF fs, NewOf, StripOf, SymOf, Files
  <2>11. ProcInv(p)'
    <3>1. Route(p)'
      BY <1>1, <1>2, <2>2, <2>6, <2>8, Distinct DEF ProcInv, Route, FileCall, LinkCall, Filling, Filled, TempOnly, Late, Has, Files, NewOf, StripOf
    <3>2. Working(p)'
      BY <1>1, <1>2, <2>2, <2>8 DEF ProcInv, Working, FileCall, LinkCall, Filling, Filled, TempOnly, Late, Has, NewOf
    <3>3. Temporary(p)'
      BY <1>1, <1>2, <2>2, <2>4, <2>5, <2>6, <2>7, <2>8 DEF ProcInv, Temporary, NewOf, StripOf, SymOf, Filling, Filled, LinkCall, Temp0, Has, Files
    <3>4. Hidden(p)'
      BY <1>1, <1>2, <2>2, <2>4, <2>5, <2>6, <2>8, Distinct DEF ProcInv, Hidden, Unseen, Has, NewOf, StripOf, SymOf
    <3> QED BY <3>1, <3>2, <3>3, <3>4 DEF ProcInv
  <2> QED BY <2>9, <2>10, <2>11 DEF Fine
<1>3. CASE pc[p] = "rename" /\ FailClean(p) /\ UNCHANGED <<req, was>>
  BY <1>1, <1>3, FailCleanFine DEF Filled
<1> QED BY <1>2, <1>3 DEF Rename, At, fs

LEMMA ReopenStep ==
  ASSUME IInv, NEW p \in Runs, Reopen(p)
  PROVE  Fine(p)
<1>1. TypeOK /\ ProcInv(p) /\ p \in Proc
  BY DEF IInv
<1>2. CASE /\ pc[p] = "reopen" /\ UNCHANGED <<fs, req, was>>
           /\ Set(p, [l[p] EXCEPT !.fd = dir[Tmp(p)]])
           /\ Goto(p, IF Has(p, "C") /\ l[p].target THEN "compare2" ELSE "unlock")
  <2>1. \A q \in Runs \ {p} : l'[q] = l[q] /\ pc'[q] = pc[q]
    BY <1>1, <1>2, GotoProp, SetProp
  <2>2. dir' = dir /\ file' = file /\ req' = req
    BY <1>1, <1>2 DEF fs
  <2>3. l'[p].work = l[p].work
    BY <1>1, <1>2 DEF Set, TypeOK
  <2>4. l'[p].fd = Temp0(p)
    BY <1>1, <1>2 DEF Set, TypeOK, Temp0
  <2>5. pc'[p] \in {"compare2", "unlock"}
    BY <1>1, <1>2, GotoProp
  <2>6. dir[Tmp(p)] \in Files(p) /\ file[dir[Tmp(p)]].data = Want(p)
    BY <1>1, <1>2 DEF ProcInv, Temporary, Filled, Temp0
  <2>7. TypeOK'
    <3>1. {"compare2", "unlock"} \subseteq Pcs
      BY DEF Pcs
    <3>2. \E s \in Pcs : Goto(p, s)
      BY <1>1, <1>2, <3>1
    <3>3. [l[p] EXCEPT !.fd = dir[Tmp(p)]] \in Locals
      BY <1>1, <1>2, TypeOfLocals, NameProp DEF Locals
    <3>4. \E r \in Locals : Set(p, r)
      BY <1>1, <1>2, <3>3, TypeOfLocals DEF fs
    <3>5. UNCHANGED <<req, was>> /\ dir' \in [Name -> Inode \cup {None}] /\ file' \in [Inode -> Attr]
      BY <1>1, <1>2, TypeOfLocals DEF fs
    <3> QED BY <1>1, <1>2, <3>1, <3>2, <3>4, <3>5, TypeKept
  <2>8. Alters(p)
    BY <1>1, <1>2, <2>2, <2>1, AltersProp DEF fs, NewOf, StripOf, SymOf, Files
  <2>9. ProcInv(p)'
    <3>1. Route(p)'
      BY <1>1, <1>2, <2>2, <2>5 DEF ProcInv, Route, FileCall, LinkCall, Filling, Filled, TempOnly, Late, Has
    <3>2. Working(p)'
      BY <1>1, <1>2, <2>2, <2>3, <2>4, <2>5 DEF ProcInv, Working, FileCall, LinkCall, Filling, Filled, TempOnly, Late, Has, NewOf
    <3>3. Temporary(p)'
      BY <1>1, <1>2, <2>2, <2>3, <2>4, <2>5 DEF ProcInv, Temporary, NewOf, StripOf, SymOf, Filling, Filled, LinkCall, Temp0, Has, Files, Want, Plain
    <3>4. Hidden(p)'
      BY <1>1, <1>2, <2>2, <2>5, Distinct DEF ProcInv, Hidden, Unseen, Has, NewOf, StripOf, SymOf
    <3> QED BY <3>1, <3>2, <3>3, <3>4 DEF ProcInv
  <2> QED BY <2>7, <2>8, <2>9 DEF Fine
<1>3. CASE pc[p] = "reopen" /\ Fail(p) /\ UNCHANGED <<fs, req, was>>
  BY <1>1, <1>3, FailFine DEF fs
<1> QED BY <1>2, <1>3 DEF Reopen, At, fs

LEMMA ReopenToStep ==
  ASSUME IInv, NEW p \in Runs, ReopenTo(p)
  PROVE  Fine(p)
<1>1. TypeOK /\ ProcInv(p) /\ p \in Proc
  BY DEF IInv
<1>2. CASE /\ pc[p] = "reopento" /\ dir["to"] # None /\ UNCHANGED <<fs, req, was>>
           /\ Set(p, [l[p] EXCEPT !.fd = Leads]) /\ Goto(p, "fstat")
  <2>1. \A q \in Runs \ {p} : l'[q] = l[q] /\ pc'[q] = pc[q]
    BY <1>1, <1>2, GotoProp, SetProp
  <2>2. dir' = dir /\ file' = file /\ req' = req
    BY <1>1, <1>2 DEF fs
  <2>3. l'[p].work = l[p].work
    BY <1>1, <1>2 DEF Set, TypeOK
  <2>4. l'[p].fd # None
    BY <1>1, <1>2, LeadsType, InodeProp DEF Set, TypeOK
  <2>5. pc'[p] = "fstat"
    BY <1>1, <1>2, GotoProp
  <2>6. TypeOK'
    <3>1. {"fstat"} \subseteq Pcs
      BY DEF Pcs
    <3>2. \E s \in Pcs : Goto(p, s)
      BY <1>1, <1>2, <3>1
    <3>3. [l[p] EXCEPT !.fd = Leads] \in Locals
      BY <1>1, <1>2, TypeOfLocals, LeadsType DEF Locals
    <3>4. \E r \in Locals : Set(p, r)
      BY <1>1, <1>2, <3>3, TypeOfLocals DEF fs
    <3>5. UNCHANGED <<req, was>> /\ dir' \in [Name -> Inode \cup {None}] /\ file' \in [Inode -> Attr]
      BY <1>1, <1>2, TypeOfLocals DEF fs
    <3> QED BY <1>1, <1>2, <3>1, <3>2, <3>4, <3>5, TypeKept
  <2>7. Alters(p)
    BY <1>1, <1>2, <2>2, <2>1, AltersProp DEF fs, NewOf, StripOf, SymOf, Files
  <2>8. ProcInv(p)'
    <3>1. Route(p)'
      BY <1>1, <1>2, <2>2, <2>5 DEF ProcInv, Route, FileCall, LinkCall, Filling, Filled, TempOnly, Late, Has
    <3>2. Working(p)'
      BY <1>1, <1>2, <2>2, <2>3, <2>4, <2>5 DEF ProcInv, Working, FileCall, LinkCall, Filling, Filled, TempOnly, Late, Has, NewOf
    <3>3. Temporary(p)'
      BY <1>1, <1>2, <2>2, <2>3, <2>4, <2>5 DEF ProcInv, Temporary, NewOf, StripOf, SymOf, Filling, Filled, LinkCall, Temp0, Has, Files
    <3>4. Hidden(p)'
      BY <1>1, <1>2, <2>2, <2>5, Distinct DEF ProcInv, Hidden, Unseen, Has, NewOf, StripOf, SymOf
    <3> QED BY <3>1, <3>2, <3>3, <3>4 DEF ProcInv
  <2> QED BY <2>6, <2>7, <2>8 DEF Fine
<1>3. CASE pc[p] = "reopento" /\ Fail(p) /\ UNCHANGED <<fs, req, was>>
  BY <1>1, <1>3, FailFine DEF fs, ProcInv, Temporary, Filling, Filled, LinkCall
<1> QED BY <1>2, <1>3 DEF ReopenTo, At, fs

LEMMA FstatStep ==
  ASSUME IInv, NEW p \in Runs, Fstat(p)
  PROVE  Fine(p)
<1>1. TypeOK /\ ProcInv(p) /\ p \in Proc
  BY DEF IInv
<1>2. CASE /\ pc[p] = "fstat" /\ UNCHANGED <<fs, req, was>>
           /\ Set(p, [l[p] EXCEPT !.sb = StatOf(l[p].fd)]) /\ Goto(p, "chown")
  <2>1. \A q \in Runs \ {p} : l'[q] = l[q] /\ pc'[q] = pc[q]
    BY <1>1, <1>2, GotoProp, SetProp
  <2>2. dir' = dir /\ file' = file /\ req' = req
    BY <1>1, <1>2 DEF fs
  <2>3. l'[p].work = l[p].work
    BY <1>1, <1>2 DEF Set, TypeOK
  <2>4. l[p].fd # None
    BY <1>1, <1>2 DEF ProcInv, Working, Late
  <2>5. l'[p].fd # None
    BY <1>1, <1>2, <2>4 DEF Set, TypeOK
  <2>6. StatOf(l[p].fd) \in Stat
    BY <1>1, <1>2, <2>4, StatType, TypeOfLocals DEF Locals
  <2>7. pc'[p] = "chown"
    BY <1>1, <1>2, GotoProp
  <2>8. TypeOK'
    <3>1. {"chown"} \subseteq Pcs
      BY DEF Pcs
    <3>2. \E s \in Pcs : Goto(p, s)
      BY <1>1, <1>2, <3>1
    <3>3. [l[p] EXCEPT !.sb = StatOf(l[p].fd)] \in Locals
      BY <1>1, <1>2, TypeOfLocals, <2>6 DEF Locals
    <3>4. \E r \in Locals : Set(p, r)
      BY <1>1, <1>2, <3>3, TypeOfLocals DEF fs
    <3>5. UNCHANGED <<req, was>> /\ dir' \in [Name -> Inode \cup {None}] /\ file' \in [Inode -> Attr]
      BY <1>1, <1>2, TypeOfLocals DEF fs
    <3> QED BY <1>1, <1>2, <3>1, <3>2, <3>4, <3>5, TypeKept
  <2>9. Alters(p)
    BY <1>1, <1>2, <2>2, <2>1, AltersProp DEF fs, NewOf, StripOf, SymOf, Files
  <2>10. ProcInv(p)'
    <3>1. Route(p)'
      BY <1>1, <1>2, <2>2, <2>7 DEF ProcInv, Route, FileCall, LinkCall, Filling, Filled, TempOnly, Late, Has
    <3>2. Working(p)'
      BY <1>1, <1>2, <2>2, <2>3, <2>4, <2>5, <2>6, <2>7 DEF ProcInv, Working, FileCall, LinkCall, Filling, Filled, TempOnly, Late, Has, NewOf
    <3>3. Temporary(p)'
      BY <1>1, <1>2, <2>2, <2>3, <2>5, <2>7 DEF ProcInv, Temporary, NewOf, StripOf, SymOf, Filling, Filled, LinkCall, Temp0, Has, Files
    <3>4. Hidden(p)'
      BY <1>1, <1>2, <2>2, <2>7, Distinct DEF ProcInv, Hidden, Unseen, Has, NewOf, StripOf, SymOf
    <3> QED BY <3>1, <3>2, <3>3, <3>4 DEF ProcInv
  <2> QED BY <2>8, <2>9, <2>10 DEF Fine
<1>3. CASE pc[p] = "fstat" /\ FailUnlink(p) /\ UNCHANGED <<req, was>>
  BY <1>1, <1>3, FailUnlinkFine DEF Late
<1> QED BY <1>2, <1>3 DEF Fstat, At, fs

LEMMA ChownStep ==
  ASSUME IInv, NEW p \in Runs, Chown(p)
  PROVE  Fine(p)
<1>1. TypeOK /\ ProcInv(p) /\ p \in Proc
  BY DEF IInv
<1>2. CASE /\ pc[p] = "chown" /\ Goto(p, "chmod") /\ UNCHANGED <<dir, l, req, was>>
           /\ \E off, drop \in BOOLEAN :
                file' = [file EXCEPT ![l[p].fd] = Chowned(p, off, drop)]
  <2>1. \A q \in Runs \ {p} : l'[q] = l[q] /\ pc'[q] = pc[q]
    BY <1>1, <1>2, GotoProp, SetProp
  <2>2. UNCHANGED <<dir, req, l>>
    BY <1>1, <1>2
  <2>3. l[p].fd # None
    BY <1>1, <1>2 DEF ProcInv, Working, Late
  <2>4. file' \in [Inode -> Attr] /\ \A i \in Inode : file'[i].data = file[i].data
    BY <1>1, <1>2, ChownedProp, <2>3
  <2>5. pc'[p] = "chmod"
    BY <1>1, <1>2, GotoProp
  <2>6. TypeOK'
    <3>1. {"chmod"} \subseteq Pcs
      BY DEF Pcs
    <3>2. \E s \in Pcs : Goto(p, s)
      BY <1>1, <1>2, <3>1
    <3>3. \E r \in Locals : Set(p, r)
      BY <1>1, <1>2, TypeOfLocals DEF fs
    <3>4. UNCHANGED <<req, was>> /\ dir' \in [Name -> Inode \cup {None}] /\ file' \in [Inode -> Attr]
      BY <1>1, <1>2, TypeOfLocals, <2>4 DEF fs
    <3> QED BY <1>1, <1>2, <3>1, <3>2, <3>3, <3>4, TypeKept
  <2>7. Alters(p)
    BY <1>1, <1>2, <2>2, <2>4, <2>1, AltersProp DEF fs, NewOf, StripOf, SymOf, Files
  <2>8. ProcInv(p)'
    <3>1. Route(p)'
      BY <1>1, <1>2, <2>2, <2>5 DEF ProcInv, Route, FileCall, LinkCall, Filling, Filled, TempOnly, Late, Has
    <3>2. Working(p)'
      BY <1>1, <1>2, <2>2, <2>3, <2>5 DEF ProcInv, Working, FileCall, LinkCall, Filling, Filled, TempOnly, Late, Has, NewOf
    <3>3. Temporary(p)'
      BY <1>1, <1>2, <2>2, <2>4, <2>5 DEF ProcInv, Temporary, NewOf, StripOf, SymOf, Filling, Filled, LinkCall, Temp0, Has, Files
    <3>4. Hidden(p)'
      BY <1>1, <1>2, <2>2, <2>5, Distinct DEF ProcInv, Hidden, Unseen, Has, NewOf, StripOf, SymOf
    <3> QED BY <3>1, <3>2, <3>3, <3>4 DEF ProcInv
  <2> QED BY <2>6, <2>7, <2>8 DEF Fine
<1>3. CASE pc[p] = "chown" /\ FailUnlink(p) /\ UNCHANGED <<req, was>>
  BY <1>1, <1>3, FailUnlinkFine DEF Late
<1> QED BY <1>2, <1>3 DEF Chown, At, fs

LEMMA ChmodStep ==
  ASSUME IInv, NEW p \in Runs, Chmod(p)
  PROVE  Fine(p)
<1>1. TypeOK /\ ProcInv(p) /\ p \in Proc
  BY DEF IInv
<1>2. CASE /\ pc[p] = "chmod" /\ Goto(p, "chflags") /\ UNCHANGED <<dir, l, req, was>>
           /\ file' = file \/ file' = [file EXCEPT ![l[p].fd].mode =
                           IF Has(p, "U") THEN "plain" ELSE req[p].mode]
  <2>1. \A q \in Runs \ {p} : l'[q] = l[q] /\ pc'[q] = pc[q]
    BY <1>1, <1>2, GotoProp, SetProp
  <2>2. UNCHANGED <<dir, req, l>>
    BY <1>1, <1>2
  <2>3. l[p].fd # None
    BY <1>1, <1>2 DEF ProcInv, Working, Late
  <2>4. file' \in [Inode -> Attr] /\ \A i \in Inode : file'[i].data = file[i].data
    BY <1>1, <1>2, ModeProp, TypeOfLocals, <2>3
  <2>5. pc'[p] = "chflags"
    BY <1>1, <1>2, GotoProp
  <2>6. TypeOK'
    <3>1. {"chflags"} \subseteq Pcs
      BY DEF Pcs
    <3>2. \E s \in Pcs : Goto(p, s)
      BY <1>1, <1>2, <3>1
    <3>3. \E r \in Locals : Set(p, r)
      BY <1>1, <1>2, TypeOfLocals DEF fs
    <3>4. UNCHANGED <<req, was>> /\ dir' \in [Name -> Inode \cup {None}] /\ file' \in [Inode -> Attr]
      BY <1>1, <1>2, TypeOfLocals, <2>4 DEF fs
    <3> QED BY <1>1, <1>2, <3>1, <3>2, <3>3, <3>4, TypeKept
  <2>7. Alters(p)
    BY <1>1, <1>2, <2>2, <2>4, <2>1, AltersProp DEF fs, NewOf, StripOf, SymOf, Files
  <2>8. ProcInv(p)'
    <3>1. Route(p)'
      BY <1>1, <1>2, <2>2, <2>5 DEF ProcInv, Route, FileCall, LinkCall, Filling, Filled, TempOnly, Late, Has
    <3>2. Working(p)'
      BY <1>1, <1>2, <2>2, <2>3, <2>5 DEF ProcInv, Working, FileCall, LinkCall, Filling, Filled, TempOnly, Late, Has, NewOf
    <3>3. Temporary(p)'
      BY <1>1, <1>2, <2>2, <2>4, <2>5 DEF ProcInv, Temporary, NewOf, StripOf, SymOf, Filling, Filled, LinkCall, Temp0, Has, Files
    <3>4. Hidden(p)'
      BY <1>1, <1>2, <2>2, <2>5, Distinct DEF ProcInv, Hidden, Unseen, Has, NewOf, StripOf, SymOf
    <3> QED BY <3>1, <3>2, <3>3, <3>4 DEF ProcInv
  <2> QED BY <2>6, <2>7, <2>8 DEF Fine
<1>3. CASE pc[p] = "chmod" /\ FailUnlink(p) /\ UNCHANGED <<req, was>>
  BY <1>1, <1>3, FailUnlinkFine DEF Late
<1> QED BY <1>2, <1>3 DEF Chmod, At, fs

LEMMA ChflagsStep ==
  ASSUME IInv, NEW p \in Runs, Chflags(p)
  PROVE  Fine(p)
<1>1. TypeOK /\ ProcInv(p) /\ p \in Proc
  BY DEF IInv
<1>2. CASE /\ pc[p] = "chflags" /\ Goto(p, "done") /\ UNCHANGED <<dir, l, req, was>>
           /\ file' = file \/ file' = [file EXCEPT ![l[p].fd].imm = Has(p, "f") \/ Has(p, "simm")]
  <2>1. \A q \in Runs \ {p} : l'[q] = l[q] /\ pc'[q] = pc[q]
    BY <1>1, <1>2, GotoProp, SetProp
  <2>2. UNCHANGED <<dir, req, l>>
    BY <1>1, <1>2
  <2>3. l[p].fd # None
    BY <1>1, <1>2 DEF ProcInv, Working, Late
  <2>4. file' \in [Inode -> Attr] /\ \A i \in Inode : file'[i].data = file[i].data
    BY <1>1, <1>2, ImmProp, TypeOfLocals, <2>3
  <2>5. pc'[p] = "done"
    BY <1>1, <1>2, GotoProp
  <2>6. TypeOK'
    <3>1. {"done"} \subseteq Pcs
      BY DEF Pcs
    <3>2. \E s \in Pcs : Goto(p, s)
      BY <1>1, <1>2, <3>1
    <3>3. \E r \in Locals : Set(p, r)
      BY <1>1, <1>2, TypeOfLocals DEF fs
    <3>4. UNCHANGED <<req, was>> /\ dir' \in [Name -> Inode \cup {None}] /\ file' \in [Inode -> Attr]
      BY <1>1, <1>2, TypeOfLocals, <2>4 DEF fs
    <3> QED BY <1>1, <1>2, <3>1, <3>2, <3>3, <3>4, TypeKept
  <2>7. Alters(p)
    BY <1>1, <1>2, <2>2, <2>4, <2>1, AltersProp DEF fs, NewOf, StripOf, SymOf, Files
  <2>8. ProcInv(p)'
    <3>1. Route(p)'
      BY <1>1, <1>2, <2>2, <2>5 DEF ProcInv, Route, FileCall, LinkCall, Filling, Filled, TempOnly, Late, Has
    <3>2. Working(p)'
      BY <1>1, <1>2, <2>2, <2>3, <2>5 DEF ProcInv, Working, FileCall, LinkCall, Filling, Filled, TempOnly, Late, Has, NewOf
    <3>3. Temporary(p)'
      BY <1>1, <1>2, <2>2, <2>4, <2>5 DEF ProcInv, Temporary, NewOf, StripOf, SymOf, Filling, Filled, LinkCall, Temp0, Has, Files
    <3>4. Hidden(p)'
      BY <1>1, <1>2, <2>2, <2>5, Distinct DEF ProcInv, Hidden, Unseen, Has, NewOf, StripOf, SymOf
    <3> QED BY <3>1, <3>2, <3>3, <3>4 DEF ProcInv
  <2> QED BY <2>6, <2>7, <2>8 DEF Fine
<1>3. CASE pc[p] = "chflags" /\ FailUnlink(p) /\ UNCHANGED <<req, was>>
  BY <1>1, <1>3, FailUnlinkFine DEF Late
<1> QED BY <1>2, <1>3 DEF Chflags, At, fs

LEMMA HardLinkStep ==
  ASSUME IInv, NEW p \in Runs, HardLink(p)
  PROVE  Fine(p)
<1>1. TypeOK /\ ProcInv(p) /\ p \in Proc
  BY DEF IInv
<1>2. CASE pc[p] = "link" /\ MakeLink(p, Src) /\ UNCHANGED <<file, l, req, was>>
  <2>1. \A q \in Runs \ {p} : l'[q] = l[q] /\ pc'[q] = pc[q]
    BY <1>1, <1>2, GotoProp, SetProp DEF MakeLink
  <2>2. UNCHANGED <<file, req, l>>
    BY <1>1, <1>2 DEF MakeLink
  <2>3. dir' \in [Name -> Inode \cup {None}]
    BY <1>1, <1>2, TypeOfLocals, InodeProp DEF MakeLink
  <2>4. \A n \in Name \ {"to", Tmp(p)} : dir'[n] = dir[n]
    BY <1>1, <1>2 DEF MakeLink, TypeOK
  <2>5. dir[Tmp(p)] = None
    BY <1>1, <1>2 DEF MakeLink, ProcInv, Temporary, Temp0
  <2>6. dir'["to"] = IF l[p].target THEN dir["to"] ELSE Src
    BY <1>1, <1>2, NameProp DEF MakeLink, TypeOK, Name
  <2>7. dir'[Tmp(p)] = IF l[p].target THEN Src ELSE None
    BY <1>1, <1>2, NameProp, <2>5 DEF MakeLink, TypeOK, Name
  <2>8. pc'[p] = IF l[p].target THEN "rmdir" ELSE "done"
    BY <1>1, <1>2, GotoProp DEF MakeLink
  <2>9. TypeOK'
    <3>1. {"rmdir", "done"} \subseteq Pcs
      BY DEF Pcs
    <3>2. \E s \in Pcs : Goto(p, s)
      BY <1>1, <1>2, <3>1 DEF MakeLink
    <3>3. \E r \in Locals : Set(p, r)
      BY <1>1, <1>2, TypeOfLocals DEF MakeLink, fs
    <3>4. UNCHANGED <<req, was>> /\ dir' \in [Name -> Inode \cup {None}] /\ file' \in [Inode -> Attr]
      BY <1>1, <1>2, TypeOfLocals, <2>3 DEF MakeLink, fs
    <3> QED BY <1>1, <1>2, <3>1, <3>2, <3>3, <3>4, TypeKept
  <2>10. Alters(p)
    BY <1>1, <1>2, <2>2, <2>4, <2>6, <2>7, <2>1, AltersProp DEF MakeLink, fs, NewOf, StripOf, SymOf, Files
  <2>11. ProcInv(p)'
    <3>1. Route(p)'
      BY <1>1, <1>2, <2>2, <2>6, <2>8 DEF ProcInv, Route, FileCall, LinkCall, Filling, Filled, TempOnly, Late, Has
    <3>2. Working(p)'
      BY <1>1, <1>2, <2>2, <2>6, <2>7, <2>8 DEF ProcInv, Working, FileCall, LinkCall, Filling, Filled, TempOnly, Late, Has, NewOf
    <3>3. Temporary(p)'
      BY <1>1, <1>2, <2>2, <2>3, <2>4, <2>6, <2>7, <2>8 DEF ProcInv, Temporary, NewOf, StripOf, SymOf, Filling, Filled, LinkCall, Temp0, Has, Files
    <3>4. Hidden(p)'
      BY <1>1, <1>2, <2>2, <2>3, <2>4, <2>6, <2>7, <2>8, Distinct DEF ProcInv, Hidden, Unseen, Has, NewOf, StripOf, SymOf
    <3> QED BY <3>1, <3>2, <3>3, <3>4 DEF ProcInv
  <2> QED BY <2>9, <2>10, <2>11 DEF Fine
<1>3. CASE pc[p] = "link" /\ Goto(p, "symlink") /\ UNCHANGED <<dir, file, l, req, was>>
  <2>1. \A q \in Runs \ {p} : l'[q] = l[q] /\ pc'[q] = pc[q]
    BY <1>1, <1>3, GotoProp, SetProp
  <2>2. UNCHANGED <<dir, file, req, l>>
    BY <1>1, <1>3
  <2>3. pc'[p] = "symlink"
    BY <1>1, <1>3, GotoProp
  <2>4. TypeOK'
    <3>1. {"symlink"} \subseteq Pcs
      BY DEF Pcs
    <3>2. \E s \in Pcs : Goto(p, s)
      BY <1>1, <1>3, <3>1
    <3>3. \E r \in Locals : Set(p, r)
      BY <1>1, <1>3, TypeOfLocals DEF fs
    <3>4. UNCHANGED <<req, was>> /\ dir' \in [Name -> Inode \cup {None}] /\ file' \in [Inode -> Attr]
      BY <1>1, <1>3, TypeOfLocals DEF fs
    <3> QED BY <1>1, <1>3, <3>1, <3>2, <3>3, <3>4, TypeKept
  <2>5. Alters(p)
    BY <1>1, <1>3, <2>2, <2>1, AltersProp DEF fs, NewOf, StripOf, SymOf, Files
  <2>6. ProcInv(p)'
    <3>1. Route(p)'
      BY <1>1, <1>3, <2>2, <2>3 DEF ProcInv, Route, FileCall, LinkCall, Filling, Filled, TempOnly, Late, Has
    <3>2. Working(p)'
      BY <1>1, <1>3, <2>2, <2>3 DEF ProcInv, Working, FileCall, LinkCall, Filling, Filled, TempOnly, Late, Has, NewOf
    <3>3. Temporary(p)'
      BY <1>1, <1>3, <2>2, <2>3 DEF ProcInv, Temporary, NewOf, StripOf, SymOf, Filling, Filled, LinkCall, Temp0, Has, Files
    <3>4. Hidden(p)'
      BY <1>1, <1>3, <2>2, <2>3, Distinct DEF ProcInv, Hidden, Unseen, Has, NewOf, StripOf, SymOf
    <3> QED BY <3>1, <3>2, <3>3, <3>4 DEF ProcInv
  <2> QED BY <2>4, <2>5, <2>6 DEF Fine
<1>4. CASE pc[p] = "link" /\ Fail(p) /\ UNCHANGED <<dir, file, req, was>>
  BY <1>1, <1>4, FailFine DEF ProcInv, Temporary
<1> QED BY <1>2, <1>3, <1>4 DEF HardLink, At, fs

LEMMA SymLinkStep ==
  ASSUME IInv, NEW p \in Runs, SymLink(p)
  PROVE  Fine(p)
<1>1. TypeOK /\ ProcInv(p) /\ p \in Proc
  BY DEF IInv
<1>2. CASE pc[p] = "symlink" /\ MakeLink(p, <<p, "sym">>) /\ UNCHANGED <<file, l, req, was>>
  <2>1. \A q \in Runs \ {p} : l'[q] = l[q] /\ pc'[q] = pc[q]
    BY <1>1, <1>2, GotoProp, SetProp DEF MakeLink
  <2>2. UNCHANGED <<file, req, l>>
    BY <1>1, <1>2 DEF MakeLink
  <2>3. dir' \in [Name -> Inode \cup {None}]
    BY <1>1, <1>2, TypeOfLocals, InodeProp DEF MakeLink
  <2>4. \A n \in Name \ {"to", Tmp(p)} : dir'[n] = dir[n]
    BY <1>1, <1>2 DEF MakeLink, TypeOK
  <2>5. dir[Tmp(p)] = None
    BY <1>1, <1>2 DEF MakeLink, ProcInv, Temporary, Temp0
  <2>6. dir'["to"] = IF l[p].target THEN dir["to"] ELSE <<p, "sym">>
    BY <1>1, <1>2, NameProp DEF MakeLink, TypeOK, Name
  <2>7. dir'[Tmp(p)] = IF l[p].target THEN <<p, "sym">> ELSE None
    BY <1>1, <1>2, NameProp, <2>5 DEF MakeLink, TypeOK, Name
  <2>8. pc'[p] = IF l[p].target THEN "rmdir" ELSE "done"
    BY <1>1, <1>2, GotoProp DEF MakeLink
  <2>9. TypeOK'
    <3>1. {"rmdir", "done"} \subseteq Pcs
      BY DEF Pcs
    <3>2. \E s \in Pcs : Goto(p, s)
      BY <1>1, <1>2, <3>1 DEF MakeLink
    <3>3. \E r \in Locals : Set(p, r)
      BY <1>1, <1>2, TypeOfLocals DEF MakeLink, fs
    <3>4. UNCHANGED <<req, was>> /\ dir' \in [Name -> Inode \cup {None}] /\ file' \in [Inode -> Attr]
      BY <1>1, <1>2, TypeOfLocals, <2>3 DEF MakeLink, fs
    <3> QED BY <1>1, <1>2, <3>1, <3>2, <3>3, <3>4, TypeKept
  <2>10. Alters(p)
    BY <1>1, <1>2, <2>2, <2>4, <2>6, <2>7, <2>1, AltersProp DEF MakeLink, fs, NewOf, StripOf, SymOf, Files
  <2>11. ProcInv(p)'
    <3>1. Route(p)'
      BY <1>1, <1>2, <2>2, <2>6, <2>8 DEF ProcInv, Route, FileCall, LinkCall, Filling, Filled, TempOnly, Late, Has
    <3>2. Working(p)'
      BY <1>1, <1>2, <2>2, <2>6, <2>7, <2>8 DEF ProcInv, Working, FileCall, LinkCall, Filling, Filled, TempOnly, Late, Has, NewOf
    <3>3. Temporary(p)'
      BY <1>1, <1>2, <2>2, <2>3, <2>4, <2>6, <2>7, <2>8 DEF ProcInv, Temporary, NewOf, StripOf, SymOf, Filling, Filled, LinkCall, Temp0, Has, Files
    <3>4. Hidden(p)'
      BY <1>1, <1>2, <2>2, <2>3, <2>4, <2>6, <2>7, <2>8, Distinct DEF ProcInv, Hidden, Unseen, Has, NewOf, StripOf, SymOf
    <3> QED BY <3>1, <3>2, <3>3, <3>4 DEF ProcInv
  <2> QED BY <2>9, <2>10, <2>11 DEF Fine
<1>3. CASE pc[p] = "symlink" /\ Fail(p) /\ UNCHANGED <<dir, file, req, was>>
  BY <1>1, <1>3, FailFine DEF ProcInv, Temporary
<1> QED BY <1>2, <1>3 DEF SymLink, At, fs

LEMMA LinkRmdirStep ==
  ASSUME IInv, NEW p \in Runs, LinkRmdir(p)
  PROVE  Fine(p)
<1>1. TypeOK /\ ProcInv(p) /\ p \in Proc
  BY DEF IInv
<1>2. CASE /\ pc[p] = "rmdir" /\ dir' = [dir EXCEPT !["to"] = None] /\ Goto(p, "lunlock")
           /\ UNCHANGED <<file, l, req, was>>
  <2>1. \A q \in Runs \ {p} : l'[q] = l[q] /\ pc'[q] = pc[q]
    BY <1>1, <1>2, GotoProp, SetProp
  <2>2. UNCHANGED <<file, req, l>>
    BY <1>1, <1>2
  <2>3. dir' \in [Name -> Inode \cup {None}]
    BY <1>1, <1>2, TypeOfLocals
  <2>4. \A n \in Name \ {"to"} : dir'[n] = dir[n]
    BY <1>1, <1>2 DEF TypeOK
  <2>5. dir'["to"] = None
    BY <1>1, <1>2 DEF TypeOK, Name
  <2>6. Temp0(p)' = Temp0(p)
    BY <1>1, <1>2, NameProp DEF Temp0, TypeOK
  <2>7. dir[Tmp(p)] \in {Src, SymOf(p)}
    BY <1>1, <1>2 DEF ProcInv, Temporary, Temp0
  <2>8. pc'[p] = "lunlock"
    BY <1>1, <1>2, GotoProp
  <2>9. TypeOK'
    <3>1. {"lunlock"} \subseteq Pcs
      BY DEF Pcs
    <3>2. \E s \in Pcs : Goto(p, s)
      BY <1>1, <1>2, <3>1
    <3>3. \E r \in Locals : Set(p, r)
      BY <1>1, <1>2, TypeOfLocals DEF fs
    <3>4. UNCHANGED <<req, was>> /\ dir' \in [Name -> Inode \cup {None}] /\ file' \in [Inode -> Attr]
      BY <1>1, <1>2, TypeOfLocals, <2>3 DEF fs
    <3> QED BY <1>1, <1>2, <3>1, <3>2, <3>3, <3>4, TypeKept
  <2>10. Alters(p)
    BY <1>1, <1>2, <2>2, <2>4, <2>5, <2>1, AltersProp DEF fs, NewOf, StripOf, SymOf, Files
  <2>11. ProcInv(p)'
    <3>1. Route(p)'
      BY <1>1, <1>2, <2>2, <2>5, <2>8, Distinct DEF ProcInv, Route, FileCall, LinkCall, Filling, Filled, TempOnly, Late, Has
    <3>2. Working(p)'
      BY <1>1, <1>2, <2>2, <2>8 DEF ProcInv, Working, FileCall, LinkCall, Filling, Filled, TempOnly, Late, Has, NewOf
    <3>3. Temporary(p)'
      BY <1>1, <1>2, <2>2, <2>3, <2>4, <2>5, <2>6, <2>8 DEF ProcInv, Temporary, NewOf, StripOf, SymOf, Filling, Filled, LinkCall, Temp0, Has, Files
    <3>4. Hidden(p)'
      BY <1>1, <1>2, <2>2, <2>3, <2>4, <2>5, <2>8, Distinct DEF ProcInv, Hidden, Unseen, Has, NewOf, StripOf, SymOf
    <3> QED BY <3>1, <3>2, <3>3, <3>4 DEF ProcInv
  <2> QED BY <2>9, <2>10, <2>11 DEF Fine
<1>3. CASE pc[p] = "rmdir" /\ FailClean(p) /\ UNCHANGED <<req, was>>
  BY <1>1, <1>3, FailCleanFine
<1>4. CASE pc[p] = "rmdir" /\ Goto(p, "lunlock") /\ UNCHANGED <<fs, l, req, was>>
  <2>1. \A q \in Runs \ {p} : l'[q] = l[q] /\ pc'[q] = pc[q]
    BY <1>1, <1>4, GotoProp, SetProp
  <2>2. dir' = dir /\ file' = file /\ req' = req
    BY <1>1, <1>4 DEF fs
  <2>3. l' = l
    BY <1>1, <1>4
  <2>4. pc'[p] = "lunlock"
    BY <1>1, <1>4, GotoProp
  <2>5. dir[Tmp(p)] \in {Src, SymOf(p)}
    BY <1>1, <1>4 DEF ProcInv, Temporary, Temp0
  <2>6. TypeOK'
    <3>1. {"lunlock"} \subseteq Pcs
      BY DEF Pcs
    <3>2. \E s \in Pcs : Goto(p, s)
      BY <1>1, <1>4, <3>1
    <3>3. \E r \in Locals : Set(p, r)
      BY <1>1, <1>4, TypeOfLocals DEF fs
    <3>4. UNCHANGED <<req, was>> /\ dir' \in [Name -> Inode \cup {None}] /\ file' \in [Inode -> Attr]
      BY <1>1, <1>4, TypeOfLocals DEF fs
    <3> QED BY <1>1, <1>4, <3>1, <3>2, <3>3, <3>4, TypeKept
  <2>7. Alters(p)
    BY <1>1, <1>4, <2>2, <2>1, AltersProp DEF fs, NewOf, StripOf, SymOf, Files
  <2>8. ProcInv(p)'
    <3>1. Route(p)'
      BY <1>1, <1>4, <2>2, <2>4 DEF ProcInv, Route, FileCall, LinkCall, Filling, Filled, TempOnly, Late, Has
    <3>2. Working(p)'
      BY <1>1, <1>4, <2>2, <2>3, <2>4 DEF ProcInv, Working, FileCall, LinkCall, Filling, Filled, TempOnly, Late, Has, NewOf
    <3>3. Temporary(p)'
      BY <1>1, <1>4, <2>2, <2>3, <2>4 DEF ProcInv, Temporary, NewOf, StripOf, SymOf, Filling, Filled, LinkCall, Temp0, Has, Files
    <3>4. Hidden(p)'
      BY <1>1, <1>4, <2>2, <2>4, Distinct DEF ProcInv, Hidden, Unseen, Has, NewOf, StripOf, SymOf
    <3> QED BY <3>1, <3>2, <3>3, <3>4 DEF ProcInv
  <2> QED BY <2>6, <2>7, <2>8 DEF Fine
<1> QED BY <1>2, <1>3, <1>4 DEF LinkRmdir, At, fs

LEMMA LinkUnlockStep ==
  ASSUME IInv, NEW p \in Runs, LinkUnlock(p)
  PROVE  Fine(p)
<1>1. TypeOK /\ ProcInv(p) /\ p \in Proc
  BY DEF IInv
<1>2. \A q \in Runs \ {p} : l'[q] = l[q] /\ pc'[q] = pc[q]
  BY <1>1, GotoProp, SetProp DEF LinkUnlock
<1>3. pc[p] = "lunlock"
  BY <1>1 DEF LinkUnlock, At
<1>4. dir' = dir /\ l' = l /\ req' = req
  BY <1>1 DEF LinkUnlock
<1>5. Relabels
  BY <1>1 DEF LinkUnlock, Relabel, Relabels
<1>6. file' \in [Inode -> Attr]
  BY <1>1, <1>5, RelabelProp DEF LinkUnlock
<1>7. \A i \in Inode : file'[i].data = file[i].data
  BY <1>1, <1>5, RelabelProp DEF LinkUnlock
<1>8. dir[Tmp(p)] \in {Src, SymOf(p)}
  BY <1>1 DEF LinkUnlock, ProcInv, Temporary, Temp0, At
<1>9. pc'[p] = "lrename"
  BY <1>1, GotoProp DEF LinkUnlock
<1>10. TypeOK'
  <2>1. {"lrename"} \subseteq Pcs
    BY DEF Pcs
  <2>2. \E s \in Pcs : Goto(p, s)
    BY <1>1, <2>1 DEF LinkUnlock
  <2>3. \E r \in Locals : Set(p, r)
    BY <1>1, TypeOfLocals DEF LinkUnlock, fs
  <2>4. UNCHANGED <<req, was>> /\ dir' \in [Name -> Inode \cup {None}] /\ file' \in [Inode -> Attr]
    BY <1>1, TypeOfLocals, <1>6 DEF LinkUnlock, fs
  <2> QED BY <1>1, <2>1, <2>2, <2>3, <2>4, TypeKept
<1>11. Alters(p)
  BY <1>1, <1>4, <1>7, <1>2, AltersProp DEF LinkUnlock, fs, NewOf, StripOf, SymOf, Files
<1>12. ProcInv(p)'
  <2>1. Route(p)'
    BY <1>1, <1>3, <1>4, <1>9 DEF ProcInv, Route, FileCall, LinkCall, Filling, Filled, TempOnly, Late, Has
  <2>2. Working(p)'
    BY <1>1, <1>3, <1>4, <1>9 DEF ProcInv, Working, FileCall, LinkCall, Filling, Filled, TempOnly, Late, Has, NewOf
  <2>3. Temporary(p)'
    BY <1>1, <1>3, <1>4, <1>7, <1>9 DEF ProcInv, Temporary, NewOf, StripOf, SymOf, Filling, Filled, LinkCall, Temp0, Has, Files
  <2>4. Hidden(p)'
    BY <1>1, <1>3, <1>4, <1>9, Distinct DEF ProcInv, Hidden, Unseen, Has, NewOf, StripOf, SymOf
  <2> QED BY <2>1, <2>2, <2>3, <2>4 DEF ProcInv
<1> QED BY <1>10, <1>11, <1>12 DEF Fine

LEMMA LinkRenameStep ==
  ASSUME IInv, NEW p \in Runs, LinkRename(p)
  PROVE  Fine(p)
<1>1. TypeOK /\ ProcInv(p) /\ p \in Proc
  BY DEF IInv
<1>2. CASE /\ pc[p] = "lrename" /\ Goto(p, "lunlink") /\ UNCHANGED <<file, l, req, was>>
           /\ dir' = IF dir["to"] = dir[Tmp(p)] THEN dir
                      ELSE [dir EXCEPT !["to"] = dir[Tmp(p)], ![Tmp(p)] = None]
  <2>1. \A q \in Runs \ {p} : l'[q] = l[q] /\ pc'[q] = pc[q]
    BY <1>1, <1>2, GotoProp, SetProp
  <2>2. UNCHANGED <<file, req, l>>
    BY <1>1, <1>2
  <2>3. dir' \in [Name -> Inode \cup {None}]
    BY <1>1, <1>2, TypeOfLocals, NameProp
  <2>4. \A n \in Name \ {"to", Tmp(p)} : dir'[n] = dir[n]
    BY <1>1, <1>2 DEF TypeOK
  <2>5. dir[Tmp(p)] \in {Src, SymOf(p)}
    BY <1>1, <1>2 DEF ProcInv, Temporary, Temp0
  <2>6. dir'["to"] \in {Src, SymOf(p)}
    BY <1>1, <1>2, <2>5, NameProp DEF TypeOK, Name
  <2>7. pc'[p] = "lunlink"
    BY <1>1, <1>2, GotoProp
  <2>8. TypeOK'
    <3>1. {"lunlink"} \subseteq Pcs
      BY DEF Pcs
    <3>2. \E s \in Pcs : Goto(p, s)
      BY <1>1, <1>2, <3>1
    <3>3. \E r \in Locals : Set(p, r)
      BY <1>1, <1>2, TypeOfLocals DEF fs
    <3>4. UNCHANGED <<req, was>> /\ dir' \in [Name -> Inode \cup {None}] /\ file' \in [Inode -> Attr]
      BY <1>1, <1>2, TypeOfLocals, <2>3 DEF fs
    <3> QED BY <1>1, <1>2, <3>1, <3>2, <3>3, <3>4, TypeKept
  <2>9. Alters(p)
    BY <1>1, <1>2, <2>2, <2>4, <2>6, <2>1, AltersProp DEF fs, NewOf, StripOf, SymOf, Files
  <2>10. ProcInv(p)'
    <3>1. Route(p)'
      BY <1>1, <1>2, <2>2, <2>6, <2>7, Distinct DEF ProcInv, Route, FileCall, LinkCall, Filling, Filled, TempOnly, Late, Has
    <3>2. Working(p)'
      BY <1>1, <1>2, <2>2, <2>7 DEF ProcInv, Working, FileCall, LinkCall, Filling, Filled, TempOnly, Late, Has, NewOf
    <3>3. Temporary(p)'
      BY <1>1, <1>2, <2>2, <2>3, <2>4, <2>6, <2>7 DEF ProcInv, Temporary, NewOf, StripOf, SymOf, Filling, Filled, LinkCall, Temp0, Has, Files
    <3>4. Hidden(p)'
      BY <1>1, <1>2, <2>2, <2>3, <2>4, <2>6, <2>7, Distinct DEF ProcInv, Hidden, Unseen, Has, NewOf, StripOf, SymOf
    <3> QED BY <3>1, <3>2, <3>3, <3>4 DEF ProcInv
  <2> QED BY <2>8, <2>9, <2>10 DEF Fine
<1>3. CASE pc[p] = "lrename" /\ FailClean(p) /\ UNCHANGED <<req, was>>
  BY <1>1, <1>3, FailCleanFine
<1> QED BY <1>2, <1>3 DEF LinkRename, At, fs

LEMMA LinkUnlinkStep ==
  ASSUME IInv, NEW p \in Runs, LinkUnlink(p)
  PROVE  Fine(p)
<1>1. TypeOK /\ ProcInv(p) /\ p \in Proc
  BY DEF IInv
<1>2. \A q \in Runs \ {p} : l'[q] = l[q] /\ pc'[q] = pc[q]
  BY <1>1, GotoProp, SetProp DEF LinkUnlink
<1>3. UNCHANGED <<file, req, l>>
  BY <1>1 DEF LinkUnlink
<1>4. pc[p] = "lunlink"
  BY <1>1 DEF LinkUnlink, At
<1>5. dir' \in [Name -> Inode \cup {None}]
  BY <1>1, TypeOfLocals DEF LinkUnlink
<1>6. \A n \in Name \ {Tmp(p)} : dir'[n] = dir[n]
  BY <1>1 DEF LinkUnlink, TypeOK
<1>7. dir'["to"] = dir["to"]
  BY <1>1, NameProp DEF LinkUnlink, TypeOK, Name
<1>8. Temp0(p)' = None
  BY <1>1, NameProp DEF LinkUnlink, Temp0, TypeOK
<1>9. pc'[p] = "done"
  BY <1>1, GotoProp DEF LinkUnlink
<1>10. TypeOK'
  <2>1. {"done"} \subseteq Pcs
    BY DEF Pcs
  <2>2. \E s \in Pcs : Goto(p, s)
    BY <1>1, <2>1 DEF LinkUnlink
  <2>3. \E r \in Locals : Set(p, r)
    BY <1>1, TypeOfLocals DEF LinkUnlink, fs
  <2>4. UNCHANGED <<req, was>> /\ dir' \in [Name -> Inode \cup {None}] /\ file' \in [Inode -> Attr]
    BY <1>1, TypeOfLocals, <1>5 DEF LinkUnlink, fs
  <2> QED BY <1>1, <2>1, <2>2, <2>3, <2>4, TypeKept
<1>11. Alters(p)
  BY <1>1, <1>3, <1>6, <1>7, <1>2, AltersProp DEF LinkUnlink, fs, NewOf, StripOf, SymOf, Files
<1>12. ProcInv(p)'
  <2>1. Route(p)'
    BY <1>1, <1>3, <1>4, <1>7, <1>9 DEF ProcInv, Route, FileCall, LinkCall, Filling, Filled, TempOnly, Late, Has
  <2>2. Working(p)'
    BY <1>1, <1>3, <1>4, <1>9 DEF ProcInv, Working, FileCall, LinkCall, Filling, Filled, TempOnly, Late, Has, NewOf
  <2>3. Temporary(p)'
    BY <1>1, <1>3, <1>4, <1>5, <1>6, <1>7, <1>8, <1>9 DEF ProcInv, Temporary, NewOf, StripOf, SymOf, Filling, Filled, LinkCall, Temp0, Has, Files
  <2>4. Hidden(p)'
    BY <1>1, <1>3, <1>4, <1>5, <1>6, <1>7, <1>9, Distinct DEF ProcInv, Hidden, Unseen, Has, NewOf, StripOf, SymOf
  <2> QED BY <2>1, <2>2, <2>3, <2>4 DEF ProcInv
<1> QED BY <1>10, <1>11, <1>12 DEF Fine

LEMMA NextFine ==
  ASSUME IInv, NEW p \in Runs,
         \/ Main(p) \/ Lstat(p) \/ StartFails(p) \/ Compare(p) \/ Temp(p) \/ TempFails(p)
         \/ Direct(p) \/ DirectOpen(p) \/ Strip(p) \/ CopySome(p) \/ CopyRest(p)
         \/ StripInPlace(p) \/ Reopen(p) \/ CompareStripped(p)
         \/ Unlock(p) \/ UnlinkBackup(p) \/ LinkBackup(p) \/ Rename(p) \/ ReopenTo(p)
         \/ Fstat(p) \/ Chown(p) \/ Chmod(p) \/ Chflags(p)
         \/ HardLink(p) \/ SymLink(p) \/ LinkRmdir(p) \/ LinkUnlock(p)
         \/ LinkRename(p) \/ LinkUnlink(p)
  PROVE  Fine(p)
<1>1. CASE Main(p)
  BY <1>1, MainStep
<1>2. CASE Lstat(p)
  BY <1>2, LstatStep
<1>3. CASE StartFails(p)
  BY <1>3, StartFailsStep
<1>4. CASE Compare(p)
  BY <1>4, CompareStep
<1>5. CASE Temp(p)
  BY <1>5, TempStep
<1>6. CASE TempFails(p)
  BY <1>6, TempFailsStep
<1>7. CASE Direct(p)
  BY <1>7, DirectStep
<1>8. CASE DirectOpen(p)
  BY <1>8, DirectOpenStep
<1>9. CASE Strip(p)
  BY <1>9, StripStep
<1>10. CASE CopySome(p)
  BY <1>10, CopySomeStep
<1>11. CASE CopyRest(p)
  BY <1>11, CopyRestStep
<1>12. CASE StripInPlace(p)
  BY <1>12, StripInPlaceStep
<1>13. CASE Reopen(p)
  BY <1>13, ReopenStep
<1>14. CASE CompareStripped(p)
  BY <1>14, CompareStrippedStep
<1>15. CASE Unlock(p)
  BY <1>15, UnlockStep
<1>16. CASE UnlinkBackup(p)
  BY <1>16, UnlinkBackupStep
<1>17. CASE LinkBackup(p)
  BY <1>17, LinkBackupStep
<1>18. CASE Rename(p)
  BY <1>18, RenameStep
<1>19. CASE ReopenTo(p)
  BY <1>19, ReopenToStep
<1>20. CASE Fstat(p)
  BY <1>20, FstatStep
<1>21. CASE Chown(p)
  BY <1>21, ChownStep
<1>22. CASE Chmod(p)
  BY <1>22, ChmodStep
<1>23. CASE Chflags(p)
  BY <1>23, ChflagsStep
<1>24. CASE HardLink(p)
  BY <1>24, HardLinkStep
<1>25. CASE SymLink(p)
  BY <1>25, SymLinkStep
<1>26. CASE LinkRmdir(p)
  BY <1>26, LinkRmdirStep
<1>27. CASE LinkUnlock(p)
  BY <1>27, LinkUnlockStep
<1>28. CASE LinkRename(p)
  BY <1>28, LinkRenameStep
<1>29. CASE LinkUnlink(p)
  BY <1>29, LinkUnlinkStep
<1> QED BY <1>1, <1>2, <1>3, <1>4, <1>5, <1>6, <1>7, <1>8, <1>9, <1>10, <1>11, <1>12, <1>13, <1>14, <1>15, <1>16, <1>17, <1>18, <1>19, <1>20, <1>21, <1>22, <1>23, <1>24, <1>25, <1>26, <1>27, <1>28, <1>29

LEMMA NextInv == IInv /\ [Next]_vars => IInv'
<1> SUFFICES ASSUME IInv, [Next]_vars PROVE IInv'
  OBVIOUS
<1>1. CASE UNCHANGED vars
  <2>1. req' = req /\ l' = l /\ pc' = pc /\ dir' = dir /\ file' = file /\ was' = was
    BY <1>1 DEF vars
  <2>2. TypeOK' /\ Runs' = Runs
    BY <2>1 DEF IInv, TypeOK, Runs
  <2>3. ASSUME NEW p \in Runs PROVE ProcInv(p)'
    <3>1. ProcInv(p)
      BY DEF IInv
    <3> QED BY <2>1, <3>1 DEF ProcInv, Route, Working, Temporary, Hidden, Has, Temp0, Want, Plain
  <2> QED BY <2>1, <2>2, <2>3 DEF IInv
<1>2. CASE \E p \in Runs : Fine(p)
  BY <1>2, OthersKeep
<1>3. CASE Next
  BY <1>2, <1>3, NextFine DEF Next
<1> QED BY <1>1, <1>3

(* Whatever fails, and however many installs compete for the name, every
   process keeps to the calls its command line asks for, works on its own new
   file until it has the name, has its temporary name lead to that file, with
   all its data from the moment it is reopened, and shows it to nobody before
   the rename.                                                               *)
THEOREM Invariance == Spec => []IInv
<1>1. Init => IInv
  BY InitInv
<1>2. IInv /\ [Next]_vars => IInv'
  BY NextInv
<1> QED BY <1>1, <1>2, PTL DEF Spec

(* Every local of install(), every name and every inode keeps its type. *)
THEOREM TypeCorrect == Spec => []TypeOK
<1>1. IInv => TypeOK
  BY DEF IInv
<1> QED BY <1>1, Invariance, PTL

(* No exit of install() leaves a temporary file, but the failure to open the
   file to strip or to compare.                                              *)
THEOREM NoLitter == Spec => []NoTempLeft
<1>1. ASSUME IInv PROVE NoTempLeft
  <2> SUFFICES ASSUME NEW p \in Runs, pc[p] \in {"done", "failed"}, dir[Tmp(p)] # None
               PROVE  Failed(p) /\ l[p].why \in {"reopen", "compare2"}
    BY DEF NoTempLeft
  <2>1. Temporary(p)
    BY <1>1 DEF IInv, ProcInv
  <2> QED BY <2>1 DEF Temporary, Temp0, Filling, Filled, LinkCall, Failed
<1> QED BY <1>1, Invariance, PTL

-----------------------------------------------------------------------------
(* install() implements Replace.  A step of p is one of three kinds.        *)
Quiet(p) == Shown' = Shown /\ Stage(p)' = Stage(p)
Puts(p)  == Stage(p) = "begun" /\ Stage(p)' = "put" /\ Shown' = Offer(p)
Gives(p) == Stage(p) = "put" /\ Stage(p)' = "over" /\ Shown' \in {Shown, Nothing}

LEMMA KindsImplement ==
  ASSUME IInv, NEW p \in Runs, Fine(p), Quiet(p) \/ Puts(p) \/ Gives(p)
  PROVE  [Atomic!Next]_<<Shown, [q \in Runs |-> Offer(q)], [q \in Runs |-> Stage(q)]>>
<1> DEFINE new == [q \in Runs |-> Offer(q)]
           st == [q \in Runs |-> Stage(q)]
<1>1. req' = req /\ Runs' = Runs
  BY DEF Fine, Alters, Runs
<1>2. new' = new
  BY <1>1 DEF Offer, Want, Plain, Has
<1>3. ASSUME NEW q \in Runs \ {p} PROVE Stage(q)' = Stage(q)
  <2>1. pc'[q] = pc[q] /\ l'[q] = l[q]
    BY DEF Fine, Alters
  <2> QED BY <1>1, <2>1 DEF Stage, Sandboxed, Has, Failed
<1>4. st' = [st EXCEPT ![p] = Stage(p)']
  BY <1>1, <1>3
<1>5. DOMAIN new = Runs /\ new[p] = Offer(p) /\ st[p] = Stage(p)
  OBVIOUS
<1>6. CASE Quiet(p)
  <2>1. st' = st
    BY <1>4, <1>5, <1>6 DEF Quiet
  <2> QED BY <1>2, <1>6, <2>1 DEF Quiet
<1>7. CASE Puts(p)
  <2> HIDE DEF new, st
  <2>1. Atomic!Put(p)
    BY <1>2, <1>4, <1>5, <1>7 DEF Puts, Atomic!Put, new, st
  <2> QED BY <1>5, <2>1 DEF Atomic!Next, new
<1>8. CASE Gives(p)
  <2> HIDE DEF new, st
  <2>1. Atomic!GiveUp(p)
    BY <1>2, <1>4, <1>5, <1>8 DEF Gives, Atomic!GiveUp, new, st
  <2> QED BY <1>5, <2>1 DEF Atomic!Next, new
<1> QED BY <1>6, <1>7, <1>8

(* In the sandbox nothing is promised. *)
LEMMA SandboxQuiet ==
  ASSUME NEW p \in Runs, Fine(p), Sandboxed
  PROVE  Quiet(p)
BY DEF Fine, Alters, Sandboxed, Quiet, Shown, Stage, Has, Runs

(* The name shows the same while it leads to the same file with its data. *)
LEMMA ShownKept ==
  ASSUME IInv, NEW p \in Runs, Fine(p), ~ Sandboxed, dir'["to"] = dir["to"],
         \/ dir["to"] \notin Files(p)
         \/ \A i \in Inode : file'[i].data = file[i].data
  PROVE  Shown' = Shown
<1>1. ~ Sandboxed'
  BY DEF Fine, Alters, Sandboxed, Has, Runs
<1>2. Leads' = Leads
  BY DEF Leads
<1>3. file'[Src].data = file[Src].data
  BY DEF Fine, Alters
<1>4. dir["to"] \in Inode \cup {None}
  BY DEF IInv, TypeOK, Name
<1>5. dir["to"] # None => file'[dir["to"]].data = file[dir["to"]].data
  BY <1>4 DEF Fine, Alters
<1> QED BY <1>1, <1>2, <1>3, <1>5 DEF Shown, Leads

(* Outside the sandbox the file being filled is the temporary one. *)
LEMMA Unboxed ==
  ASSUME IInv, NEW p \in Runs, ~ Sandboxed
  PROVE  /\ TypeOK /\ p \in Proc /\ ProcInv(p) /\ ~ Has(p, "sandbox")
         /\ l[p].work = Tmp(p) /\ Tmp(p) \in Name /\ "to" \in Name /\ "bak" \in Name
         /\ Tmp(p) \notin {"to", "bak"}
BY NameProp DEF IInv, ProcInv, Working, Sandboxed, Name

(* What is always known of a process at its call. *)
LEMMA Reached ==
  ASSUME IInv, NEW p \in Runs
  PROVE  /\ TypeOK /\ p \in Proc /\ ProcInv(p)
         /\ pc[p] \in LinkCall => l[p].work = Tmp(p)
         /\ Tmp(p) \in Name /\ "to" \in Name /\ "bak" \in Name /\ Tmp(p) \notin {"to", "bak"}
BY NameProp DEF IInv, ProcInv, Working, Name

(* A failure leaves the locals as they are, but for the call it was. *)
Fails(p) == Fail(p) /\ pc'[p] = "failed" /\ l'[p] = [l[p] EXCEPT !.why = pc[p]]
LEMMA FailsProp ==
  ASSUME TypeOK, NEW p \in Runs
  PROVE  (Fail(p) <=> Fails(p)) /\ (Fails(p) => l'[p].why = pc[p])
BY DEF TypeOK, Fail, Goto, Fails

(* A step of a process whose file has not got the name. *)
LEMMA UnseenQuiet ==
  ASSUME IInv, NEW p \in Runs, Fine(p), ~ Sandboxed, pc[p] \in Unseen,
         dir'["to"] = dir["to"] \/ {dir["to"], dir'["to"]} \subseteq {None, Dir},
         pc'[p] \in Unseen \/ Fails(p)
  PROVE  Quiet(p)
<1>1. ~ Sandboxed' /\ ~ Has(p, "sandbox")
  BY DEF Fine, Alters, Sandboxed, Has, Runs
<1>2. dir["to"] \notin Files(p)
  BY <1>1 DEF IInv, ProcInv, Hidden, Files
<1>3. Shown' = Shown
  BY <1>1, <1>2, ShownKept DEF Shown
<1>4. Stage(p)' = Stage(p)
  <2>1. Stage(p) = "begun"
    BY DEF Stage, Unseen, Late, Failed
  <2>2. CASE pc'[p] \in Unseen
    BY <1>1, <2>1, <2>2 DEF Stage, Unseen, Late, Failed
  <2>3. CASE Fails(p)
    <3>1. pc'[p] = "failed" /\ l'[p].why = pc[p] /\ pc[p] \notin Late
      BY <2>3, FailsProp DEF IInv, Fails, Unseen, Late
    <3> QED BY <1>1, <2>1, <3>1 DEF Stage, Late, Failed
  <2> QED BY <2>2, <2>3
<1> QED BY <1>3, <1>4 DEF Quiet

(* Where the calls go on, and that they leave the target's name alone. *)
LEMMA MainName ==
  ASSUME IInv, NEW p \in Runs, Main(p)
  PROVE  pc[p] = "main" /\ (pc'[p] \in {"start"} \/ Fails(p)) /\ dir'["to"] = dir["to"]
<1>1. pc[p] = "main"
  BY DEF Main, At
<1>2. dir'["to"] = dir["to"]
  BY Reached DEF Main, fs, TypeOK
<1>3. (pc'[p] \in {"start"} \/ Fails(p))
  BY Reached, GotoProp, FailsProp DEF Main, fs
<1> QED BY <1>1, <1>2, <1>3

LEMMA LstatName ==
  ASSUME IInv, NEW p \in Runs, Lstat(p)
  PROVE  pc[p] = "start" /\ pc'[p] \in {"link", "symlink", "compare", "temp"} /\ dir'["to"] = dir["to"]
<1>1. pc[p] = "start"
  BY DEF Lstat, At
<1>2. dir'["to"] = dir["to"]
  BY Reached DEF Lstat, fs, TypeOK
<1>3. pc'[p] \in {"link", "symlink", "compare", "temp"}
  BY Reached, GotoProp, FailsProp DEF Lstat, fs
<1> QED BY <1>1, <1>2, <1>3

LEMMA StartFailsName ==
  ASSUME IInv, NEW p \in Runs, StartFails(p)
  PROVE  pc[p] = "start" /\ Fails(p) /\ dir'["to"] = dir["to"]
<1>1. pc[p] = "start"
  BY DEF StartFails, At
<1>2. dir'["to"] = dir["to"]
  BY Reached DEF StartFails, fs, TypeOK
<1>3. Fails(p)
  BY Reached, GotoProp, FailsProp DEF StartFails, fs
<1> QED BY <1>1, <1>2, <1>3

LEMMA TempName ==
  ASSUME IInv, NEW p \in Runs, ~ Sandboxed, Temp(p)
  PROVE  pc[p] = "temp" /\ pc'[p] \in {"strip2", "unlock", "strip", "copy"} /\ dir'["to"] = dir["to"]
<1>1. pc[p] = "temp"
  BY DEF Temp, At
<1>2. dir'["to"] = dir["to"]
  BY Unboxed DEF Temp, fs, TypeOK
<1>3. pc'[p] \in {"strip2", "unlock", "strip", "copy"}
  BY Unboxed, GotoProp, FailsProp DEF Temp, fs
<1> QED BY <1>1, <1>2, <1>3

LEMMA TempFailsName ==
  ASSUME IInv, NEW p \in Runs, TempFails(p)
  PROVE  pc[p] = "temp" /\ Fails(p) /\ dir'["to"] = dir["to"]
<1>1. pc[p] = "temp"
  BY DEF TempFails, At
<1>2. dir'["to"] = dir["to"]
  BY Reached DEF TempFails, fs, TypeOK
<1>3. Fails(p)
  BY Reached, GotoProp, FailsProp DEF TempFails, fs
<1> QED BY <1>1, <1>2, <1>3

LEMMA StripName ==
  ASSUME IInv, NEW p \in Runs, ~ Sandboxed, Strip(p)
  PROVE  pc[p] = "strip" /\ (pc'[p] \in {"reopen", "copy"} \/ Fails(p)) /\ dir'["to"] = dir["to"]
<1>1. pc[p] = "strip"
  BY DEF Strip, At
<1>2. dir'["to"] = dir["to"]
  BY Unboxed DEF Strip, Stripped, Write, FailClean, fs, TypeOK
<1>3. (pc'[p] \in {"reopen", "copy"} \/ Fails(p))
  BY Unboxed, GotoProp, FailsProp DEF Strip, Stripped, Write, FailClean, fs
<1> QED BY <1>1, <1>2, <1>3

LEMMA CopySomeName ==
  ASSUME IInv, NEW p \in Runs, ~ Sandboxed, CopySome(p)
  PROVE  pc[p] = "copy" /\ (pc'[p] \in {"copying"} \/ Fails(p)) /\ dir'["to"] = dir["to"]
<1>1. pc[p] = "copy"
  BY DEF CopySome, At
<1>2. dir'["to"] = dir["to"]
  BY Unboxed DEF CopySome, Write, fs, TypeOK
<1>3. (pc'[p] \in {"copying"} \/ Fails(p))
  BY Unboxed, GotoProp, FailsProp DEF CopySome, Write, fs
<1> QED BY <1>1, <1>2, <1>3

LEMMA CopyRestName ==
  ASSUME IInv, NEW p \in Runs, ~ Sandboxed, CopyRest(p)
  PROVE  pc[p] = "copying" /\ (pc'[p] \in {"strip2", "unlock"} \/ Fails(p)) /\ dir'["to"] = dir["to"]
<1>1. pc[p] = "copying"
  BY DEF CopyRest, At
<1>2. dir'["to"] = dir["to"]
  BY Unboxed DEF CopyRest, Write, FailClean, fs, TypeOK
<1>3. (pc'[p] \in {"strip2", "unlock"} \/ Fails(p))
  BY Unboxed, GotoProp, FailsProp DEF CopyRest, Write, FailClean, fs
<1> QED BY <1>1, <1>2, <1>3

LEMMA StripInPlaceName ==
  ASSUME IInv, NEW p \in Runs, ~ Sandboxed, StripInPlace(p)
  PROVE  pc[p] = "strip2" /\ (pc'[p] \in {"reopen"} \/ Fails(p)) /\ dir'["to"] = dir["to"]
<1>1. pc[p] = "strip2"
  BY DEF StripInPlace, At
<1>2. dir'["to"] = dir["to"]
  BY Unboxed DEF StripInPlace, Stripped, Write, FailClean, fs, TypeOK
<1>3. (pc'[p] \in {"reopen"} \/ Fails(p))
  BY Unboxed, GotoProp, FailsProp DEF StripInPlace, Stripped, Write, FailClean, fs
<1> QED BY <1>1, <1>2, <1>3

LEMMA ReopenName ==
  ASSUME IInv, NEW p \in Runs, ~ Sandboxed, Reopen(p)
  PROVE  pc[p] = "reopen" /\ (pc'[p] \in {"compare2", "unlock"} \/ Fails(p)) /\ dir'["to"] = dir["to"]
<1>1. pc[p] = "reopen"
  BY DEF Reopen, At
<1>2. dir'["to"] = dir["to"]
  BY Unboxed DEF Reopen, fs, TypeOK
<1>3. (pc'[p] \in {"compare2", "unlock"} \/ Fails(p))
  BY Unboxed, GotoProp, FailsProp DEF Reopen, fs
<1> QED BY <1>1, <1>2, <1>3

LEMMA UnlockName ==
  ASSUME IInv, NEW p \in Runs, ~ Sandboxed, Unlock(p)
  PROVE  pc[p] = "unlock" /\ pc'[p] \in {"unlinkbak", "rename"} /\ dir'["to"] = dir["to"]
<1>1. pc[p] = "unlock"
  BY DEF Unlock, At
<1>2. dir'["to"] = dir["to"]
  BY Unboxed DEF Unlock, fs, TypeOK
<1>3. pc'[p] \in {"unlinkbak", "rename"}
  BY Unboxed, GotoProp, FailsProp DEF Unlock, fs
<1> QED BY <1>1, <1>2, <1>3

LEMMA UnlinkBackupName ==
  ASSUME IInv, NEW p \in Runs, ~ Sandboxed, UnlinkBackup(p)
  PROVE  pc[p] = "unlinkbak" /\ (pc'[p] \in {"linkbak"} \/ Fails(p)) /\ dir'["to"] = dir["to"]
<1>1. pc[p] = "unlinkbak"
  BY DEF UnlinkBackup, At
<1>2. dir'["to"] = dir["to"]
  BY Unboxed DEF UnlinkBackup, BackupFails, fs, TypeOK
<1>3. (pc'[p] \in {"linkbak"} \/ Fails(p))
  BY Unboxed, GotoProp, FailsProp DEF UnlinkBackup, BackupFails, fs
<1> QED BY <1>1, <1>2, <1>3

LEMMA LinkBackupName ==
  ASSUME IInv, NEW p \in Runs, ~ Sandboxed, LinkBackup(p)
  PROVE  pc[p] = "linkbak" /\ (pc'[p] \in {"rename"} \/ Fails(p)) /\ dir'["to"] = dir["to"]
<1>1. pc[p] = "linkbak"
  BY DEF LinkBackup, At
<1>2. dir'["to"] = dir["to"]
  BY Unboxed DEF LinkBackup, BackupFails, fs, TypeOK
<1>3. (pc'[p] \in {"rename"} \/ Fails(p))
  BY Unboxed, GotoProp, FailsProp DEF LinkBackup, BackupFails, fs
<1> QED BY <1>1, <1>2, <1>3

LEMMA LinkUnlockName ==
  ASSUME IInv, NEW p \in Runs, LinkUnlock(p)
  PROVE  pc[p] = "lunlock" /\ pc'[p] \in {"lrename"} /\ dir'["to"] = dir["to"]
<1>1. pc[p] = "lunlock"
  BY DEF LinkUnlock, At
<1>2. dir'["to"] = dir["to"]
  BY Reached DEF LinkUnlock, fs, TypeOK
<1>3. pc'[p] \in {"lrename"}
  BY Reached, GotoProp, FailsProp DEF LinkUnlock, fs
<1> QED BY <1>1, <1>2, <1>3

LEMMA MainKind ==
  ASSUME IInv, NEW p \in Runs, Fine(p), ~ Sandboxed, Main(p)
  PROVE  Quiet(p)
<1>1. pc[p] = "main" /\ (pc'[p] \in {"start"} \/ Fails(p)) /\ dir'["to"] = dir["to"]
  BY MainName
<1>2. pc[p] \in Unseen /\ pc[p] \notin Late
  BY <1>1 DEF Unseen, Late
<1>3. pc'[p] \in Unseen \/ Fails(p)
  BY <1>1 DEF Unseen
<1> QED BY <1>1, <1>2, <1>3, UnseenQuiet

LEMMA LstatKind ==
  ASSUME IInv, NEW p \in Runs, Fine(p), ~ Sandboxed, Lstat(p)
  PROVE  Quiet(p)
<1>1. pc[p] = "start" /\ pc'[p] \in {"link", "symlink", "compare", "temp"} /\ dir'["to"] = dir["to"]
  BY LstatName
<1>2. pc[p] \in Unseen /\ pc[p] \notin Late
  BY <1>1 DEF Unseen, Late
<1>3. pc'[p] \in Unseen \/ Fails(p)
  BY <1>1 DEF Unseen
<1> QED BY <1>1, <1>2, <1>3, UnseenQuiet

LEMMA StartFailsKind ==
  ASSUME IInv, NEW p \in Runs, Fine(p), ~ Sandboxed, StartFails(p)
  PROVE  Quiet(p)
<1>1. pc[p] = "start" /\ Fails(p) /\ dir'["to"] = dir["to"]
  BY StartFailsName
<1>2. pc[p] \in Unseen /\ pc[p] \notin Late
  BY <1>1 DEF Unseen, Late
<1>3. pc'[p] \in Unseen \/ Fails(p)
  BY <1>1 DEF Unseen
<1> QED BY <1>1, <1>2, <1>3, UnseenQuiet

LEMMA TempKind ==
  ASSUME IInv, NEW p \in Runs, Fine(p), ~ Sandboxed, Temp(p)
  PROVE  Quiet(p)
<1>1. pc[p] = "temp" /\ pc'[p] \in {"strip2", "unlock", "strip", "copy"} /\ dir'["to"] = dir["to"]
  BY TempName
<1>2. pc[p] \in Unseen /\ pc[p] \notin Late
  BY <1>1 DEF Unseen, Late
<1>3. pc'[p] \in Unseen \/ Fails(p)
  BY <1>1 DEF Unseen
<1> QED BY <1>1, <1>2, <1>3, UnseenQuiet

LEMMA TempFailsKind ==
  ASSUME IInv, NEW p \in Runs, Fine(p), ~ Sandboxed, TempFails(p)
  PROVE  Quiet(p)
<1>1. pc[p] = "temp" /\ Fails(p) /\ dir'["to"] = dir["to"]
  BY TempFailsName
<1>2. pc[p] \in Unseen /\ pc[p] \notin Late
  BY <1>1 DEF Unseen, Late
<1>3. pc'[p] \in Unseen \/ Fails(p)
  BY <1>1 DEF Unseen
<1> QED BY <1>1, <1>2, <1>3, UnseenQuiet

LEMMA StripKind ==
  ASSUME IInv, NEW p \in Runs, Fine(p), ~ Sandboxed, Strip(p)
  PROVE  Quiet(p)
<1>1. pc[p] = "strip" /\ (pc'[p] \in {"reopen", "copy"} \/ Fails(p)) /\ dir'["to"] = dir["to"]
  BY StripName
<1>2. pc[p] \in Unseen /\ pc[p] \notin Late
  BY <1>1 DEF Unseen, Late
<1>3. pc'[p] \in Unseen \/ Fails(p)
  BY <1>1 DEF Unseen
<1> QED BY <1>1, <1>2, <1>3, UnseenQuiet

LEMMA CopySomeKind ==
  ASSUME IInv, NEW p \in Runs, Fine(p), ~ Sandboxed, CopySome(p)
  PROVE  Quiet(p)
<1>1. pc[p] = "copy" /\ (pc'[p] \in {"copying"} \/ Fails(p)) /\ dir'["to"] = dir["to"]
  BY CopySomeName
<1>2. pc[p] \in Unseen /\ pc[p] \notin Late
  BY <1>1 DEF Unseen, Late
<1>3. pc'[p] \in Unseen \/ Fails(p)
  BY <1>1 DEF Unseen
<1> QED BY <1>1, <1>2, <1>3, UnseenQuiet

LEMMA CopyRestKind ==
  ASSUME IInv, NEW p \in Runs, Fine(p), ~ Sandboxed, CopyRest(p)
  PROVE  Quiet(p)
<1>1. pc[p] = "copying" /\ (pc'[p] \in {"strip2", "unlock"} \/ Fails(p)) /\ dir'["to"] = dir["to"]
  BY CopyRestName
<1>2. pc[p] \in Unseen /\ pc[p] \notin Late
  BY <1>1 DEF Unseen, Late
<1>3. pc'[p] \in Unseen \/ Fails(p)
  BY <1>1 DEF Unseen
<1> QED BY <1>1, <1>2, <1>3, UnseenQuiet

LEMMA StripInPlaceKind ==
  ASSUME IInv, NEW p \in Runs, Fine(p), ~ Sandboxed, StripInPlace(p)
  PROVE  Quiet(p)
<1>1. pc[p] = "strip2" /\ (pc'[p] \in {"reopen"} \/ Fails(p)) /\ dir'["to"] = dir["to"]
  BY StripInPlaceName
<1>2. pc[p] \in Unseen /\ pc[p] \notin Late
  BY <1>1 DEF Unseen, Late
<1>3. pc'[p] \in Unseen \/ Fails(p)
  BY <1>1 DEF Unseen
<1> QED BY <1>1, <1>2, <1>3, UnseenQuiet

LEMMA ReopenKind ==
  ASSUME IInv, NEW p \in Runs, Fine(p), ~ Sandboxed, Reopen(p)
  PROVE  Quiet(p)
<1>1. pc[p] = "reopen" /\ (pc'[p] \in {"compare2", "unlock"} \/ Fails(p)) /\ dir'["to"] = dir["to"]
  BY ReopenName
<1>2. pc[p] \in Unseen /\ pc[p] \notin Late
  BY <1>1 DEF Unseen, Late
<1>3. pc'[p] \in Unseen \/ Fails(p)
  BY <1>1 DEF Unseen
<1> QED BY <1>1, <1>2, <1>3, UnseenQuiet

LEMMA UnlockKind ==
  ASSUME IInv, NEW p \in Runs, Fine(p), ~ Sandboxed, Unlock(p)
  PROVE  Quiet(p)
<1>1. pc[p] = "unlock" /\ pc'[p] \in {"unlinkbak", "rename"} /\ dir'["to"] = dir["to"]
  BY UnlockName
<1>2. pc[p] \in Unseen /\ pc[p] \notin Late
  BY <1>1 DEF Unseen, Late
<1>3. pc'[p] \in Unseen \/ Fails(p)
  BY <1>1 DEF Unseen
<1> QED BY <1>1, <1>2, <1>3, UnseenQuiet

LEMMA UnlinkBackupKind ==
  ASSUME IInv, NEW p \in Runs, Fine(p), ~ Sandboxed, UnlinkBackup(p)
  PROVE  Quiet(p)
<1>1. pc[p] = "unlinkbak" /\ (pc'[p] \in {"linkbak"} \/ Fails(p)) /\ dir'["to"] = dir["to"]
  BY UnlinkBackupName
<1>2. pc[p] \in Unseen /\ pc[p] \notin Late
  BY <1>1 DEF Unseen, Late
<1>3. pc'[p] \in Unseen \/ Fails(p)
  BY <1>1 DEF Unseen
<1> QED BY <1>1, <1>2, <1>3, UnseenQuiet

LEMMA LinkBackupKind ==
  ASSUME IInv, NEW p \in Runs, Fine(p), ~ Sandboxed, LinkBackup(p)
  PROVE  Quiet(p)
<1>1. pc[p] = "linkbak" /\ (pc'[p] \in {"rename"} \/ Fails(p)) /\ dir'["to"] = dir["to"]
  BY LinkBackupName
<1>2. pc[p] \in Unseen /\ pc[p] \notin Late
  BY <1>1 DEF Unseen, Late
<1>3. pc'[p] \in Unseen \/ Fails(p)
  BY <1>1 DEF Unseen
<1> QED BY <1>1, <1>2, <1>3, UnseenQuiet

LEMMA LinkUnlockKind ==
  ASSUME IInv, NEW p \in Runs, Fine(p), ~ Sandboxed, LinkUnlock(p)
  PROVE  Quiet(p)
<1>1. pc[p] = "lunlock" /\ pc'[p] \in {"lrename"} /\ dir'["to"] = dir["to"]
  BY LinkUnlockName
<1>2. pc[p] \in Unseen /\ pc[p] \notin Late
  BY <1>1 DEF Unseen, Late
<1>3. pc'[p] \in Unseen \/ Fails(p)
  BY <1>1 DEF Unseen
<1> QED BY <1>1, <1>2, <1>3, UnseenQuiet

LEMMA CompareName ==
  ASSUME IInv, NEW p \in Runs, Compare(p)
  PROVE  /\ pc[p] = "compare" /\ dir' = dir /\ file' = file
         /\ \/ Fails(p)
            \/ pc'[p] = "temp" /\ l'[p] = l[p]
            \/ /\ pc'[p] = "fstat" /\ dir["to"] # None /\ file[Leads].data = Plain(p)
               /\ l'[p] = [l[p] EXCEPT !.match = TRUE, !.fd = Leads]
<1>1. pc[p] = "compare" /\ dir' = dir /\ file' = file
  BY DEF Compare, At, fs
<1>2. TypeOK
  BY DEF IInv
<1>3. CASE Fail(p)
  BY <1>1, <1>2, <1>3, FailsProp
<1>4. CASE /\ dir["to"] # None /\ file[Leads].data = Plain(p) /\ Goto(p, "fstat")
           /\ Set(p, [l[p] EXCEPT !.match = TRUE, !.fd = Leads])
  BY <1>1, <1>2, <1>4, GotoProp, SetProp
<1>5. CASE Goto(p, "temp") /\ l' = l
  BY <1>1, <1>2, <1>5, GotoProp
<1> QED BY <1>3, <1>4, <1>5 DEF Compare

LEMMA CompareStrippedName ==
  ASSUME IInv, NEW p \in Runs, ~ Sandboxed, CompareStripped(p)
  PROVE  /\ pc[p] = "compare2" /\ dir'["to"] = dir["to"] /\ file' = file
         /\ \/ Fails(p)
            \/ /\ pc'[p] = "unlock" /\ dir' = dir
               /\ l'[p] = [l[p] EXCEPT !.fd = Leads, !.match = FALSE]
            \/ /\ pc'[p] = "fstat" /\ dir["to"] # None
               /\ file[Leads].data = file[l[p].fd].data
               /\ l'[p] = [l[p] EXCEPT !.fd = Leads, !.match = TRUE]
<1>1. pc[p] = "compare2" /\ file' = file
  BY DEF CompareStripped, At, fs, FailClean
<1>2. TypeOK
  BY DEF IInv
<1>3. dir'["to"] = dir["to"]
  BY Unboxed DEF CompareStripped, FailClean, fs, TypeOK
<1>4. CASE Fail(p)
  BY <1>1, <1>2, <1>3, <1>4, FailsProp
<1>5. CASE /\ dir["to"] # None /\ file[Leads].data = file[l[p].fd].data /\ Goto(p, "fstat")
           /\ Set(p, [l[p] EXCEPT !.fd = Leads, !.match = TRUE])
  BY <1>1, <1>2, <1>3, <1>5, GotoProp, SetProp
<1>6. CASE /\ Goto(p, "unlock") /\ dir' = dir
           /\ Set(p, [l[p] EXCEPT !.fd = Leads, !.match = FALSE])
  BY <1>1, <1>2, <1>3, <1>6, GotoProp, SetProp
<1> QED BY <1>4, <1>5, <1>6 DEF CompareStripped, FailClean

LEMMA RenameName ==
  ASSUME IInv, NEW p \in Runs, ~ Sandboxed, Rename(p)
  PROVE  /\ pc[p] = "rename" /\ file' = file
         /\ \/ Fails(p) /\ dir'["to"] = dir["to"]
            \/ pc'[p] = "reopento" /\ dir'["to"] = dir[Tmp(p)] /\ l' = l
<1>1. pc[p] = "rename" /\ file' = file
  BY DEF Rename, At, FailClean
<1>2. CASE FailClean(p)
  BY <1>1, <1>2, Unboxed, FailsProp DEF FailClean, TypeOK
<1>3. CASE /\ dir' = [dir EXCEPT !["to"] = dir[Tmp(p)], ![Tmp(p)] = None]
           /\ Goto(p, "reopento") /\ l' = l
  BY <1>1, <1>3, Unboxed, GotoProp DEF TypeOK
<1> QED BY <1>2, <1>3 DEF Rename

LEMMA ReopenToName ==
  ASSUME IInv, NEW p \in Runs, ReopenTo(p)
  PROVE  /\ pc[p] = "reopento" /\ dir' = dir /\ file' = file
         /\ \/ Fails(p)
            \/ pc'[p] = "fstat" /\ dir["to"] # None /\ l'[p] = [l[p] EXCEPT !.fd = Leads]
<1>1. TypeOK /\ pc[p] = "reopento" /\ dir' = dir /\ file' = file
  BY DEF ReopenTo, At, fs, IInv
<1>2. CASE Fail(p)
  BY <1>1, <1>2, FailsProp
<1>3. CASE dir["to"] # None /\ Set(p, [l[p] EXCEPT !.fd = Leads]) /\ Goto(p, "fstat")
  BY <1>1, <1>3, GotoProp, SetProp
<1> QED BY <1>2, <1>3 DEF ReopenTo

(* The attributes: what fails takes the target's name away. *)
Removed(p) == Fails(p) /\ dir' = [dir EXCEPT !["to"] = None] /\ file' = file
LEMMA FailUnlinkName ==
  ASSUME TypeOK, NEW p \in Runs, FailUnlink(p)
  PROVE  Removed(p)
BY FailsProp DEF Removed, FailUnlink

LEMMA FstatName ==
  ASSUME IInv, NEW p \in Runs, Fstat(p)
  PROVE  /\ pc[p] = "fstat"
         /\ \/ Removed(p)
            \/ /\ pc'[p] = "chown" /\ dir' = dir /\ file' = file
               /\ l'[p] = [l[p] EXCEPT !.sb = StatOf(l[p].fd)]
<1>1. TypeOK /\ pc[p] = "fstat"
  BY DEF Fstat, At, IInv
<1>2. CASE Set(p, [l[p] EXCEPT !.sb = StatOf(l[p].fd)]) /\ Goto(p, "chown") /\ UNCHANGED fs
  BY <1>1, <1>2, GotoProp, SetProp DEF fs
<1> QED BY <1>1, <1>2, FailUnlinkName DEF Fstat

LEMMA ChownName ==
  ASSUME IInv, NEW p \in Runs, Chown(p)
  PROVE  /\ pc[p] = "chown"
         /\ \/ Removed(p)
            \/ /\ pc'[p] = "chmod" /\ dir' = dir /\ l' = l
               /\ \E off, drop \in BOOLEAN :
                    file' = [file EXCEPT ![l[p].fd] = Chowned(p, off, drop)]
<1>1. TypeOK /\ pc[p] = "chown"
  BY DEF Chown, At, IInv
<1>2. CASE /\ Goto(p, "chmod") /\ UNCHANGED <<dir, l>>
           /\ \E off, drop \in BOOLEAN :
                file' = [file EXCEPT ![l[p].fd] = Chowned(p, off, drop)]
  BY <1>1, <1>2, GotoProp
<1> QED BY <1>1, <1>2, FailUnlinkName DEF Chown

LEMMA ChmodName ==
  ASSUME IInv, NEW p \in Runs, Chmod(p)
  PROVE  /\ pc[p] = "chmod"
         /\ \/ Removed(p)
            \/ /\ pc'[p] = "chflags" /\ dir' = dir /\ l' = l
               /\ file' = IF Modes(p)
                          THEN [file EXCEPT ![l[p].fd].mode =
                                  IF Has(p, "U") THEN "plain" ELSE req[p].mode]
                          ELSE file
<1>1. TypeOK /\ pc[p] = "chmod"
  BY DEF Chmod, At, IInv
<1>2. CASE /\ Goto(p, "chflags") /\ UNCHANGED <<dir, l>>
           /\ file' = IF Modes(p)
                      THEN [file EXCEPT ![l[p].fd].mode =
                              IF Has(p, "U") THEN "plain" ELSE req[p].mode]
                      ELSE file
  BY <1>1, <1>2, GotoProp
<1> QED BY <1>1, <1>2, FailUnlinkName DEF Chmod

LEMMA ChflagsName ==
  ASSUME IInv, NEW p \in Runs, Chflags(p)
  PROVE  /\ pc[p] = "chflags"
         /\ \/ Removed(p)
            \/ /\ pc'[p] = "done" /\ dir' = dir /\ l' = l
               /\ \/ file' = file
                  \/ file' = [file EXCEPT ![l[p].fd].imm = Has(p, "f") \/ Has(p, "simm")]
<1>1. TypeOK /\ pc[p] = "chflags"
  BY DEF Chflags, At, IInv
<1>2. CASE /\ Goto(p, "done") /\ UNCHANGED <<dir, l>>
           /\ \/ file' = file
              \/ file' = [file EXCEPT ![l[p].fd].imm = Has(p, "f") \/ Has(p, "simm")]
  BY <1>1, <1>2, GotoProp
<1> QED BY <1>1, <1>2, FailUnlinkName DEF Chflags, fs

(* The links. *)
Linked(p, i) ==
  \/ pc'[p] = "rmdir" /\ l[p].target /\ dir'["to"] = dir["to"]
  \/ pc'[p] = "done" /\ ~ l[p].target /\ dir["to"] = None /\ dir'["to"] = i
LEMMA MakeLinkName ==
  ASSUME IInv, NEW p \in Runs, NEW i \in Inode, MakeLink(p, i)
  PROVE  Linked(p, i)
BY Reached, GotoProp DEF MakeLink, Linked, TypeOK

LEMMA HardLinkName ==
  ASSUME IInv, NEW p \in Runs, HardLink(p)
  PROVE  /\ pc[p] = "link" /\ file' = file
         /\ \/ Linked(p, Src) /\ l' = l
            \/ pc'[p] = "symlink" /\ dir' = dir /\ l' = l
            \/ Fails(p) /\ dir' = dir
<1>1. TypeOK /\ pc[p] = "link" /\ file' = file /\ Src \in Inode
  BY InodeProp DEF HardLink, At, IInv
<1> QED BY <1>1, MakeLinkName, FailsProp, GotoProp DEF HardLink

LEMMA SymLinkName ==
  ASSUME IInv, NEW p \in Runs, SymLink(p)
  PROVE  /\ pc[p] = "symlink" /\ file' = file
         /\ \/ Linked(p, SymOf(p)) /\ l' = l
            \/ Fails(p) /\ dir' = dir
<1>1. TypeOK /\ pc[p] = "symlink" /\ file' = file /\ SymOf(p) \in Inode
  BY InodeProp DEF SymLink, At, IInv, SymOf
<1> QED BY <1>1, MakeLinkName, FailsProp, GotoProp DEF SymLink, SymOf

LEMMA LinkRmdirName ==
  ASSUME IInv, NEW p \in Runs, LinkRmdir(p)
  PROVE  /\ pc[p] = "rmdir" /\ file' = file
         /\ \/ Fails(p) /\ dir'["to"] = dir["to"]
            \/ /\ pc'[p] = "lunlock" /\ l' = l
               /\ dir'["to"] = IF dir["to"] = Dir THEN None ELSE dir["to"]
<1>1. TypeOK /\ pc[p] = "rmdir" /\ file' = file
  BY DEF LinkRmdir, At, IInv, fs, FailClean
<1>2. CASE FailClean(p)
  BY <1>1, <1>2, Reached, FailsProp DEF FailClean, TypeOK, LinkCall
<1>3. CASE Goto(p, "lunlock") /\ l' = l
  BY <1>1, <1>3, Reached, GotoProp DEF LinkRmdir, TypeOK, fs, FailClean, Fail, Goto
<1> QED BY <1>2, <1>3 DEF LinkRmdir

LEMMA LinkRenameName ==
  ASSUME IInv, NEW p \in Runs, LinkRename(p)
  PROVE  /\ pc[p] = "lrename" /\ file' = file
         /\ \/ Fails(p) /\ dir'["to"] = dir["to"]
            \/ pc'[p] = "lunlink" /\ l' = l /\ dir'["to"] = dir[Tmp(p)]
<1>1. TypeOK /\ pc[p] = "lrename" /\ file' = file
  BY DEF LinkRename, At, IInv, FailClean
<1>2. CASE FailClean(p)
  BY <1>1, <1>2, Reached, FailsProp DEF FailClean, TypeOK, LinkCall
<1>3. CASE /\ Goto(p, "lunlink") /\ l' = l
           /\ dir' = IF dir["to"] = dir[Tmp(p)] THEN dir
                     ELSE [dir EXCEPT !["to"] = dir[Tmp(p)], ![Tmp(p)] = None]
  BY <1>1, <1>3, Reached, GotoProp DEF TypeOK
<1> QED BY <1>2, <1>3 DEF LinkRename

LEMMA LinkUnlinkName ==
  ASSUME IInv, NEW p \in Runs, LinkUnlink(p)
  PROVE  /\ pc[p] = "lunlink" /\ file' = file /\ dir'["to"] = dir["to"] /\ l' = l
         /\ pc'[p] = "done"
BY Reached, GotoProp DEF LinkUnlink, TypeOK, At

(* The kinds of the other steps. *)
LEMMA StageFacts ==
  ASSUME NEW p \in Runs, Fine(p), ~ Sandboxed
  PROVE  /\ ~ Sandboxed' /\ ~ Has(p, "sandbox")
         /\ pc[p] \in Unseen => Stage(p) = "begun"
         /\ pc'[p] \in Late \cup {"lunlink", "done"} => Stage(p)' = "put"
         /\ pc[p] \in Late \cup {"lunlink"} => Stage(p) = "put"
         /\ Fails(p) /\ pc[p] \in Late => Stage(p)' = "over"
<1>1. ~ Sandboxed' /\ ~ Has(p, "sandbox")
  BY DEF Fine, Alters, Sandboxed, Has, Runs
<1>2. Late \cap Unseen = {} /\ "failed" \notin Late
  BY DEF Late, Unseen
<1>3. ASSUME Fails(p), pc[p] \in Late PROVE Stage(p)' = "over"
  <2>1. pc'[p] = "failed" /\ l'[p].why = pc[p]
    BY <1>3, FailsProp DEF Fails, Fine, TypeOK, Alters, Runs
  <2> QED BY <1>1, <1>2, <1>3, <2>1 DEF Stage, Failed, Late
<1> QED BY <1>1, <1>2, <1>3 DEF Stage, Failed, Unseen, Late

LEMMA ShownOf ==
  ASSUME IInv, NEW p \in Runs, Fine(p), ~ Sandboxed,
         NEW i \in Inode \ {Dir}, dir'["to"] = i
  PROVE  Shown' = IF i \in {SymOf(q) : q \in Proc} THEN file'[Src].data ELSE file'[i].data
<1>1. ~ Sandboxed'
  BY StageFacts
<1>2. i # None
  BY InodeProp
<1> QED BY <1>1, <1>2 DEF Shown, Leads, SymOf

(* A reader finds all the data when the new file gets the name. *)
LEMMA FilePut ==
  ASSUME IInv, NEW p \in Runs, Fine(p), ~ Sandboxed, pc[p] \in Unseen,
         req[p].link = "none", dir'["to"] = dir[Tmp(p)], dir[Tmp(p)] \in Files(p),
         file'[dir[Tmp(p)]].data = Want(p),
         pc'[p] \in Late
  PROVE  Puts(p)
<1>1. p \in Proc
  BY DEF IInv
<1>2. dir[Tmp(p)] \in Inode \ {Dir} /\ dir[Tmp(p)] \notin {SymOf(q) : q \in Proc}
  BY <1>1, Distinct, InodeProp DEF Files, NewOf, StripOf, SymOf
<1>3. Shown' = Want(p)
  BY <1>2, ShownOf
<1> QED BY <1>3, StageFacts DEF Puts, Offer

(* So does one that finds the old file kept. *)
LEMMA OldKept ==
  ASSUME IInv, NEW p \in Runs, Fine(p), ~ Sandboxed, pc[p] \in {"compare", "compare2"},
         dir'["to"] = dir["to"], file' = file, dir["to"] # None,
         file[Leads].data = Want(p), pc'[p] = "fstat"
  PROVE  Puts(p)
<1>1. req[p].link = "none" /\ dir["to"] # Dir
  BY DEF IInv, ProcInv, Route, FileCall, Filled
<1>2. Shown' = file'[Leads'].data
  BY <1>1, StageFacts, Distinct DEF Shown
<1>3. Leads' = Leads
  BY DEF Leads
<1>4. pc[p] \in Unseen /\ pc'[p] \in Late
  BY DEF Unseen, Late
<1>5. Stage(p) = "begun" /\ Stage(p)' = "put"
  BY <1>4, StageFacts
<1> QED BY <1>1, <1>2, <1>3, <1>5 DEF Puts, Offer

LEMMA LinkPut ==
  ASSUME IInv, NEW p \in Runs, Fine(p), ~ Sandboxed, pc[p] \in Unseen,
         req[p].link # "none", dir'["to"] \in {Src, SymOf(p)},
         pc'[p] \in {"lunlink", "done"}
  PROVE  Puts(p)
<1>1. p \in Proc /\ file'[Src].data = SrcAttr.data
  BY DEF IInv, Fine, Alters
<1>2. {Src, SymOf(p)} \subseteq Inode \ {Dir} /\ Src \notin {SymOf(q) : q \in Proc}
  BY <1>1, Distinct, InodeProp DEF SymOf
<1>3. Shown' = SrcAttr.data
  BY <1>1, <1>2, ShownOf
<1> QED BY <1>3, StageFacts DEF Puts, Offer

LEMMA LateQuiet ==
  ASSUME IInv, NEW p \in Runs, Fine(p), ~ Sandboxed,
         pc[p] \in Late \cup {"lunlink"}, pc'[p] \in Late \cup {"done"},
         dir'["to"] = dir["to"], \A i \in Inode : file'[i].data = file[i].data
  PROVE  Quiet(p)
BY ShownKept, StageFacts DEF Quiet

LEMMA LateGives ==
  ASSUME IInv, NEW p \in Runs, Fine(p), ~ Sandboxed, pc[p] \in Late, Removed(p)
  PROVE  Gives(p)
<1>1. dir'["to"] = None
  BY DEF Removed, IInv, TypeOK, Name
<1>2. Shown' = Nothing
  BY <1>1, StageFacts DEF Shown
<1> QED BY <1>2, StageFacts DEF Gives, Removed

LEMMA CompareKind ==
  ASSUME IInv, NEW p \in Runs, Fine(p), ~ Sandboxed, Compare(p)
  PROVE  Quiet(p) \/ Puts(p)
<1>1. pc[p] = "compare" /\ dir' = dir /\ file' = file
  BY CompareName
<1>2. pc[p] \in Unseen /\ {"temp"} \subseteq Unseen
  BY <1>1 DEF Unseen
<1>3. CASE Fails(p) \/ pc'[p] = "temp"
  BY <1>1, <1>2, <1>3, UnseenQuiet
<1>4. CASE pc'[p] = "fstat" /\ dir["to"] # None /\ file[Leads].data = Plain(p)
  <2>1. Want(p) = Plain(p)
    BY <1>1 DEF IInv, ProcInv, Route, Want
  <2> QED BY <1>1, <1>4, <2>1, OldKept
<1> QED BY <1>3, <1>4, CompareName

LEMMA CompareStrippedKind ==
  ASSUME IInv, NEW p \in Runs, Fine(p), ~ Sandboxed, CompareStripped(p)
  PROVE  Quiet(p) \/ Puts(p)
<1>1. pc[p] = "compare2" /\ dir'["to"] = dir["to"] /\ file' = file
  BY CompareStrippedName
<1>2. pc[p] \in Unseen /\ {"unlock"} \subseteq Unseen
  BY <1>1 DEF Unseen
<1>3. CASE Fails(p) \/ pc'[p] = "unlock"
  BY <1>1, <1>2, <1>3, UnseenQuiet
<1>4. CASE pc'[p] = "fstat" /\ dir["to"] # None /\ file[Leads].data = file[l[p].fd].data
  <2>1. file[l[p].fd].data = Want(p)
    BY <1>1 DEF IInv, ProcInv, Temporary, Filled
  <2> QED BY <1>1, <1>4, <2>1, OldKept
<1> QED BY <1>3, <1>4, CompareStrippedName

LEMMA RenameKind ==
  ASSUME IInv, NEW p \in Runs, Fine(p), ~ Sandboxed, Rename(p)
  PROVE  Quiet(p) \/ Puts(p)
<1>1. pc[p] = "rename" /\ file' = file
  BY RenameName
<1>2. pc[p] \in Unseen
  BY <1>1 DEF Unseen
<1>3. CASE Fails(p) /\ dir'["to"] = dir["to"]
  BY <1>1, <1>2, <1>3, UnseenQuiet
<1>4. CASE pc'[p] = "reopento" /\ dir'["to"] = dir[Tmp(p)]
  <2>1. dir[Tmp(p)] \in Files(p) /\ file[dir[Tmp(p)]].data = Want(p) /\ req[p].link = "none"
    BY <1>1 DEF IInv, ProcInv, Temporary, Route, Filled, FileCall, Temp0
  <2> QED BY <1>1, <1>2, <1>4, <2>1, FilePut DEF Late
<1> QED BY <1>3, <1>4, RenameName

LEMMA ReopenToKind ==
  ASSUME IInv, NEW p \in Runs, Fine(p), ~ Sandboxed, ReopenTo(p)
  PROVE  Quiet(p) \/ Gives(p)
<1>1. pc[p] = "reopento" /\ dir' = dir /\ file' = file
  BY ReopenToName
<1>2. CASE Fails(p)
  <2>1. Shown' = Shown
    BY <1>1, ShownKept
  <2> QED BY <1>1, <1>2, <2>1, StageFacts DEF Gives, Late
<1>3. CASE pc'[p] = "fstat"
  BY <1>1, <1>3, LateQuiet DEF Late
<1> QED BY <1>2, <1>3, ReopenToName

LEMMA AttrKind ==
  ASSUME IInv, NEW p \in Runs, Fine(p), ~ Sandboxed,
         Fstat(p) \/ Chown(p) \/ Chmod(p) \/ Chflags(p)
  PROVE  Quiet(p) \/ Gives(p)
<1>1. TypeOK /\ pc[p] \in Late \ {"reopento"}
  BY FstatName, ChownName, ChmodName, ChflagsName DEF Late, IInv
<1>2. l[p].fd # None
  BY <1>1 DEF IInv, ProcInv, Working
<1>3. CASE Removed(p)
  BY <1>1, <1>3, LateGives
<1>4. ASSUME ~ Removed(p) PROVE dir' = dir /\ pc'[p] \in Late \cup {"done"}
  BY <1>4, FstatName, ChownName, ChmodName, ChflagsName DEF Late
<1>5. ASSUME ~ Removed(p) PROVE \A i \in Inode : file'[i].data = file[i].data
  <2>1. CASE Fstat(p)
    BY <1>5, <2>1, FstatName
  <2>2. CASE Chown(p)
    BY <1>1, <1>2, <1>5, <2>2, ChownName, ChownedProp
  <2>3. CASE Chmod(p)
    BY <1>1, <1>2, <1>5, <2>3, ChmodName, ModeProp
  <2>4. CASE Chflags(p)
    BY <1>1, <1>2, <1>5, <2>4, ChflagsName, ImmProp
  <2> QED BY <2>1, <2>2, <2>3, <2>4
<1> QED BY <1>1, <1>3, <1>4, <1>5, LateQuiet

LEMMA MakeLinkKind ==
  ASSUME IInv, NEW p \in Runs, Fine(p), ~ Sandboxed, HardLink(p) \/ SymLink(p)
  PROVE  Quiet(p) \/ Puts(p)
<1>1. pc[p] \in {"link", "symlink"} /\ file' = file
  BY HardLinkName, SymLinkName
<1>2. pc[p] \in Unseen /\ req[p].link # "none" /\ {"rmdir", "symlink"} \subseteq Unseen
  BY <1>1 DEF Unseen, IInv, ProcInv, Route, LinkCall
<1>3. CASE Linked(p, Src) \/ Linked(p, SymOf(p))
  BY <1>2, <1>3, UnseenQuiet, LinkPut DEF Linked
<1>4. CASE (pc'[p] = "symlink" /\ dir' = dir) \/ (Fails(p) /\ dir' = dir)
  BY <1>2, <1>4, UnseenQuiet
<1> QED BY <1>3, <1>4, HardLinkName, SymLinkName

LEMMA LinkRmdirKind ==
  ASSUME IInv, NEW p \in Runs, Fine(p), ~ Sandboxed, LinkRmdir(p)
  PROVE  Quiet(p)
<1>1. pc[p] \in Unseen /\ {"lunlock"} \subseteq Unseen
  BY LinkRmdirName DEF Unseen
<1>2. dir'["to"] = dir["to"] \/ {dir["to"], dir'["to"]} \subseteq {None, Dir}
  BY LinkRmdirName
<1>3. pc'[p] \in Unseen \/ Fails(p)
  BY <1>1, LinkRmdirName
<1> QED BY <1>1, <1>2, <1>3, UnseenQuiet

LEMMA LinkRenameKind ==
  ASSUME IInv, NEW p \in Runs, Fine(p), ~ Sandboxed, LinkRename(p)
  PROVE  Quiet(p) \/ Puts(p)
<1>1. pc[p] = "lrename" /\ pc[p] \in Unseen
  BY LinkRenameName DEF Unseen
<1>2. CASE Fails(p) /\ dir'["to"] = dir["to"]
  BY <1>1, <1>2, UnseenQuiet
<1>3. CASE pc'[p] = "lunlink" /\ dir'["to"] = dir[Tmp(p)]
  <2>1. dir[Tmp(p)] \in {Src, SymOf(p)} /\ req[p].link # "none"
    BY <1>1 DEF IInv, ProcInv, Temporary, Route, LinkCall, Temp0
  <2> QED BY <1>1, <1>3, <2>1, LinkPut
<1> QED BY <1>2, <1>3, LinkRenameName

LEMMA LinkUnlinkKind ==
  ASSUME IInv, NEW p \in Runs, Fine(p), ~ Sandboxed, LinkUnlink(p)
  PROVE  Quiet(p)
BY LinkUnlinkName, LateQuiet

LEMMA DirectNever ==
  ASSUME IInv, NEW p \in Runs, ~ Sandboxed, Direct(p) \/ DirectOpen(p)
  PROVE  FALSE
BY Unboxed DEF Direct, DirectOpen, Route, At, ProcInv

LEMMA StepKind ==
  ASSUME IInv, NEW p \in Runs, Fine(p), ~ Sandboxed,
         \/ Main(p) \/ Lstat(p) \/ StartFails(p) \/ Compare(p) \/ Temp(p) \/ TempFails(p)
         \/ Direct(p) \/ DirectOpen(p) \/ Strip(p) \/ CopySome(p) \/ CopyRest(p)
         \/ StripInPlace(p) \/ Reopen(p) \/ CompareStripped(p)
         \/ Unlock(p) \/ UnlinkBackup(p) \/ LinkBackup(p) \/ Rename(p) \/ ReopenTo(p)
         \/ Fstat(p) \/ Chown(p) \/ Chmod(p) \/ Chflags(p)
         \/ HardLink(p) \/ SymLink(p) \/ LinkRmdir(p) \/ LinkUnlock(p)
         \/ LinkRename(p) \/ LinkUnlink(p)
  PROVE  Quiet(p) \/ Puts(p) \/ Gives(p)
<1>1. CASE Main(p)
  BY <1>1, MainKind
<1>2. CASE Lstat(p)
  BY <1>2, LstatKind
<1>3. CASE StartFails(p)
  BY <1>3, StartFailsKind
<1>4. CASE Temp(p)
  BY <1>4, TempKind
<1>5. CASE TempFails(p)
  BY <1>5, TempFailsKind
<1>6. CASE Strip(p)
  BY <1>6, StripKind
<1>7. CASE CopySome(p)
  BY <1>7, CopySomeKind
<1>8. CASE CopyRest(p)
  BY <1>8, CopyRestKind
<1>9. CASE StripInPlace(p)
  BY <1>9, StripInPlaceKind
<1>10. CASE Reopen(p)
  BY <1>10, ReopenKind
<1>11. CASE Unlock(p)
  BY <1>11, UnlockKind
<1>12. CASE UnlinkBackup(p)
  BY <1>12, UnlinkBackupKind
<1>13. CASE LinkBackup(p)
  BY <1>13, LinkBackupKind
<1>14. CASE LinkUnlock(p)
  BY <1>14, LinkUnlockKind
<1>15. CASE LinkRmdir(p)
  BY <1>15, LinkRmdirKind
<1>16. CASE LinkUnlink(p)
  BY <1>16, LinkUnlinkKind
<1>17. CASE Compare(p)
  BY <1>17, CompareKind
<1>18. CASE CompareStripped(p)
  BY <1>18, CompareStrippedKind
<1>19. CASE Rename(p)
  BY <1>19, RenameKind
<1>20. CASE LinkRename(p)
  BY <1>20, LinkRenameKind
<1>21. CASE ReopenTo(p)
  BY <1>21, ReopenToKind
<1>22. CASE Fstat(p) \/ Chown(p) \/ Chmod(p) \/ Chflags(p)
  BY <1>22, AttrKind
<1>23. CASE HardLink(p) \/ SymLink(p)
  BY <1>23, MakeLinkKind
<1>24. CASE Direct(p) \/ DirectOpen(p)
  BY <1>24, DirectNever
<1> QED BY <1>1, <1>2, <1>3, <1>4, <1>5, <1>6, <1>7, <1>8, <1>9, <1>10, <1>11, <1>12, <1>13, <1>14, <1>15, <1>16, <1>17, <1>18, <1>19, <1>20, <1>21, <1>22, <1>23, <1>24

(* Outside the sandbox whoever opens the target's name finds the old file or
   all of a new one: every step of every install is one of Replace's or not
   seen, for any number of installs of one name and whatever fails.          *)
THEOREM Replacing == Spec => Atomic!Spec
<1>1. Init => Atomic!Init
  BY DEF Init, Atomic!Init, Stage, Late, Failed, Runs
<1>2. IInv /\ [Next]_vars => [Atomic!Next]_(Atomic!vars)
  <2> SUFFICES ASSUME IInv, [Next]_vars PROVE [Atomic!Next]_(Atomic!vars)
    OBVIOUS
  <2>1. CASE UNCHANGED vars
    BY <2>1 DEF vars, Shown, Offer, Stage, Sandboxed, Leads, Has, Runs, Want, Plain, Failed,
       Atomic!vars
  <2>2. ASSUME NEW p \in Runs, Fine(p), Quiet(p) \/ Puts(p) \/ Gives(p)
        PROVE  [Atomic!Next]_(Atomic!vars)
    BY <2>2, KindsImplement DEF Atomic!vars
  <2>3. ASSUME Next PROVE \E p \in Runs : Fine(p) /\ (Quiet(p) \/ Puts(p) \/ Gives(p))
    BY <2>3, NextFine, StepKind, SandboxQuiet DEF Next
  <2> QED BY <2>1, <2>2, <2>3
<1> QED BY <1>1, <1>2, Invariance, PTL DEF Spec, Atomic!Spec

=============================================================================
