---------------------------- MODULE InstallExits ----------------------------
(***************************************************************************)
(* One install(1) alone with its target: what a failure leaves, and what a *)
(* success has made of the target, of its attributes and of the backup.    *)
(***************************************************************************)
EXTENDS InstallProofs

-----------------------------------------------------------------------------
(* The invariant of an install that has the target for itself, on top of
   IInv.                                                                     *)

(* Before it touches the target, that is as it was; and it has not been found
   to match.                                                                 *)
Before(p) ==
  /\ was \in {None, Old, Dir, Src}
  /\ pc[p] \in Unseen \cup {"excl"} \/ req[p].link # "none" => ~ l[p].match
  /\ pc[p] \in {"main", "start", "compare", "temp"} => dir["to"] = was
  /\ ~ Has(p, "sandbox") /\ pc[p] \in Unseen => dir["to"] = was \/ was = Dir
  /\ ~ Has(p, "sandbox") /\ pc[p] \in Unseen \ {"main", "start"} /\ was # None => l[p].target
  /\ pc[p] \in {"start", "compare"} /\ was = Src => req[p].link # "none" \/ req[p].src # "x"
  /\ ~ Has(p, "sandbox") /\ pc[p] \in FileCall => was # Dir

(* The immutable bits that lstat saw are there until they are put off. *)
Locks(p) ==
  ~ Has(p, "sandbox") /\ was = Old =>
    /\ pc[p] \in {"compare", "temp", "reopen", "compare2", "unlock"} \cup Filling =>
         file[Old].imm = l[p].sb.imm
    /\ pc[p] \in {"unlinkbak", "linkbak"} /\ ~ l[p].sb.imm => ~ file[Old].imm

(* The backup is made before the rename. *)
Backup(p) ==
  ~ Has(p, "sandbox") /\ Has(p, "b") /\ req[p].link = "none" /\ was = Old /\ ~ l[p].match =>
    /\ Old \in {dir["to"], dir["bak"]}
    /\ pc[p] \in {"rename", "done"} \cup Late => dir["bak"] = Old

(* The file that has the name is the new one, or the old one that is kept. *)
Result(p) ==
  /\ ~ Has(p, "sandbox") /\ req[p].link = "none" /\ pc[p] \in Late \cup {"done"} =>
       /\ dir["to"] \in Files(p) \cup {Old} /\ file[dir["to"]].data = Want(p)
       /\ pc[p] # "reopento" => l[p].fd = dir["to"]
  /\ req[p].link # "none" /\ pc[p] \in {"lunlink", "done"} => dir["to"] \in {Src, SymOf(p)}

(* A new file is private until it is given the mode asked for. *)
Private(p) ==
  ~ Has(p, "sandbox") =>
    /\ pc[p] \in Filling => file[NewOf(p)].mode = "priv"
    /\ pc[p] \in Filled => file[Temp0(p)].mode = "priv"
    /\ pc[p] \in Late \ {"chflags"} /\ dir["to"] \in Files(p) => file[dir["to"]].mode = "priv"
    /\ pc[p] \in {"chown", "chmod"} /\ dir["to"] \in Files(p) => l[p].sb.mode = "priv"
    /\ pc[p] \in {"chflags", "done"} /\ req[p].link = "none" /\ dir["to"] \in Files(p)
         /\ ~ Has(p, "U") => file[dir["to"]].mode = req[p].mode

(* The owner is the one asked for from fchown on. *)
Owned(p) ==
  /\ pc[p] = "chown" => file[l[p].fd].own = l[p].sb.own
  /\ pc[p] \in {"chmod", "chflags", "done"} /\ req[p].link = "none"
       /\ Has(p, "chown") /\ ~ Has(p, "U") => file[l[p].fd].own = "want"

(* In the sandbox the target is filled in place. *)
Boxed(p) ==
  Has(p, "sandbox") /\ req[p].link = "none" =>
    /\ pc[p] \in Filling => dir["to"] = NewOf(p)
    /\ pc[p] \in Late \cup {"done"} =>
         /\ dir["to"] # None /\ file[dir["to"]].data \in {Plain(p), Want(p)}
         /\ l[p].match => file[dir["to"]].data = Want(p)

Solo(p) ==
  /\ Before(p) /\ Locks(p) /\ Backup(p) /\ Result(p) /\ Private(p) /\ Owned(p) /\ Boxed(p)
AInv == Alone => \A p \in Runs : Solo(p)

-----------------------------------------------------------------------------
(* Its steps outside the sandbox. *)
LEMMA FreeFacts ==
  ASSUME IInv, NEW p \in Runs, Fine(p), ~ Sandboxed
  PROVE  /\ TypeOK /\ p \in Proc /\ ProcInv(p) /\ ~ Has(p, "sandbox") /\ req' = req
         /\ l[p].work = Tmp(p) /\ {Tmp(p), "to", "bak"} \subseteq Name
         /\ Tmp(p) \notin {"to", "bak"}
BY Unboxed DEF Fine, Alters

LEMMA StepFacts ==
  ASSUME IInv, NEW p \in Runs, Fine(p)
  PROVE  /\ TypeOK /\ p \in Proc /\ ProcInv(p) /\ req' = req
         /\ {Tmp(p), "to", "bak"} \subseteq Name /\ Tmp(p) \notin {"to", "bak"}
         /\ Want(p)' = Want(p) /\ Plain(p)' = Plain(p)
BY Reached DEF Fine, Alters, Want, Plain, Has

LEMMA InodeFacts ==
  ASSUME NEW p \in Proc
  PROVE  /\ {Old, Src, Dir, NewOf(p), StripOf(p), SymOf(p)} \subseteq Inode /\ None \notin Inode
         /\ Old \notin {NewOf(p), StripOf(p), SymOf(p), Src, Dir, None}
         /\ NewOf(p) # StripOf(p) /\ Src \notin {NewOf(p), StripOf(p), SymOf(p), Dir, None}
         /\ {Old, NewOf(p), StripOf(p), Src, Dir, None} \cap {SymOf(q) : q \in Proc} = {}
         /\ Dir \notin {NewOf(p), StripOf(p), SymOf(p), None}
BY Distinct, InodeProp DEF NewOf, StripOf, SymOf

LEMMA SoloFails ==
  ASSUME IInv, NEW p \in Runs, req' = req, was' = was, Solo(p), Fails(p),
         \/ Has(p, "sandbox")
         \/ pc[p] \in Unseen /\ dir'["to"] = dir["to"]
         \/ pc[p] \in Late /\ dir'["bak"] = dir["bak"]
  PROVE  Solo(p)'
<1>1. pc'[p] = "failed" /\ l'[p].match = l[p].match /\ TypeOK
  BY DEF Fails, IInv, TypeOK
<1>2. "failed" \notin Unseen /\ "failed" \notin Filling /\ "failed" \notin Filled
      /\ "failed" \notin Late /\ "failed" \notin FileCall
  BY DEF Unseen, Filling, Filled, Late, FileCall
<1>3. Before(p)'
  BY <1>1, <1>2 DEF Solo, Before, Has
<1>4. Locks(p)' /\ Result(p)' /\ Private(p)' /\ Owned(p)' /\ Boxed(p)'
  BY <1>1, <1>2 DEF Locks, Result, Private, Owned, Boxed, Has
<1>5. Backup(p)'
  BY <1>1, <1>2 DEF Solo, Backup, Before, Has, Old, Dir, Fixed
<1> QED BY <1>3, <1>4, <1>5 DEF Solo

(* What -C keeps is the old file, and what would have been installed. *)
LEMMA KeepsOld ==
  ASSUME IInv, NEW p \in Runs, Fine(p), ~ Has(p, "sandbox"), was' = was, Solo(p),
         pc[p] \in {"compare", "compare2"}, pc'[p] = "fstat",
         dir'["to"] = dir["to"], file' = file, dir["to"] # None, file[Leads].data = Want(p),
         \/ l'[p] = [l[p] EXCEPT !.fd = Leads, !.match = TRUE]
         \/ l'[p] = [l[p] EXCEPT !.match = TRUE, !.fd = Leads]
  PROVE  Solo(p)'
<1>1. /\ TypeOK /\ p \in Proc /\ ProcInv(p) /\ ~ Has(p, "sandbox") /\ req' = req
      /\ file[Src].data = <<"x", "plain">>
  BY StepFacts DEF IInv, SrcAttr
<1>2. l'[p].fd = Leads /\ l'[p].match = TRUE /\ l[p] \in Locals
  BY <1>1, TypeOfLocals DEF TypeOK
<1>3. req[p].link = "none" /\ pc[p] \in Unseen /\ pc[p] \in FileCall
  BY <1>1 DEF ProcInv, Route, FileCall, Filled, Unseen
<1>4. dir["to"] = was /\ was \in {Old, Src}
  BY <1>1, <1>3 DEF Solo, Before
<1>5. Want(p) # <<"x", "plain">> \/ was # Src
  <2>1. CASE pc[p] = "compare"
    <3>1. ~ Has(p, "s") /\ (was = Src => req[p].src # "x")
      BY <1>1, <1>3, <2>1 DEF ProcInv, Route, Solo, Before
    <3> QED BY <3>1 DEF Want, Plain
  <2>2. CASE pc[p] = "compare2"
    <3>1. Has(p, "s")
      BY <1>1, <2>2 DEF ProcInv, Route
    <3> QED BY <3>1 DEF Want
  <2> QED BY <2>1, <2>2
<1>6. dir["to"] = Old /\ Leads = Old /\ Old \notin Files(p) /\ Old \notin {Src, None}
  BY <1>1, <1>4, <1>5, InodeFacts DEF Leads, Files, SymOf
<1>7. "fstat" \notin Unseen /\ "fstat" \notin Filling /\ "fstat" \notin Filled
      /\ "fstat" \in Late
  BY DEF Unseen, Filling, Filled, Late
<1>8. Before(p)'
  BY <1>1, <1>2, <1>3, <1>6, <1>7 DEF Solo, Before, Has
<1>9. Locks(p)' /\ Backup(p)'
  BY <1>1, <1>2, <1>7 DEF Locks, Backup, Has
<1>10. Result(p)'
  <2>1. Want(p)' = Want(p) /\ Files(p)' = Files(p)
    BY <1>1 DEF Want, Plain, Has, Files, NewOf, StripOf
  <2> QED BY <1>1, <1>2, <1>3, <1>6, <1>7, <2>1 DEF Result, Has
<1>11. Private(p)'
  BY <1>1, <1>6, <1>7 DEF Private, Has, Files, NewOf, StripOf
<1>12. Owned(p)' /\ Boxed(p)'
  BY <1>1 DEF Owned, Boxed, Has
<1> QED BY <1>8, <1>9, <1>10, <1>11, <1>12 DEF Solo

(* In the sandbox: up to the opening of the target, and once it is filled. *)
LEMMA BoxEarly ==
  ASSUME IInv, NEW p \in Runs, Fine(p), Has(p, "sandbox"), was' = was, Solo(p),
         req[p].link = "none", pc[p] \in Unseen \cup {"excl"}, pc'[p] \in {"excl"} \cup Filling,
         l'[p].match = l[p].match, pc'[p] \in Filling => dir'["to"] = NewOf(p)
  PROVE  Solo(p)'
<1>1. req' = req /\ ~ l[p].match /\ pc'[p] \notin Late \cup {"done"} /\ NewOf(p)' = NewOf(p)
  BY StepFacts DEF Solo, Before, Filling, Late, NewOf
<1>2. Before(p)'
  BY <1>1 DEF Solo, Before, Filling, Has
<1>3. Locks(p)' /\ Backup(p)' /\ Private(p)' /\ Result(p)'
  BY <1>1 DEF Locks, Backup, Private, Result, Has
<1>4. Owned(p)'
  BY <1>1 DEF Owned, Late
<1>5. Boxed(p)'
  BY <1>1 DEF Boxed
<1> QED BY <1>2, <1>3, <1>4, <1>5 DEF Solo

LEMMA BoxFilled ==
  ASSUME IInv, NEW p \in Runs, Fine(p), Has(p, "sandbox"), was' = was, Solo(p),
         req[p].link = "none", pc'[p] = "fstat", dir'["to"] # None,
         file'[dir'["to"]].data = Want(p) \/ (file'[dir'["to"]].data = Plain(p) /\ ~ l'[p].match)
  PROVE  Solo(p)'
<1>1. req' = req /\ Want(p)' = Want(p) /\ Plain(p)' = Plain(p)
  BY StepFacts
<1>2. Before(p)'
  BY <1>1 DEF Solo, Before, Unseen, Has
<1>3. Locks(p)' /\ Backup(p)' /\ Private(p)' /\ Result(p)'
  BY <1>1 DEF Locks, Backup, Private, Result, Has
<1>4. Owned(p)'
  BY <1>1 DEF Owned
<1>5. Boxed(p)'
  BY <1>1 DEF Boxed, Filling
<1> QED BY <1>2, <1>3, <1>4, <1>5 DEF Solo

(* What the calls leave of the attributes. *)
LEMMA WriteAttr ==
  ASSUME TypeOK, NEW p \in Runs, NEW d, Write(p, d)
  PROVE  \A i \in Inode : /\ file'[i].imm = file[i].imm /\ file'[i].mode = file[i].mode
                          /\ file'[i].own = file[i].own
<1>1. file \in [Inode -> Attr]
  BY DEF TypeOK
<1>2. \A i \in Inode : file'[i] = IF i = l[p].fd THEN [file[i] EXCEPT !.data = d] ELSE file[i]
  BY <1>1 DEF Write
<1> QED BY <1>1, <1>2 DEF Attr

LEMMA StrippedAttr ==
  ASSUME TypeOK, NEW p \in Runs, NEW s, Stripped(p, s), l[p].fd = NewOf(p), p \in Proc
  PROVE  /\ \A i \in Inode \ {StripOf(p)} : /\ file'[i].imm = file[i].imm
                                           /\ file'[i].mode = file[i].mode
         /\ \/ dir' = dir
            \/ dir'[l[p].work] = StripOf(p) /\ file'[StripOf(p)].mode = file[NewOf(p)].mode
<1>1. file \in [Inode -> Attr] /\ {NewOf(p), StripOf(p)} \subseteq Inode /\ l[p].work \in Name
  BY InodeFacts DEF TypeOK
<1>2. CASE Write(p, Want(p))
  BY <1>2, WriteAttr DEF Write
<1>3. CASE /\ dir' = [dir EXCEPT ![l[p].work] = <<p, "strip">>]
           /\ file' = [file EXCEPT ![<<p, "strip">>] =
                         [file[l[p].fd] EXCEPT !.data = Want(p)]]
  <2>1. [file[l[p].fd] EXCEPT !.data = Want(p)].mode = file[NewOf(p)].mode
    BY <1>1 DEF Attr
  <2> QED BY <1>1, <1>3, <2>1 DEF TypeOK, StripOf
<1> QED BY <1>2, <1>3 DEF Stripped

LEMMA RelabelAttr ==
  ASSUME TypeOK, Relabels
  PROVE  \A i \in Inode : file'[i].mode = file[i].mode /\ file'[i].own = file[i].own
<1>1. file \in [Inode -> Attr]
  BY DEF TypeOK
<1>2. CASE dir["to"] # None /\ \E b \in BOOLEAN : file' = [file EXCEPT ![Leads].imm = b]
  <2>1. Leads \in Inode
    BY <1>2, LeadsType
  <2>2. PICK b \in BOOLEAN : file' = [file EXCEPT ![Leads].imm = b]
    BY <1>2
  <2>3. \A i \in Inode : file'[i] = IF i = Leads THEN [file[i] EXCEPT !.imm = b] ELSE file[i]
    BY <1>1, <2>1, <2>2
  <2> QED BY <1>1, <2>3 DEF Attr
<1> QED BY <1>2 DEF Relabels

LEMMA MainSolo ==
  ASSUME IInv, NEW p \in Runs, Fine(p), was' = was, Solo(p), Main(p)
  PROVE  Solo(p)'
<1>1. /\ TypeOK /\ p \in Proc /\ ProcInv(p) /\ req' = req
      /\ {Tmp(p), "to", "bak"} \subseteq Name /\ Tmp(p) \notin {"to", "bak"}
  BY StepFacts
<1>2. CASE Fails(p)
  BY <1>1, <1>2, MainName, SoloFails DEF Unseen, Late
<1>3. CASE pc[p] = "main" /\ pc'[p] \in {"start"} /\ dir'["to"] = dir["to"]
  <2>1. l' = l /\ file' = file /\ dir' = dir
    BY <1>1, <1>3, FailsProp DEF Main, fs, Fail, Goto, TypeOK
  <2>2. ~ (req[p].link = "none" /\ dir["to"] = Src /\ req[p].src = "x")
    BY <1>1, <1>3 DEF Main, Fail, Goto, TypeOK
  <2>3. Before(p)'
    BY <1>1, <1>3, <2>1, <2>2 DEF Solo, Before, Unseen, Filling, Filled, Late, FileCall, Has
  <2>4. Locks(p)'
    BY <1>1, <1>3, <2>1 DEF Solo, Locks, Unseen, Filling, Filled, Late, FileCall, Has
  <2>5. Backup(p)'
    BY <1>1, <1>3, <2>1, <2>2 DEF Solo, Backup, Unseen, Filling, Filled, Late, FileCall, Has
  <2>6. Result(p)'
    BY <1>1, <1>3, <2>1, <2>2 DEF Solo, Result, Unseen, Filling, Filled, Late, FileCall, Has
  <2>7. Private(p)'
    BY <1>1, <1>3, <2>1, <2>2 DEF Solo, Private, Unseen, Filling, Filled, Late, FileCall, Has
  <2>8. Owned(p)'
    BY <1>1, <1>3, <2>1, <2>2 DEF Solo, Owned, Unseen, Filling, Filled, Late, FileCall, Has
  <2>9. Boxed(p)'
    BY <1>1, <1>3 DEF Solo, Boxed, Unseen, Filling, Filled, Late, FileCall, Has
  <2> QED BY <2>3, <2>4, <2>5, <2>6, <2>7, <2>8, <2>9 DEF Solo
<1> QED BY <1>2, <1>3, MainName

LEMMA LstatSolo ==
  ASSUME IInv, NEW p \in Runs, Fine(p), was' = was, Solo(p), Lstat(p)
  PROVE  Solo(p)'
<1>1. /\ TypeOK /\ p \in Proc /\ ProcInv(p) /\ req' = req
      /\ {Tmp(p), "to", "bak"} \subseteq Name /\ Tmp(p) \notin {"to", "bak"}
  BY StepFacts
<1>2. pc[p] = "start" /\ pc'[p] \in {"link", "symlink", "compare", "temp"} /\ dir'["to"] = dir["to"]
  BY <1>1, LstatName
<1>3. dir' = dir /\ file' = file
  BY <1>1 DEF Lstat, fs
<1>4. l'[p].match = l[p].match
  BY <1>1 DEF Lstat, Set, TypeOK
<1>5. dir["to"] = was
  BY <1>1 DEF Solo, Before, Lstat, At
<1>6. was # None => l'[p].target
  BY <1>1, <1>5 DEF Lstat, Set, TypeOK
<1>7. was = Old => Set(p, [l[p] EXCEPT !.target = TRUE, !.sb = StatOf(Old)])
  BY <1>1, InodeFacts, <1>5 DEF Lstat
<1>8. was = Old => l'[p] = [l[p] EXCEPT !.target = TRUE, !.sb = StatOf(Old)]
  BY <1>1, <1>7 DEF Set, TypeOK
<1>9. was = Old => l'[p].sb = StatOf(Old)
  BY <1>1, <1>8, TypeOfLocals DEF Locals
<1>10. was = Old => l'[p].sb.imm = file[Old].imm
  BY <1>1, <1>9 DEF StatOf
<1>11. req[p].link = "none" => was # Dir
  BY <1>1, <1>5 DEF Lstat
<1>12. pc'[p] = "compare" => req[p].link = "none"
  BY <1>1 DEF Lstat, Goto, TypeOK
<1>13. pc'[p] \in {"compare", "temp"} => req[p].link = "none"
  BY <1>1 DEF Lstat, Goto, TypeOK
<1>14. Before(p)'
  BY <1>1, <1>2, <1>3, <1>4, <1>5, <1>6, <1>7, <1>8, <1>9, <1>10, <1>11, <1>12, <1>13 DEF Solo, Before, Unseen, Filling, Filled, Late, FileCall, Has
<1>15. Locks(p)'
  BY <1>1, <1>2, <1>3, <1>4, <1>6, <1>7, <1>8, <1>9, <1>10, <1>12, <1>13 DEF Solo, Locks, Unseen, Filling, Filled, Late, FileCall, Has
<1>16. Backup(p)'
  BY <1>1, <1>2, <1>3, <1>4, <1>5, <1>6, <1>7, <1>8, <1>9, <1>10, <1>11, <1>12, <1>13 DEF Solo, Backup, Unseen, Filling, Filled, Late, FileCall, Has
<1>17. Result(p)'
  BY <1>1, <1>2, <1>3, <1>4, <1>6, <1>8, <1>9, <1>10, <1>11, <1>12, <1>13 DEF Solo, Result, Unseen, Filling, Filled, Late, FileCall, Has
<1>18. Private(p)'
  BY <1>1, <1>2, <1>3, <1>4, <1>6, <1>7, <1>8, <1>9, <1>10, <1>11, <1>12, <1>13 DEF Solo, Private, Unseen, Filling, Filled, Late, FileCall, Has
<1>19. Owned(p)'
  BY <1>1, <1>2, <1>3, <1>4, <1>6, <1>8, <1>9, <1>10, <1>11, <1>12, <1>13 DEF Solo, Owned, Unseen, Filling, Filled, Late, FileCall, Has
<1>20. Boxed(p)'
  BY <1>1, <1>2 DEF Solo, Boxed, Unseen, Filling, Filled, Late, FileCall, Has
<1> QED BY <1>14, <1>15, <1>16, <1>17, <1>18, <1>19, <1>20 DEF Solo

LEMMA StartFailsSolo ==
  ASSUME IInv, NEW p \in Runs, Fine(p), was' = was, Solo(p), StartFails(p)
  PROVE  Solo(p)'
<1>1. /\ TypeOK /\ p \in Proc /\ ProcInv(p) /\ req' = req
      /\ {Tmp(p), "to", "bak"} \subseteq Name /\ Tmp(p) \notin {"to", "bak"}
  BY StepFacts
<1>2. CASE Fails(p)
  BY <1>1, <1>2, StartFailsName, SoloFails DEF Unseen, Late
<1> QED BY <1>2, StartFailsName

LEMMA TempFailsSolo ==
  ASSUME IInv, NEW p \in Runs, Fine(p), was' = was, Solo(p), TempFails(p)
  PROVE  Solo(p)'
<1>1. /\ TypeOK /\ p \in Proc /\ ProcInv(p) /\ req' = req
      /\ {Tmp(p), "to", "bak"} \subseteq Name /\ Tmp(p) \notin {"to", "bak"}
  BY StepFacts
<1>2. CASE Fails(p)
  BY <1>1, <1>2, TempFailsName, SoloFails DEF Unseen, Late
<1> QED BY <1>2, TempFailsName

LEMMA CompareSolo ==
  ASSUME IInv, NEW p \in Runs, Fine(p), was' = was, Solo(p), Compare(p)
  PROVE  Solo(p)'
<1>1. /\ TypeOK /\ p \in Proc /\ ProcInv(p) /\ req' = req
      /\ {Tmp(p), "to", "bak"} \subseteq Name /\ Tmp(p) \notin {"to", "bak"}
  BY StepFacts
<1>2. CASE Fails(p)
  BY <1>1, <1>2, CompareName, SoloFails DEF Unseen, Late
<1>3. CASE pc[p] = "compare" /\ pc'[p] = "temp" /\ l'[p] = l[p] /\ dir' = dir /\ file' = file
  <2>1. Before(p)'
    BY <1>1, <1>3 DEF Solo, Before, Unseen, Filling, Filled, Late, FileCall, Has
  <2>2. Locks(p)'
    BY <1>1, <1>3 DEF Solo, Locks, Unseen, Filling, Filled, Late, FileCall, Has
  <2>3. Backup(p)'
    BY <1>1, <1>3 DEF Solo, Backup, Unseen, Filling, Filled, Late, FileCall, Has
  <2>4. Result(p)'
    BY <1>1, <1>3 DEF Solo, Result, Unseen, Filling, Filled, Late, FileCall, Has
  <2>5. Private(p)'
    BY <1>1, <1>3 DEF Solo, Private, Unseen, Filling, Filled, Late, FileCall, Has
  <2>6. Owned(p)'
    BY <1>1, <1>3 DEF Solo, Owned, Unseen, Filling, Filled, Late, FileCall, Has
  <2>7. Boxed(p)'
    BY <1>1, <1>3 DEF Solo, Boxed, Unseen, Filling, Filled, Late, FileCall, Has
  <2> QED BY <2>1, <2>2, <2>3, <2>4, <2>5, <2>6, <2>7 DEF Solo
<1>4. CASE /\ pc[p] = "compare" /\ pc'[p] = "fstat" /\ dir["to"] # None /\ dir' = dir /\ file' = file
           /\ l'[p] = [l[p] EXCEPT !.match = TRUE, !.fd = Leads] /\ file[Leads].data = Plain(p)
  <2>1. Want(p) = Plain(p) /\ req[p].link = "none"
    BY <1>1, <1>4 DEF ProcInv, Route, FileCall, Want
  <2>2. dir["to"] = was /\ was \in {Old, Dir, Src}
    BY <1>4 DEF Solo, Before
  <2>3. Leads = dir["to"]
    BY <1>1, <2>2, InodeFacts DEF Leads, SymOf
  <2>4. CASE Has(p, "sandbox")
    BY <1>1, <1>4, <2>1, <2>3, <2>4, BoxFilled DEF Unseen
  <2>5. CASE ~ Has(p, "sandbox")
    BY <1>1, <1>4, <2>1, <2>5, KeepsOld
  <2> QED BY <2>4, <2>5
<1> QED BY <1>2, <1>3, <1>4, CompareName

LEMMA TempSolo ==
  ASSUME IInv, NEW p \in Runs, Fine(p), ~ Sandboxed, was' = was, Solo(p), Temp(p)
  PROVE  Solo(p)'
<1>1. /\ TypeOK /\ p \in Proc /\ ProcInv(p) /\ ~ Has(p, "sandbox") /\ req' = req
      /\ l[p].work = Tmp(p) /\ {Tmp(p), "to", "bak"} \subseteq Name
      /\ Tmp(p) \notin {"to", "bak"}
  BY FreeFacts
<1>2. pc[p] = "temp" /\ pc'[p] \in {"strip2", "unlock", "strip", "copy"} /\ dir'["to"] = dir["to"]
  BY <1>1, TempName
<1>3. dir'["bak"] = dir["bak"]
  BY <1>1 DEF Temp, TypeOK
<1>4. l'[p].match = l[p].match /\ l'[p].target = l[p].target /\ l'[p].sb = l[p].sb
  BY <1>1 DEF Temp, Set, TypeOK
<1>5. file'[Old].imm = file[Old].imm
  BY <1>1, InodeFacts DEF Temp, TypeOK, NewOf
<1>6. Temp0(p)' = NewOf(p) /\ file'[NewOf(p)].mode = "priv"
  BY <1>1, InodeFacts DEF Temp, TypeOK, NewOf, New, Temp0
<1>7. Before(p)'
  BY <1>1, <1>2, <1>4 DEF Solo, Before, Unseen, Filling, Filled, Late, FileCall, Has
<1>8. Locks(p)'
  BY <1>1, <1>2, <1>4, <1>5 DEF Solo, Locks, Unseen, Filling, Filled, Late, FileCall, Has
<1>9. Backup(p)'
  BY <1>1, <1>2, <1>3, <1>4 DEF Solo, Backup, Unseen, Filling, Filled, Late, FileCall, Has
<1>10. Result(p)'
  BY <1>1, <1>2, <1>3, <1>4 DEF Solo, Result, Unseen, Filling, Filled, Late, FileCall, Has
<1>11. Private(p)'
  BY <1>1, <1>2, <1>3, <1>4, <1>5, <1>6 DEF Solo, Private, Unseen, Filling, Filled, Late, FileCall, Has
<1>12. Owned(p)'
  BY <1>1, <1>2, <1>4, <1>5, <1>6 DEF Solo, Owned, Unseen, Filling, Filled, Late, FileCall, Has
<1>13. Boxed(p)'
  BY <1>1 DEF Solo, Boxed, Unseen, Filling, Filled, Late, FileCall, Has
<1> QED BY <1>7, <1>8, <1>9, <1>10, <1>11, <1>12, <1>13 DEF Solo

LEMMA StripSolo ==
  ASSUME IInv, NEW p \in Runs, Fine(p), ~ Sandboxed, was' = was, Solo(p), Strip(p)
  PROVE  Solo(p)'
<1>1. /\ TypeOK /\ p \in Proc /\ ProcInv(p) /\ ~ Has(p, "sandbox") /\ req' = req
      /\ l[p].work = Tmp(p) /\ {Tmp(p), "to", "bak"} \subseteq Name
      /\ Tmp(p) \notin {"to", "bak"}
  BY FreeFacts
<1>2. CASE Fails(p)
  BY <1>1, <1>2, StripName, SoloFails DEF Unseen, Late
<1>3. CASE pc[p] = "strip" /\ pc'[p] = "reopen" /\ dir'["to"] = dir["to"] /\ ~ Fails(p)
  <2>1. l[p].fd = NewOf(p)
    BY <1>1, <1>3 DEF ProcInv, Working, Filling, Strip, StripInPlace, CopySome, CopyRest, At
  <2>2. Temp0(p) = NewOf(p)
    BY <1>1, <1>3 DEF ProcInv, Temporary, Filling, Strip, StripInPlace, CopySome, CopyRest, At, Has
  <2>3. Stripped(p, "reopen")
    BY <1>1, <1>3, FailsProp, GotoProp DEF Strip, FailClean, Stripped
  <2>4. dir'["bak"] = dir["bak"]
    BY <1>1, <1>3, <2>3 DEF Stripped, Write, TypeOK
  <2>5. l' = l
    BY <1>1, <1>3, <2>3 DEF Stripped
  <2>6. file'[Old].imm = file[Old].imm
    BY <1>1, <1>3, InodeFacts, StrippedAttr, <2>1, <2>3
  <2>7. file'[Temp0(p)'].mode = file[NewOf(p)].mode
    BY <1>1, <1>3, InodeFacts, StrippedAttr, <2>1, <2>3, <2>2 DEF Temp0
  <2>8. Before(p)'
    BY <1>1, <1>3, <2>5 DEF Solo, Before, Unseen, Filling, Filled, Late, FileCall, Has
  <2>9. Locks(p)'
    BY <1>1, <1>3, <2>5, <2>6 DEF Solo, Locks, Unseen, Filling, Filled, Late, FileCall, Has
  <2>10. Backup(p)'
    BY <1>1, <1>3, <2>4, <2>5 DEF Solo, Backup, Unseen, Filling, Filled, Late, FileCall, Has
  <2>11. Result(p)'
    BY <1>1, <1>3, <2>1, <2>4, <2>5 DEF Solo, Result, Unseen, Filling, Filled, Late, FileCall, Has
  <2>12. Private(p)'
    BY <1>1, <1>3, <2>2, <2>4, <2>5, <2>6, <2>7 DEF Solo, Private, Unseen, Filling, Filled, Late, FileCall, Has
  <2>13. Owned(p)'
    BY <1>1, <1>3, <2>1, <2>5, <2>6, <2>7 DEF Solo, Owned, Unseen, Filling, Filled, Late, FileCall, Has
  <2>14. Boxed(p)'
    BY <1>1, <1>3 DEF Solo, Boxed, Unseen, Filling, Filled, Late, FileCall, Has
  <2> QED BY <2>8, <2>9, <2>10, <2>11, <2>12, <2>13, <2>14 DEF Solo
<1>4. CASE pc[p] = "strip" /\ pc'[p] = "copy" /\ dir'["to"] = dir["to"] /\ ~ Fails(p)
  <2>1. dir' = dir /\ file' = file /\ l' = l
    BY <1>1, <1>4, FailsProp, GotoProp DEF Strip, Stripped, FailClean, fs
  <2>2. Before(p)'
    BY <1>1, <1>4, <2>1 DEF Solo, Before, Unseen, Filling, Filled, Late, FileCall, Has
  <2>3. Locks(p)'
    BY <1>1, <1>4, <2>1 DEF Solo, Locks, Unseen, Filling, Filled, Late, FileCall, Has
  <2>4. Backup(p)'
    BY <1>1, <1>4, <2>1 DEF Solo, Backup, Unseen, Filling, Filled, Late, FileCall, Has
  <2>5. Result(p)'
    BY <1>1, <1>4, <2>1 DEF Solo, Result, Unseen, Filling, Filled, Late, FileCall, Has
  <2>6. Private(p)'
    BY <1>1, <1>4, <2>1 DEF Solo, Private, Unseen, Filling, Filled, Late, FileCall, Has
  <2>7. Owned(p)'
    BY <1>1, <1>4, <2>1 DEF Solo, Owned, Unseen, Filling, Filled, Late, FileCall, Has
  <2>8. Boxed(p)'
    BY <1>1, <1>4 DEF Solo, Boxed, Unseen, Filling, Filled, Late, FileCall, Has
  <2> QED BY <2>2, <2>3, <2>4, <2>5, <2>6, <2>7, <2>8 DEF Solo
<1> QED BY <1>2, <1>3, <1>4, StripName

LEMMA StripInPlaceSolo ==
  ASSUME IInv, NEW p \in Runs, Fine(p), ~ Sandboxed, was' = was, Solo(p), StripInPlace(p)
  PROVE  Solo(p)'
<1>1. /\ TypeOK /\ p \in Proc /\ ProcInv(p) /\ ~ Has(p, "sandbox") /\ req' = req
      /\ l[p].work = Tmp(p) /\ {Tmp(p), "to", "bak"} \subseteq Name
      /\ Tmp(p) \notin {"to", "bak"}
  BY FreeFacts
<1>2. CASE Fails(p)
  BY <1>1, <1>2, StripInPlaceName, SoloFails DEF Unseen, Late
<1>3. CASE pc[p] = "strip2" /\ pc'[p] = "reopen" /\ dir'["to"] = dir["to"] /\ ~ Fails(p)
  <2>1. l[p].fd = NewOf(p)
    BY <1>1, <1>3 DEF ProcInv, Working, Filling, Strip, StripInPlace, CopySome, CopyRest, At
  <2>2. Temp0(p) = NewOf(p)
    BY <1>1, <1>3 DEF ProcInv, Temporary, Filling, Strip, StripInPlace, CopySome, CopyRest, At, Has
  <2>3. Stripped(p, "reopen")
    BY <1>1, <1>3, FailsProp DEF StripInPlace, FailClean
  <2>4. dir'["bak"] = dir["bak"]
    BY <1>1, <1>3, <2>3 DEF Stripped, Write, TypeOK
  <2>5. l' = l
    BY <1>1, <1>3, <2>3 DEF Stripped
  <2>6. file'[Old].imm = file[Old].imm
    BY <1>1, <1>3, InodeFacts, StrippedAttr, <2>1, <2>3
  <2>7. file'[Temp0(p)'].mode = file[NewOf(p)].mode
    BY <1>1, <1>3, InodeFacts, StrippedAttr, <2>1, <2>3, <2>2 DEF Temp0
  <2>8. Before(p)'
    BY <1>1, <1>3, <2>5 DEF Solo, Before, Unseen, Filling, Filled, Late, FileCall, Has
  <2>9. Locks(p)'
    BY <1>1, <1>3, <2>5, <2>6 DEF Solo, Locks, Unseen, Filling, Filled, Late, FileCall, Has
  <2>10. Backup(p)'
    BY <1>1, <1>3, <2>4, <2>5 DEF Solo, Backup, Unseen, Filling, Filled, Late, FileCall, Has
  <2>11. Result(p)'
    BY <1>1, <1>3, <2>1, <2>4, <2>5 DEF Solo, Result, Unseen, Filling, Filled, Late, FileCall, Has
  <2>12. Private(p)'
    BY <1>1, <1>3, <2>2, <2>4, <2>5, <2>6, <2>7 DEF Solo, Private, Unseen, Filling, Filled, Late, FileCall, Has
  <2>13. Owned(p)'
    BY <1>1, <1>3, <2>1, <2>5, <2>6, <2>7 DEF Solo, Owned, Unseen, Filling, Filled, Late, FileCall, Has
  <2>14. Boxed(p)'
    BY <1>1, <1>3 DEF Solo, Boxed, Unseen, Filling, Filled, Late, FileCall, Has
  <2> QED BY <2>8, <2>9, <2>10, <2>11, <2>12, <2>13, <2>14 DEF Solo
<1> QED BY <1>2, <1>3, StripInPlaceName

LEMMA CopySomeSolo ==
  ASSUME IInv, NEW p \in Runs, Fine(p), ~ Sandboxed, was' = was, Solo(p), CopySome(p)
  PROVE  Solo(p)'
<1>1. /\ TypeOK /\ p \in Proc /\ ProcInv(p) /\ ~ Has(p, "sandbox") /\ req' = req
      /\ l[p].work = Tmp(p) /\ {Tmp(p), "to", "bak"} \subseteq Name
      /\ Tmp(p) \notin {"to", "bak"}
  BY FreeFacts
<1>2. CASE Fails(p)
  BY <1>1, <1>2, CopySomeName, SoloFails DEF Unseen, Late
<1>3. CASE pc[p] = "copy" /\ pc'[p] = "copying" /\ dir'["to"] = dir["to"] /\ ~ Fails(p)
  <2>1. Write(p, <<req[p].src, "part">>) /\ l' = l
    BY <1>1, <1>3, FailsProp DEF CopySome
  <2>2. dir' = dir
    BY <1>1, <1>3, <2>1 DEF Write
  <2>3. file'[Old].imm = file[Old].imm
    BY <1>1, <1>3, InodeFacts, WriteAttr, <2>1
  <2>4. file'[NewOf(p)].mode = file[NewOf(p)].mode
    BY <1>1, <1>3, InodeFacts, WriteAttr, <2>1
  <2>5. Before(p)'
    BY <1>1, <1>3, <2>1, <2>2 DEF Solo, Before, Unseen, Filling, Filled, Late, FileCall, Has
  <2>6. Locks(p)'
    BY <1>1, <1>3, <2>1, <2>3 DEF Solo, Locks, Unseen, Filling, Filled, Late, FileCall, Has
  <2>7. Backup(p)'
    BY <1>1, <1>3, <2>1, <2>2 DEF Solo, Backup, Unseen, Filling, Filled, Late, FileCall, Has
  <2>8. Result(p)'
    BY <1>1, <1>3, <2>1, <2>2 DEF Solo, Result, Unseen, Filling, Filled, Late, FileCall, Has
  <2>9. Private(p)'
    BY <1>1, <1>3, <2>1, <2>2, <2>3, <2>4 DEF Solo, Private, Unseen, Filling, Filled, Late, FileCall, Has
  <2>10. Owned(p)'
    BY <1>1, <1>3, <2>1, <2>3, <2>4 DEF Solo, Owned, Unseen, Filling, Filled, Late, FileCall, Has
  <2>11. Boxed(p)'
    BY <1>1, <1>3 DEF Solo, Boxed, Unseen, Filling, Filled, Late, FileCall, Has
  <2> QED BY <2>5, <2>6, <2>7, <2>8, <2>9, <2>10, <2>11 DEF Solo
<1> QED BY <1>2, <1>3, CopySomeName

LEMMA CopyRestSolo ==
  ASSUME IInv, NEW p \in Runs, Fine(p), ~ Sandboxed, was' = was, Solo(p), CopyRest(p)
  PROVE  Solo(p)'
<1>1. /\ TypeOK /\ p \in Proc /\ ProcInv(p) /\ ~ Has(p, "sandbox") /\ req' = req
      /\ l[p].work = Tmp(p) /\ {Tmp(p), "to", "bak"} \subseteq Name
      /\ Tmp(p) \notin {"to", "bak"}
  BY FreeFacts
<1>2. CASE Fails(p)
  BY <1>1, <1>2, CopyRestName, SoloFails DEF Unseen, Late
<1>3. CASE pc[p] = "copying" /\ pc'[p] \in {"strip2", "unlock"} /\ dir'["to"] = dir["to"] /\ ~ Fails(p)
  <2>1. Temp0(p) = NewOf(p)
    BY <1>1, <1>3 DEF ProcInv, Temporary, Filling, Strip, StripInPlace, CopySome, CopyRest, At, Has
  <2>2. Write(p, Plain(p)) /\ l' = l
    BY <1>1, <1>3, FailsProp DEF CopyRest, FailClean
  <2>3. dir' = dir
    BY <1>1, <1>3, <2>2 DEF Write
  <2>4. file'[Old].imm = file[Old].imm
    BY <1>1, <1>3, InodeFacts, WriteAttr, <2>2
  <2>5. file'[NewOf(p)].mode = file[NewOf(p)].mode
    BY <1>1, <1>3, InodeFacts, WriteAttr, <2>2
  <2>6. Temp0(p)' = NewOf(p)
    BY <1>1, <1>3, <2>1, <2>2 DEF Temp0, Write
  <2>7. Before(p)'
    BY <1>1, <1>3, <2>2, <2>3 DEF Solo, Before, Unseen, Filling, Filled, Late, FileCall, Has
  <2>8. Locks(p)'
    BY <1>1, <1>3, <2>2, <2>4 DEF Solo, Locks, Unseen, Filling, Filled, Late, FileCall, Has
  <2>9. Backup(p)'
    BY <1>1, <1>3, <2>2, <2>3 DEF Solo, Backup, Unseen, Filling, Filled, Late, FileCall, Has
  <2>10. Result(p)'
    BY <1>1, <1>3, <2>2, <2>3 DEF Solo, Result, Unseen, Filling, Filled, Late, FileCall, Has
  <2>11. Private(p)'
    BY <1>1, <1>3, <2>1, <2>2, <2>3, <2>4, <2>5, <2>6 DEF Solo, Private, Unseen, Filling, Filled, Late, FileCall, Has
  <2>12. Owned(p)'
    BY <1>1, <1>3, <2>2, <2>4, <2>5 DEF Solo, Owned, Unseen, Filling, Filled, Late, FileCall, Has
  <2>13. Boxed(p)'
    BY <1>1, <1>3 DEF Solo, Boxed, Unseen, Filling, Filled, Late, FileCall, Has
  <2> QED BY <2>7, <2>8, <2>9, <2>10, <2>11, <2>12, <2>13 DEF Solo
<1> QED BY <1>2, <1>3, CopyRestName

LEMMA ReopenSolo ==
  ASSUME IInv, NEW p \in Runs, Fine(p), ~ Sandboxed, was' = was, Solo(p), Reopen(p)
  PROVE  Solo(p)'
<1>1. /\ TypeOK /\ p \in Proc /\ ProcInv(p) /\ ~ Has(p, "sandbox") /\ req' = req
      /\ l[p].work = Tmp(p) /\ {Tmp(p), "to", "bak"} \subseteq Name
      /\ Tmp(p) \notin {"to", "bak"}
  BY FreeFacts
<1>2. CASE Fails(p)
  BY <1>1, <1>2, ReopenName, SoloFails DEF Unseen, Late
<1>3. CASE pc[p] = "reopen" /\ pc'[p] \in {"compare2", "unlock"} /\ dir'["to"] = dir["to"] /\ ~ Fails(p)
  <2>1. dir' = dir /\ file' = file
    BY <1>1, <1>3 DEF Reopen, fs
  <2>2. l'[p].match = l[p].match /\ l'[p].target = l[p].target /\ l'[p].sb = l[p].sb
    BY <1>1, <1>3, FailsProp DEF Reopen, Set, TypeOK
  <2>3. Temp0(p)' = Temp0(p)
    BY <1>1, <1>3 DEF Reopen, fs, Temp0
  <2>4. Before(p)'
    BY <1>1, <1>3, <2>1, <2>2 DEF Solo, Before, Unseen, Filling, Filled, Late, FileCall, Has
  <2>5. Locks(p)'
    BY <1>1, <1>3, <2>1, <2>2 DEF Solo, Locks, Unseen, Filling, Filled, Late, FileCall, Has
  <2>6. Backup(p)'
    BY <1>1, <1>3, <2>1, <2>2 DEF Solo, Backup, Unseen, Filling, Filled, Late, FileCall, Has
  <2>7. Result(p)'
    BY <1>1, <1>3, <2>1, <2>2 DEF Solo, Result, Unseen, Filling, Filled, Late, FileCall, Has
  <2>8. Private(p)'
    BY <1>1, <1>3, <2>1, <2>2, <2>3 DEF Solo, Private, Unseen, Filling, Filled, Late, FileCall, Has
  <2>9. Owned(p)'
    BY <1>1, <1>3, <2>1, <2>2 DEF Solo, Owned, Unseen, Filling, Filled, Late, FileCall, Has
  <2>10. Boxed(p)'
    BY <1>1, <1>3 DEF Solo, Boxed, Unseen, Filling, Filled, Late, FileCall, Has
  <2> QED BY <2>4, <2>5, <2>6, <2>7, <2>8, <2>9, <2>10 DEF Solo
<1> QED BY <1>2, <1>3, ReopenName

LEMMA CompareStrippedSolo ==
  ASSUME IInv, NEW p \in Runs, Fine(p), ~ Sandboxed, was' = was, Solo(p), CompareStripped(p)
  PROVE  Solo(p)'
<1>1. /\ TypeOK /\ p \in Proc /\ ProcInv(p) /\ ~ Has(p, "sandbox") /\ req' = req
      /\ l[p].work = Tmp(p) /\ {Tmp(p), "to", "bak"} \subseteq Name
      /\ Tmp(p) \notin {"to", "bak"}
  BY FreeFacts
<1>2. CASE Fails(p)
  BY <1>1, <1>2, CompareStrippedName, SoloFails DEF Unseen, Late
<1>3. CASE /\ pc[p] = "compare2" /\ pc'[p] = "unlock" /\ dir'["to"] = dir["to"] /\ dir' = dir /\ file' = file
           /\ l'[p] = [l[p] EXCEPT !.fd = Leads, !.match = FALSE]
  <2>1. l'[p].match = FALSE /\ l'[p].target = l[p].target /\ l'[p].sb = l[p].sb
    BY <1>1, <1>3 DEF TypeOK
  <2>2. Temp0(p)' = Temp0(p)
    BY <1>1, <1>3 DEF Temp0
  <2>3. Before(p)'
    BY <1>1, <1>3, <2>1 DEF Solo, Before, Unseen, Filling, Filled, Late, FileCall, Has
  <2>4. Locks(p)'
    BY <1>1, <1>3, <2>1 DEF Solo, Locks, Unseen, Filling, Filled, Late, FileCall, Has
  <2>5. Backup(p)'
    BY <1>1, <1>3, <2>1 DEF Solo, Backup, Unseen, Filling, Filled, Late, FileCall, Has, Before
  <2>6. Result(p)'
    BY <1>1, <1>3, <2>1 DEF Solo, Result, Unseen, Filling, Filled, Late, FileCall, Has
  <2>7. Private(p)'
    BY <1>1, <1>3, <2>1, <2>2 DEF Solo, Private, Unseen, Filling, Filled, Late, FileCall, Has
  <2>8. Owned(p)'
    BY <1>1, <1>3, <2>1 DEF Solo, Owned, Unseen, Filling, Filled, Late, FileCall, Has
  <2>9. Boxed(p)'
    BY <1>1, <1>3 DEF Solo, Boxed, Unseen, Filling, Filled, Late, FileCall, Has
  <2> QED BY <2>3, <2>4, <2>5, <2>6, <2>7, <2>8, <2>9 DEF Solo
<1>4. CASE /\ pc[p] = "compare2" /\ pc'[p] = "fstat" /\ dir'["to"] = dir["to"] /\ ~ Fails(p) /\ file' = file
           /\ dir["to"] # None /\ file[Leads].data = file[l[p].fd].data
           /\ l'[p] = [l[p] EXCEPT !.fd = Leads, !.match = TRUE]
  BY <1>1, <1>4, KeepsOld DEF Solo, Before, ProcInv, Route, FileCall, Filled, Temporary, Unseen
<1> QED BY <1>2, <1>3, <1>4, CompareStrippedName

LEMMA UnlockSolo ==
  ASSUME IInv, NEW p \in Runs, Fine(p), ~ Sandboxed, was' = was, Solo(p), Unlock(p)
  PROVE  Solo(p)'
<1>1. /\ TypeOK /\ p \in Proc /\ ProcInv(p) /\ ~ Has(p, "sandbox") /\ req' = req
      /\ l[p].work = Tmp(p) /\ {Tmp(p), "to", "bak"} \subseteq Name
      /\ Tmp(p) \notin {"to", "bak"}
  BY FreeFacts
<1>2. pc[p] = "unlock" /\ pc'[p] \in {"unlinkbak", "rename"} /\ dir'["to"] = dir["to"]
  BY <1>1, UnlockName
<1>3. dir' = dir /\ l' = l
  BY <1>1 DEF Unlock
<1>4. Relabels
  BY <1>1 DEF Unlock, Relabel, Relabels
<1>5. Temp0(p) \in Files(p)
  BY <1>1 DEF Unlock, At, ProcInv, Temporary, Filled
<1>6. file'[Temp0(p)'].mode = file[Temp0(p)].mode
  BY <1>1, InodeFacts, RelabelAttr, <1>4, <1>5 DEF Files, Temp0, Unlock
<1>7. was = Old /\ ~ l[p].sb.imm => ~ file'[Old].imm
  BY <1>1 DEF Unlock, At, Solo, Locks, Has
<1>8. pc'[p] = "rename" => ~ (l[p].target /\ Has(p, "b"))
  BY <1>1, GotoProp DEF Unlock
<1>9. was # None => l[p].target
  BY <1>1 DEF Solo, Before, Unseen, Unlock, At
<1>10. Before(p)'
  BY <1>1, <1>2, <1>3, <1>7, <1>8, <1>9 DEF Solo, Before, Unseen, Filling, Filled, Late, FileCall, Has
<1>11. Locks(p)'
  BY <1>1, <1>2, <1>3, <1>7, <1>8 DEF Solo, Locks, Unseen, Filling, Filled, Late, FileCall, Has
<1>12. Backup(p)'
  BY <1>1, <1>2, <1>3, <1>8, <1>9 DEF Solo, Backup, Unseen, Filling, Filled, Late, FileCall, Has, None, Old, Fixed
<1>13. Result(p)'
  BY <1>1, <1>2, <1>3, <1>8 DEF Solo, Result, Unseen, Filling, Filled, Late, FileCall, Has
<1>14. Private(p)'
  BY <1>1, <1>2, <1>3, <1>5, <1>6, <1>7, <1>8 DEF Solo, Private, Unseen, Filling, Filled, Late, FileCall, Has
<1>15. Owned(p)'
  BY <1>1, <1>2, <1>3, <1>6, <1>7, <1>8 DEF Solo, Owned, Unseen, Filling, Filled, Late, FileCall, Has
<1>16. Boxed(p)'
  BY <1>1, <1>8 DEF Solo, Boxed, Unseen, Filling, Filled, Late, FileCall, Has
<1> QED BY <1>10, <1>11, <1>12, <1>13, <1>14, <1>15, <1>16 DEF Solo

LEMMA UnlinkBackupSolo ==
  ASSUME IInv, NEW p \in Runs, Fine(p), ~ Sandboxed, was' = was, Solo(p), UnlinkBackup(p)
  PROVE  Solo(p)'
<1>1. /\ TypeOK /\ p \in Proc /\ ProcInv(p) /\ ~ Has(p, "sandbox") /\ req' = req
      /\ l[p].work = Tmp(p) /\ {Tmp(p), "to", "bak"} \subseteq Name
      /\ Tmp(p) \notin {"to", "bak"}
  BY FreeFacts
<1>2. CASE Fails(p)
  BY <1>1, <1>2, UnlinkBackupName, SoloFails DEF Unseen, Late
<1>3. CASE pc[p] = "unlinkbak" /\ pc'[p] = "linkbak" /\ dir'["to"] = dir["to"] /\ ~ Fails(p)
  <2>1. file' = file /\ l' = l
    BY <1>1, <1>3, FailsProp DEF UnlinkBackup, BackupFails
  <2>2. Temp0(p)' = Temp0(p)
    BY <1>1, <1>3, FailsProp DEF UnlinkBackup, BackupFails, Temp0, TypeOK
  <2>3. Before(p)'
    BY <1>1, <1>3, <2>1 DEF Solo, Before, Unseen, Filling, Filled, Late, FileCall, Has
  <2>4. Locks(p)'
    BY <1>1, <1>3, <2>1 DEF Solo, Locks, Unseen, Filling, Filled, Late, FileCall, Has
  <2>5. Backup(p)'
    BY <1>1, <1>3, <2>1 DEF Solo, Backup, Unseen, Filling, Filled, Late, FileCall, Has, Before, Dir, Old, Fixed
  <2>6. Result(p)'
    BY <1>1, <1>3, <2>1 DEF Solo, Result, Unseen, Filling, Filled, Late, FileCall, Has
  <2>7. Private(p)'
    BY <1>1, <1>3, <2>1, <2>2 DEF Solo, Private, Unseen, Filling, Filled, Late, FileCall, Has
  <2>8. Owned(p)'
    BY <1>1, <1>3, <2>1 DEF Solo, Owned, Unseen, Filling, Filled, Late, FileCall, Has
  <2>9. Boxed(p)'
    BY <1>1, <1>3 DEF Solo, Boxed, Unseen, Filling, Filled, Late, FileCall, Has
  <2> QED BY <2>3, <2>4, <2>5, <2>6, <2>7, <2>8, <2>9 DEF Solo
<1> QED BY <1>2, <1>3, UnlinkBackupName

LEMMA LinkBackupSolo ==
  ASSUME IInv, NEW p \in Runs, Fine(p), ~ Sandboxed, was' = was, Solo(p), LinkBackup(p)
  PROVE  Solo(p)'
<1>1. /\ TypeOK /\ p \in Proc /\ ProcInv(p) /\ ~ Has(p, "sandbox") /\ req' = req
      /\ l[p].work = Tmp(p) /\ {Tmp(p), "to", "bak"} \subseteq Name
      /\ Tmp(p) \notin {"to", "bak"}
  BY FreeFacts
<1>2. CASE Fails(p)
  BY <1>1, <1>2, LinkBackupName, SoloFails DEF Unseen, Late
<1>3. CASE pc[p] = "linkbak" /\ pc'[p] = "rename" /\ dir'["to"] = dir["to"] /\ ~ Fails(p)
  <2>1. file' = file /\ l' = l
    BY <1>1, <1>3, FailsProp DEF LinkBackup, BackupFails
  <2>2. dir'["bak"] = dir["to"]
    BY <1>1, <1>3, FailsProp DEF LinkBackup, BackupFails, TypeOK
  <2>3. Temp0(p)' = Temp0(p)
    BY <1>1, <1>3, FailsProp DEF LinkBackup, BackupFails, Temp0, TypeOK
  <2>4. Before(p)'
    BY <1>1, <1>3, <2>1 DEF Solo, Before, Unseen, Filling, Filled, Late, FileCall, Has
  <2>5. Locks(p)'
    BY <1>1, <1>3, <2>1 DEF Solo, Locks, Unseen, Filling, Filled, Late, FileCall, Has
  <2>6. Backup(p)'
    BY <1>1, <1>3, <2>1, <2>2 DEF Solo, Backup, Unseen, Filling, Filled, Late, FileCall, Has, Before, Dir, Old, Fixed
  <2>7. Result(p)'
    BY <1>1, <1>3, <2>1, <2>2 DEF Solo, Result, Unseen, Filling, Filled, Late, FileCall, Has
  <2>8. Private(p)'
    BY <1>1, <1>3, <2>1, <2>2, <2>3 DEF Solo, Private, Unseen, Filling, Filled, Late, FileCall, Has
  <2>9. Owned(p)'
    BY <1>1, <1>3, <2>1 DEF Solo, Owned, Unseen, Filling, Filled, Late, FileCall, Has
  <2>10. Boxed(p)'
    BY <1>1, <1>3 DEF Solo, Boxed, Unseen, Filling, Filled, Late, FileCall, Has
  <2> QED BY <2>4, <2>5, <2>6, <2>7, <2>8, <2>9, <2>10 DEF Solo
<1> QED BY <1>2, <1>3, LinkBackupName

LEMMA LinkUnlockSolo ==
  ASSUME IInv, NEW p \in Runs, Fine(p), was' = was, Solo(p), LinkUnlock(p)
  PROVE  Solo(p)'
<1>1. /\ TypeOK /\ p \in Proc /\ ProcInv(p) /\ req' = req
      /\ {Tmp(p), "to", "bak"} \subseteq Name /\ Tmp(p) \notin {"to", "bak"}
  BY StepFacts
<1>2. pc[p] = "lunlock" /\ pc'[p] \in {"lrename"} /\ dir'["to"] = dir["to"]
  BY <1>1, LinkUnlockName
<1>3. dir' = dir /\ l' = l
  BY <1>1 DEF LinkUnlock
<1>4. Before(p)'
  BY <1>1, <1>2, <1>3 DEF Solo, Before, Unseen, Filling, Filled, Late, FileCall, Has
<1>5. Locks(p)'
  BY <1>1, <1>2, <1>3 DEF Solo, Locks, Unseen, Filling, Filled, Late, FileCall, Has
<1>6. Backup(p)'
  BY <1>1, <1>2, <1>3 DEF Solo, Backup, Unseen, Filling, Filled, Late, FileCall, Has
<1>7. Result(p)'
  BY <1>1, <1>2, <1>3 DEF Solo, Result, Unseen, Filling, Filled, Late, FileCall, Has
<1>8. Private(p)'
  BY <1>1, <1>2, <1>3 DEF Solo, Private, Unseen, Filling, Filled, Late, FileCall, Has
<1>9. Owned(p)'
  BY <1>1, <1>2, <1>3 DEF Solo, Owned, Unseen, Filling, Filled, Late, FileCall, Has
<1>10. Boxed(p)'
  BY <1>1, <1>2 DEF LinkCall, ProcInv, Route, Solo, Boxed, Unseen, Filling, Filled, Late, FileCall, Has
<1> QED BY <1>4, <1>5, <1>6, <1>7, <1>8, <1>9, <1>10 DEF Solo

LEMMA RenameSolo ==
  ASSUME IInv, NEW p \in Runs, Fine(p), ~ Sandboxed, was' = was, Solo(p), Rename(p)
  PROVE  Solo(p)'
<1>1. /\ TypeOK /\ p \in Proc /\ ProcInv(p) /\ ~ Has(p, "sandbox") /\ req' = req
      /\ l[p].work = Tmp(p) /\ {Tmp(p), "to", "bak"} \subseteq Name
      /\ Tmp(p) \notin {"to", "bak"}
  BY FreeFacts
<1>2. CASE Fails(p) /\ dir'["to"] = dir["to"]
  BY <1>1, <1>2, RenameName, SoloFails DEF Unseen, Late
<1>3. CASE pc[p] = "rename" /\ pc'[p] = "reopento" /\ dir'["to"] = dir[Tmp(p)] /\ l' = l /\ file' = file
  <2>1. Temp0(p) \in Files(p) /\ file[Temp0(p)].data = Want(p) /\ dir'["to"] = Temp0(p)
    BY <1>1, <1>3 DEF ProcInv, Temporary, Filled, Temp0
  <2>2. Want(p)' = Want(p) /\ Files(p)' = Files(p)
    BY <1>1, <1>3 DEF Want, Plain, Has, Files, NewOf, StripOf
  <2>3. dir'["bak"] = dir["bak"]
    BY <1>1, <1>3 DEF Rename, FailClean, TypeOK
  <2>4. ~ l[p].match
    BY <1>1, <1>3 DEF Solo, Before, Unseen
  <2>5. Before(p)'
    BY <1>1, <1>3, <2>1, <2>4 DEF Solo, Before, Unseen, Filling, Filled, Late, FileCall, Has
  <2>6. Locks(p)'
    BY <1>1, <1>3, <2>1 DEF Solo, Locks, Unseen, Filling, Filled, Late, FileCall, Has
  <2>7. Backup(p)'
    BY <1>1, <1>3, <2>1, <2>3, <2>4 DEF Solo, Backup, Unseen, Filling, Filled, Late, FileCall, Has
  <2>8. Result(p)'
    BY <1>1, <1>3, <2>1, <2>2, <2>3 DEF Solo, Result, Unseen, Filling, Filled, Late, FileCall, Has
  <2>9. Private(p)'
    BY <1>1, <1>3, <2>1, <2>3 DEF Solo, Private, Unseen, Filling, Filled, Late, FileCall, Has
  <2>10. Owned(p)'
    BY <1>1, <1>3 DEF Solo, Owned, Unseen, Filling, Filled, Late, FileCall, Has
  <2>11. Boxed(p)'
    BY <1>1, <1>3 DEF Solo, Boxed, Unseen, Filling, Filled, Late, FileCall, Has
  <2> QED BY <2>5, <2>6, <2>7, <2>8, <2>9, <2>10, <2>11 DEF Solo
<1> QED BY <1>2, <1>3, RenameName

LEMMA ReopenToSolo ==
  ASSUME IInv, NEW p \in Runs, Fine(p), ~ Sandboxed, was' = was, Solo(p), ReopenTo(p)
  PROVE  Solo(p)'
<1>1. /\ TypeOK /\ p \in Proc /\ ProcInv(p) /\ ~ Has(p, "sandbox") /\ req' = req
      /\ l[p].work = Tmp(p) /\ {Tmp(p), "to", "bak"} \subseteq Name
      /\ Tmp(p) \notin {"to", "bak"}
  BY FreeFacts
<1>2. CASE Fails(p)
  BY <1>1, <1>2, ReopenToName, SoloFails DEF Unseen, Late
<1>3. CASE /\ pc[p] = "reopento" /\ pc'[p] = "fstat" /\ dir' = dir /\ file' = file
           /\ dir["to"] # None /\ l'[p] = [l[p] EXCEPT !.fd = Leads]
  <2>1. Want(p)' = Want(p) /\ Files(p)' = Files(p)
    BY <1>1, <1>3 DEF Want, Plain, Has, Files, NewOf, StripOf
  <2>2. l'[p].match = l[p].match /\ l'[p].sb = l[p].sb /\ l'[p].fd = Leads
    BY <1>1, <1>3 DEF TypeOK
  <2>3. req[p].link = "none" /\ dir["to"] \in Files(p) \cup {Old}
    BY <1>1, <1>3 DEF ProcInv, Route, FileCall, Late, Solo, Result
  <2>4. Leads = dir["to"] /\ file[dir["to"]].data = Want(p)
    BY <1>1, <1>3, InodeFacts, <2>3 DEF Leads, Files, SymOf, Solo, Result, Late
  <2>5. Before(p)'
    BY <1>1, <1>3, <2>2, <2>3 DEF Solo, Before, Unseen, Filling, Filled, Late, FileCall, Has
  <2>6. Locks(p)'
    BY <1>1, <1>3, <2>2 DEF Solo, Locks, Unseen, Filling, Filled, Late, FileCall, Has
  <2>7. Backup(p)'
    BY <1>1, <1>3, <2>2, <2>3, <2>4 DEF Solo, Backup, Unseen, Filling, Filled, Late, FileCall, Has
  <2>8. Result(p)'
    BY <1>1, <1>3, <2>1, <2>2, <2>3, <2>4 DEF Solo, Result, Unseen, Filling, Filled, Late, FileCall, Has
  <2>9. Private(p)'
    BY <1>1, <1>3, <2>2, <2>3 DEF Solo, Private, Unseen, Filling, Filled, Late, FileCall, Has
  <2>10. Owned(p)'
    BY <1>1, <1>3, <2>2, <2>3 DEF Solo, Owned, Unseen, Filling, Filled, Late, FileCall, Has
  <2>11. Boxed(p)'
    BY <1>1, <1>3 DEF Solo, Boxed, Unseen, Filling, Filled, Late, FileCall, Has
  <2> QED BY <2>5, <2>6, <2>7, <2>8, <2>9, <2>10, <2>11 DEF Solo
<1> QED BY <1>2, <1>3, ReopenToName

LEMMA HardLinkSolo ==
  ASSUME IInv, NEW p \in Runs, Fine(p), was' = was, Solo(p), HardLink(p)
  PROVE  Solo(p)'
<1>1. /\ TypeOK /\ p \in Proc /\ ProcInv(p) /\ req' = req
      /\ {Tmp(p), "to", "bak"} \subseteq Name /\ Tmp(p) \notin {"to", "bak"}
  BY StepFacts
<1>2. CASE Fails(p) /\ dir'["to"] = dir["to"]
  BY <1>1, <1>2, HardLinkName, SoloFails DEF Unseen, Late
<1>3. CASE pc[p] = "link" /\ Linked(p, Src) /\ l' = l /\ file' = file
  <2>1. pc'[p] \in {"rmdir", "done"} /\ (pc'[p] = "rmdir" => dir'["to"] = dir["to"])
    BY <1>1, <1>3 DEF Linked
  <2>2. pc'[p] = "done" => dir'["to"] \in {Src, SymOf(p)}
    BY <1>1, <1>3 DEF Linked
  <2>3. req[p].link # "none" /\ SymOf(p)' = SymOf(p)
    BY <1>1, <1>3 DEF ProcInv, Route, LinkCall, SymOf
  <2>4. Before(p)'
    BY <1>1, <1>3, <2>1, <2>2, <2>3 DEF Solo, Before, Unseen, Filling, Filled, Late, FileCall, Has
  <2>5. Locks(p)'
    BY <1>1, <1>3, <2>1, <2>2 DEF Solo, Locks, Unseen, Filling, Filled, Late, FileCall, Has
  <2>6. Backup(p)'
    BY <1>1, <1>3, <2>1, <2>2, <2>3 DEF Solo, Backup, Unseen, Filling, Filled, Late, FileCall, Has
  <2>7. Result(p)'
    BY <1>1, <1>3, <2>1, <2>2, <2>3 DEF Solo, Result, Unseen, Filling, Filled, Late, FileCall, Has
  <2>8. Private(p)'
    BY <1>1, <1>3, <2>1, <2>2, <2>3 DEF Solo, Private, Unseen, Filling, Filled, Late, FileCall, Has
  <2>9. Owned(p)'
    BY <1>1, <1>3, <2>1, <2>2, <2>3 DEF Solo, Owned, Unseen, Filling, Filled, Late, FileCall, Has
  <2>10. Boxed(p)'
    BY <1>1, <1>3, <2>3 DEF Solo, Boxed, Unseen, Filling, Filled, Late, FileCall, Has
  <2> QED BY <2>4, <2>5, <2>6, <2>7, <2>8, <2>9, <2>10 DEF Solo
<1>4. CASE pc[p] = "link" /\ pc'[p] = "symlink" /\ dir' = dir /\ l' = l /\ file' = file
  <2>1. Before(p)'
    BY <1>1, <1>4 DEF Solo, Before, Unseen, Filling, Filled, Late, FileCall, Has
  <2>2. Locks(p)'
    BY <1>1, <1>4 DEF Solo, Locks, Unseen, Filling, Filled, Late, FileCall, Has
  <2>3. Backup(p)'
    BY <1>1, <1>4 DEF Solo, Backup, Unseen, Filling, Filled, Late, FileCall, Has
  <2>4. Result(p)'
    BY <1>1, <1>4 DEF Solo, Result, Unseen, Filling, Filled, Late, FileCall, Has
  <2>5. Private(p)'
    BY <1>1, <1>4 DEF Solo, Private, Unseen, Filling, Filled, Late, FileCall, Has
  <2>6. Owned(p)'
    BY <1>1, <1>4 DEF Solo, Owned, Unseen, Filling, Filled, Late, FileCall, Has
  <2>7. Boxed(p)'
    BY <1>1, <1>4 DEF Solo, Boxed, Unseen, Filling, Filled, Late, FileCall, Has
  <2> QED BY <2>1, <2>2, <2>3, <2>4, <2>5, <2>6, <2>7 DEF Solo
<1> QED BY <1>2, <1>3, <1>4, HardLinkName

LEMMA SymLinkSolo ==
  ASSUME IInv, NEW p \in Runs, Fine(p), was' = was, Solo(p), SymLink(p)
  PROVE  Solo(p)'
<1>1. /\ TypeOK /\ p \in Proc /\ ProcInv(p) /\ req' = req
      /\ {Tmp(p), "to", "bak"} \subseteq Name /\ Tmp(p) \notin {"to", "bak"}
  BY StepFacts
<1>2. CASE Fails(p) /\ dir'["to"] = dir["to"]
  BY <1>1, <1>2, SymLinkName, SoloFails DEF Unseen, Late
<1>3. CASE pc[p] = "symlink" /\ Linked(p, SymOf(p)) /\ l' = l /\ file' = file
  <2>1. pc'[p] \in {"rmdir", "done"} /\ (pc'[p] = "rmdir" => dir'["to"] = dir["to"])
    BY <1>1, <1>3 DEF Linked
  <2>2. pc'[p] = "done" => dir'["to"] \in {Src, SymOf(p)}
    BY <1>1, <1>3 DEF Linked
  <2>3. req[p].link # "none" /\ SymOf(p)' = SymOf(p)
    BY <1>1, <1>3 DEF ProcInv, Route, LinkCall, SymOf
  <2>4. Before(p)'
    BY <1>1, <1>3, <2>1, <2>2, <2>3 DEF Solo, Before, Unseen, Filling, Filled, Late, FileCall, Has
  <2>5. Locks(p)'
    BY <1>1, <1>3, <2>1, <2>2 DEF Solo, Locks, Unseen, Filling, Filled, Late, FileCall, Has
  <2>6. Backup(p)'
    BY <1>1, <1>3, <2>1, <2>2, <2>3 DEF Solo, Backup, Unseen, Filling, Filled, Late, FileCall, Has
  <2>7. Result(p)'
    BY <1>1, <1>3, <2>1, <2>2, <2>3 DEF Solo, Result, Unseen, Filling, Filled, Late, FileCall, Has
  <2>8. Private(p)'
    BY <1>1, <1>3, <2>1, <2>2, <2>3 DEF Solo, Private, Unseen, Filling, Filled, Late, FileCall, Has
  <2>9. Owned(p)'
    BY <1>1, <1>3, <2>1, <2>2, <2>3 DEF Solo, Owned, Unseen, Filling, Filled, Late, FileCall, Has
  <2>10. Boxed(p)'
    BY <1>1, <1>3, <2>3 DEF Solo, Boxed, Unseen, Filling, Filled, Late, FileCall, Has
  <2> QED BY <2>4, <2>5, <2>6, <2>7, <2>8, <2>9, <2>10 DEF Solo
<1> QED BY <1>2, <1>3, SymLinkName

LEMMA LinkRmdirSolo ==
  ASSUME IInv, NEW p \in Runs, Fine(p), was' = was, Solo(p), LinkRmdir(p)
  PROVE  Solo(p)'
<1>1. /\ TypeOK /\ p \in Proc /\ ProcInv(p) /\ req' = req
      /\ {Tmp(p), "to", "bak"} \subseteq Name /\ Tmp(p) \notin {"to", "bak"}
  BY StepFacts
<1>2. CASE Fails(p) /\ dir'["to"] = dir["to"]
  BY <1>1, <1>2, LinkRmdirName, SoloFails DEF Unseen, Late
<1>3. CASE /\ pc[p] = "rmdir" /\ pc'[p] = "lunlock" /\ l' = l /\ file' = file
           /\ dir'["to"] = IF dir["to"] = Dir THEN None ELSE dir["to"]
  <2>1. ~ Has(p, "sandbox") => dir["to"] = was \/ was = Dir
    BY <1>1, <1>3 DEF Solo, Before, Unseen
  <2>2. req[p].link # "none"
    BY <1>1, <1>3 DEF ProcInv, Route, LinkCall
  <2>3. ~ Has(p, "sandbox") => dir'["to"] = was \/ was = Dir
    BY <1>1, <1>3, <2>1 DEF Solo, Before
  <2>4. Before(p)'
    BY <1>1, <1>3, <2>1, <2>2, <2>3 DEF Solo, Before, Unseen, Filling, Filled, Late, FileCall, Has
  <2>5. Locks(p)'
    BY <1>1, <1>3, <2>3 DEF Solo, Locks, Unseen, Filling, Filled, Late, FileCall, Has
  <2>6. Backup(p)'
    BY <1>1, <1>3, <2>1, <2>2, <2>3 DEF Solo, Backup, Unseen, Filling, Filled, Late, FileCall, Has
  <2>7. Result(p)'
    BY <1>1, <1>3, <2>2, <2>3 DEF Solo, Result, Unseen, Filling, Filled, Late, FileCall, Has
  <2>8. Private(p)'
    BY <1>1, <1>3, <2>2, <2>3 DEF Solo, Private, Unseen, Filling, Filled, Late, FileCall, Has
  <2>9. Owned(p)'
    BY <1>1, <1>3, <2>2 DEF Solo, Owned, Unseen, Filling, Filled, Late, FileCall, Has
  <2>10. Boxed(p)'
    BY <1>1, <1>3 DEF Solo, Boxed, Unseen, Filling, Filled, Late, FileCall, Has
  <2> QED BY <2>4, <2>5, <2>6, <2>7, <2>8, <2>9, <2>10 DEF Solo
<1> QED BY <1>2, <1>3, LinkRmdirName

LEMMA LinkRenameSolo ==
  ASSUME IInv, NEW p \in Runs, Fine(p), was' = was, Solo(p), LinkRename(p)
  PROVE  Solo(p)'
<1>1. /\ TypeOK /\ p \in Proc /\ ProcInv(p) /\ req' = req
      /\ {Tmp(p), "to", "bak"} \subseteq Name /\ Tmp(p) \notin {"to", "bak"}
  BY StepFacts
<1>2. CASE Fails(p) /\ dir'["to"] = dir["to"]
  BY <1>1, <1>2, LinkRenameName, SoloFails DEF Unseen, Late
<1>3. CASE /\ pc[p] = "lrename" /\ pc'[p] = "lunlink" /\ l' = l /\ file' = file
           /\ dir'["to"] = dir[Tmp(p)]
  <2>1. dir'["to"] \in {Src, SymOf(p)} /\ SymOf(p)' = SymOf(p)
    BY <1>1, <1>3 DEF ProcInv, Temporary, Temp0, SymOf
  <2>2. req[p].link # "none"
    BY <1>1, <1>3 DEF ProcInv, Route, LinkCall
  <2>3. Before(p)'
    BY <1>1, <1>3, <2>1, <2>2 DEF Solo, Before, Unseen, Filling, Filled, Late, FileCall, Has
  <2>4. Locks(p)'
    BY <1>1, <1>3, <2>1 DEF Solo, Locks, Unseen, Filling, Filled, Late, FileCall, Has
  <2>5. Backup(p)'
    BY <1>1, <1>3, <2>1, <2>2 DEF Solo, Backup, Unseen, Filling, Filled, Late, FileCall, Has
  <2>6. Result(p)'
    BY <1>1, <1>3, <2>1, <2>2 DEF Solo, Result, Unseen, Filling, Filled, Late, FileCall, Has
  <2>7. Private(p)'
    BY <1>1, <1>3, <2>1, <2>2 DEF Solo, Private, Unseen, Filling, Filled, Late, FileCall, Has
  <2>8. Owned(p)'
    BY <1>1, <1>3, <2>2 DEF Solo, Owned, Unseen, Filling, Filled, Late, FileCall, Has
  <2>9. Boxed(p)'
    BY <1>1, <1>3 DEF Solo, Boxed, Unseen, Filling, Filled, Late, FileCall, Has
  <2> QED BY <2>3, <2>4, <2>5, <2>6, <2>7, <2>8, <2>9 DEF Solo
<1> QED BY <1>2, <1>3, LinkRenameName

LEMMA LinkUnlinkSolo ==
  ASSUME IInv, NEW p \in Runs, Fine(p), was' = was, Solo(p), LinkUnlink(p)
  PROVE  Solo(p)'
<1>1. /\ TypeOK /\ p \in Proc /\ ProcInv(p) /\ req' = req
      /\ {Tmp(p), "to", "bak"} \subseteq Name /\ Tmp(p) \notin {"to", "bak"}
  BY StepFacts
<1>2. pc[p] = "lunlink" /\ pc'[p] = "done" /\ file' = file /\ dir'["to"] = dir["to"] /\ l' = l
  BY <1>1, LinkUnlinkName
<1>3. SymOf(p)' = SymOf(p)
  BY <1>1 DEF SymOf
<1>4. req[p].link # "none"
  BY <1>1 DEF ProcInv, Route, LinkCall, LinkUnlink, At
<1>5. Before(p)'
  BY <1>1, <1>2, <1>4 DEF Solo, Before, Unseen, Filling, Filled, Late, FileCall, Has
<1>6. Locks(p)'
  BY <1>1, <1>2 DEF Solo, Locks, Unseen, Filling, Filled, Late, FileCall, Has
<1>7. Backup(p)'
  BY <1>1, <1>2, <1>4 DEF Solo, Backup, Unseen, Filling, Filled, Late, FileCall, Has
<1>8. Result(p)'
  BY <1>1, <1>2, <1>4 DEF Solo, Result, Unseen, Filling, Filled, Late, FileCall, Has
<1>9. Private(p)'
  BY <1>1, <1>2, <1>4 DEF Solo, Private, Unseen, Filling, Filled, Late, FileCall, Has
<1>10. Owned(p)'
  BY <1>1, <1>2, <1>4 DEF Solo, Owned, Unseen, Filling, Filled, Late, FileCall, Has
<1>11. Boxed(p)'
  BY <1>1, <1>2, <1>4 DEF Solo, Boxed, Unseen, Filling, Filled, Late, FileCall, Has
<1> QED BY <1>5, <1>6, <1>7, <1>8, <1>9, <1>10, <1>11 DEF Solo

-----------------------------------------------------------------------------
(* The attributes, in the sandbox and out of it: they change no data, and the
   target stays the file that is open.                                       *)
LEMMA AttrFacts ==
  ASSUME IInv, NEW p \in Runs, Fine(p), pc[p] \in Late \ {"reopento"}
  PROVE  /\ TypeOK /\ p \in Proc /\ req' = req /\ req[p].link = "none"
         /\ {"to", "bak"} \subseteq Name /\ l[p].fd \in Inode /\ file[l[p].fd] \in Attr
         /\ pc[p] \notin Unseen
<1>1. TypeOK /\ p \in Proc /\ ProcInv(p) /\ req' = req
  BY DEF IInv, Fine, Alters
<1>2. l[p].fd # None /\ l[p] \in Locals
  BY <1>1, TypeOfLocals DEF ProcInv, Working
<1>3. l[p].fd \in Inode
  BY <1>2 DEF Locals
<1>4. file[l[p].fd] \in Attr
  BY <1>1, <1>3 DEF TypeOK
<1>5. {"to", "bak"} \subseteq Name
  BY DEF Name
<1> QED BY <1>1, <1>3, <1>4, <1>5 DEF ProcInv, Route, FileCall, Late, Unseen

LEMMA RemovedSolo ==
  ASSUME IInv, NEW p \in Runs, Fine(p), was' = was, Solo(p), Removed(p), pc[p] \in Late
  PROVE  Solo(p)'
<1>1. dir'["bak"] = dir["bak"] /\ req' = req
  BY DEF Removed, IInv, TypeOK, Name, Fine, Alters
<1> QED BY <1>1, SoloFails DEF Removed

(* What such a step keeps. *)
LEMMA AttrKeeps ==
  ASSUME IInv, NEW p \in Runs, Fine(p), was' = was, Solo(p),
         pc[p] \in Late \ {"reopento"}, pc'[p] \in {"chown", "chmod", "chflags", "done"},
         dir' = dir, l'[p].fd = l[p].fd, l'[p].match = l[p].match,
         \A i \in Inode : file'[i].data = file[i].data
  PROVE  Before(p)' /\ Locks(p)' /\ Backup(p)' /\ Result(p)' /\ Boxed(p)'
<1>1. req' = req /\ req[p].link = "none" /\ pc[p] \in Late /\ TypeOK
  BY AttrFacts
<1>2. pc'[p] \notin Unseen /\ pc'[p] \notin Filling /\ pc'[p] \notin Filled
      /\ pc'[p] \in Late \cup {"done"} /\ pc[p] \in FileCall
  BY <1>1 DEF Unseen, Filling, Filled, Late, FileCall
<1>3. dir["to"] \in Inode \cup {None}
  BY <1>1 DEF TypeOK, Name
<1>4. Want(p)' = Want(p) /\ Plain(p)' = Plain(p) /\ Files(p)' = Files(p)
  BY <1>1 DEF Want, Plain, Has, Files, NewOf, StripOf
<1>5. Before(p)'
  BY <1>1, <1>2 DEF Solo, Before, Has
<1>6. Locks(p)'
  BY <1>2 DEF Locks
<1>7. Backup(p)'
  BY <1>1, <1>2 DEF Solo, Backup, Has
<1>8. Result(p)'
  <2>1. ~ Has(p, "sandbox") => dir["to"] \in Files(p) \cup {Old} /\ file[dir["to"]].data = Want(p)
                               /\ l[p].fd = dir["to"]
    BY <1>1 DEF Solo, Result
  <2>2. Files(p) \cup {Old} \subseteq Inode
    BY InodeFacts DEF IInv, Files
  <2> QED BY <1>1, <1>2, <1>4, <2>1, <2>2 DEF Result, Has
<1>9. Boxed(p)'
  BY <1>1, <1>2, <1>3, <1>4 DEF Solo, Boxed, Has
<1> QED BY <1>5, <1>6, <1>7, <1>8, <1>9

(* The file that is open is the only one that changes. *)
LEMMA OpenOnly ==
  ASSUME IInv, NEW p \in Runs, pc[p] \in Late \ {"reopento"}, Solo(p), Fine(p)
  PROVE  /\ ~ Has(p, "sandbox") => l[p].fd = dir["to"] /\ dir["to"] \in Inode
         /\ Private(p) /\ Owned(p)
         /\ req[p].mode \in {"suid", "plain"}
BY AttrFacts, ReqType DEF Solo, Result

LEMMA FstatSolo ==
  ASSUME IInv, NEW p \in Runs, Fine(p), was' = was, Solo(p), Fstat(p)
  PROVE  Solo(p)'
<1>1. pc[p] = "fstat" /\ pc[p] \in Late \ {"reopento"}
  BY FstatName DEF Late
<1>2. CASE Removed(p)
  BY <1>1, <1>2, RemovedSolo
<1>3. CASE /\ pc'[p] = "chown" /\ dir' = dir /\ file' = file
           /\ l'[p] = [l[p] EXCEPT !.sb = StatOf(l[p].fd)]
  <2>1. l'[p].fd = l[p].fd /\ l'[p].match = l[p].match /\ l'[p].sb = StatOf(l[p].fd)
    BY <1>1, <1>3, AttrFacts DEF TypeOK
  <2>2. l'[p].sb.own = file[l[p].fd].own /\ l'[p].sb.mode = file[l[p].fd].mode
    BY <2>1 DEF StatOf
  <2>3. Before(p)' /\ Locks(p)' /\ Backup(p)' /\ Result(p)' /\ Boxed(p)'
    BY <1>1, <1>3, <2>1, AttrKeeps
  <2>4. Private(p)'
    <3>1. ~ Has(p, "sandbox") /\ dir["to"] \in Files(p) =>
            l[p].fd = dir["to"] /\ file[dir["to"]].mode = "priv"
      BY <1>1, OpenOnly DEF Private
    <3>2. Files(p)' = Files(p) /\ req' = req
      BY <1>1, AttrFacts DEF Files, NewOf, StripOf
    <3>3. pc'[p] \notin Filling /\ pc'[p] \notin Filled
      BY <1>3 DEF Filling, Filled
    <3> QED BY <1>3, <2>2, <3>1, <3>2, <3>3 DEF Private, Has
  <2>5. Owned(p)'
    BY <1>1, <1>3, <2>1, <2>2 DEF Owned
  <2> QED BY <2>3, <2>4, <2>5 DEF Solo
<1> QED BY <1>2, <1>3, FstatName

LEMMA ChownSolo ==
  ASSUME IInv, NEW p \in Runs, Fine(p), was' = was, Solo(p), Chown(p)
  PROVE  Solo(p)'
<1>1. pc[p] = "chown" /\ pc[p] \in Late \ {"reopento"}
  BY ChownName DEF Late
<1>2. CASE Removed(p)
  BY <1>1, <1>2, RemovedSolo
<1>3. CASE /\ pc'[p] = "chmod" /\ dir' = dir /\ l' = l
           /\ \E off, drop \in BOOLEAN :
                file' = [file EXCEPT ![l[p].fd] = Chowned(p, off, drop)]
  <2> PICK off \in BOOLEAN, drop \in BOOLEAN :
        file' = [file EXCEPT ![l[p].fd] = Chowned(p, off, drop)]
    BY <1>3
  <2>1. TypeOK /\ l[p].fd \in Inode /\ file[l[p].fd] \in Attr /\ l[p].fd # None /\ req' = req
    BY <1>1, AttrFacts, InodeProp
  <2>2. \A i \in Inode : file'[i].data = file[i].data
    BY <2>1, ChownedProp
  <2>3. file'[l[p].fd] = Chowned(p, off, drop)
    BY <2>1 DEF TypeOK
  <2>4. file'[l[p].fd].own = (IF Owns(p) THEN "want" ELSE file[l[p].fd].own)
        /\ (file[l[p].fd].mode = "priv" => file'[l[p].fd].mode = "priv")
    BY <2>3 DEF Chowned
  <2>5. Before(p)' /\ Locks(p)' /\ Backup(p)' /\ Result(p)' /\ Boxed(p)'
    BY <1>1, <1>3, <2>2, AttrKeeps
  <2>6. Private(p)'
    <3>1. ~ Has(p, "sandbox") /\ dir["to"] \in Files(p) =>
            l[p].fd = dir["to"] /\ file[l[p].fd].mode = "priv" /\ l[p].sb.mode = "priv"
      BY <1>1, OpenOnly DEF Private
    <3>2. Files(p)' = Files(p)
      BY DEF Files, NewOf, StripOf
    <3>3. pc'[p] \notin Filling /\ pc'[p] \notin Filled
      BY <1>3 DEF Filling, Filled
    <3> QED BY <1>3, <2>1, <2>4, <3>1, <3>2, <3>3 DEF Private, Has
  <2>7. Owned(p)'
    <3>1. file[l[p].fd].own = l[p].sb.own
      BY <1>1, OpenOnly DEF Owned
    <3> QED BY <1>1, <1>3, <2>1, <2>4, <3>1 DEF Owned, Owns, Has
  <2> QED BY <2>5, <2>6, <2>7 DEF Solo
<1> QED BY <1>2, <1>3, ChownName

LEMMA ChmodSolo ==
  ASSUME IInv, NEW p \in Runs, Fine(p), was' = was, Solo(p), Chmod(p)
  PROVE  Solo(p)'
<1>1. pc[p] = "chmod" /\ pc[p] \in Late \ {"reopento"}
  BY ChmodName DEF Late
<1>2. CASE Removed(p)
  BY <1>1, <1>2, RemovedSolo
<1>3. CASE /\ pc'[p] = "chflags" /\ dir' = dir /\ l' = l
           /\ file' = IF Modes(p)
                      THEN [file EXCEPT ![l[p].fd].mode =
                              IF Has(p, "U") THEN "plain" ELSE req[p].mode]
                      ELSE file
  <2>1. TypeOK /\ l[p].fd \in Inode /\ file[l[p].fd] \in Attr /\ l[p].fd # None /\ req' = req
    BY <1>1, AttrFacts, InodeProp
  <2>2. \A i \in Inode : file'[i].data = file[i].data
    BY <1>3, <2>1, ModeProp
  <2>3. file'[l[p].fd].own = file[l[p].fd].own
        /\ (Modes(p) /\ ~ Has(p, "U") => file'[l[p].fd].mode = req[p].mode)
    BY <1>3, <2>1 DEF TypeOK, Attr
  <2>5. Before(p)' /\ Locks(p)' /\ Backup(p)' /\ Result(p)' /\ Boxed(p)'
    BY <1>1, <1>3, <2>2, AttrKeeps
  <2>6. Private(p)'
    <3>1. ~ Has(p, "sandbox") /\ dir["to"] \in Files(p) => Modes(p)
      BY <1>1, OpenOnly DEF Private, Modes
    <3> QED BY <1>1, <1>3, <2>1, <2>3, <3>1, OpenOnly
            DEF Private, Has, Filling, Filled, Late, Files, NewOf, StripOf
  <2>7. Owned(p)'
    BY <1>1, <1>3, <2>1, <2>3, OpenOnly DEF Owned, Has
  <2> QED BY <2>5, <2>6, <2>7 DEF Solo
<1> QED BY <1>2, <1>3, ChmodName

LEMMA ChflagsSolo ==
  ASSUME IInv, NEW p \in Runs, Fine(p), was' = was, Solo(p), Chflags(p)
  PROVE  Solo(p)'
<1>1. pc[p] = "chflags" /\ pc[p] \in Late \ {"reopento"}
  BY ChflagsName DEF Late
<1>2. CASE Removed(p)
  BY <1>1, <1>2, RemovedSolo
<1>3. CASE /\ pc'[p] = "done" /\ dir' = dir /\ l' = l
           /\ \/ file' = file
              \/ file' = [file EXCEPT ![l[p].fd].imm = Has(p, "f") \/ Has(p, "simm")]
  <2>1. TypeOK /\ l[p].fd \in Inode /\ file[l[p].fd] \in Attr /\ l[p].fd # None /\ req' = req
    BY <1>1, AttrFacts, InodeProp
  <2>2. \A i \in Inode : file'[i].data = file[i].data
    BY <1>3, <2>1, ImmProp
  <2>3. file'[l[p].fd].own = file[l[p].fd].own /\ file'[l[p].fd].mode = file[l[p].fd].mode
    BY <1>3, <2>1 DEF TypeOK, Attr
  <2>5. Before(p)' /\ Locks(p)' /\ Backup(p)' /\ Result(p)' /\ Boxed(p)'
    BY <1>1, <1>3, <2>2, AttrKeeps
  <2>6. Private(p)'
    BY <1>1, <1>3, <2>1, <2>3, OpenOnly
       DEF Private, Has, Filling, Filled, Late, Files, NewOf, StripOf
  <2>7. Owned(p)'
    BY <1>1, <1>3, <2>1, <2>3, OpenOnly DEF Owned, Has
  <2> QED BY <2>5, <2>6, <2>7 DEF Solo
<1> QED BY <1>2, <1>3, ChflagsName

-----------------------------------------------------------------------------

-----------------------------------------------------------------------------
(* In the sandbox. *)
LEMMA BoxFacts ==
  ASSUME IInv, NEW p \in Runs, Has(p, "sandbox"), Solo(p),
         pc[p] \in {"temp", "excl"} \cup Filling
  PROVE  /\ req[p].link = "none" /\ ~ l[p].match
         /\ pc[p] \in Unseen \cup {"excl"} /\ pc[p] # "strip2"
         /\ pc[p] \in Filling => /\ dir["to"] = NewOf(p) /\ l[p].fd = NewOf(p) /\ l[p].work = "to"
<1>1. ProcInv(p)
  BY DEF IInv
<1>2. pc[p] \in FileCall /\ pc[p] \in Unseen \cup {"excl"}
  BY DEF FileCall, Filling, Unseen
<1>3. req[p].link = "none" /\ pc[p] # "strip2"
  BY <1>1, <1>2 DEF ProcInv, Route, TempOnly
<1>4. ~ l[p].match
  BY <1>2 DEF Solo, Before
<1>5. pc[p] \in Filling => dir["to"] = NewOf(p) /\ l[p].fd = NewOf(p) /\ l[p].work = "to"
  BY <1>1, <1>3 DEF Solo, Boxed, ProcInv, Working
<1> QED BY <1>2, <1>3, <1>4, <1>5

LEMMA DirectBox ==
  ASSUME IInv, NEW p \in Runs, Fine(p), Has(p, "sandbox"), was' = was, Solo(p), Direct(p)
  PROVE  Solo(p)'
<1>1. pc[p] = "temp" /\ pc'[p] = "excl" /\ l' = l /\ "excl" \notin Filling
  BY GotoProp DEF IInv, Direct, At, Filling
<1> QED BY <1>1, BoxFacts, BoxEarly

LEMMA DirectOpenBox ==
  ASSUME IInv, NEW p \in Runs, Fine(p), Has(p, "sandbox"), was' = was, Solo(p), DirectOpen(p)
  PROVE  Solo(p)'
<1>1. pc[p] = "excl" /\ TypeOK /\ "to" \in Name
  BY StepFacts DEF DirectOpen, At
<1>2. CASE Fail(p)
  BY <1>1, <1>2, StepFacts, FailsProp, SoloFails
<1>3. CASE /\ dir' = [dir EXCEPT !["to"] = <<p, "new">>]
           /\ Set(p, [l[p] EXCEPT !.fd = <<p, "new">>, !.work = "to"])
           /\ Goto(p, IF Has(p, "s") THEN "strip" ELSE "copy")
  <2>1. pc'[p] \in Filling
    BY <1>1, <1>3, GotoProp DEF Filling
  <2>2. dir'["to"] = NewOf(p)
    BY <1>1, <1>3 DEF TypeOK, NewOf
  <2>3. l'[p].match = l[p].match
    BY <1>1, <1>3 DEF Set, TypeOK
  <2> QED BY <1>1, <2>1, <2>2, <2>3, BoxFacts, BoxEarly
<1> QED BY <1>2, <1>3 DEF DirectOpen

LEMMA StripBox ==
  ASSUME IInv, NEW p \in Runs, Fine(p), Has(p, "sandbox"), was' = was, Solo(p), Strip(p)
  PROVE  Solo(p)'
<1>1. /\ pc[p] = "strip" /\ pc[p] \in Filling /\ TypeOK /\ p \in Proc
      /\ req[p].link = "none" /\ ~ l[p].match
      /\ dir["to"] = NewOf(p) /\ l[p].fd = NewOf(p) /\ l[p].work = "to"
      /\ "copy" \in Filling /\ pc[p] \in Unseen /\ NewOf(p) \in Inode /\ StripOf(p) \in Inode
  BY StepFacts, BoxFacts, InodeFacts DEF Strip, At, Filling, Unseen
<1>2. CASE FailClean(p)
  BY <1>1, <1>2, StepFacts, FailsProp, SoloFails DEF FailClean
<1>3. CASE Goto(p, "copy") /\ dir' = dir /\ l' = l
  BY <1>1, <1>3, GotoProp, BoxEarly
<1>4. CASE Stripped(p, "fstat")
  <2>1. pc'[p] = "fstat" /\ l' = l
    BY <1>1, <1>4, GotoProp DEF Stripped
  <2>2. dir'["to"] # None /\ file'[dir'["to"]].data = Want(p)
    BY <1>1, <1>4, StrippedProp, InodeProp
  <2> QED BY <1>1, <2>1, <2>2, BoxFilled
<1> QED BY <1>1, <1>2, <1>3, <1>4 DEF Strip, fs

LEMMA CopySomeBox ==
  ASSUME IInv, NEW p \in Runs, Fine(p), Has(p, "sandbox"), was' = was, Solo(p), CopySome(p)
  PROVE  Solo(p)'
<1>1. /\ pc[p] = "copy" /\ pc[p] \in Filling /\ TypeOK
      /\ req[p].link = "none" /\ dir["to"] = NewOf(p)
      /\ "copying" \in Filling /\ pc[p] \in Unseen
  BY StepFacts, BoxFacts DEF CopySome, At, Filling, Unseen
<1>2. CASE Fail(p)
  BY <1>1, <1>2, StepFacts, FailsProp, SoloFails
<1>3. CASE Write(p, <<req[p].src, "part">>) /\ Goto(p, "copying") /\ l' = l
  BY <1>1, <1>3, GotoProp, BoxEarly DEF Write
<1> QED BY <1>2, <1>3 DEF CopySome

LEMMA CopyRestBox ==
  ASSUME IInv, NEW p \in Runs, Fine(p), Has(p, "sandbox"), was' = was, Solo(p), CopyRest(p)
  PROVE  Solo(p)'
<1>1. /\ pc[p] = "copying" /\ pc[p] \in Filling /\ TypeOK /\ p \in Proc
      /\ req[p].link = "none" /\ ~ l[p].match
      /\ dir["to"] = NewOf(p) /\ l[p].fd = NewOf(p) /\ l[p].work = "to"
      /\ pc[p] \in Unseen /\ NewOf(p) \in Inode
  BY StepFacts, BoxFacts, InodeFacts DEF CopyRest, At, Filling, Unseen
<1>2. CASE FailClean(p)
  BY <1>1, <1>2, StepFacts, FailsProp, SoloFails DEF FailClean
<1>3. CASE Write(p, Plain(p)) /\ l' = l /\ Goto(p, "fstat")
  <2>1. pc'[p] = "fstat" /\ dir'["to"] = NewOf(p)
    BY <1>1, <1>3, GotoProp DEF Write
  <2>2. file'[NewOf(p)].data = Plain(p)
    <3>1. Plain(p) \in Data /\ Write(p, Plain(p))
      BY <1>1, <1>3, DataType
    <3>2. \A i \in Inode : file'[i].data = IF i = l[p].fd THEN Plain(p) ELSE file[i].data
      BY <1>1, <3>1, WriteProp
    <3> QED BY <1>1, <3>2
  <2> QED BY <1>1, <1>3, <2>1, <2>2, InodeProp, BoxFilled
<1> QED BY <1>1, <1>2, <1>3 DEF CopyRest

-----------------------------------------------------------------------------
(* Every step of a lone install. *)
LEMMA AloneProp ==
  ASSUME IInv, Alone, NEW p \in Runs
  PROVE  Runs = {p} /\ (Sandboxed <=> Has(p, "sandbox"))
<1>1. IsFiniteSet(Runs)
  BY ProcAssumption, FS_Subset DEF IInv
<1>2. Cardinality(Runs \ {p}) = 0
  BY <1>1, FS_RemoveElement DEF Alone
<1>3. Runs \ {p} = {}
  BY <1>1, <1>2, FS_RemoveElement, FS_EmptySet
<1> QED BY <1>3 DEF Sandboxed

(* The step of p. *)
Step(p) ==
  \/ Main(p) \/ Lstat(p) \/ StartFails(p) \/ Compare(p) \/ Temp(p) \/ TempFails(p)
  \/ Direct(p) \/ DirectOpen(p) \/ Strip(p) \/ CopySome(p) \/ CopyRest(p)
  \/ StripInPlace(p) \/ Reopen(p) \/ CompareStripped(p)
  \/ Unlock(p) \/ UnlinkBackup(p) \/ LinkBackup(p) \/ Rename(p) \/ ReopenTo(p)
  \/ Fstat(p) \/ Chown(p) \/ Chmod(p) \/ Chflags(p)
  \/ HardLink(p) \/ SymLink(p) \/ LinkRmdir(p) \/ LinkUnlock(p)
  \/ LinkRename(p) \/ LinkUnlink(p)

LEMMA StepSolo ==
  ASSUME IInv, Alone, NEW p \in Runs, Fine(p), was' = was, Solo(p), Step(p)
  PROVE  Solo(p)'
<1>1. Sandboxed <=> Has(p, "sandbox")
  BY AloneProp
<1>2. CASE Main(p) \/ Lstat(p) \/ StartFails(p) \/ Compare(p) \/ TempFails(p)
  BY <1>2, MainSolo, LstatSolo, StartFailsSolo, CompareSolo, TempFailsSolo
<1>3. CASE Fstat(p) \/ Chown(p) \/ Chmod(p) \/ Chflags(p)
  BY <1>3, FstatSolo, ChownSolo, ChmodSolo, ChflagsSolo
<1>4. CASE \/ HardLink(p) \/ SymLink(p) \/ LinkRmdir(p) \/ LinkUnlock(p)
           \/ LinkRename(p) \/ LinkUnlink(p)
  BY <1>4, HardLinkSolo, SymLinkSolo, LinkRmdirSolo, LinkUnlockSolo, LinkRenameSolo, LinkUnlinkSolo
<1>5. CASE Direct(p) \/ DirectOpen(p)
  <2>1. Has(p, "sandbox")
    BY <1>1, <1>5, DirectNever
  <2> QED BY <1>5, <2>1, DirectBox, DirectOpenBox
<1>6. CASE Strip(p) \/ CopySome(p) \/ CopyRest(p)
  BY <1>1, <1>6, StripSolo, CopySomeSolo, CopyRestSolo, StripBox, CopySomeBox, CopyRestBox
<1>7. CASE \/ Temp(p) \/ StripInPlace(p) \/ Reopen(p) \/ CompareStripped(p)
           \/ Unlock(p) \/ UnlinkBackup(p) \/ LinkBackup(p) \/ Rename(p) \/ ReopenTo(p)
  <2>1. ~ Sandboxed
    <3>1. Temp(p) \/ pc[p] \in TempOnly
      BY <1>7 DEF StripInPlace, Reopen, CompareStripped, Unlock, UnlinkBackup, LinkBackup,
                  Rename, ReopenTo, At, TempOnly, Filled
    <3>2. ProcInv(p)
      BY DEF IInv
    <3> QED BY <1>1, <3>1, <3>2 DEF Temp, ProcInv, Route
  <2> QED BY <1>7, <2>1, TempSolo, StripInPlaceSolo, ReopenSolo, CompareStrippedSolo, UnlockSolo,
             UnlinkBackupSolo, LinkBackupSolo, RenameSolo, ReopenToSolo
<1> QED BY <1>2, <1>3, <1>4, <1>5, <1>6, <1>7 DEF Step

LEMMA StepWas ==
  ASSUME NEW p \in Runs, Step(p)
  PROVE  was' = was
BY DEF Step, Main, Lstat, StartFails, Compare, Temp, TempFails, Direct, DirectOpen, Strip,
       CopySome, CopyRest, StripInPlace, Reopen, CompareStripped, Unlock, UnlinkBackup,
       LinkBackup, Rename, ReopenTo, Fstat, Chown, Chmod, Chflags, HardLink, SymLink, LinkRmdir,
       LinkUnlock, LinkRename, LinkUnlink

LEMMA InitSolo == Init => AInv
<1> SUFFICES ASSUME Init, NEW p \in Runs PROVE Solo(p)
  BY DEF AInv
<1> PICK s \in Scenes :
      /\ dir = [n \in Name |-> IF n = "to" THEN s.at.to ELSE IF n = "bak" THEN s.at.bak
                               ELSE IF n = "alias" THEN s.at.alias ELSE None]
      /\ req = s.req
      /\ l = [q \in Runs |-> [target |-> FALSE, match |-> FALSE, fd |-> None,
                sb |-> [mode |-> "priv", own |-> "me", imm |-> FALSE, nlink |-> 0],
                work |-> Tmp(q), why |-> "main"]]
      /\ pc = [q \in Runs |-> "main"]
      /\ was = s.at.to
  BY DEF Init
<1>1. pc[p] = "main" /\ ~ l[p].match /\ was \in {None, Old, Dir, Src}
  BY InstallAssumption DEF TargetType
<1>2. dir["to"] = was
  BY DEF Name
<1>3. Before(p)
  BY <1>1, <1>2 DEF Before, FileCall, Filling, Filled, Late
<1>4. Backup(p)
  BY <1>1, <1>2 DEF Backup, Late
<1>5. Locks(p) /\ Result(p) /\ Private(p) /\ Owned(p) /\ Boxed(p)
  BY <1>1 DEF Locks, Result, Private, Owned, Boxed, Filling, Filled, Late
<1> QED BY <1>3, <1>4, <1>5 DEF Solo

LEMMA NextSolo == IInv /\ AInv /\ [Next]_vars => AInv'
<1> SUFFICES ASSUME IInv, AInv, [Next]_vars PROVE AInv'
  OBVIOUS
<1>1. CASE UNCHANGED vars
  <2>1. req' = req /\ l' = l /\ pc' = pc /\ dir' = dir /\ file' = file /\ was' = was
        /\ Runs' = Runs /\ Alone' = Alone
    BY <1>1 DEF vars, Runs, Alone
  <2>2. ASSUME NEW p \in Runs, Solo(p) PROVE Solo(p)'
    BY <2>1, <2>2 DEF Solo, Before, Locks, Backup, Result, Private, Owned, Boxed, Has, Files,
                      NewOf, StripOf, SymOf, Temp0, Want, Plain
  <2> QED BY <2>1, <2>2 DEF AInv
<1>2. CASE Next
  <2> PICK p \in Runs : Step(p)
    BY <1>2 DEF Next, Step
  <2>1. Fine(p) /\ was' = was
    BY NextFine, StepWas DEF Step
  <2>2. Runs' = Runs /\ Alone' = Alone
    BY <2>1 DEF Fine, Alters, Runs, Alone
  <2>3. ASSUME Alone PROVE Solo(p)'
    BY <2>1, <2>3, StepSolo DEF AInv, Step
  <2> QED BY <2>2, <2>3, AloneProp DEF AInv
<1> QED BY <1>1, <1>2

(* A lone install knows at every call what has become of the target, of the
   backup, of the data and of the attributes.                                *)
THEOREM Lone == Spec => [](IInv /\ AInv)
<1>1. Init => IInv /\ AInv
  BY InitInv, InitSolo
<1>2. IInv /\ AInv /\ [Next]_vars => (IInv /\ AInv)'
  BY NextInv, NextSolo
<1> QED BY <1>1, <1>2, PTL DEF Spec

-----------------------------------------------------------------------------
(* The exits. *)

(* No exit of install() leaves a temporary file but a failure to open a file
   for reading; the old file keeps a name under -b; and a success means the
   file or link asked for: all the data, the owner, the mode of a new file, a
   target that -C keeps only when it is what would be installed, and all the
   data in the sandbox too.                                                  *)
THEOREM RightExits == Spec => []ExitsRight
<1>1. ASSUME IInv, AInv, Alone, NEW p \in Runs
      PROVE  Solo(p) /\ ProcInv(p) /\ (Sandboxed <=> Has(p, "sandbox")) /\ p \in Proc
             /\ "done" \notin Late \cup Unseen
  BY <1>1, AloneProp DEF AInv, IInv, Late, Unseen
<1>2. ASSUME IInv, AInv PROVE BackupKeeps
  BY <1>1, <1>2 DEF BackupKeeps, Solo, Backup
<1>3. ASSUME IInv, AInv PROVE InstalledAlone
  <2> SUFFICES ASSUME Alone, ~ Sandboxed, NEW p \in Runs, Done(p)
               PROVE  IF req[p].link # "none" THEN dir["to"] \in {Src, <<p, "sym">>}
                      ELSE /\ dir["to"] # None
                           /\ file[dir["to"]].data = Want(p)
                           /\ Has(p, "chown") /\ ~ Has(p, "U") => file[dir["to"]].own = "want"
                           /\ dir["to"] # Old /\ ~ Has(p, "U") =>
                                file[dir["to"]].mode = req[p].mode
    BY DEF InstalledAlone
  <2>1. Solo(p) /\ ~ Has(p, "sandbox") /\ pc[p] = "done" /\ p \in Proc
    BY <1>1, <1>3 DEF Done
  <2>2. CASE req[p].link # "none"
    BY <2>1, <2>2 DEF Solo, Result, SymOf
  <2>3. CASE req[p].link = "none"
    <3>1. /\ dir["to"] \in Files(p) \cup {Old} /\ file[dir["to"]].data = Want(p)
          /\ l[p].fd = dir["to"]
      BY <2>1, <2>3 DEF Solo, Result
    <3>2. Has(p, "chown") /\ ~ Has(p, "U") => file[dir["to"]].own = "want"
      BY <2>1, <2>3, <3>1 DEF Solo, Owned
    <3>3. dir["to"] # Old /\ ~ Has(p, "U") => file[dir["to"]].mode = req[p].mode
      BY <2>1, <2>3, <3>1 DEF Solo, Private
    <3> QED BY <2>1, <2>3, <3>1, <3>2, <3>3, InodeFacts DEF Files
  <2> QED BY <2>2, <2>3
<1>4. ASSUME IInv, AInv PROVE ComparedRight
  <2> SUFFICES ASSUME Alone, NEW p \in Runs, l[p].match, ~ Failed(p)
               PROVE  file[dir["to"]].data = Want(p)
    BY DEF ComparedRight
  <2>1. Solo(p) /\ ProcInv(p)
    BY <1>1, <1>4
  <2>2. req[p].link = "none" /\ pc[p] \notin Unseen \cup {"excl"}
    BY <2>1 DEF Solo, Before
  <2>3. pc[p] \in Late \cup {"done"}
    <3>1. pc[p] \in Pcs /\ pc[p] \notin LinkCall
      BY <1>4, <2>1, <2>2 DEF IInv, TypeOK, ProcInv, Route
    <3> QED BY <2>2, <3>1 DEF Pcs, Failed, Late, Unseen, LinkCall
  <2> QED BY <2>1, <2>2, <2>3 DEF Solo, Result, Boxed
<1>5. ASSUME IInv, AInv PROVE SandboxDone
  BY <1>1, <1>5 DEF SandboxDone, Solo, Boxed, Done
<1>6. NoTempLeft /\ IInv /\ AInv => ExitsRight
  BY <1>2, <1>3, <1>4, <1>5 DEF ExitsRight, Installed
<1> QED BY <1>6, NoLitter, Lone, PTL

(* The old file's immutable bits after a failure. *)
LEMMA FailureFile ==
  ASSUME IInv, NEW p \in Runs, ~ Sandboxed, Step(p), pc'[p] = "failed",
         pc[p] \in {"compare", "temp", "reopen", "compare2"} \cup Filling
  PROVE  file' = file
<1>1. TypeOK /\ l[p].work = Tmp(p) /\ Tmp(p) # "to"
  BY Unboxed
<1>2. CASE Compare(p) \/ TempFails(p)
  BY <1>2 DEF Compare, TempFails, fs
<1>3. CASE Temp(p) \/ Direct(p) \/ DirectOpen(p)
  BY <1>1, <1>3, DirectNever, GotoProp DEF Temp
<1>4. CASE Strip(p)
  BY <1>1, <1>4, GotoProp DEF Strip, Stripped, FailClean, fs
<1>5. CASE CopySome(p)
  BY <1>1, <1>5, GotoProp DEF CopySome, fs
<1>6. CASE CopyRest(p)
  BY <1>1, <1>6, GotoProp DEF CopyRest, FailClean
<1>7. CASE StripInPlace(p)
  BY <1>1, <1>7, GotoProp DEF StripInPlace, Stripped, FailClean
<1>8. CASE Reopen(p) \/ CompareStripped(p)
  BY <1>8 DEF Reopen, CompareStripped, FailClean, fs
<1>9. CASE \/ Main(p) \/ Lstat(p) \/ StartFails(p) \/ Unlock(p) \/ UnlinkBackup(p)
           \/ LinkBackup(p) \/ Rename(p) \/ ReopenTo(p) \/ Fstat(p) \/ Chown(p) \/ Chmod(p)
           \/ Chflags(p) \/ HardLink(p) \/ SymLink(p) \/ LinkRmdir(p) \/ LinkUnlock(p)
           \/ LinkRename(p) \/ LinkUnlink(p)
  BY <1>9 DEF Main, Lstat, StartFails, Unlock, UnlinkBackup, LinkBackup, Rename, ReopenTo, Fstat,
              Chown, Chmod, Chflags, HardLink, SymLink, LinkRmdir, LinkUnlock, LinkRename,
              LinkUnlink, At, Filling
<1> QED BY <1>2, <1>3, <1>4, <1>5, <1>6, <1>7, <1>8, <1>9 DEF Step

LEMMA BackupFailed ==
  ASSUME IInv, NEW p \in Runs, Step(p), pc'[p] = "failed", pc[p] \in {"unlinkbak", "linkbak"}
  PROVE  BackupFails(p)
<1>1. TypeOK
  BY DEF IInv
<1>2. CASE UnlinkBackup(p)
  BY <1>1, <1>2, GotoProp DEF UnlinkBackup
<1>3. CASE LinkBackup(p)
  BY <1>1, <1>3, GotoProp DEF LinkBackup
<1>4. UnlinkBackup(p) \/ LinkBackup(p)
  BY DEF Step, Main, Lstat, StartFails, Compare, Temp, TempFails, Direct, DirectOpen, Strip,
         CopySome, CopyRest, StripInPlace, Reopen, CompareStripped, Unlock,
         Rename, ReopenTo, Fstat, Chown, Chmod, Chflags, HardLink, SymLink, LinkRmdir,
         LinkUnlock, LinkRename, LinkUnlink, At
<1> QED BY <1>2, <1>3, <1>4

LEMMA FailureName ==
  ASSUME IInv, NEW p \in Runs, ~ Sandboxed, Step(p), pc'[p] = "failed", pc[p] \notin Late
  PROVE  pc[p] \in Unseen /\ dir'["to"] = dir["to"]
<1>1. CASE Main(p) \/ Lstat(p) \/ StartFails(p) \/ Compare(p) \/ Temp(p) \/ TempFails(p)
  BY <1>1, MainName, LstatName, StartFailsName, CompareName, TempName, TempFailsName
     DEF Unseen
<1>2. CASE Direct(p) \/ DirectOpen(p)
  BY <1>2, DirectNever
<1>3. CASE Strip(p) \/ CopySome(p) \/ CopyRest(p) \/ StripInPlace(p)
  BY <1>3, StripName, CopySomeName, CopyRestName, StripInPlaceName DEF Unseen
<1>4. CASE Reopen(p) \/ CompareStripped(p) \/ Unlock(p) \/ UnlinkBackup(p)
           \/ LinkBackup(p) \/ Rename(p)
  BY <1>4, ReopenName, CompareStrippedName, UnlockName, UnlinkBackupName, LinkBackupName,
     RenameName DEF Unseen
<1>5. CASE ReopenTo(p) \/ Fstat(p) \/ Chown(p) \/ Chmod(p) \/ Chflags(p)
  BY <1>5 DEF ReopenTo, Fstat, Chown, Chmod, Chflags, At, Late
<1>6. CASE HardLink(p) \/ SymLink(p) \/ LinkRmdir(p)
  BY <1>6, HardLinkName, SymLinkName, LinkRmdirName DEF Unseen, Linked
<1>7. CASE LinkUnlock(p) \/ LinkRename(p) \/ LinkUnlink(p)
  BY <1>7, LinkUnlockName, LinkRenameName, LinkUnlinkName DEF Unseen
<1> QED BY <1>1, <1>2, <1>3, <1>4, <1>5, <1>6, <1>7 DEF Step

LEMMA FailureImm ==
  ASSUME IInv, NEW p \in Runs, ~ Sandboxed, Solo(p), Step(p), pc'[p] = "failed",
         pc[p] \notin Late \cup {"main", "start", "rename"}, was = Old, req[p].link = "none"
  PROVE  file'[Old].imm = l[p].sb.imm
<1>1. /\ TypeOK /\ ~ Has(p, "sandbox") /\ pc[p] \in Unseen /\ ProcInv(p)
      /\ Locks(p) /\ Before(p) /\ l[p].sb.imm \in BOOLEAN
  BY Unboxed, FailureName, TypeOfLocals DEF Solo, Locals, Stat
<1>2. pc[p] # "unlock"
  BY <1>1, UnlockName DEF Step, Main, Lstat, StartFails, Compare, Temp, TempFails, Direct,
     DirectOpen, Strip, CopySome, CopyRest, StripInPlace, Reopen, CompareStripped, UnlinkBackup,
     LinkBackup, Rename, ReopenTo, Fstat, Chown, Chmod, Chflags, HardLink, SymLink, LinkRmdir,
     LinkUnlock, LinkRename, LinkUnlink, At, Fails
<1>3. pc[p] \in {"compare", "temp", "reopen", "compare2", "unlinkbak", "linkbak"} \cup Filling
  BY <1>1, <1>2 DEF Unseen, ProcInv, Route, LinkCall, Filling
<1>4. CASE pc[p] \notin {"unlinkbak", "linkbak"}
  BY <1>1, <1>3, <1>4, FailureFile DEF Locks
<1>5. CASE pc[p] \in {"unlinkbak", "linkbak"}
  <2>1. BackupFails(p)
    BY <1>5, BackupFailed
  <2>2. dir["to"] = Old /\ Leads = Old /\ Old # None /\ Old \in Inode
    <3>1. p \in Proc
      BY DEF IInv
    <3>2. dir["to"] = Old /\ Old \notin {None, Dir}
      BY <1>1, <3>1, InodeFacts DEF Before
    <3> QED BY <3>1, <3>2, InodeFacts DEF Leads, SymOf
  <2>3. CASE l[p].sb.imm
    <3>1. file' = [file EXCEPT ![Old].imm = TRUE]
      BY <2>1, <2>2, <2>3 DEF BackupFails, Relabel
    <3>2. file'[Old].imm = TRUE
      BY <1>1, <2>2, <3>1 DEF TypeOK, Attr
    <3> QED BY <1>1, <2>3, <3>2
  <2>4. CASE ~ l[p].sb.imm
    <3>1. file' = file /\ ~ file[Old].imm
      BY <1>1, <1>5, <2>1, <2>4 DEF BackupFails, Locks
    <3>2. file[Old].imm \in BOOLEAN
      BY <1>1, <2>2 DEF TypeOK, Attr
    <3> QED BY <1>1, <2>4, <3>1, <3>2
  <2> QED BY <2>3, <2>4
<1> QED BY <1>4, <1>5

(* A lone install that fails before the rename leaves the target as it was
   (or nothing, of a directory that it has removed), and when no rename was
   tried the immutable bits that it found: BackupFails puts them back.       *)
THEOREM FailuresKeep == Spec => FailureKeeps
<1>1. ASSUME IInv, AInv, Next, Alone, ~ Sandboxed, NEW p \in Runs, pc'[p] = "failed",
             pc[p] \notin Late \cup {"main", "done", "failed"}
      PROVE  /\ dir'["to"] = was \/ was = Dir
             /\ was = Old /\ req[p].link = "none" /\ pc[p] \notin {"main", "start", "rename"}
                  => file'[Old].imm = l[p].sb.imm
  <2>1. Step(p)
    BY <1>1, AloneProp DEF Next, Step
  <2>2. Solo(p) /\ ~ Has(p, "sandbox")
    BY <1>1 DEF AInv, Sandboxed
  <2>3. pc[p] \in Unseen /\ dir'["to"] = dir["to"]
    BY <1>1, <2>1, FailureName
  <2>4. dir["to"] = was \/ was = Dir
    BY <2>2, <2>3 DEF Solo, Before
  <2> QED BY <1>1, <2>1, <2>2, <2>3, <2>4, FailureImm
<1>2. IInv /\ AInv /\ [Next]_vars =>
        [Alone /\ ~ Sandboxed =>
           \A p \in Runs :
             pc'[p] = "failed" /\ pc[p] \notin Late \cup {"main", "done", "failed"}
               => /\ dir'["to"] = was \/ was = Dir
                  /\ was = Old /\ req[p].link = "none"
                       /\ pc[p] \notin {"main", "start", "rename"}
                       => file'[Old].imm = l[p].sb.imm]_vars
  BY <1>1
<1> QED BY <1>2, Lone, PTL DEF Spec, FailureKeeps

(* install() replaces a file the way Replace promises, for any number of
   installs at the same name, and what fails before leaves what was there.   *)
THEOREM Replacement == Spec => Replaces
BY Replacing, FailuresKeep DEF Replaces

=============================================================================
