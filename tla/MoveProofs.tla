----------------------------- MODULE MoveProofs -----------------------------
(***************************************************************************)
(* The data that mv(1) moves is whole under one of its names at every      *)
(* moment, for any number of moves to one target beside a program that     *)
(* creates it, and what a success says is true.                            *)
(***************************************************************************)
EXTENDS MoveProps, FiniteSetTheorems, TLAPS

-----------------------------------------------------------------------------
(* The invariant.  A process is known by the call it is about to make.      *)
NewOf(p) == <<p, "new">>
SrcOf(p) == IF req[p].same THEN There ELSE <<p, "src">>
Fast     == {"open", "create", "unlink", "write", "rest", "chown", "chmod", "finish"}
Slow     == {"clear", "cp", "rm"}
Filling  == {"write", "rest", "chown", "chmod"}
Early    == {"main", "access", "exit"}

(* Which files come to which call. *)
Request(p) ==
  /\ req[p].same => ~ req[p].cross /\ req[p].kind = "reg" /\ file[There].kind = "reg"
  /\ pc[p] \in Fast => req[p].cross /\ req[p].kind = "reg"
  /\ pc[p] \in Slow => req[p].cross /\ req[p].kind # "reg"
  /\ pc[p] = "xdev" => req[p].cross
  /\ pc[p] = "ask" => req[p].flag # "f"

(* The source is whole under its name until mv exits. *)
Source(p) ==
  /\ file[<<p, "src">>].of = p /\ file[<<p, "src">>].kind = req[p].kind
  /\ file[NewOf(p)].of = p
  /\ dir[p] \in {SrcOf(p), None} /\ (dir[p] # None => To # <<p, "src">>)
  /\ pc[p] # "exit" => dir[p] = SrcOf(p) /\ file[<<p, "src">>].whole

(* A directory that has been copied: nothing replaces a full directory. *)
Copied(p) ==
  /\ ~ req[p].same /\ file[NewOf(p)].kind = "dir" /\ file[NewOf(p)].whole
  /\ NewOf(p) \in {To, dir["in"]}
Kept(p) ==
  /\ pc[p] = "rm" /\ req[p].kind = "dir" => Copied(p)
  /\ pc[p] = "exit" /\ status[p] # 0 => Holds(p, p) \/ Copied(p)
  /\ pc[p] = "exit" /\ status[p] = 0 /\ ~ req[p].same =>
       dir[p] = None \/ (req[p].flag # "f" /\ Holds(p, p))

(* The copy that is being made. *)
Guarded(p) ==
  /\ pc[p] \in Filling => l[p].fd = NewOf(p)
  /\ pc[p] \in {"chown", "chmod", "finish"} => file[NewOf(p)].whole
  /\ pc[p] = "chmod" /\ l[p].keep => file[NewOf(p)].own = req[p].own
  /\ req[p].kind = "reg" =>
       /\ ~ file[NewOf(p)].whole => file[NewOf(p)].mode0
       /\ file[NewOf(p)].suid => file[NewOf(p)].own = req[p].own
       /\ pc[p] \in {"write", "rest", "chown"} => ~ file[NewOf(p)].suid

(* Somebody's data is there, or somebody still owes his: a process that has
   not come to its end, unless it is writing to a file that has lost the name
   to another, which then owes its own.                                      *)
Arrived == \E q \in Runs : Holds("to", q) \/ Holds("in", q)
Settled(p) ==
  pc[p] \in {"chown", "chmod", "finish", "rm"} \/ (Moved(p) /\ dir[p] = None)
Owes(p) == ~ Settled(p) /\ ~ (pc[p] \in {"write", "rest"} /\ To # NewOf(p))
Owed    == Arrived \/ \E p \in Runs : Owes(p)

(* Alone, it finds what it has made. *)
Only(p) ==
  /\ pc[p] \in Filling \cup {"finish"} => To = NewOf(p)
  /\ pc[p] = "rm" => file[NewOf(p)].whole /\ NewOf(p) \in {To, dir["in"]}
  /\ Moved(p) /\ ~ req[p].same /\ dir[p] = None => Holds("to", p) \/ Holds("in", p)

(* With -n nobody gets past the target that was there. *)
Refused ==
  (\A p \in Runs : req[p].flag = "n") /\ file[There].kind # "lnk" =>
    \/ To = There /\ \A p \in Runs : pc[p] \in Early
    \/ To # There /\ \A p \in Runs : dir[p] # There

Safe(p) == Request(p) /\ Source(p) /\ Kept(p) /\ Guarded(p)
IInv ==
  /\ TypeOK
  /\ Runs # {} /\ Runs \subseteq Proc
  /\ dir["in"] # Created
  /\ \A p \in Runs : Safe(p)
  /\ Owed
  /\ Alone => \A p \in Runs : Only(p)
  /\ Refused

-----------------------------------------------------------------------------
(* The names and the files are different.                                   *)
Names == {"to", "in"} \cup Proc

LEMMA Distinct ==
  ASSUME NEW p \in Proc
  PROVE  /\ {NewOf(p), <<p, "src">>, There, Created} \subseteq Inode /\ None \notin Inode
         /\ NewOf(p) \notin {<<p, "src">>, There, Created, None}
         /\ <<p, "src">> \notin {There, Created, None}
         /\ There \notin {Created, None} /\ Created # None
         /\ p \notin {"to", "in"} /\ {p, "to", "in"} \subseteq Names
         /\ p \notin {"there", "created"}
         /\ \A q \in Proc \ {p} : /\ {NewOf(p), <<p, "src">>} \cap {NewOf(q), <<q, "src">>} = {}
BY ProcAssumption DEF Inode, NewOf, There, Created, None, Names

LEMMA Known ==
  ASSUME IInv, NEW p \in Runs
  PROVE  TypeOK /\ p \in Proc /\ Safe(p)
BY DEF IInv

(* A step of p leaves the other processes as they are, and their files; what
   it does to the target is to take it away, or to put something of its own
   there, but never in the stead of a full directory.                        *)
Alters(p) ==
  /\ req' = req
  /\ file'[There] = file[There]
  /\ \A q \in Runs \ {p} :
       /\ pc'[q] = pc[q] /\ l'[q] = l[q] /\ status'[q] = status[q] /\ dir'[q] = dir[q]
       /\ file'[NewOf(q)] = file[NewOf(q)] /\ file'[<<q, "src">>] = file[<<q, "src">>]
  /\ dir'[p] \in {dir[p], None}
  /\ dir'["to"] \in {dir["to"], None, dir[p], NewOf(p)}
  /\ dir'["to"] # dir["to"] /\ dir["to"] # None => file[To].kind # "dir"
  /\ dir'["in"] = dir["in"] \/ (dir["in"] = None /\ dir'["in"] = NewOf(p))

Declines(p) ==
  req[p].flag = "n" /\ To = There /\ file[There].kind # "lnk" /\ pc[p] \in Early
    => pc'[p] \in Early /\ dir' = dir

Fine(p) ==
  TypeOK' /\ Alters(p) /\ Safe(p)' /\ Owed' /\ (Alone => Only(p)') /\ Declines(p)

LEMMA AloneProp ==
  ASSUME IInv, Alone, NEW p \in Runs
  PROVE  Runs = {p}
<1>1. IsFiniteSet(Runs)
  BY ProcAssumption, FS_Subset DEF IInv
<1>2. Cardinality(Runs \ {p}) = 0
  BY <1>1, FS_RemoveElement DEF Alone
<1> QED BY <1>1, <1>2, FS_RemoveElement, FS_EmptySet

LEMMA OthersKeep ==
  ASSUME IInv, NEW p \in Runs, Fine(p)
  PROVE  IInv'
<1>1. TypeOK /\ p \in Proc /\ req' = req /\ Runs' = Runs /\ Alone' = Alone
  BY DEF IInv, Fine, Alters, Runs, Alone
<1>2. ASSUME NEW q \in Runs \ {p} PROVE Safe(q)'
  <2>1. /\ q \in Proc /\ Request(q) /\ Source(q) /\ Kept(q) /\ Guarded(q)
        /\ SrcOf(q)' = SrcOf(q) /\ NewOf(q)' = NewOf(q)
    BY <1>1 DEF IInv, Safe, SrcOf, NewOf
  <2>2. /\ pc'[q] = pc[q] /\ l'[q] = l[q] /\ status'[q] = status[q] /\ dir'[q] = dir[q]
        /\ file'[NewOf(q)] = file[NewOf(q)] /\ file'[<<q, "src">>] = file[<<q, "src">>]
        /\ file'[There] = file[There]
    BY DEF Fine, Alters
  <2>3. Request(q)' /\ Guarded(q)'
    BY <1>1, <2>1, <2>2 DEF Request, Guarded
  <2>4. Source(q)'
    <3>1. dir[p] \in {There, <<p, "src">>, None}
      BY DEF IInv, Safe, Source, SrcOf
    <3>2. dir'["to"] \in {dir["to"], None, There, <<p, "src">>, NewOf(p)}
      BY <3>1 DEF Fine, Alters
    <3>3. dir[q] # None => dir'["to"] # <<q, "src">>
      BY <1>1, <2>1, <3>2, Distinct DEF Source, To
    <3> QED BY <1>1, <2>1, <2>2, <3>3 DEF Source, To
  <2>5. Copied(q) => Copied(q)'
    <3>1. NewOf(q) # None
      BY <2>1, Distinct
    <3>2. NewOf(q) = dir["in"] => NewOf(q) = dir'["in"]
      BY <3>1 DEF Fine, Alters
    <3>3. NewOf(q) = To /\ file[NewOf(q)].kind = "dir" => NewOf(q) = To'
      BY <3>1 DEF Fine, Alters, To
    <3> QED BY <1>1, <2>1, <2>2, <3>2, <3>3 DEF Copied, To
  <2>6. Holds(q, q) => Holds(q, q)'
    <3>1. dir[q] \in {There, <<q, "src">>, None}
      BY <2>1 DEF Source, SrcOf
    <3> QED BY <1>1, <2>2, <3>1 DEF Holds
  <2>7. Kept(q)'
    BY <1>1, <2>1, <2>2, <2>5, <2>6 DEF Kept
  <2> QED BY <2>3, <2>4, <2>7 DEF Safe
<1>3. dir'["in"] # Created
  BY <1>1, Distinct DEF IInv, Fine, Alters
<1>4. Alone => \A q \in Runs : Only(q)'
  BY AloneProp DEF Fine
<1>5. Refused'
  <2> SUFFICES ASSUME \A q \in Runs : req[q].flag = "n", file[There].kind # "lnk"
               PROVE  \/ To' = There /\ \A q \in Runs : pc'[q] \in Early
                      \/ To' # There /\ \A q \in Runs : dir'[q] # There
    BY <1>1 DEF Refused, Fine, Alters
  <2>1. CASE To = There /\ \A q \in Runs : pc[q] \in Early
    <3>1. pc'[p] \in Early /\ dir' = dir
      BY <2>1 DEF Fine, Declines
    <3> QED BY <2>1, <3>1 DEF Fine, Alters, To
  <2>2. CASE To # There /\ \A q \in Runs : dir[q] # There
    BY <1>1, <2>2, Distinct DEF Fine, Alters, To
  <2> QED BY <2>1, <2>2 DEF IInv, Refused
<1> QED BY <1>1, <1>2, <1>3, <1>4, <1>5 DEF IInv, Fine

LEMMA StatusRange == 0 .. 2 = {0, 1, 2}
OBVIOUS

LEMMA InitInv == Init => IInv
<1> SUFFICES ASSUME Init PROVE IInv
  OBVIOUS
<1> PICK s \in Scenes :
    /\ req = s.req
    /\ dir = [n \in {"to", "in"} \cup Proc |->
                IF n \notin Runs \cup {"to"} \/ (n = "to" /\ ~ s.to.there) THEN None
                ELSE IF n = "to" \/ req[n].same THEN There ELSE <<n, "src">>]
    /\ file = [i \in Inode |->
                 IF i = There THEN [Node(s.to.kind, "there") EXCEPT !.writable = s.to.writable]
                 ELSE IF i = Created THEN Node("reg", "created")
                 ELSE IF i[1] \notin Runs THEN Node("reg", i[1])
                 ELSE [Node(req[i[1]].kind, i[1]) EXCEPT
                         !.suid = i[2] = "src" /\ req[i[1]].suid,
                         !.own = IF i[2] = "src" THEN req[i[1]].own ELSE "me"]]
    /\ l = [p \in Runs |-> [fd |-> None, keep |-> FALSE]]
    /\ pc = [p \in Runs |-> "main"]
    /\ status = [p \in Runs |-> 0]
  BY DEF Init
<1>1. /\ req \in [Runs -> RequestType] /\ Runs \subseteq Proc /\ Runs # {}
      /\ s.to \in TargetType
      /\ \A p \in Runs : req[p].same =>
           ~ req[p].cross /\ req[p].kind = "reg" /\ s.to.there /\ s.to.kind = "reg"
  BY MoveAssumption DEF Runs
<1>2. \A p \in Runs : req[p] \in RequestType /\ p \in Proc
  BY <1>1
<1>3. {There, Created} \subseteq Inode /\ \A p \in Runs : <<p, "src">> \in Inode /\ <<p, "new">> \in Inode
  BY <1>1 DEF Inode
<1>4. ASSUME NEW k \in Kind, NEW o \in Proc \cup {"there", "created"}
      PROVE  Node(k, o) \in FileType
  BY DEF Node, FileType
<1>5. file[There] = [Node(s.to.kind, "there") EXCEPT !.writable = s.to.writable]
  BY <1>3
<1>6. TypeOK
  <2>1. dir \in [{"to", "in"} \cup Proc -> Inode \cup {None}]
    BY <1>1, <1>3
  <2>2. file \in [Inode -> FileType]
    <3>1. ASSUME NEW i \in Inode PROVE file[i] \in FileType
      <4>1. CASE i = There
        BY <1>1, <4>1, <1>5 DEF Node, FileType, TargetType
      <4>2. CASE i # There /\ i = Created
        BY <1>1, <4>2 DEF Node, FileType, Kind
      <4>3. CASE i \in Proc \X {"src", "new"} /\ i # There /\ i # Created
        <5>1. i[1] \in Proc
          BY <4>3
        <5>2. CASE i[1] \notin Runs
          BY <4>3, <5>1, <5>2 DEF Node, FileType, Kind
        <5>3. CASE i[1] \in Runs
          <6>1. req[i[1]].kind \in Kind /\ req[i[1]].suid \in BOOLEAN /\ req[i[1]].own \in {"me", "other"}
            BY <1>2, <5>3 DEF RequestType, Kind
          <6> QED BY <4>3, <5>1, <5>3, <6>1 DEF Node, FileType
        <5> QED BY <5>2, <5>3
      <4> QED BY <4>1, <4>2, <4>3 DEF Inode
    <3> QED BY <3>1
  <2>3. l \in [Runs -> [fd : Inode \cup {None}, keep : BOOLEAN]]
    OBVIOUS
  <2>4. pc \in [Runs -> Pcs] /\ status \in [Runs -> 0 .. 2]
    <3>1. "main" \in Pcs
      BY DEF Pcs
    <3>2. 0 \in 0 .. 2
      BY StatusRange
    <3> QED BY <3>1, <3>2
  <2>5. req \in [Runs -> RequestType]
    BY <1>1
  <2> QED BY <2>1, <2>2, <2>3, <2>4, <2>5 DEF TypeOK
<1>7. ASSUME NEW p \in Runs
      PROVE  /\ dir[p] = SrcOf(p)
             /\ file[<<p, "src">>].of = p /\ file[<<p, "src">>].kind = req[p].kind
             /\ file[<<p, "src">>].whole
             /\ file[NewOf(p)].of = p /\ file[NewOf(p)].whole /\ ~ file[NewOf(p)].suid
  <2>1. p \in Proc
    BY <1>1
  <2>2. dir[p] = SrcOf(p)
    BY <2>1, Distinct DEF SrcOf
  <2>3. <<p, "src">> \in Inode \ {There, Created} /\ NewOf(p) \in Inode \ {There, Created}
    BY <2>1, Distinct
  <2>4. ASSUME NEW i \in Inode \ {There, Created}, i[1] = p
        PROVE  /\ file[i].of = p /\ file[i].kind = req[p].kind /\ file[i].whole
               /\ file[i].suid => i[2] = "src"
    <3> DEFINE b == i[2] = "src" /\ req[p].suid
               w == IF i[2] = "src" THEN req[p].own ELSE "me"
    <3>1. file[i] = [Node(req[p].kind, p) EXCEPT !.suid = b, !.own = w]
      BY <2>4
    <3>2. b => i[2] = "src"
      OBVIOUS
    <3> HIDE DEF b, w
    <3>3. /\ file[i].of = p /\ file[i].kind = req[p].kind /\ file[i].whole
          /\ file[i].suid = b
      BY <3>1 DEF Node
    <3> QED BY <3>2, <3>3
  <2>7. file[NewOf(p)].of = p /\ file[NewOf(p)].whole /\ ~ file[NewOf(p)].suid
    BY <2>3, <2>4 DEF NewOf
  <2>8. /\ file[<<p, "src">>].of = p /\ file[<<p, "src">>].kind = req[p].kind
        /\ file[<<p, "src">>].whole
    BY <2>3, <2>4
  <2> QED BY <2>2, <2>7, <2>8
<1>8. To \in {There, None} /\ dir["in"] = None /\ (To = There <=> s.to.there)
  <2>1. "in" \notin Runs
    BY <1>1, ProcAssumption
  <2> QED BY <2>1 DEF To, There, None
<1>9. ASSUME NEW p \in Runs PROVE Safe(p)
  <2>1. Request(p)
    <3>1. file[There].kind = s.to.kind
      BY <1>5 DEF Node
    <3> QED BY <1>1, <3>1 DEF Request, Fast, Slow
  <2>2. Source(p)
    <3>1. To # <<p, "src">>
      BY <1>8, <1>1, Distinct
    <3> QED BY <1>7, <3>1 DEF Source
  <2>3. Kept(p) /\ Guarded(p)
    BY <1>7 DEF Kept, Guarded, Filling
  <2> QED BY <2>1, <2>2, <2>3 DEF Safe
<1>10. \A p \in Runs : Owes(p) /\ Only(p)
  BY DEF Owes, Settled, Moved, Only, Filling
<1>11. Refused
  <2>1. \A p \in Runs : dir[p] = There => To = There
    <3>1. \A p \in Runs : dir[p] = There => req[p].same
      BY <1>1, <1>7, Distinct DEF SrcOf
    <3> QED BY <1>1, <1>8, <3>1
  <2> QED BY <1>8, <2>1 DEF Refused, Early, There, None
<1>12. dir["in"] # Created
  BY <1>1, <1>8, Distinct
<1> QED BY <1>1, <1>6, <1>9, <1>10, <1>11, <1>12 DEF IInv, Owed

-----------------------------------------------------------------------------
(* Where a process goes on, and with which status. *)
Turns(p, s, e) ==
  /\ pc' \in [Runs -> Pcs] /\ status' \in [Runs -> 0 .. 2]
  /\ pc'[p] = s /\ status'[p] = e
  /\ \A q \in Runs \ {p} : pc'[q] = pc[q] /\ status'[q] = status[q]

LEMMA ExitProp ==
  ASSUME TypeOK, NEW p \in Runs, NEW e \in {0, 1, 2}, Exit(p, e)
  PROVE  Turns(p, "exit", e)
<1>1. "exit" \in Pcs /\ e \in 0 .. 2
  BY StatusRange DEF Pcs
<1> QED BY <1>1 DEF TypeOK, Exit, Goto, Turns

LEMMA GoProp ==
  ASSUME TypeOK, NEW p \in Runs, NEW s \in Pcs, Go(p, s)
  PROVE  Turns(p, s, status[p])
BY DEF TypeOK, Go, Goto, Turns

LEMMA TypeKept ==
  ASSUME TypeOK, NEW p \in Runs, NEW s, NEW e, Turns(p, s, e), req' = req,
         dir' \in [{"to", "in"} \cup Proc -> Inode \cup {None}], file' \in [Inode -> FileType],
         l' \in [Runs -> [fd : Inode \cup {None}, keep : BOOLEAN]]
  PROVE  TypeOK'
<1>1. Runs' = Runs
  BY DEF Runs
<1> QED BY <1>1 DEF TypeOK, Turns

LEMMA AltersProp ==
  ASSUME TypeOK, NEW p \in Runs, p \in Proc, Runs \subseteq Proc, NEW s, NEW e, Turns(p, s, e),
         req' = req,
         \A q \in Runs \ {p} : l'[q] = l[q],
         \A n \in Names \ {"to", "in", p} : dir'[n] = dir[n],
         \A i \in Inode \ {NewOf(p), <<p, "src">>} : file'[i] = file[i],
         dir'[p] \in {dir[p], None},
         dir'["to"] \in {dir["to"], None, dir[p], NewOf(p)},
         dir'["to"] # dir["to"] /\ dir["to"] # None => file[To].kind # "dir",
         dir'["in"] = dir["in"] \/ (dir["in"] = None /\ dir'["in"] = NewOf(p))
  PROVE  Alters(p)
<1>1. file'[There] = file[There]
  BY Distinct
<1>2. ASSUME NEW q \in Runs \ {p}
      PROVE  /\ dir'[q] = dir[q] /\ file'[NewOf(q)] = file[NewOf(q)]
             /\ file'[<<q, "src">>] = file[<<q, "src">>]
  <2>1. q \in Names \ {"to", "in", p} /\ q \in Proc
    BY Distinct
  <2>2. {NewOf(q), <<q, "src">>} \subseteq Inode \ {NewOf(p), <<p, "src">>}
    BY <2>1, Distinct
  <2> QED BY <2>1, <2>2
<1> QED BY <1>1, <1>2 DEF Alters, Turns

(* A call that changes no file and no name: also every failure. *)
LEMMA CalmFine ==
  ASSUME IInv, NEW p \in Runs, UNCHANGED <<dir, file, req, l>>,
         NEW s \in {"access", "ask", "rename", "xdev", "open", "clear", "cp", "create",
                    "unlink", "exit"},
         NEW e, Turns(p, s, e), pc[p] # "exit",
         s = "exit" => e # 0 \/ req[p].flag # "f" \/ req[p].same,
         Request(p)', Declines(p)
  PROVE  Fine(p)
<1>1. TypeOK /\ p \in Proc /\ Source(p) /\ Kept(p) /\ Guarded(p) /\ Runs \subseteq Proc
      /\ pc'[p] = s /\ status'[p] = e
  BY Known DEF Safe, Turns, IInv
<1>2. dir[p] = SrcOf(p) /\ SrcOf(p) # None /\ SrcOf(p)' = SrcOf(p) /\ NewOf(p)' = NewOf(p)
      /\ Holds(p, p) /\ Holds(p, p)' /\ To' = To
  <2>1. dir[p] = SrcOf(p) /\ SrcOf(p) # None /\ SrcOf(p)' = SrcOf(p) /\ NewOf(p)' = NewOf(p)
    BY <1>1, Distinct DEF Source, SrcOf, NewOf
  <2>2. Holds(p, p)
    BY <1>1, <2>1 DEF Source, SrcOf, Holds
  <2> QED BY <2>1, <2>2 DEF Holds, To
<1>3. TypeOK'
  BY <1>1, TypeKept DEF TypeOK
<1>4. Alters(p)
  BY <1>1, AltersProp
<1>5. Safe(p)'
  <2>1. Source(p)' /\ Kept(p)'
    BY <1>1, <1>2 DEF Source, Kept
  <2>2. Guarded(p)'
    BY <1>1, <1>2 DEF Guarded, Filling
  <2> QED BY <2>1, <2>2 DEF Safe
<1>6. Owed'
  <2>1. Owes(p)'
    BY <1>1, <1>2 DEF Owes, Settled, Moved
  <2> QED BY <2>1 DEF Owed, Runs
<1>7. Only(p)'
  BY <1>1, <1>2 DEF Only, Filling, Moved
<1> QED BY <1>3, <1>4, <1>5, <1>6, <1>7 DEF Fine

LEMMA FailFine ==
  ASSUME IInv, NEW p \in Runs, UNCHANGED <<dir, file, req, l>>, NEW e \in {1, 2},
         Exit(p, e), pc[p] # "exit"
  PROVE  Fine(p)
<1>1. Turns(p, "exit", e) /\ TypeOK /\ Request(p)
  BY Known, ExitProp DEF Safe
<1>2. Request(p)'
  BY <1>1 DEF Turns, Request, Fast, Slow
<1>3. Declines(p)
  BY <1>1 DEF Turns, Declines, Early
<1> QED BY <1>1, <1>2, <1>3, CalmFine

LEMMA MainStep ==
  ASSUME IInv, NEW p \in Runs, Main(p)
  PROVE  Fine(p)
<1>1. pc[p] = "main" /\ TypeOK /\ Request(p) /\ UNCHANGED <<dir, file, req, l>>
  BY Known DEF Main, At, Safe
<1>2. CASE Exit(p, 2)
  BY <1>1, <1>2, FailFine
<1>3. CASE Go(p, "access")
  <2>1. Turns(p, "access", status[p])
    BY <1>1, <1>3, GoProp DEF Pcs
  <2>2. Request(p)' /\ Declines(p)
    BY <1>1, <2>1 DEF Request, Declines, Fast, Slow, Early, Turns
  <2> QED BY <1>1, <2>1, <2>2, CalmFine
<1> QED BY <1>2, <1>3 DEF Main

LEMMA AccessStep ==
  ASSUME IInv, NEW p \in Runs, Access(p)
  PROVE  Fine(p)
<1>1. pc[p] = "access" /\ TypeOK /\ Request(p) /\ Source(p) /\ p \in Proc
      /\ UNCHANGED <<dir, file, req, l>>
  BY Known DEF Access, At, Safe
<1>2. CASE Exit(p, 1)
  BY <1>1, <1>2, FailFine
<1>3. CASE Exit(p, 0) /\ req[p].flag = "n"
  <2>1. Turns(p, "exit", 0)
    BY <1>1, <1>3, ExitProp
  <2>2. Request(p)' /\ Declines(p)
    BY <1>1, <2>1 DEF Request, Declines, Fast, Slow, Early, Turns
  <2> QED BY <1>1, <1>3, <2>1, <2>2, CalmFine
<1>4. CASE Go(p, "ask") /\ req[p].flag \notin {"f", "n"}
  <2>1. Turns(p, "ask", status[p])
    BY <1>1, <1>4, GoProp DEF Pcs
  <2>2. Request(p)' /\ Declines(p)
    BY <1>1, <1>4, <2>1 DEF Request, Declines, Fast, Slow, Early, Turns
  <2> QED BY <1>1, <2>1, <2>2, CalmFine
<1>5. CASE Go(p, "rename") /\ (req[p].flag = "n" => KindOf(To) \in {"none", "lnk"})
  <2>1. Turns(p, "rename", status[p])
    BY <1>1, <1>5, GoProp DEF Pcs
  <2>2. Request(p)'
    BY <1>1, <2>1 DEF Request, Fast, Slow, Turns
  <2>3. ~ (req[p].flag = "n" /\ To = There /\ file[There].kind # "lnk")
    <3>1. file[There].kind \in Kind /\ There # None
      BY <1>1, Distinct DEF TypeOK, FileType
    <3> QED BY <1>5, <3>1 DEF KindOf, Kind
  <2> QED BY <1>1, <2>1, <2>2, <2>3, CalmFine DEF Declines
<1>6. \/ Exit(p, 1) \/ (Exit(p, 0) /\ req[p].flag = "n")
      \/ (Go(p, "ask") /\ req[p].flag \notin {"f", "n"})
      \/ (Go(p, "rename") /\ (req[p].flag = "n" => KindOf(To) \in {"none", "lnk"}))
  BY DEF Access
<1> QED BY <1>2, <1>3, <1>4, <1>5, <1>6

LEMMA AskStep ==
  ASSUME IInv, NEW p \in Runs, Ask(p)
  PROVE  Fine(p)
<1>1. pc[p] = "ask" /\ TypeOK /\ Request(p) /\ req[p].flag # "f" /\ UNCHANGED <<dir, file, req, l>>
  BY Known DEF Ask, At, Safe, Request
<1>2. CASE Exit(p, 0)
  <2>1. Turns(p, "exit", 0)
    BY <1>1, <1>2, ExitProp
  <2>2. Request(p)' /\ Declines(p)
    BY <1>1, <2>1 DEF Request, Declines, Fast, Slow, Early, Turns
  <2> QED BY <1>1, <2>1, <2>2, CalmFine
<1>3. CASE Go(p, "rename")
  <2>1. Turns(p, "rename", status[p])
    BY <1>1, <1>3, GoProp DEF Pcs
  <2>2. Request(p)' /\ Declines(p)
    BY <1>1, <2>1 DEF Request, Declines, Fast, Slow, Early, Turns
  <2> QED BY <1>1, <2>1, <2>2, CalmFine
<1> QED BY <1>2, <1>3 DEF Ask

LEMMA CrossDeviceStep ==
  ASSUME IInv, NEW p \in Runs, CrossDevice(p)
  PROVE  Fine(p)
<1>1. /\ pc[p] = "xdev" /\ TypeOK /\ Request(p) /\ Source(p) /\ p \in Proc
      /\ UNCHANGED <<dir, file, req, l>>
  BY Known DEF CrossDevice, At, Safe
<1>2. CASE Exit(p, 1)
  BY <1>1, <1>2, FailFine
<1>3. CASE Go(p, IF KindOf(dir[p]) = "reg" THEN "open" ELSE "clear")
  <2>1. KindOf(dir[p]) = req[p].kind
    BY <1>1, Distinct DEF Source, SrcOf, KindOf, Request
  <2> DEFINE s == IF req[p].kind = "reg" THEN "open" ELSE "clear"
  <2>2. Turns(p, s, status[p])
    BY <1>1, <1>3, <2>1, GoProp DEF Pcs
  <2>3. Request(p)' /\ Declines(p)
    BY <1>1, <2>2 DEF Request, Declines, Fast, Slow, Early, Turns
  <2> QED BY <1>1, <2>2, <2>3, CalmFine
<1> QED BY <1>2, <1>3 DEF CrossDevice

LEMMA OpenStep ==
  ASSUME IInv, NEW p \in Runs, Open(p)
  PROVE  Fine(p)
<1>1. pc[p] = "open" /\ TypeOK /\ Request(p) /\ UNCHANGED <<dir, file, req, l>>
  BY Known DEF Open, At, Safe
<1>2. CASE Exit(p, 1)
  BY <1>1, <1>2, FailFine
<1>3. CASE Go(p, "create")
  <2>1. Turns(p, "create", status[p])
    BY <1>1, <1>3, GoProp DEF Pcs
  <2>2. Request(p)' /\ Declines(p)
    BY <1>1, <2>1 DEF Request, Declines, Fast, Slow, Early, Turns
  <2> QED BY <1>1, <2>1, <2>2, CalmFine
<1> QED BY <1>2, <1>3 DEF Open

-----------------------------------------------------------------------------
(* The calls that change a file or a name. *)
LEMMA Facts ==
  ASSUME IInv, NEW p \in Runs
  PROVE  /\ TypeOK /\ p \in Proc /\ Runs \subseteq Proc
         /\ Request(p) /\ Source(p) /\ Kept(p) /\ Guarded(p)
         /\ {p, "to", "in"} \subseteq Names /\ p \notin {"to", "in"}
         /\ {NewOf(p), <<p, "src">>, There} \subseteq Inode /\ SrcOf(p) \in Inode
         /\ NewOf(p) \notin {<<p, "src">>, There, Created, None, SrcOf(p)}
         /\ <<p, "src">> \notin {There, None} /\ SrcOf(p) # None /\ There # None
         /\ dir \in [Names -> Inode \cup {None}] /\ file \in [Inode -> FileType]
         /\ dir["in"] # Created
<1>1. TypeOK /\ p \in Proc /\ Runs \subseteq Proc /\ Safe(p) /\ dir["in"] # Created
  BY DEF IInv
<1>2. dir \in [Names -> Inode \cup {None}] /\ file \in [Inode -> FileType]
  BY <1>1 DEF TypeOK, Names
<1> QED BY <1>1, <1>2, Distinct DEF Safe, SrcOf

(* Nothing that was there is lost. *)
LEMMA OwedSettled ==
  ASSUME IInv, NEW p \in Runs, req' = req, To' = To, dir'["in"] = dir["in"],
         \A q \in Runs \ {p} : dir'[q] = dir[q],
         \A i \in Inode : file'[i].of = file[i].of /\ (file[i].whole => file'[i].whole),
         NEW s, NEW e, Turns(p, s, e), Owes(p) => Owes(p)' \/ Arrived'
  PROVE  Owed'
<1>1. Runs' = Runs /\ To \in Inode \cup {None} /\ dir["in"] \in Inode \cup {None}
  BY Facts DEF Runs, To, TypeOK
<1>2. ASSUME Arrived PROVE Arrived'
  <2> PICK q \in Runs : Holds("to", q) \/ Holds("in", q)
    BY <1>2 DEF Arrived
  <2>1. Holds("to", q)' \/ Holds("in", q)'
    BY <1>1 DEF Holds, To
  <2> QED BY <1>1, <2>1 DEF Arrived
<1>3. ASSUME NEW q \in Runs \ {p}, Owes(q) PROVE Owes(q)'
  <2>1. NewOf(q)' = NewOf(q)
    BY DEF NewOf
  <2> QED BY <1>3, <2>1 DEF Owes, Settled, Moved, Turns
<1> QED BY <1>1, <1>2, <1>3 DEF Owed, IInv

LEMMA RenameStep ==
  ASSUME IInv, NEW p \in Runs, Rename(p)
  PROVE  Fine(p)
<1>1. pc[p] = "rename" /\ UNCHANGED <<file, req, l>>
  BY DEF Rename, At
<1>2. CASE Exit(p, 1) /\ dir' = dir
  BY <1>1, <1>2, FailFine
<1>3. CASE Go(p, "xdev") /\ req[p].cross /\ dir' = dir
  <2>1. Turns(p, "xdev", status[p])
    BY <1>3, Facts, GoProp DEF Pcs
  <2>2. Request(p)' /\ Declines(p)
    BY <1>1, <1>3, <2>1, Facts DEF Request, Declines, Fast, Slow, Early, Turns
  <2> QED BY <1>1, <1>3, <2>1, <2>2, CalmFine
<1>4. CASE Exit(p, 0) /\ dir[p] # None /\ dir[p] = To /\ dir' = dir
  <2>1. Turns(p, "exit", 0)
    BY <1>4, Facts, ExitProp
  <2>2. Request(p)' /\ Declines(p)
    BY <1>1, <2>1, Facts DEF Request, Declines, Fast, Slow, Early, Turns
  <2>3. req[p].same
    BY <1>1, <1>4, Facts DEF Source, SrcOf
  <2> QED BY <1>1, <1>4, <2>1, <2>2, <2>3, CalmFine
<1>5. CASE /\ Exit(p, 0) /\ dir[p] # None /\ dir[p] # To /\ Fits(p)
           /\ dir' = [dir EXCEPT !["to"] = dir[p], ![p] = None]
  <2>1. Turns(p, "exit", 0) /\ TypeOK
    BY <1>5, Facts, ExitProp
  <2>2. /\ dir'["to"] = dir[p] /\ dir'[p] = None /\ dir'["in"] = dir["in"]
        /\ \A n \in Names \ {"to", p} : dir'[n] = dir[n]
    BY <1>5, Facts
  <2>3. dir[p] = SrcOf(p) /\ (req[p].same \/ (file[dir[p]].of = p /\ file[dir[p]].whole))
    BY <1>1, Facts DEF Source, SrcOf
  <2>4. Holds("to", p)'
    BY <1>1, <1>5, <2>2, <2>3 DEF Holds, SrcOf
  <2>5. TypeOK'
    <3>1. dir' \in [Names -> Inode \cup {None}]
      BY <1>5, Facts
    <3> QED BY <1>1, <2>1, <3>1, TypeKept DEF TypeOK, Names
  <2>6. Alters(p)
    <3>1. To # None => file[To].kind # "dir"
      BY <1>5 DEF Fits, KindOf, IsDir
    <3> QED BY <1>1, <2>1, <2>2, <3>1, Facts, AltersProp DEF To
  <2>7. Safe(p)'
    <3>1. Request(p)' /\ Source(p)'
      BY <1>1, <2>1, <2>2, Facts DEF Request, Source, Fast, Slow, Turns, SrcOf, NewOf
    <3>2. Kept(p)' /\ Guarded(p)'
      BY <1>1, <2>1, <2>2, Facts DEF Kept, Guarded, Filling, Turns, NewOf
    <3> QED BY <3>1, <3>2 DEF Safe
  <2>8. Owed'
    BY <1>1, <2>4 DEF Owed, Arrived, Runs
  <2>9. Only(p)' /\ Declines(p)
    BY <1>1, <2>1, <2>4 DEF Only, Declines, Early, Filling, Turns
  <2> QED BY <2>5, <2>6, <2>7, <2>8, <2>9 DEF Fine
<1> QED BY <1>2, <1>3, <1>4, <1>5 DEF Rename

LEMMA WriteStep ==
  ASSUME IInv, NEW p \in Runs, Write(p)
  PROVE  Fine(p)
<1>1. pc[p] = "write" /\ UNCHANGED <<dir, file, req, l>> /\ Turns(p, "rest", status[p])
  BY Facts, GoProp DEF Write, At, Pcs
<1>2. TypeOK'
  BY <1>1, Facts, TypeKept DEF TypeOK
<1>3. Alters(p)
  BY <1>1, Facts, AltersProp
<1>4. Safe(p)'
  <2>1. Request(p)' /\ Source(p)'
    BY <1>1, Facts DEF Request, Source, Fast, Slow, Turns, SrcOf, NewOf, To
  <2>2. Kept(p)' /\ Guarded(p)'
    BY <1>1, Facts DEF Kept, Guarded, Filling, Turns, NewOf
  <2> QED BY <2>1, <2>2 DEF Safe
<1>5. Owed'
  <2>1. Owes(p) => Owes(p)'
    BY <1>1 DEF Owes, Settled, Moved, Turns, NewOf, To
  <2> QED BY <1>1, <2>1, OwedSettled DEF To
<1>6. Declines(p)
  BY <1>1 DEF Declines, Early
<1>7. Alone => Only(p)'
  BY <1>1, Facts DEF IInv, Only, Moved, Filling, Turns, NewOf, To
<1> QED BY <1>2, <1>3, <1>4, <1>5, <1>6, <1>7 DEF Fine

LEMMA UnlinkStep ==
  ASSUME IInv, NEW p \in Runs, Unlink(p)
  PROVE  Fine(p)
<1>1. pc[p] = "unlink" /\ UNCHANGED <<file, req, l>>
  BY DEF Unlink, At
<1>2. CASE Exit(p, 1) /\ dir' = dir
  BY <1>1, <1>2, FailFine
<1>3. CASE To # None /\ ~ IsDir(To) /\ dir' = [dir EXCEPT !["to"] = None] /\ Go(p, "create")
  <2>1. Turns(p, "create", status[p]) /\ To' = None
    BY <1>3, Facts, GoProp DEF Pcs, To
  <2>2. \A n \in Names \ {"to"} : dir'[n] = dir[n]
    BY <1>3, Facts
  <2>3. dir'["in"] = dir["in"] /\ dir'[p] = dir[p] /\ dir'["to"] = None
    BY <2>1, <2>2, Facts DEF To
  <2>4. TypeOK'
    <3>1. dir' \in [Names -> Inode \cup {None}]
      BY <1>3, Facts
    <3> QED BY <1>1, <2>1, <3>1, Facts, TypeKept DEF TypeOK, Names
  <2>5. Alters(p)
    <3>1. file[To].kind # "dir"
      BY <1>3 DEF KindOf, IsDir
    <3> QED BY <1>1, <2>1, <2>2, <2>3, <3>1, Facts, AltersProp
  <2>6. Safe(p)'
    <3>1. Request(p)' /\ Source(p)'
      BY <1>1, <2>1, <2>3, Facts DEF Request, Source, Fast, Slow, Turns, SrcOf, NewOf
    <3>2. Kept(p)' /\ Guarded(p)'
      BY <1>1, <2>1, Facts DEF Kept, Guarded, Filling, Turns, NewOf
    <3> QED BY <3>1, <3>2 DEF Safe
  <2>7. Owed'
    <3>1. Owes(p)'
      BY <2>1 DEF Owes, Settled, Moved, Turns
    <3> QED BY <1>1, <3>1 DEF Owed, Runs
  <2>8. Only(p)' /\ Declines(p)
    BY <1>1, <2>1 DEF Only, Declines, Early, Filling, Turns, Moved
  <2> QED BY <2>4, <2>5, <2>6, <2>7, <2>8 DEF Fine
<1> QED BY <1>2, <1>3 DEF Unlink

LEMMA ClearStep ==
  ASSUME IInv, NEW p \in Runs, Clear(p)
  PROVE  Fine(p)
<1>1. pc[p] = "clear" /\ UNCHANGED <<file, req, l>>
  BY DEF Clear, At
<1>2. CASE Exit(p, 1) /\ dir' = dir
  BY <1>1, <1>2, FailFine
<1>3. CASE KindOf(To) # "dir" /\ dir' = [dir EXCEPT !["to"] = None] /\ Go(p, "cp")
  <2>1. Turns(p, "cp", status[p]) /\ To' = None
    BY <1>3, Facts, GoProp DEF Pcs, To
  <2>2. \A n \in Names \ {"to"} : dir'[n] = dir[n]
    BY <1>3, Facts
  <2>3. dir'["in"] = dir["in"] /\ dir'[p] = dir[p] /\ dir'["to"] = None
    BY <2>1, <2>2, Facts DEF To
  <2>4. TypeOK'
    <3>1. dir' \in [Names -> Inode \cup {None}]
      BY <1>3, Facts
    <3> QED BY <1>1, <2>1, <3>1, Facts, TypeKept DEF TypeOK, Names
  <2>5. Alters(p)
    <3>1. To # None => file[To].kind # "dir"
      BY <1>3 DEF KindOf
    <3> QED BY <1>1, <2>1, <2>2, <2>3, <3>1, Facts, AltersProp DEF To
  <2>6. Safe(p)'
    <3>1. Request(p)' /\ Source(p)'
      BY <1>1, <2>1, <2>3, Facts DEF Request, Source, Fast, Slow, Turns, SrcOf, NewOf
    <3>2. Kept(p)' /\ Guarded(p)'
      BY <1>1, <2>1, Facts DEF Kept, Guarded, Filling, Turns, NewOf
    <3> QED BY <3>1, <3>2 DEF Safe
  <2>7. Owed'
    <3>1. Owes(p)'
      BY <2>1 DEF Owes, Settled, Moved, Turns
    <3> QED BY <1>1, <3>1 DEF Owed, Runs
  <2>8. Only(p)' /\ Declines(p)
    BY <1>1, <2>1 DEF Only, Declines, Early, Filling, Turns, Moved
  <2> QED BY <2>4, <2>5, <2>6, <2>7, <2>8 DEF Fine
<1> QED BY <1>2, <1>3 DEF Clear

LEMMA FreshProp ==
  ASSUME NEW p \in Proc
  PROVE  /\ Fresh(p) \in FileType /\ Fresh(p).of = p /\ Fresh(p).mode0 /\ ~ Fresh(p).suid
BY DEF Fresh, Node, FileType, Kind

LEMMA CreateStep ==
  ASSUME IInv, NEW p \in Runs, Create(p)
  PROVE  Fine(p)
<1>1. pc[p] = "create" /\ req' = req
  BY DEF Create, At
<1>2. CASE Exit(p, 1) /\ UNCHANGED <<dir, file, l>>
  BY <1>1, <1>2, FailFine
<1>3. CASE Go(p, "unlink") /\ UNCHANGED <<dir, file, l>>
  <2>1. Turns(p, "unlink", status[p])
    BY <1>3, Facts, GoProp DEF Pcs
  <2>2. Request(p)' /\ Declines(p)
    BY <1>1, <1>3, <2>1, Facts DEF Request, Declines, Fast, Slow, Early, Turns
  <2> QED BY <1>1, <1>3, <2>1, <2>2, CalmFine
<1>4. CASE /\ To = None
           /\ dir' = [dir EXCEPT !["to"] = <<p, "new">>]
           /\ file' = [file EXCEPT ![<<p, "new">>] = Fresh(p)]
           /\ l' = [l EXCEPT ![p].fd = <<p, "new">>]
           /\ Go(p, "write")
  <2>1. Turns(p, "write", status[p])
    BY <1>4, Facts, GoProp DEF Pcs
  <2>2. /\ dir'["to"] = NewOf(p) /\ dir'["in"] = dir["in"] /\ dir'[p] = dir[p]
        /\ \A n \in Names \ {"to"} : dir'[n] = dir[n]
    BY <1>4, Facts DEF NewOf
  <2>3. /\ file'[NewOf(p)] = Fresh(p) /\ \A i \in Inode \ {NewOf(p)} : file'[i] = file[i]
    BY <1>4, Facts DEF NewOf
  <2>4. /\ l'[p].fd = NewOf(p) /\ \A q \in Runs \ {p} : l'[q] = l[q]
    BY <1>4, Facts DEF NewOf, TypeOK
  <2>5. TypeOK'
    <3>1. dir' \in [Names -> Inode \cup {None}] /\ file' \in [Inode -> FileType]
      BY <1>4, Facts, FreshProp DEF NewOf
    <3>2. l' \in [Runs -> [fd : Inode \cup {None}, keep : BOOLEAN]]
      BY <1>4, Facts DEF NewOf, TypeOK
    <3> QED BY <1>1, <2>1, <3>1, <3>2, Facts, TypeKept DEF Names
  <2>6. Alters(p)
    BY <1>1, <1>4, <2>1, <2>2, <2>3, <2>4, Facts, AltersProp DEF To
  <2>7. Safe(p)'
    <3>1. NewOf(p)' = NewOf(p) /\ SrcOf(p)' = SrcOf(p) /\ pc'[p] = "write"
          /\ file'[<<p, "src">>] = file[<<p, "src">>] /\ file'[There] = file[There]
      BY <1>1, <2>1, <2>3, Facts DEF NewOf, SrcOf, Turns
    <3>2. Request(p)'
      BY <1>1, <3>1, Facts DEF Request, Fast, Slow
    <3>3. Source(p)'
      BY <1>1, <2>2, <2>3, <3>1, Facts, FreshProp DEF Source, To
    <3>4. Kept(p)' /\ Guarded(p)'
      BY <1>1, <2>3, <2>4, <3>1, Facts, FreshProp DEF Kept, Guarded
    <3> QED BY <3>2, <3>3, <3>4 DEF Safe
  <2>8. Owed'
    <3>1. Owes(p)'
      BY <2>1, <2>2 DEF Owes, Settled, Moved, Turns, NewOf, To
    <3> QED BY <1>1, <3>1 DEF Owed, Runs
  <2>9. Only(p)' /\ Declines(p)
    BY <1>1, <2>1, <2>2 DEF Only, Declines, Early, Filling, Turns, Moved, NewOf, To
  <2> QED BY <2>5, <2>6, <2>7, <2>8, <2>9 DEF Fine
<1> QED BY <1>2, <1>3, <1>4 DEF Create

LEMMA WriteRestStep ==
  ASSUME IInv, NEW p \in Runs, WriteRest(p)
  PROVE  Fine(p)
<1>1. pc[p] = "rest" /\ req' = req /\ l' = l /\ l[p].fd = NewOf(p)
      /\ NewOf(p)' = NewOf(p) /\ SrcOf(p)' = SrcOf(p)
  BY Facts DEF WriteRest, At, Guarded, Filling, NewOf, SrcOf
<1>2. CASE /\ dir' = IF IsDir(To) THEN dir ELSE [dir EXCEPT !["to"] = None]
           /\ file' = file /\ Exit(p, 1)
  <2>1. Turns(p, "exit", 1)
    BY <1>2, Facts, ExitProp
  <2>2. /\ dir'["to"] \in {dir["to"], None} /\ \A n \in Names \ {"to"} : dir'[n] = dir[n]
        /\ dir'["to"] # dir["to"] => ~ IsDir(To)
    BY <1>2, Facts
  <2>3. dir'["in"] = dir["in"] /\ dir'[p] = dir[p] /\ (To' = To \/ To' = None)
    BY <2>2, Facts DEF To
  <2>4. TypeOK'
    <3>1. dir' \in [Names -> Inode \cup {None}]
      BY <1>2, Facts
    <3> QED BY <1>1, <1>2, <2>1, <3>1, Facts, TypeKept DEF TypeOK, Names
  <2>5. Alters(p)
    <3>1. dir'["to"] # dir["to"] /\ dir["to"] # None => file[To].kind # "dir"
      BY <2>2 DEF KindOf, IsDir, To
    <3> QED BY <1>1, <1>2, <2>1, <2>2, <2>3, <3>1, Facts, AltersProp
  <2>6. Safe(p)'
    <3>1. pc'[p] = "exit" /\ status'[p] = 1
      BY <2>1 DEF Turns
    <3>2. Request(p)' /\ Source(p)'
      BY <1>1, <1>2, <2>3, <3>1, Facts DEF Request, Source, Fast, Slow
    <3>3. Holds(p, p)'
      BY <1>1, <1>2, <2>3, Facts DEF Holds, Source, SrcOf
    <3>4. Kept(p)'
      BY <3>1, <3>3 DEF Kept
    <3>5. Guarded(p)'
      BY <1>1, <1>2, <3>1, Facts DEF Guarded, Filling
    <3> QED BY <3>2, <3>4, <3>5 DEF Safe
  <2>7. Owed'
    <3>1. Owes(p)'
      BY <2>1 DEF Owes, Settled, Moved, Turns
    <3> QED BY <1>1, <3>1 DEF Owed, Runs
  <2>8. Only(p)' /\ Declines(p)
    BY <1>1, <2>1 DEF Only, Declines, Early, Filling, Turns, Moved
  <2> QED BY <2>4, <2>5, <2>6, <2>7, <2>8 DEF Fine
<1>3. CASE file' = [file EXCEPT ![l[p].fd].whole = TRUE] /\ Go(p, "chown") /\ dir' = dir
  <2>1. Turns(p, "chown", status[p])
    BY <1>3, Facts, GoProp DEF Pcs
  <2>2. /\ file' \in [Inode -> FileType] /\ \A i \in Inode \ {NewOf(p)} : file'[i] = file[i]
        /\ file'[NewOf(p)] = [file[NewOf(p)] EXCEPT !.whole = TRUE]
    <3>1. file[NewOf(p)] \in FileType
      BY Facts
    <3>2. [file[NewOf(p)] EXCEPT !.whole = TRUE] \in FileType
      BY <3>1 DEF FileType
    <3>3. file' = [file EXCEPT ![NewOf(p)] = [file[NewOf(p)] EXCEPT !.whole = TRUE]]
      BY <1>1, <1>3
    <3> QED BY <3>2, <3>3, Facts
  <2>3. /\ file'[NewOf(p)].whole /\ file'[NewOf(p)].of = file[NewOf(p)].of
        /\ file'[NewOf(p)].suid = file[NewOf(p)].suid /\ file'[NewOf(p)].own = file[NewOf(p)].own
    BY <2>2, Facts DEF FileType
  <2>4. TypeOK'
    BY <1>1, <1>3, <2>1, <2>2, Facts, TypeKept DEF TypeOK
  <2>5. Alters(p)
    BY <1>1, <1>3, <2>1, <2>2, Facts, AltersProp
  <2>6. Safe(p)'
    <3>1. pc'[p] = "chown" /\ To' = To
          /\ file'[<<p, "src">>] = file[<<p, "src">>] /\ file'[There] = file[There]
      BY <1>1, <1>3, <2>1, <2>2, Facts DEF Turns, To
    <3>2. Request(p)'
      BY <1>1, <3>1, Facts DEF Request, Fast, Slow
    <3>3. Source(p)'
      BY <1>1, <1>3, <2>3, <3>1, Facts DEF Source
    <3>4. Kept(p)'
      BY <1>1, <3>1 DEF Kept
    <3>5. Guarded(p)'
      BY <1>1, <2>3, <3>1, Facts DEF Guarded, Filling
    <3> QED BY <3>2, <3>3, <3>4, <3>5 DEF Safe
  <2>7. Owed'
    <3>1. Owes(p) => Arrived'
      <4>1. Owes(p) => To' = NewOf(p) /\ file'[NewOf(p)].of = p /\ ~ req[p].same
        BY <1>1, <1>3, <2>3, Facts DEF Owes, To, Source, Request, Fast
      <4>2. Owes(p) => Holds("to", p)'
        BY <1>1, <2>3, <4>1, Facts DEF Holds, To
      <4> QED BY <1>1, <4>2 DEF Arrived, Runs
    <3>2. \A i \in Inode : file'[i].of = file[i].of /\ (file[i].whole => file'[i].whole)
      BY <2>2, <2>3
    <3> QED BY <1>1, <1>3, <2>1, <3>1, <3>2, OwedSettled DEF To
  <2>8. Alone => Only(p)'
    BY <1>1, <1>3, <2>1 DEF Only, IInv, Filling, Turns, Moved, To
  <2>9. Declines(p)
    BY <1>1 DEF Declines, Early
  <2> QED BY <2>4, <2>5, <2>6, <2>7, <2>8, <2>9 DEF Fine
<1> QED BY <1>2, <1>3 DEF WriteRest

LEMMA ChownStep ==
  ASSUME IInv, NEW p \in Runs, Chown(p)
  PROVE  Fine(p)
<1>1. pc[p] = "chown" /\ req' = req /\ dir' = dir /\ l[p].fd = NewOf(p)
      /\ NewOf(p)' = NewOf(p) /\ SrcOf(p)' = SrcOf(p) /\ To' = To
  BY Facts DEF Chown, At, Guarded, Filling, NewOf, SrcOf, To
<1>2. Turns(p, "chmod", status[p])
  BY Facts, GoProp DEF Chown, Pcs
<1>3. PICK ok \in BOOLEAN :
        /\ file' = [file EXCEPT ![l[p].fd].own =
                      IF ok THEN req[p].own ELSE file[l[p].fd].own]
        /\ l' = [l EXCEPT ![p].keep = ok]
  BY DEF Chown
<1> DEFINE o == IF ok THEN req[p].own ELSE file[NewOf(p)].own
<1>4. o \in {"me", "other"} /\ (ok => o = req[p].own) /\ (~ ok => o = file[NewOf(p)].own)
  BY Facts DEF TypeOK, FileType, RequestType
<1>5. file' = [file EXCEPT ![NewOf(p)] = [file[NewOf(p)] EXCEPT !.own = o]]
  BY <1>1, <1>3
<1> HIDE DEF o
<1>6. /\ file' \in [Inode -> FileType] /\ \A i \in Inode \ {NewOf(p)} : file'[i] = file[i]
      /\ file'[NewOf(p)] = [file[NewOf(p)] EXCEPT !.own = o]
  <2>1. file[NewOf(p)] \in FileType
    BY Facts
  <2>2. [file[NewOf(p)] EXCEPT !.own = o] \in FileType
    BY <1>4, <2>1 DEF FileType
  <2> QED BY <1>5, <2>2, Facts
<1>7. /\ file'[NewOf(p)].whole = file[NewOf(p)].whole /\ file'[NewOf(p)].of = file[NewOf(p)].of
      /\ file'[NewOf(p)].suid = file[NewOf(p)].suid /\ file'[NewOf(p)].own = o
      /\ file'[NewOf(p)].mode0 = file[NewOf(p)].mode0 /\ file'[NewOf(p)].kind = file[NewOf(p)].kind
  BY <1>6, Facts DEF FileType
<1>8. /\ l' \in [Runs -> [fd : Inode \cup {None}, keep : BOOLEAN]]
      /\ l'[p].keep = ok /\ l'[p].fd = NewOf(p) /\ \A q \in Runs \ {p} : l'[q] = l[q]
  BY <1>1, <1>3, Facts DEF TypeOK
<1>9. TypeOK'
  BY <1>1, <1>2, <1>6, <1>8, Facts, TypeKept DEF TypeOK
<1>10. Alters(p)
  BY <1>1, <1>2, <1>6, <1>8, Facts, AltersProp
<1>11. Safe(p)'
  <2>1. pc'[p] = "chmod" /\ file'[<<p, "src">>] = file[<<p, "src">>] /\ file'[There] = file[There]
    BY <1>2, <1>6, Facts DEF Turns
  <2>2. Request(p)'
    BY <1>1, <2>1, Facts DEF Request, Fast, Slow
  <2>3. Source(p)'
    BY <1>1, <1>7, <2>1, Facts DEF Source
  <2>4. Kept(p)'
    BY <1>1, <2>1 DEF Kept
  <2>5. Guarded(p)'
    <3>1. file[NewOf(p)].whole
      BY <1>1, Facts DEF Guarded
    <3>2. req[p].kind = "reg" => ~ file[NewOf(p)].suid
      BY <1>1, Facts DEF Guarded
    <3>3. file'[NewOf(p)].whole /\ (req[p].kind = "reg" => ~ file'[NewOf(p)].suid)
      BY <3>1, <3>2, <1>7
    <3>4. l'[p].keep => file'[NewOf(p)].own = req[p].own
      BY <1>4, <1>7, <1>8
    <3> QED BY <1>1, <1>8, <2>1, <3>3, <3>4 DEF Guarded, Filling
  <2> QED BY <2>2, <2>3, <2>4, <2>5 DEF Safe
<1>12. Owed'
  <2>1. ~ Owes(p)
    BY <1>1 DEF Owes, Settled
  <2>2. \A i \in Inode : file'[i].of = file[i].of /\ (file[i].whole => file'[i].whole)
    BY <1>6, <1>7
  <2> QED BY <1>1, <1>2, <2>1, <2>2, OwedSettled
<1>13. Alone => Only(p)'
  BY <1>1, <1>2 DEF Only, IInv, Filling, Turns, Moved
<1>14. Declines(p)
  BY <1>1 DEF Declines, Early
<1> QED BY <1>9, <1>10, <1>11, <1>12, <1>13, <1>14 DEF Fine

LEMMA ChmodStep ==
  ASSUME IInv, NEW p \in Runs, Chmod(p)
  PROVE  Fine(p)
<1>1. pc[p] = "chmod" /\ req' = req /\ dir' = dir /\ l' = l /\ l[p].fd = NewOf(p)
      /\ NewOf(p)' = NewOf(p) /\ SrcOf(p)' = SrcOf(p) /\ To' = To
  BY Facts DEF Chmod, At, Guarded, Filling, NewOf, SrcOf, To
<1>2. Turns(p, "finish", status[p])
  BY Facts, GoProp DEF Chmod, Pcs
<1>3. /\ file' \in [Inode -> FileType] /\ \A i \in Inode \ {NewOf(p)} : file'[i] = file[i]
      /\ file'[NewOf(p)].whole = file[NewOf(p)].whole /\ file'[NewOf(p)].of = file[NewOf(p)].of
      /\ file'[NewOf(p)].own = file[NewOf(p)].own
      /\ file'[NewOf(p)].suid => file[NewOf(p)].suid \/ l[p].keep
  <2>1. CASE file' = file
    BY <2>1, Facts
  <2>2. CASE file' = [file EXCEPT ![l[p].fd] =
                [file[l[p].fd] EXCEPT !.mode0 = FALSE, !.suid = req[p].suid /\ l[p].keep]]
    <3> DEFINE b == req[p].suid /\ l[p].keep
    <3>1. b \in BOOLEAN /\ (b => l[p].keep)
      OBVIOUS
    <3>2. file' = [file EXCEPT ![NewOf(p)] =
                     [file[NewOf(p)] EXCEPT !.mode0 = FALSE, !.suid = b]]
      BY <1>1, <2>2
    <3> HIDE DEF b
    <3>3. [file[NewOf(p)] EXCEPT !.mode0 = FALSE, !.suid = b] \in FileType
      <4>1. file[NewOf(p)] \in FileType
        BY Facts
      <4> QED BY <3>1, <4>1 DEF FileType
    <3>4. /\ file' \in [Inode -> FileType] /\ \A i \in Inode \ {NewOf(p)} : file'[i] = file[i]
          /\ file'[NewOf(p)] = [file[NewOf(p)] EXCEPT !.mode0 = FALSE, !.suid = b]
      BY <3>2, <3>3, Facts
    <3>5. /\ file'[NewOf(p)].whole = file[NewOf(p)].whole
          /\ file'[NewOf(p)].of = file[NewOf(p)].of
          /\ file'[NewOf(p)].own = file[NewOf(p)].own /\ file'[NewOf(p)].suid = b
      BY <3>4, Facts DEF FileType
    <3> QED BY <3>1, <3>4, <3>5
  <2> QED BY <2>1, <2>2 DEF Chmod
<1>4. TypeOK'
  BY <1>1, <1>2, <1>3, Facts, TypeKept DEF TypeOK
<1>5. Alters(p)
  BY <1>1, <1>2, <1>3, Facts, AltersProp
<1>6. Safe(p)'
  <2>1. pc'[p] = "finish" /\ file'[<<p, "src">>] = file[<<p, "src">>] /\ file'[There] = file[There]
    BY <1>2, <1>3, Facts DEF Turns
  <2>2. Request(p)'
    BY <1>1, <2>1, Facts DEF Request, Fast, Slow
  <2>3. Source(p)'
    BY <1>1, <1>3, <2>1, Facts DEF Source
  <2>4. Kept(p)'
    BY <1>1, <2>1 DEF Kept
  <2>5. Guarded(p)'
    <3>1. file[NewOf(p)].whole
      BY <1>1, Facts DEF Guarded
    <3>2. req[p].kind = "reg" /\ (file[NewOf(p)].suid \/ l[p].keep) => file[NewOf(p)].own = req[p].own
      BY <1>1, Facts DEF Guarded
    <3> QED BY <1>1, <1>3, <2>1, <3>1, <3>2 DEF Guarded, Filling
  <2> QED BY <2>2, <2>3, <2>4, <2>5 DEF Safe
<1>7. Owed'
  <2>1. ~ Owes(p)
    BY <1>1 DEF Owes, Settled
  <2>2. \A i \in Inode : file'[i].of = file[i].of /\ (file[i].whole => file'[i].whole)
    BY <1>3
  <2> QED BY <1>1, <1>2, <2>1, <2>2, OwedSettled
<1>8. Alone => Only(p)'
  BY <1>1, <1>2 DEF Only, IInv, Filling, Turns, Moved
<1>9. Declines(p)
  BY <1>1 DEF Declines, Early
<1> QED BY <1>4, <1>5, <1>6, <1>7, <1>8, <1>9 DEF Fine

LEMMA FinishStep ==
  ASSUME IInv, NEW p \in Runs, Finish(p)
  PROVE  Fine(p)
<1>1. pc[p] = "finish" /\ UNCHANGED <<file, req, l>> /\ NewOf(p)' = NewOf(p)
      /\ SrcOf(p)' = SrcOf(p)
  BY DEF Finish, At, NewOf, SrcOf
<1>2. CASE Exit(p, 1) /\ dir' = dir
  BY <1>1, <1>2, FailFine
<1>3. CASE dir' = [dir EXCEPT ![p] = None] /\ Exit(p, 0)
  <2>1. Turns(p, "exit", 0)
    BY <1>3, Facts, ExitProp
  <2>2. /\ dir'["to"] = dir["to"] /\ dir'["in"] = dir["in"] /\ dir'[p] = None /\ To' = To
        /\ \A n \in Names \ {p} : dir'[n] = dir[n]
    BY <1>3, Facts DEF To
  <2>3. TypeOK'
    <3>1. dir' \in [Names -> Inode \cup {None}]
      BY <1>3, Facts
    <3> QED BY <1>1, <2>1, <3>1, Facts, TypeKept DEF TypeOK, Names
  <2>4. Alters(p)
    BY <1>1, <2>1, <2>2, Facts, AltersProp
  <2>5. pc'[p] = "exit" /\ status'[p] = 0
    BY <2>1 DEF Turns
  <2>6. Safe(p)'
    <3>1. Request(p)'
      BY <1>1, <2>5, Facts DEF Request, Fast, Slow
    <3>2. Source(p)'
      BY <1>1, <2>2, <2>5, Facts DEF Source
    <3>3. Kept(p)'
      BY <2>2, <2>5 DEF Kept
    <3>4. Guarded(p)'
      BY <1>1, <2>5, Facts DEF Guarded, Filling
    <3> QED BY <3>1, <3>2, <3>3, <3>4 DEF Safe
  <2>7. Owed'
    <3>1. ~ Owes(p)
      BY <1>1 DEF Owes, Settled
    <3>2. \A q \in Runs \ {p} : q \in Names \ {p}
      BY Facts, Distinct
    <3>3. \A q \in Runs \ {p} : dir'[q] = dir[q]
      BY <2>2, <3>2
    <3> QED BY <1>1, <2>1, <2>2, <3>1, <3>3, OwedSettled
  <2>8. Alone => Only(p)'
    <3>1. file[NewOf(p)].whole /\ file[NewOf(p)].of = p /\ ~ req[p].same /\ NewOf(p) # None
      BY <1>1, Facts DEF Guarded, Source, Request, Fast
    <3>2. Alone => To = NewOf(p)
      BY <1>1 DEF IInv, Only
    <3>3. Alone => Holds("to", p)'
      BY <1>1, <2>2, <3>1, <3>2 DEF Holds, To
    <3> QED BY <2>5, <3>3 DEF Only, Filling
  <2>9. Declines(p)
    BY <1>1 DEF Declines, Early
  <2> QED BY <2>3, <2>4, <2>6, <2>7, <2>8, <2>9 DEF Fine
<1> QED BY <1>2, <1>3 DEF Finish

LEMMA CopyStep ==
  ASSUME IInv, NEW p \in Runs, Copy(p)
  PROVE  Fine(p)
<1>1. pc[p] = "cp" /\ req' = req /\ l' = l /\ NewOf(p)' = NewOf(p) /\ SrcOf(p)' = SrcOf(p)
      /\ ~ req[p].same /\ req[p].kind # "reg" /\ req[p].cross
  BY Facts DEF Copy, At, NewOf, SrcOf, Request, Slow
<1>2. CASE Exit(p, 1) /\ UNCHANGED <<dir, file>>
  BY <1>1, <1>2, FailFine
<1> DEFINE copy == [file[dir[p]] EXCEPT !.of = p]
<1>3. ASSUME NEW name \in {"to", "in"}, dir[p] # None, dir[name] = None, NEW all \in BOOLEAN,
             dir' = [dir EXCEPT ![name] = <<p, "new">>],
             file' = [file EXCEPT ![<<p, "new">>] = [copy EXCEPT !.whole = all]],
             IF all THEN Go(p, "rm") ELSE Exit(p, 1)
      PROVE  Fine(p)
  <2>1. IF all THEN Turns(p, "rm", status[p]) ELSE Turns(p, "exit", 1)
    BY <1>3, Facts, GoProp, ExitProp DEF Pcs
  <2>2. dir[p] = <<p, "src">> /\ dir[p] \in Inode
    BY <1>1, <1>3, Facts DEF Source, SrcOf
  <2>3. file[dir[p]] \in FileType /\ file[dir[p]].kind = req[p].kind
    BY <2>2, Facts DEF Source
  <2>4. copy \in FileType /\ copy.of = p /\ copy.kind = req[p].kind
    BY <2>3, Facts DEF FileType
  <2> HIDE DEF copy
  <2>5. /\ [copy EXCEPT !.whole = all] \in FileType
        /\ [copy EXCEPT !.whole = all].of = p /\ [copy EXCEPT !.whole = all].kind = req[p].kind
        /\ [copy EXCEPT !.whole = all].whole = all
    BY <2>4 DEF FileType
  <2>6. /\ file' \in [Inode -> FileType] /\ \A i \in Inode \ {NewOf(p)} : file'[i] = file[i]
        /\ file'[NewOf(p)].of = p /\ file'[NewOf(p)].kind = req[p].kind
        /\ file'[NewOf(p)].whole = all
    BY <1>3, <2>5, Facts DEF NewOf
  <2>7. name \in {"to", "in"} /\ dir' = [dir EXCEPT ![name] = NewOf(p)]
    BY <1>3 DEF NewOf
  <2>8. dir'[name] = NewOf(p) /\ \A n \in Names \ {name} : dir'[n] = dir[n]
    BY <2>7, Facts
  <2>9. /\ dir' \in [Names -> Inode \cup {None}] /\ dir'[p] = dir[p]
        /\ dir'["to"] \in {dir["to"], NewOf(p)}
        /\ dir'["to"] # dir["to"] => dir["to"] = None
        /\ dir'["in"] = dir["in"] \/ (dir["in"] = None /\ dir'["in"] = NewOf(p))
    <3>1. dir' \in [Names -> Inode \cup {None}]
      BY <2>7, Facts
    <3>2. CASE name = "to"
      BY <1>3, <2>8, <3>1, <3>2, Facts
    <3>3. CASE name = "in"
      BY <1>3, <2>8, <3>1, <3>3, Facts
    <3> QED BY <2>7, <3>2, <3>3
  <2>10. \A n \in Names \ {"to", "in", p} : dir'[n] = dir[n]
    BY <2>7, <2>8
  <2>11. TypeOK'
    BY <1>1, <2>1, <2>6, <2>9, Facts, TypeKept DEF TypeOK, Names
  <2>12. Alters(p)
    BY <1>1, <2>1, <2>6, <2>9, <2>10, Facts, AltersProp DEF To
  <2>13. pc'[p] = (IF all THEN "rm" ELSE "exit") /\ (~ all => status'[p] = 1)
    BY <2>1 DEF Turns
  <2>14. Holds(name, p)' <=> all
    BY <1>1, <2>6, <2>8, Facts DEF Holds
  <2>15. NewOf(p) \in {To', dir'["in"]}
    BY <2>7, <2>8 DEF To
  <2>16. file'[<<p, "src">>] = file[<<p, "src">>] /\ file'[There] = file[There]
    BY <2>6, Facts
  <2>17. Safe(p)'
    <3>1. Request(p)'
      BY <1>1, <2>13 DEF Request, Fast, Slow
    <3>2. Source(p)'
      BY <1>1, <2>2, <2>6, <2>9, <2>13, <2>16, Facts DEF Source, To
    <3>3. Kept(p)'
      <4>1. CASE all
        BY <1>1, <2>6, <2>13, <2>15, <4>1 DEF Kept, Copied
      <4>2. CASE ~ all
        <5>1. Holds(p, p)'
          BY <1>1, <2>2, <2>9, <2>16, Facts DEF Holds, Source
        <5> QED BY <2>13, <4>2, <5>1 DEF Kept
      <4> QED BY <4>1, <4>2
    <3>4. Guarded(p)'
      BY <1>1, <2>13 DEF Guarded, Filling
    <3> QED BY <3>1, <3>2, <3>3, <3>4 DEF Safe
  <2>18. Owed'
    <3>1. CASE all
      <4>1. Arrived'
        BY <1>1, <2>7, <2>14, <3>1 DEF Arrived, Runs
      <4> QED BY <4>1 DEF Owed
    <3>2. CASE ~ all
      <4>1. Owes(p)'
        BY <2>13, <3>2 DEF Owes, Settled, Moved
      <4> QED BY <1>1, <4>1 DEF Owed, Runs
    <3> QED BY <3>1, <3>2
  <2>19. Only(p)'
    BY <1>1, <2>6, <2>13, <2>15 DEF Only, Filling, Moved
  <2>20. Declines(p)
    BY <1>1 DEF Declines, Early
  <2> QED BY <2>11, <2>12, <2>17, <2>18, <2>19, <2>20 DEF Fine
<1>4. CASE IsDir(To)
  BY <1>2, <1>3, <1>4 DEF Copy
<1>5. CASE ~ IsDir(To)
  BY <1>2, <1>3, <1>5 DEF Copy
<1> QED BY <1>4, <1>5

LEMMA RemoveStep ==
  ASSUME IInv, NEW p \in Runs, Remove(p)
  PROVE  Fine(p)
<1>1. pc[p] = "rm" /\ req' = req /\ l' = l /\ NewOf(p)' = NewOf(p) /\ SrcOf(p)' = SrcOf(p)
      /\ ~ req[p].same /\ dir[p] = <<p, "src">>
  BY Facts DEF Remove, At, NewOf, SrcOf, Request, Slow, Source
<1>2. CASE Exit(p, 1) /\ UNCHANGED <<dir, file>>
  BY <1>1, <1>2, FailFine
<1>3. CASE dir' = [dir EXCEPT ![p] = None] /\ file' = file /\ Exit(p, 0)
  <2>1. Turns(p, "exit", 0)
    BY <1>3, Facts, ExitProp
  <2>2. /\ dir'["to"] = dir["to"] /\ dir'["in"] = dir["in"] /\ dir'[p] = None /\ To' = To
        /\ \A n \in Names \ {p} : dir'[n] = dir[n]
    BY <1>3, Facts DEF To
  <2>3. TypeOK'
    <3>1. dir' \in [Names -> Inode \cup {None}]
      BY <1>3, Facts
    <3> QED BY <1>1, <1>3, <2>1, <3>1, Facts, TypeKept DEF TypeOK, Names
  <2>4. Alters(p)
    BY <1>1, <1>3, <2>1, <2>2, Facts, AltersProp
  <2>5. pc'[p] = "exit" /\ status'[p] = 0
    BY <2>1 DEF Turns
  <2>6. Safe(p)'
    <3>1. Request(p)'
      BY <1>1, <1>3, <2>5, Facts DEF Request, Fast, Slow
    <3>2. Source(p)'
      BY <1>1, <1>3, <2>2, <2>5, Facts DEF Source
    <3>3. Kept(p)'
      BY <2>2, <2>5 DEF Kept
    <3>4. Guarded(p)'
      BY <1>1, <1>3, <2>5, Facts DEF Guarded, Filling
    <3> QED BY <3>1, <3>2, <3>3, <3>4 DEF Safe
  <2>7. Owed'
    <3>1. ~ Owes(p)
      BY <1>1 DEF Owes, Settled
    <3>2. \A q \in Runs \ {p} : q \in Names \ {p}
      BY Facts, Distinct
    <3>3. \A q \in Runs \ {p} : dir'[q] = dir[q]
      BY <2>2, <3>2
    <3> QED BY <1>1, <1>3, <2>1, <2>2, <3>1, <3>3, OwedSettled
  <2>8. Alone => Only(p)'
    <3>1. file[NewOf(p)].of = p /\ NewOf(p) # None
      BY Facts DEF Source
    <3>2. Alone => file[NewOf(p)].whole /\ NewOf(p) \in {To, dir["in"]}
      BY <1>1 DEF IInv, Only
    <3>3. Alone => Holds("to", p)' \/ Holds("in", p)'
      BY <1>1, <1>3, <2>2, <3>1, <3>2 DEF Holds, To
    <3> QED BY <2>5, <3>3 DEF Only, Filling
  <2>9. Declines(p)
    BY <1>1 DEF Declines, Early
  <2> QED BY <2>3, <2>4, <2>6, <2>7, <2>8, <2>9 DEF Fine
<1>4. CASE /\ file[dir[p]].kind = "dir" /\ file' = [file EXCEPT ![dir[p]].whole = FALSE]
           /\ dir' = dir /\ Exit(p, 1)
  <2>1. Turns(p, "exit", 1) /\ To' = To
    BY <1>4, Facts, ExitProp DEF To
  <2>2. file[<<p, "src">>] \in FileType
    BY Facts
  <2>3. /\ [file[<<p, "src">>] EXCEPT !.whole = FALSE] \in FileType
        /\ [file[<<p, "src">>] EXCEPT !.whole = FALSE].of = file[<<p, "src">>].of
        /\ [file[<<p, "src">>] EXCEPT !.whole = FALSE].kind = file[<<p, "src">>].kind
    BY <2>2 DEF FileType
  <2>4. file' = [file EXCEPT ![<<p, "src">>] = [file[<<p, "src">>] EXCEPT !.whole = FALSE]]
    BY <1>1, <1>4
  <2>5. /\ file' \in [Inode -> FileType]
        /\ \A i \in Inode \ {<<p, "src">>} : file'[i] = file[i]
        /\ file'[<<p, "src">>].of = file[<<p, "src">>].of
        /\ file'[<<p, "src">>].kind = file[<<p, "src">>].kind
    BY <2>3, <2>4, Facts
  <2>6. TypeOK'
    BY <1>1, <1>4, <2>1, <2>5, Facts, TypeKept DEF TypeOK
  <2>7. Alters(p)
    BY <1>1, <1>4, <2>1, <2>5, Facts, AltersProp
  <2>8. pc'[p] = "exit" /\ status'[p] = 1 /\ file'[NewOf(p)] = file[NewOf(p)]
    BY <2>1, <2>5, Facts DEF Turns
  <2>9. Safe(p)'
    <3>1. Request(p)'
      BY <1>1, <2>8 DEF Request, Fast, Slow
    <3>2. Source(p)'
      BY <1>1, <1>4, <2>1, <2>5, <2>8, Facts DEF Source
    <3>3. Copied(p)
      BY <1>1, <1>4, Facts DEF Kept, Source
    <3>4. Kept(p)'
      <4>1. Copied(p)'
        BY <1>1, <1>4, <2>1, <2>8, <3>3 DEF Copied
      <4> QED BY <2>8, <4>1 DEF Kept
    <3>5. Guarded(p)'
      BY <1>1, <2>8, Facts DEF Guarded, Filling
    <3> QED BY <3>1, <3>2, <3>4, <3>5 DEF Safe
  <2>10. Owed'
    <3>1. Owes(p)'
      BY <2>8 DEF Owes, Settled, Moved
    <3> QED BY <1>1, <3>1 DEF Owed, Runs
  <2>11. Only(p)' /\ Declines(p)
    BY <1>1, <2>8 DEF Only, Declines, Early, Filling, Moved
  <2> QED BY <2>6, <2>7, <2>9, <2>10, <2>11 DEF Fine
<1>5. CASE file' = file /\ dir' = dir /\ Exit(p, 1)
  BY <1>1, <1>5, FailFine
<1> QED BY <1>2, <1>3, <1>4, <1>5 DEF Remove

(* The file of the other program is nobody's source, and nobody's copy. *)
LEMMA CreatorStep ==
  ASSUME IInv, Create1
  PROVE  IInv'
<1>1. /\ TypeOK /\ Runs # {} /\ Runs \subseteq Proc /\ To = None /\ UNCHANGED <<req, l, pc, status>>
      /\ Runs' = Runs /\ Alone' = Alone
      /\ dir' = [dir EXCEPT !["to"] = Created] /\ file' = file
  BY DEF IInv, Create1, Runs, Alone
<1>2. There \in Inode /\ Created \in Inode /\ None # There /\ Created # None /\ There # Created
  BY DEF There, Created, None, Inode
<1>3. dir \in [Names -> Inode \cup {None}] /\ file \in [Inode -> FileType]
      /\ "to" \in Names /\ "in" \in Names
  BY <1>1 DEF TypeOK, Names
<1>4. /\ dir' \in [Names -> Inode \cup {None}] /\ To' = Created
      /\ \A n \in Names \ {"to"} : dir'[n] = dir[n]
  BY <1>1, <1>2, <1>3 DEF To
<1>5. file' \in [Inode -> FileType] /\ \A i \in Inode : file'[i] = file[i]
  BY <1>1, <1>3
<1>6. TypeOK'
  BY <1>1, <1>4, <1>5 DEF TypeOK, Names
<1>7. dir'["in"] = dir["in"] /\ dir["in"] # Created /\ dir["in"] \in Inode \cup {None}
  BY <1>3, <1>4 DEF IInv
<1>8. \A q \in Runs : Holds("in", q) => Holds("in", q)'
  BY <1>1, <1>5, <1>7 DEF Holds
<1>9. \A q \in Runs : ~ Holds("to", q)
  BY <1>1 DEF Holds, To
<1>10. ASSUME NEW q \in Runs
       PROVE  Safe(q)' /\ (Owes(q) => Owes(q)') /\ (Only(q) => Only(q)')
  <2>1. /\ q \in Proc /\ Request(q) /\ Source(q) /\ Kept(q) /\ Guarded(q)
        /\ SrcOf(q)' = SrcOf(q) /\ NewOf(q)' = NewOf(q)
    BY <1>1 DEF IInv, Safe, SrcOf, NewOf
  <2>2. {NewOf(q), <<q, "src">>, There} \subseteq Inode \ {Created, None} /\ q \in Names \ {"to"}
    BY <2>1, <1>2, Distinct
  <2>3. /\ file'[NewOf(q)] = file[NewOf(q)] /\ file'[<<q, "src">>] = file[<<q, "src">>]
        /\ file'[There] = file[There] /\ dir'[q] = dir[q]
    BY <2>2, <1>4, <1>5
  <2>4. Request(q)' /\ Guarded(q)'
    BY <1>1, <2>1, <2>3 DEF Request, Guarded
  <2>5. Source(q)'
    BY <1>1, <1>4, <2>1, <2>2, <2>3 DEF Source
  <2>6. Copied(q) => Copied(q)'
    BY <1>1, <1>7, <2>1, <2>2, <2>3 DEF Copied
  <2>7. Holds(q, q) => Holds(q, q)'
    <3>1. dir[q] \in {There, <<q, "src">>, None}
      BY <2>1 DEF Source, SrcOf
    <3> QED BY <1>1, <2>3, <3>1 DEF Holds
  <2>8. Kept(q)'
    BY <1>1, <2>1, <2>3, <2>6, <2>7 DEF Kept
  <2>9. Owes(q) => Owes(q)'
    BY <1>1, <2>1, <2>2, <2>3 DEF Owes, Settled, Moved
  <2>10. Only(q) => Only(q)'
    BY <1>1, <1>7, <1>8, <1>9, <2>1, <2>2, <2>3 DEF Only, Moved
  <2> QED BY <2>4, <2>5, <2>8, <2>9, <2>10 DEF Safe
<1>11. Owed'
  <2>1. Arrived => Arrived'
    BY <1>1, <1>8, <1>9 DEF Arrived
  <2> QED BY <1>1, <1>10, <2>1 DEF Owed, IInv
<1>12. Alone' => \A q \in Runs' : Only(q)'
  BY <1>1, <1>10 DEF IInv
<1>13. Refused'
  <2> SUFFICES ASSUME \A q \in Runs : req[q].flag = "n", file[There].kind # "lnk"
               PROVE  To' # There /\ \A q \in Runs : dir'[q] # There
    BY <1>1, <1>2, <1>5 DEF Refused
  <2>1. \A q \in Runs : dir[q] # There
    BY <1>1, <1>2 DEF IInv, Refused
  <2>2. \A q \in Runs : dir'[q] = dir[q]
    BY <1>1, <1>4, Distinct
  <2> QED BY <1>2, <1>4, <2>1, <2>2
<1> QED BY <1>1, <1>6, <1>7, <1>10, <1>11, <1>12, <1>13 DEF IInv

LEMMA StepFine ==
  ASSUME IInv, NEW p \in Runs, Step(p)
  PROVE  Fine(p)
BY MainStep, AccessStep, AskStep, RenameStep, CrossDeviceStep, OpenStep, CreateStep, UnlinkStep,
   WriteStep, WriteRestStep, ChownStep, ChmodStep, FinishStep, ClearStep, CopyStep, RemoveStep
   DEF Step

LEMMA NextInv == IInv /\ [Next]_vars => IInv'
<1>1. ASSUME IInv, NEW p \in Runs, Step(p) PROVE IInv'
  BY <1>1, StepFine, OthersKeep
<1>2. ASSUME IInv, UNCHANGED vars PROVE IInv'
  <2>1. dir' = dir /\ file' = file /\ req' = req /\ l' = l /\ pc' = pc /\ status' = status
        /\ To' = To /\ Runs' = Runs /\ Alone' = Alone
    BY <1>2 DEF vars, To, Runs, Alone
  <2>2. TypeOK' /\ Refused'
    BY <1>2, <2>1 DEF IInv, TypeOK, Refused
  <2>3. ASSUME NEW p \in Runs PROVE Safe(p)'
    <3>1. Holds(p, p)' = Holds(p, p) /\ SrcOf(p)' = SrcOf(p) /\ NewOf(p)' = NewOf(p)
      BY <2>1 DEF Holds, SrcOf, NewOf
    <3>2. Copied(p)' = Copied(p)
      BY <2>1, <3>1 DEF Copied
    <3>3. Request(p)' /\ Source(p)' /\ Kept(p)' /\ Guarded(p)'
      BY <1>2, <2>1, <3>1, <3>2 DEF IInv, Safe, Request, Source, Kept, Guarded
    <3> QED BY <3>3 DEF Safe
  <2>4. Owed'
    BY <1>2, <2>1 DEF IInv, Owed, Arrived, Holds, Owes, Settled, Moved, NewOf
  <2>5. Alone => \A p \in Runs : Only(p)'
    BY <1>2, <2>1 DEF IInv, Only, Holds, Moved, NewOf
  <2> QED BY <1>2, <2>1, <2>2, <2>3, <2>4, <2>5 DEF IInv
<1> QED BY <1>1, <1>2, CreatorStep DEF Next

(* The files, the names and what the moves have found and made agree at every
   moment, however the calls of do_move, fastcopy and copy interleave.      *)
THEOREM Invariance == Spec => []IInv
BY InitInv, NextInv, PTL DEF Spec

(* Every name leads to a file or nowhere, and every process is at a call of
   do_move, fastcopy or copy.                                               *)
THEOREM TypeCorrect == Spec => []TypeOK
<1>1. IInv => TypeOK
  BY DEF IInv
<1> QED BY <1>1, Invariance, PTL

LEMMA SourceSafe == IInv => SourceKept
<1> SUFFICES ASSUME IInv, NEW p \in Runs, ~ Moved(p)
             PROVE  Holds(p, p) \/ Holds("to", p) \/ Holds("in", p)
  BY DEF SourceKept
<1>1. CASE pc[p] # "exit"
  <2>1. Holds(p, p)
    BY <1>1, Facts DEF Source, SrcOf, Holds
  <2> QED BY <2>1
<1>2. CASE pc[p] = "exit" /\ Copied(p)
  <2>1. file[NewOf(p)].of = p /\ NewOf(p) # None
    BY Facts DEF Source
  <2> QED BY <1>2, <2>1 DEF Copied, Holds, To
<1>3. pc[p] = "exit" => Holds(p, p) \/ Copied(p)
  BY Facts DEF Moved, Kept
<1> QED BY <1>1, <1>2, <1>3

LEMMA AloneSafe == IInv => AloneWhole
<1> SUFFICES ASSUME IInv, Alone, NEW p \in Runs, Moved(p), ~ req[p].same
             PROVE  \/ dir[p] = None /\ (Holds("to", p) \/ Holds("in", p))
                    \/ req[p].flag # "f" /\ Holds(p, p)
  BY DEF AloneWhole
<1>1. dir[p] = None \/ (req[p].flag # "f" /\ Holds(p, p))
  BY Facts DEF Kept, Moved
<1>2. dir[p] = None => Holds("to", p) \/ Holds("in", p)
  BY DEF IInv, Only
<1> QED BY <1>1, <1>2

LEMMA LastSafe == IInv => LastWins
BY DEF IInv, Owed, Owes, Settled, LastWins, Arrived

LEMMA CopySafe == IInv => CopyGuarded
<1> SUFFICES ASSUME IInv PROVE CopyGuarded
  OBVIOUS
<1>1. \A p \in Runs : Guarded(p)
  BY Facts
<1> QED BY <1>1 DEF Guarded, NewOf, CopyGuarded, PartHidden, SuidSafe

(* At every moment the source's data is whole under a name of its own; a
   success says so; several moves to one target leave one of the sources
   there; and no copy can be read before it is whole, nor is it setuid for
   another owner.  So for every number of processes, every option and target,
   with a program that creates the target at any time.                      *)
THEOREM SafeData == Spec => []DataSafe
<1>1. IInv => DataSafe
  BY SourceSafe, AloneSafe, LastSafe, CopySafe DEF DataSafe, MovedWhole
<1> QED BY <1>1, Invariance, PTL

(* When every move has -n, the file that was under the target name stays
   there: no call of any of them takes it away.                             *)
THEOREM NoClobbering == Spec => NoClobber
<1> DEFINE Stays ==
      To = There /\ file[There].kind # "lnk" /\ (\A p \in Runs : req[p].flag = "n")
        => dir'["to"] = There
<1>1. IInv /\ [Next]_vars => [Stays]_vars
  <2> SUFFICES ASSUME IInv, Next, To = There, file[There].kind # "lnk",
                      \A p \in Runs : req[p].flag = "n"
               PROVE  dir'["to"] = There
    OBVIOUS
  <2>1. \A p \in Runs : pc[p] \in Early
    BY DEF IInv, Refused
  <2>2. ASSUME NEW p \in Runs, Step(p) PROVE dir'["to"] = There
    <3>1. Fine(p)
      BY <2>2, StepFine
    <3> QED BY <2>1, <3>1 DEF Fine, Declines, To
  <2>3. ~ Create1
    BY DEF Create1, There, None
  <2> QED BY <2>2, <2>3 DEF Next
<1> QED BY <1>1, Invariance, PTL DEF Spec, NoClobber

=============================================================================
