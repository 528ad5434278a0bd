---------------------------- MODULE MkPathProofs ----------------------------
(***************************************************************************)
(* Whatever a mkdir -p meets on its way, nothing but build() ever runs     *)
(* under the relaxed umask; no loop runs past the end of its path; and the *)
(* makers make what they were asked for, side by side, under any umask and *)
(* with the modes they were asked for.  For any processes, command lines   *)
(* and trees.                                                              *)
(***************************************************************************)
EXTENDS MkPathProps, SequenceTheorems, WellFoundedInduction, TLAPS

-----------------------------------------------------------------------------
(* The slash, or the end, that the loops stop at: it exists, it is not
   before i, and nothing but names is between the two.                      *)

LEMMA LeastExists ==
  ASSUME NEW T \in SUBSET Nat, T # {}
  PROVE  \E i \in T : \A j \in T : i <= j
<1>1. PICK i \in T : \A j \in T : ~ (<<j, i>> \in OpToRel(<, Nat))
  BY NatLessThanWellFounded, WFMin
<1>2. \A j \in T : ~ (j < i)
  BY <1>1 DEF OpToRel
<1> QED BY <1>2

LEMMA StopAt ==
  ASSUME NEW path, Len(path) \in Nat, NEW i \in 1 .. Len(path) + 1
  PROVE  /\ StopFrom(path, i) \in i .. Len(path) + 1
         /\ StopFrom(path, i) = Len(path) + 1 \/ path[StopFrom(path, i)] = Slash
         /\ \A h \in i .. StopFrom(path, i) - 1 : path[h] # Slash
<1> DEFINE end == Len(path) + 1
           T == {k \in i .. end : k = end \/ path[k] = Slash}
<1>1. T \in SUBSET Nat /\ end \in T
  OBVIOUS
<1>2. PICK k \in T : \A h \in T : k <= h
  BY <1>1, LeastExists
<1>3. \A h \in i .. k - 1 : path[h] # Slash
  <2>1. SUFFICES ASSUME NEW h \in i .. k - 1, path[h] = Slash PROVE FALSE
    OBVIOUS
  <2>2. h \in i .. end /\ ~ (k <= h)
    BY <1>1, <1>2
  <2>3. h \in T
    BY <2>1, <2>2
  <2> QED BY <1>2, <2>2, <2>3
<1>4. \E s \in i .. end : /\ s = end \/ path[s] = Slash
                          /\ \A h \in i .. s - 1 : path[h] # Slash
  BY <1>2, <1>3
<1> QED BY <1>4 DEF StopFrom

LEMMA StopProp ==
  ASSUME NEW path, Len(path) \in Nat, NEW i \in 1 .. Len(path) + 1
  PROVE  StopFrom(path, i) \in i .. Len(path) + 1
BY StopAt

-----------------------------------------------------------------------------
(* What TypeOK leaves out: a process that has not exited has an operand to
   work on; what is behind a found component has been told from the last
   one; the umask.                                                          *)
Fields == {"j", "i", "last", "retval", "tried", "up"}

LocalsOK(p) ==
  /\ DOMAIN l[p] = Fields
  /\ l[p].j \in 1 .. Len(Argv(p)) + 1
  /\ l[p].j <= Len(Argv(p)) => l[p].i \in 1 .. Len(Path(p)) + 1
  /\ l[p].last \in BOOLEAN /\ l[p].tried \in BOOLEAN
  /\ l[p].retval \in 0 .. 2
  /\ pc[p] # "exit" => l[p].j <= Len(Argv(p))
  /\ pc[p] = "stat" => l[p].last = IsLast(p)

SharedOK ==
  /\ scene \in Scenes
  /\ \A n \in DOMAIN tree : tree[n] \in Mode
  /\ DOMAIN l = Runs
  /\ um \in [Runs -> {"own", "relaxed"}]
  /\ pc \in [Runs -> Pcs]
  /\ exit \in [Runs -> 0 .. 1]

IInv ==
  /\ SharedOK
  /\ \A p \in Runs : LocalsOK(p)
  /\ UmaskRestored

(* What the assumption says of the operands. *)
LEMMA RequestProp ==
  ASSUME scene \in Scenes, NEW p \in Runs
  PROVE  /\ req[p].cmd \in {"mkdir", "mkdir -p", "install -d", "rmdir", "rmdir -p"}
         /\ Argv(p) \in Seq(Seq(STRING)) /\ Len(Argv(p)) \in Nat \ {0}
         /\ \A k \in 1 .. Len(Argv(p)) :
              Argv(p)[k] \in Seq(STRING) /\ Len(Argv(p)[k]) \in Nat \ {0}
<1>1. req[p] \in RequestType /\ Argv(p) # << >>
      /\ \A k \in DOMAIN Argv(p) : Argv(p)[k] # << >>
  BY MkPathAssumption DEF Runs, req, Argv
<1>2. Argv(p) \in Seq(Seq(STRING))
  BY <1>1 DEF RequestType, Argv
<1>3. Len(Argv(p)) \in Nat \ {0} /\ DOMAIN Argv(p) = 1 .. Len(Argv(p))
  BY <1>1, <1>2
<1>4. \A k \in 1 .. Len(Argv(p)) : Argv(p)[k] \in Seq(STRING)
  BY <1>2, <1>3
<1>5. \A k \in 1 .. Len(Argv(p)) : Len(Argv(p)[k]) \in Nat \ {0}
  BY <1>1, <1>3, <1>4
<1> QED BY <1>1, <1>2, <1>3, <1>4, <1>5 DEF RequestType

-----------------------------------------------------------------------------
LEMMA InitInv == Init => IInv
<1> SUFFICES ASSUME Init PROVE IInv
  OBVIOUS
<1>1. SharedOK
  BY MkPathAssumption DEF Init, SharedOK, Pcs, Runs, req
<1>2. ASSUME NEW p \in Runs PROVE LocalsOK(p)
  <2>1. l[p] = [j |-> 1, i |-> 1, last |-> FALSE, retval |-> 1,
                tried |-> FALSE, up |-> << >>] /\ pc[p] = "operand"
    BY DEF Init
  <2>2. scene \in Scenes
    BY DEF Init
  <2>3. Len(Argv(p)) \in Nat \ {0}
    BY <2>2, RequestProp
  <2>4. 1 \in 1 .. Len(Argv(p))
    BY <2>3
  <2>5. Len(Argv(p)[1]) \in Nat \ {0}
    BY <2>2, <2>4, RequestProp
  <2> QED BY <2>1, <2>3, <2>5 DEF LocalsOK, Fields, Path
<1>3. UmaskRestored
  BY DEF Init, UmaskRestored
<1> QED BY <1>1, <1>2, <1>3 DEF IInv

-----------------------------------------------------------------------------
(* A step of p leaves every other process as it is, so it is enough to look
   at p.                                                                    *)
Alters(p) ==
  /\ UNCHANGED scene
  /\ DOMAIN l' = Runs /\ pc' \in [Runs -> Pcs]
  /\ um' \in [Runs -> {"own", "relaxed"}] /\ exit' \in [Runs -> 0 .. 1]
  /\ \A n \in DOMAIN tree' : tree'[n] \in Mode
  /\ \A q \in Runs \ {p} : l'[q] = l[q] /\ pc'[q] = pc[q] /\ um'[q] = um[q]

LEMMA OthersKeep ==
  ASSUME IInv, NEW p \in Runs, Alters(p), LocalsOK(p)',
         um'[p] = "relaxed" => InBuild(p)' /\ ~ l'[p].last
  PROVE  IInv'
<1>1. scene' = scene /\ Runs' = Runs /\ req' = req
  BY DEF Alters, Runs, req
<1>2. SharedOK'
  BY <1>1 DEF SharedOK, Alters, IInv
<1>3. ASSUME NEW q \in Runs PROVE LocalsOK(q)'
  <2>1. CASE q = p
    BY <2>1
  <2>2. CASE q # p
    <3>1. l'[q] = l[q] /\ pc'[q] = pc[q] /\ LocalsOK(q)
      BY <2>2 DEF Alters, IInv
    <3>2. Argv(q)' = Argv(q)
      BY <1>1 DEF Argv
    <3>3. Path(q)' = Path(q)
      BY <3>1, <3>2 DEF Path
    <3>4. IsLast(q)' = IsLast(q)
      BY <3>1, <3>3 DEF IsLast, Stop
    <3> QED BY <3>1, <3>2, <3>3, <3>4 DEF LocalsOK
  <2> QED BY <2>1, <2>2
<1>4. ASSUME NEW q \in Runs, um'[q] = "relaxed" PROVE InBuild(q)' /\ ~ l'[q].last
  <2>1. CASE q = p
    BY <1>4, <2>1
  <2>2. CASE q # p
    BY <1>1, <1>4, <2>2 DEF Alters, IInv, UmaskRestored, InBuild
  <2> QED BY <2>1, <2>2
<1> QED BY <1>1, <1>2, <1>3, <1>4 DEF IInv, UmaskRestored

-----------------------------------------------------------------------------
(* What the parts that the actions share do to the locals of p. *)
Moves(p) ==
  /\ DOMAIN l' = Runs /\ pc' \in [Runs -> Pcs]
  /\ \A q \in Runs \ {p} : l'[q] = l[q] /\ pc'[q] = pc[q]
  /\ LocalsOK(p)'

LEMMA Working ==
  ASSUME IInv, NEW p \in Runs, pc[p] # "exit"
  PROVE  /\ l[p].j \in 1 .. Len(Argv(p)) /\ Len(Argv(p)) \in Nat
         /\ Len(Path(p)) \in Nat \ {0}
         /\ l[p].i \in 1 .. Len(Path(p)) + 1
         /\ Stop(p) \in l[p].i .. Len(Path(p)) + 1
         /\ DOMAIN l = Runs /\ DOMAIN l[p] = Fields
         /\ l[p].last \in BOOLEAN /\ l[p].tried \in BOOLEAN /\ l[p].retval \in 0 .. 2
         /\ pc \in [Runs -> Pcs] /\ exit \in [Runs -> 0 .. 1]
<1>0. scene \in Scenes /\ LocalsOK(p) /\ SharedOK
  BY DEF IInv, SharedOK
<1>1. Len(Argv(p)) \in Nat
      /\ \A k \in 1 .. Len(Argv(p)) : Len(Argv(p)[k]) \in Nat \ {0}
  BY <1>0, RequestProp
<1>2. l[p].j \in 1 .. Len(Argv(p))
  BY <1>0, <1>1 DEF LocalsOK
<1>3. Len(Path(p)) \in Nat \ {0}
  BY <1>1, <1>2 DEF Path
<1>4. l[p].i \in 1 .. Len(Path(p)) + 1
  BY <1>0, <1>1, <1>2 DEF LocalsOK
<1>5. Stop(p) \in l[p].i .. Len(Path(p)) + 1
  BY <1>3, <1>4, StopProp DEF Stop
<1> QED BY <1>0, <1>1, <1>2, <1>3, <1>4, <1>5 DEF LocalsOK, SharedOK

(* The end of the operand: with the next one all locals start afresh. *)
LEMMA NextOperandProp ==
  ASSUME IInv, NEW p \in Runs, pc[p] # "exit", UNCHANGED scene, NextOperand(p)
  PROVE  Moves(p)
<1>0. scene' = scene /\ Runs' = Runs /\ Argv(p)' = Argv(p)
  BY DEF Runs, req, Argv
<1>1. l' = [l EXCEPT ![p] = [l[p] EXCEPT !.j = l[p].j + 1, !.i = 1, !.last = FALSE,
                                         !.retval = 1, !.tried = FALSE]]
      /\ pc' = [pc EXCEPT ![p] = IF l[p].j < Len(Argv(p)) THEN "operand" ELSE "exit"]
  BY DEF NextOperand, Goto
<1>2. /\ DOMAIN l' = Runs /\ pc' \in [Runs -> Pcs]
      /\ \A q \in Runs \ {p} : l'[q] = l[q] /\ pc'[q] = pc[q]
      /\ pc'[p] = IF l[p].j < Len(Argv(p)) THEN "operand" ELSE "exit"
  BY <1>1, Working DEF Pcs
<1>3. /\ DOMAIN l'[p] = Fields /\ l'[p].j = l[p].j + 1 /\ l'[p].i = 1
      /\ l'[p].last \in BOOLEAN /\ l'[p].retval = 1 /\ l'[p].tried \in BOOLEAN
  <2>1. p \in DOMAIN l /\ DOMAIN l[p] = Fields
    BY Working
  <2> QED BY <1>1, <2>1 DEF Fields
<1>4. l'[p].j <= Len(Argv(p)) => l'[p].i \in 1 .. Len(Path(p)') + 1
  <2>1. SUFFICES ASSUME l[p].j + 1 <= Len(Argv(p)) PROVE Len(Path(p)') \in Nat
    BY <1>3
  <2>2. l[p].j + 1 \in 1 .. Len(Argv(p))
    BY <2>1, Working
  <2>3. Path(p)' = Argv(p)[l[p].j + 1]
    BY <1>0, <1>3 DEF Path
  <2> QED BY <2>2, <2>3, RequestProp DEF IInv, SharedOK
<1>5. LocalsOK(p)'
  <2>1. l[p].j \in 1 .. Len(Argv(p)) /\ Len(Argv(p)) \in Nat
    BY Working
  <2>2. l'[p].j \in 1 .. Len(Argv(p)) + 1 /\ pc'[p] # "stat"
        /\ (pc'[p] # "exit" => l'[p].j <= Len(Argv(p)))
    BY <1>2, <1>3, <2>1
  <2>3. l'[p].j \in 1 .. Len(Argv(p)') + 1
        /\ (pc'[p] # "exit" => l'[p].j <= Len(Argv(p)'))
        /\ (l'[p].j <= Len(Argv(p)') => l'[p].i \in 1 .. Len(Path(p)') + 1)
    BY <1>0, <1>4, <2>2
  <2>4. l'[p].last \in BOOLEAN /\ l'[p].tried \in BOOLEAN /\ l'[p].retval \in 0 .. 2
    BY <1>3
  <2> QED BY <1>3, <2>2, <2>3, <2>4 DEF LocalsOK
<1> QED BY <1>2, <1>5 DEF Moves

(* To another place of the same operand: only i, last, retval, tried and up
   may differ, and they are what they should be.                            *)
LEMMA GotoProp ==
  ASSUME IInv, NEW p \in Runs, pc[p] # "exit", UNCHANGED scene,
         NEW s \in Pcs, Goto(p, s),
         DOMAIN l' = Runs, \A q \in Runs \ {p} : l'[q] = l[q],
         DOMAIN l'[p] = Fields, l'[p].j = l[p].j,
         l'[p].i \in 1 .. Len(Path(p)) + 1,
         l'[p].last \in BOOLEAN, l'[p].tried \in BOOLEAN, l'[p].retval \in 0 .. 2,
         s = "stat" => l'[p].i = l[p].i /\ l'[p].last = IsLast(p)
  PROVE  Moves(p) /\ pc'[p] = s
<1>0. scene' = scene /\ Runs' = Runs /\ Argv(p)' = Argv(p)
  BY DEF Runs, req, Argv
<1>1. /\ pc' \in [Runs -> Pcs] /\ pc'[p] = s
      /\ \A q \in Runs \ {p} : pc'[q] = pc[q]
  BY Working DEF Goto
<1>2. Path(p)' = Path(p)
  BY <1>0 DEF Path
<1>3. l'[p].i = l[p].i => IsLast(p)' = IsLast(p)
  BY <1>2 DEF IsLast, Stop
<1>4. LocalsOK(p)'
  BY <1>0, <1>1, <1>2, <1>3, Working DEF LocalsOK
<1> QED BY <1>1, <1>4 DEF Moves

LEMMA StatusProp ==
  ASSUME IInv, NEW p \in Runs, NEW bad, Status(p, bad)
  PROVE  exit' \in [Runs -> 0 .. 1]
BY DEF IInv, SharedOK, Status

LEMMA WithProp ==
  ASSUME IInv, NEW n, NEW m \in Mode
  PROVE  \A k \in DOMAIN With(n, m) : With(n, m)[k] \in Mode
BY DEF IInv, SharedOK, With

LEMMA MadeProp ==
  ASSUME NEW p
  PROVE  Made(p) \in Mode
BY DEF Made, Mode

LEMMA ReturnProp ==
  ASSUME IInv, NEW p \in Runs, pc[p] # "exit", UNCHANGED scene,
         NEW r \in 0 .. 2, Return(p, r)
  PROVE  Moves(p) /\ exit' \in [Runs -> 0 .. 1]
<1>1. CASE r = 1
  <2>1. Goto(p, "chmod") /\ l' = [l EXCEPT ![p].retval = r] /\ exit' = exit
    BY <1>1 DEF Return
  <2>2. DOMAIN l' = Runs /\ \A q \in Runs \ {p} : l'[q] = l[q]
    BY <2>1, Working
  <2>3. /\ DOMAIN l'[p] = Fields /\ l'[p].j = l[p].j /\ l'[p].i = l[p].i
        /\ l'[p].last \in BOOLEAN /\ l'[p].tried \in BOOLEAN /\ l'[p].retval \in 0 .. 2
    BY <2>1, Working DEF Fields
  <2>4. "chmod" \in Pcs
    BY DEF Pcs
  <2>5. l'[p].i \in 1 .. Len(Path(p)) + 1
    BY <2>3, Working
  <2> QED BY <2>1, <2>2, <2>3, <2>4, <2>5, GotoProp, Working
<1>2. CASE r # 1
  <2>1. Status(p, r = 0) /\ NextOperand(p)
    BY <1>2 DEF Return
  <2> QED BY <2>1, NextOperandProp, StatusProp
<1> QED BY <1>1, <1>2

LEMMA TurnProp ==
  ASSUME IInv, NEW p \in Runs, pc[p] # "exit", UNCHANGED scene,
         NEW last \in BOOLEAN, ~ last => ~ IsLast(p), NEW r \in 0 .. 2, Turn(p, last, r)
  PROVE  /\ Moves(p) /\ exit' \in [Runs -> 0 .. 1]
         /\ ~ last => pc'[p] = "mkdir" /\ ~ l'[p].last
<1>1. CASE last
  BY <1>1, ReturnProp DEF Turn
<1>2. CASE ~ last
  <2>1. /\ l' = [l EXCEPT ![p] = [l[p] EXCEPT !.i = Stop(p) + 1, !.last = last, !.retval = r]]
        /\ Goto(p, "mkdir") /\ exit' = exit
    BY <1>2 DEF Turn
  <2>2. DOMAIN l' = Runs /\ \A q \in Runs \ {p} : l'[q] = l[q]
    BY <2>1, Working
  <2>3. /\ DOMAIN l'[p] = Fields /\ l'[p].j = l[p].j /\ l'[p].i = Stop(p) + 1
        /\ l'[p].last = last /\ l'[p].tried \in BOOLEAN /\ l'[p].retval \in 0 .. 2
    BY <2>1, Working DEF Fields
  <2>4. "mkdir" \in Pcs
    BY DEF Pcs
  <2>5. l'[p].last \in BOOLEAN
    BY <2>1, Working DEF Fields
  <2>6. Stop(p) + 1 \in 1 .. Len(Path(p)) + 1
    BY <1>2, Working DEF IsLast
  <2>7. l'[p].i \in 1 .. Len(Path(p)) + 1
    BY <2>3, <2>6
  <2>8. Moves(p) /\ pc'[p] = "mkdir"
    BY <2>1, <2>2, <2>3, <2>4, <2>5, <2>7, GotoProp
  <2> QED BY <1>2, <2>1, <2>3, <2>8, Working
<1> QED BY <1>1, <1>2

LEMMA ErrProp ==
  ASSUME IInv, NEW p \in Runs, pc[p] # "exit", UNCHANGED scene, Err(p)
  PROVE  Moves(p) /\ exit' \in [Runs -> 0 .. 1]
<1>1. Goto(p, "exit") /\ Status(p, TRUE) /\ l' = l /\ "exit" \in Pcs
  BY DEF Err, Pcs
<1> QED BY <1>1, GotoProp, StatusProp, Working

LEMMA NextStopProp ==
  ASSUME IInv, NEW p \in Runs, pc[p] # "exit", UNCHANGED scene, NextStop(p)
  PROVE  Moves(p) /\ exit' \in [Runs -> 0 .. 1]
<1> DEFINE end == Stop(p) = Len(Path(p)) + 1
           i == IF end THEN l[p].i ELSE Stop(p) + 1
           s == IF end THEN "ichmod" ELSE "istat"
<1>1. /\ Goto(p, s) /\ exit' = exit
      /\ l' = [l EXCEPT ![p] = [l[p] EXCEPT !.i = i, !.tried = FALSE]]
  BY DEF NextStop
<1>2. i \in 1 .. Len(Path(p)) + 1 /\ s \in Pcs /\ s # "stat"
  BY Working DEF Pcs
<1> HIDE DEF i, s
<1>3. DOMAIN l' = Runs /\ \A q \in Runs \ {p} : l'[q] = l[q]
  BY <1>1, Working
<1>4. /\ DOMAIN l'[p] = Fields /\ l'[p].j = l[p].j /\ l'[p].i = i
      /\ l'[p].last \in BOOLEAN /\ l'[p].tried \in BOOLEAN /\ l'[p].retval \in 0 .. 2
  BY <1>1, Working DEF Fields
<1>5. Moves(p)
  BY <1>1, <1>2, <1>3, <1>4, GotoProp
<1> QED BY <1>1, <1>5, Working

-----------------------------------------------------------------------------
(* Outside of build() no process touches its umask, and it is its own. *)
LEMMA OutsideBuild ==
  ASSUME IInv, NEW p \in Runs, ~ InBuild(p), UNCHANGED <<scene, um>>, Moves(p),
         exit' \in [Runs -> 0 .. 1], \A n \in DOMAIN tree' : tree'[n] \in Mode
  PROVE  IInv'
<1>1. um'[p] # "relaxed"
  BY DEF IInv, UmaskRestored
<1>2. Alters(p) /\ LocalsOK(p)'
  BY DEF Alters, Moves, IInv, SharedOK
<1> QED BY <1>1, <1>2, OthersKeep

LEMMA OperandKeeps ==
  ASSUME IInv, NEW p \in Runs, Operand(p)
  PROVE  IInv'
<1>1. /\ pc[p] = "operand" /\ UNCHANGED <<tree, scene, um, exit>>
      /\ ~ InBuild(p)
  BY DEF Operand, At, InBuild
<1>2. Len(Path(p)) \in Nat \ {0} /\ DOMAIN l = Runs /\ p \in DOMAIN l
      /\ DOMAIN l[p] = Fields
  BY <1>1, Working
<1>3. Moves(p)
  <2>1. CASE req[p].cmd = "install -d"
    <3>1. Goto(p, "istat") /\ l' = l /\ "istat" \in Pcs
      BY <2>1 DEF Operand, Pcs
    <3> QED BY <1>1, <3>1, GotoProp, Working
  <2>2. CASE req[p].cmd \in {"mkdir", "mkdir -p"}
    <3> DEFINE i == IF req[p].cmd = "mkdir -p" /\ Path(p)[1] = Slash THEN 2 ELSE 1
    <3>1. Goto(p, "mkdir") /\ l' = [l EXCEPT ![p].i = i] /\ "mkdir" \in Pcs
      BY <2>2 DEF Operand, Pcs
    <3>2. i \in {1, 2}
      OBVIOUS
    <3> HIDE DEF i
    <3>3. i \in 1 .. Len(Path(p)) + 1
      BY <1>2, <3>2
    <3>4. /\ DOMAIN l' = Runs /\ \A q \in Runs \ {p} : l'[q] = l[q]
          /\ DOMAIN l'[p] = Fields /\ l'[p].j = l[p].j /\ l'[p].i = i
          /\ l'[p].last \in BOOLEAN /\ l'[p].tried \in BOOLEAN /\ l'[p].retval \in 0 .. 2
      BY <1>1, <1>2, <3>1, Working DEF Fields
    <3> QED BY <1>1, <3>1, <3>4, <3>3, GotoProp
  <2>3. CASE req[p].cmd \notin {"install -d", "mkdir", "mkdir -p"}
    <3>1. Goto(p, "rmpath") /\ l' = [l EXCEPT ![p].up = Node(Path(p))] /\ "rmpath" \in Pcs
      BY <2>3 DEF Operand, Pcs
    <3>2. /\ DOMAIN l' = Runs /\ \A q \in Runs \ {p} : l'[q] = l[q]
          /\ DOMAIN l'[p] = Fields /\ l'[p].j = l[p].j /\ l'[p].i = l[p].i
          /\ l'[p].last \in BOOLEAN /\ l'[p].tried \in BOOLEAN /\ l'[p].retval \in 0 .. 2
      BY <1>1, <1>2, <3>1, Working DEF Fields
    <3>3. l'[p].i \in 1 .. Len(Path(p)) + 1
      BY <1>1, <3>2, Working
    <3> QED BY <1>1, <3>1, <3>2, <3>3, GotoProp
  <2> QED BY <2>1, <2>2, <2>3
<1> QED BY <1>1, <1>3, OutsideBuild DEF IInv, SharedOK

LEMMA MkdirKeeps ==
  ASSUME IInv, NEW p \in Runs, Mkdir(p)
  PROVE  IInv'
<1> DEFINE n == Node(Path(p))
<1>1. /\ pc[p] = "mkdir" /\ UNCHANGED <<scene, um>>
      /\ ~ InBuild(p)
  BY DEF Mkdir, At, InBuild
<1>2. CASE Free(n)
  <2>1. tree' = With(n, Made(p)) /\ Goto(p, "chmod") /\ UNCHANGED <<l, exit>> /\ "chmod" \in Pcs
    BY <1>2 DEF Mkdir, Pcs
  <2>2. Moves(p)
    BY <1>1, <2>1, GotoProp, Working
  <2>3. \A k \in DOMAIN tree' : tree'[k] \in Mode
    BY <2>1, MadeProp, WithProp
  <2> QED BY <1>1, <2>1, <2>2, <2>3, OutsideBuild, Working
<1>3. CASE ~ Free(n)
  <2>1. tree' = tree /\ Status(p, TRUE) /\ NextOperand(p)
    BY <1>3 DEF Mkdir
  <2>2. Moves(p) /\ exit' \in [Runs -> 0 .. 1]
    BY <1>1, <2>1, NextOperandProp, StatusProp
  <2> QED BY <1>1, <2>1, <2>2, OutsideBuild DEF IInv, SharedOK
<1> QED BY <1>2, <1>3

LEMMA BuildMkdirKeeps ==
  ASSUME IInv, NEW p \in Runs, BuildMkdir(p)
  PROVE  IInv'
<1> DEFINE n    == Prefix(p)
           last == IsLast(p)
           seen == SeenDir(n) \/ SeenFile(n)
<1>1. /\ pc[p] = "mkdir" /\ UNCHANGED scene /\ req[p].cmd = "mkdir -p"
      /\ um' = [um EXCEPT ![p] = IF Free(n) \/ seen THEN UmaskAt(last) ELSE "own"]
  BY DEF BuildMkdir, At
<1>2. last \in BOOLEAN
  BY DEF IsLast
<1>3. /\ um' \in [Runs -> {"own", "relaxed"}]
      /\ \A q \in Runs \ {p} : um'[q] = um[q]
      /\ um'[p] = "relaxed" => (Free(n) \/ seen) /\ ~ last
  BY <1>1 DEF UmaskAt, IInv, SharedOK
<1>4. Runs' = Runs /\ req' = req /\ l[p].retval \in 0 .. 2
  BY <1>1, Working DEF Runs, req
<1>5. CASE Free(n)
  <2>1. tree' = With(n, Made(p)) /\ Turn(p, last, l[p].retval)
    BY <1>5 DEF BuildMkdir
  <2>2. /\ Moves(p) /\ exit' \in [Runs -> 0 .. 1]
        /\ ~ last => pc'[p] = "mkdir" /\ ~ l'[p].last
    BY <1>1, <1>2, <1>4, <2>1, TurnProp
  <2>3. \A k \in DOMAIN tree' : tree'[k] \in Mode
    BY <2>1, MadeProp, WithProp
  <2>4. Alters(p) /\ LocalsOK(p)'
    BY <1>1, <1>3, <2>2, <2>3 DEF Alters, Moves
  <2>5. um'[p] = "relaxed" => InBuild(p)' /\ ~ l'[p].last
    BY <1>1, <1>3, <1>4, <2>2 DEF InBuild
  <2> QED BY <2>4, <2>5, OthersKeep
<1>6. CASE ~ Free(n) /\ seen
  <2>1. /\ Goto(p, "stat") /\ exit' = exit /\ tree' = tree
        /\ l' = [l EXCEPT ![p].last = last] /\ "stat" \in Pcs
    BY <1>6 DEF BuildMkdir, Pcs
  <2>2. /\ DOMAIN l' = Runs /\ \A q \in Runs \ {p} : l'[q] = l[q]
        /\ DOMAIN l'[p] = Fields /\ l'[p].j = l[p].j /\ l'[p].i = l[p].i
        /\ l'[p].tried \in BOOLEAN /\ l'[p].retval \in 0 .. 2
    BY <1>1, <2>1, Working DEF Fields
  <2>3. l'[p].last = last /\ l'[p].last \in BOOLEAN
    <3>1. p \in DOMAIN l /\ "last" \in DOMAIN l[p]
      BY <1>1, Working DEF Fields
    <3>2. l'[p].last = last
      BY <2>1, <3>1
    <3> QED BY <1>2, <3>2
  <2>4. l'[p].i \in 1 .. Len(Path(p)) + 1
    BY <1>1, <2>2, Working
  <2>5. Moves(p) /\ pc'[p] = "stat"
    BY <1>1, <2>1, <2>2, <2>3, <2>4, GotoProp
  <2>6. Alters(p) /\ LocalsOK(p)'
    BY <1>1, <1>3, <2>1, <2>5 DEF Alters, Moves, IInv, SharedOK
  <2>7. um'[p] = "relaxed" => InBuild(p)' /\ ~ l'[p].last
    BY <1>1, <1>3, <1>4, <2>3, <2>5 DEF InBuild
  <2> QED BY <2>6, <2>7, OthersKeep
<1>7. CASE ~ Free(n) /\ ~ seen
  <2>1. tree' = tree /\ Return(p, 0) /\ pc[p] # "exit" /\ UNCHANGED scene
    BY <1>1, <1>7 DEF BuildMkdir
  <2>2. Moves(p) /\ exit' \in [Runs -> 0 .. 1]
    BY <2>1, ReturnProp
  <2>3. Alters(p) /\ LocalsOK(p)'
    BY <1>1, <1>3, <2>1, <2>2 DEF Alters, Moves, IInv, SharedOK
  <2> QED BY <1>3, <1>7, <2>3, OthersKeep
<1> QED BY <1>5, <1>6, <1>7

LEMMA BuildStatKeeps ==
  ASSUME IInv, NEW p \in Runs, BuildStat(p)
  PROVE  IInv'
<1> DEFINE dir == SeenDir(Prefix(p))
           r   == IF l[p].last THEN 2 ELSE l[p].retval
<1>1. /\ pc[p] = "stat" /\ UNCHANGED <<tree, scene>>
      /\ um' = [um EXCEPT ![p] = IF dir THEN um[p] ELSE "own"]
  BY DEF BuildStat, At
<1>2. /\ um' \in [Runs -> {"own", "relaxed"}]
      /\ \A q \in Runs \ {p} : um'[q] = um[q]
      /\ um'[p] = "relaxed" => dir /\ um[p] = "relaxed"
  BY <1>1 DEF IInv, SharedOK
<1>3. um[p] = "relaxed" => req[p].cmd = "mkdir -p" /\ ~ l[p].last
  BY DEF IInv, UmaskRestored, InBuild
<1>4. Runs' = Runs /\ req' = req /\ r \in 0 .. 2 /\ l[p].last \in BOOLEAN
  BY <1>1, Working DEF Runs, req
<1>5. l[p].last = IsLast(p)
  BY <1>1 DEF IInv, LocalsOK
<1>6. CASE dir
  <2>1. Turn(p, l[p].last, r)
    BY <1>6 DEF BuildStat
  <2>2. /\ Moves(p) /\ exit' \in [Runs -> 0 .. 1]
        /\ ~ l[p].last => pc'[p] = "mkdir" /\ ~ l'[p].last
    BY <1>1, <1>4, <1>5, <2>1, TurnProp
  <2>3. Alters(p) /\ LocalsOK(p)'
    BY <1>1, <1>2, <2>2 DEF Alters, Moves, IInv, SharedOK
  <2>4. um'[p] = "relaxed" => InBuild(p)' /\ ~ l'[p].last
    BY <1>2, <1>3, <1>4, <2>2 DEF InBuild
  <2> QED BY <2>3, <2>4, OthersKeep
<1>7. CASE ~ dir
  <2>1. Return(p, 0)
    BY <1>7 DEF BuildStat
  <2>2. Moves(p) /\ exit' \in [Runs -> 0 .. 1]
    BY <1>1, <2>1, ReturnProp
  <2>3. Alters(p) /\ LocalsOK(p)'
    BY <1>1, <1>2, <2>2 DEF Alters, Moves, IInv, SharedOK
  <2> QED BY <1>2, <1>7, <2>3, OthersKeep
<1> QED BY <1>6, <1>7

LEMMA ChmodKeeps ==
  ASSUME IInv, NEW p \in Runs, Chmod(p)
  PROVE  IInv'
<1> DEFINE n == Node(Path(p))
<1>1. /\ pc[p] = "chmod" /\ UNCHANGED <<scene, um>> /\ NextOperand(p)
      /\ ~ InBuild(p) /\ Status(p, req[p].m /\ ~ SeenDir(n))
      /\ tree' = With(n, "given") \/ tree' = tree
  BY DEF Chmod, At, InBuild
<1>2. Moves(p)
  BY <1>1, NextOperandProp
<1>3. exit' \in [Runs -> 0 .. 1]
  BY <1>1, StatusProp
<1>4. \A k \in DOMAIN tree' : tree'[k] \in Mode
  BY <1>1, WithProp DEF IInv, SharedOK, Mode
<1> QED BY <1>1, <1>2, <1>3, <1>4, OutsideBuild

LEMMA InstallStatKeeps ==
  ASSUME IInv, NEW p \in Runs, InstallStat(p)
  PROVE  IInv'
<1>1. /\ pc[p] = "istat" /\ UNCHANGED <<tree, scene, um>>
      /\ ~ InBuild(p)
      /\ NextStop(p) \/ Err(p) \/ (Goto(p, "imkdir") /\ UNCHANGED <<l, exit>>)
  BY DEF InstallStat, At, InBuild
<1>2. Moves(p) /\ exit' \in [Runs -> 0 .. 1]
  <2>1. CASE NextStop(p)
    BY <1>1, <2>1, NextStopProp
  <2>2. CASE Err(p)
    BY <1>1, <2>2, ErrProp
  <2>3. CASE Goto(p, "imkdir") /\ UNCHANGED <<l, exit>>
    <3>1. "imkdir" \in Pcs
      BY DEF Pcs
    <3> QED BY <1>1, <2>3, <3>1, GotoProp, Working
  <2> QED BY <1>1, <2>1, <2>2, <2>3
<1> QED BY <1>1, <1>2, OutsideBuild DEF IInv, SharedOK

LEMMA InstallMkdirKeeps ==
  ASSUME IInv, NEW p \in Runs, InstallMkdir(p)
  PROVE  IInv'
<1> DEFINE n == Prefix(p)
           again == Goto(p, "istat") /\ exit' = exit /\ l' = [l EXCEPT ![p].tried = TRUE]
<1>1. /\ pc[p] = "imkdir" /\ UNCHANGED <<scene, um>>
      /\ ~ InBuild(p)
      /\ NextStop(p) \/ Err(p) \/ again
      /\ tree' = With(n, Made(p)) \/ tree' = tree
  BY DEF InstallMkdir, At, InBuild
<1>2. Moves(p) /\ exit' \in [Runs -> 0 .. 1]
  <2>1. CASE NextStop(p)
    BY <1>1, <2>1, NextStopProp
  <2>2. CASE Err(p)
    BY <1>1, <2>2, ErrProp
  <2>3. CASE again
    <3>1. "istat" \in Pcs
      BY DEF Pcs
    <3>2. /\ DOMAIN l' = Runs /\ \A q \in Runs \ {p} : l'[q] = l[q]
          /\ DOMAIN l'[p] = Fields /\ l'[p].j = l[p].j /\ l'[p].i = l[p].i
          /\ l'[p].last \in BOOLEAN /\ l'[p].tried \in BOOLEAN /\ l'[p].retval \in 0 .. 2
      BY <1>1, <2>3, Working DEF Fields
    <3>3. l'[p].i \in 1 .. Len(Path(p)) + 1
      BY <1>1, <3>2, Working
    <3>4. Moves(p)
      BY <1>1, <2>3, <3>1, <3>2, <3>3, GotoProp
    <3> QED BY <1>1, <2>3, <3>4, Working
  <2> QED BY <1>1, <2>1, <2>2, <2>3
<1>3. \A k \in DOMAIN tree' : tree'[k] \in Mode
  BY <1>1, MadeProp, WithProp DEF IInv, SharedOK
<1> QED BY <1>1, <1>2, <1>3, OutsideBuild

LEMMA InstallChmodKeeps ==
  ASSUME IInv, NEW p \in Runs, InstallChmod(p)
  PROVE  IInv'
<1>1. /\ pc[p] = "ichmod" /\ UNCHANGED <<scene, um, exit>> /\ NextOperand(p)
      /\ ~ InBuild(p)
      /\ tree' = With(Node(Path(p)), "given") \/ tree' = tree
  BY DEF InstallChmod, At, InBuild
<1>2. Moves(p)
  BY <1>1, NextOperandProp
<1>3. \A k \in DOMAIN tree' : tree'[k] \in Mode
  BY <1>1, WithProp DEF IInv, SharedOK, Mode
<1> QED BY <1>1, <1>2, <1>3, OutsideBuild DEF IInv, SharedOK

LEMMA RmdirKeeps ==
  ASSUME IInv, NEW p \in Runs, Rmdir(p)
  PROVE  IInv'
<1> DEFINE n == l[p].up
           further == exit' = exit /\ l' = [l EXCEPT ![p].up = Up(n)] /\ pc' = pc
           works == n \in DOMAIN tree /\ Empty(n) /\ Opens(Up(n))
<1>0. /\ pc[p] = "rmpath" /\ UNCHANGED <<scene, um>> /\ ~ InBuild(p)
  BY DEF Rmdir, At, InBuild
<1>1. /\ further \/ ((exit' = exit \/ Status(p, TRUE)) /\ NextOperand(p))
      /\ tree' = Without(n) \/ tree' = tree
  <2>1. CASE works
    BY <2>1 DEF Rmdir
  <2>2. CASE ~ works
    BY <2>2 DEF Rmdir
  <2> QED BY <2>1, <2>2
<1>2. Moves(p) /\ exit' \in [Runs -> 0 .. 1]
  <2>1. CASE further
    <3>1. Goto(p, "rmpath") /\ "rmpath" \in Pcs
      BY <1>0, <1>1, <2>1, Working DEF Goto, Pcs
    <3>2. /\ DOMAIN l' = Runs /\ \A q \in Runs \ {p} : l'[q] = l[q]
          /\ DOMAIN l'[p] = Fields /\ l'[p].j = l[p].j /\ l'[p].i = l[p].i
          /\ l'[p].last \in BOOLEAN /\ l'[p].tried \in BOOLEAN /\ l'[p].retval \in 0 .. 2
      BY <1>0, <1>1, <2>1, Working DEF Fields
    <3>3. l'[p].i \in 1 .. Len(Path(p)) + 1
      BY <1>0, <1>1, <3>2, Working
    <3>4. Moves(p)
      BY <1>0, <1>1, <3>1, <3>2, <3>3, GotoProp
    <3> QED BY <1>0, <1>1, <2>1, <3>4, Working
  <2>2. CASE (exit' = exit \/ Status(p, TRUE)) /\ NextOperand(p)
    <3>1. Moves(p)
      BY <1>0, <1>1, <2>2, NextOperandProp
    <3>2. exit' \in [Runs -> 0 .. 1]
      BY <1>0, <1>1, <2>2, StatusProp, Working
    <3> QED BY <3>1, <3>2
  <2> QED BY <1>0, <1>1, <2>1, <2>2
<1>3. \A k \in DOMAIN tree' : tree'[k] \in Mode
  BY <1>1 DEF IInv, SharedOK, Without
<1> QED BY <1>0, <1>1, <1>2, <1>3, OutsideBuild

-----------------------------------------------------------------------------
(* The other program touches nothing but the tree. *)
LEMMA FlapKeeps ==
  ASSUME IInv, Flap
  PROVE  IInv'
<1>1. UNCHANGED <<scene, l, um, pc, exit>>
  BY DEF Flap
<1>2. \A k \in DOMAIN tree' : tree'[k] \in Mode
  <2>1. PICK n : tree' = With(n, "open") \/ tree' = Without(n)
    BY DEF Flap
  <2> QED BY <2>1, WithProp DEF Without, IInv, SharedOK, Mode
<1>3. Runs' = Runs /\ req' = req
  BY <1>1 DEF Runs, req
<1>4. ASSUME NEW p \in Runs PROVE LocalsOK(p)'
  <2>1. Argv(p)' = Argv(p) /\ Path(p)' = Path(p) /\ IsLast(p)' = IsLast(p)
    BY <1>1, <1>3 DEF Argv, Path, IsLast, Stop
  <2> QED BY <1>1, <2>1 DEF IInv, LocalsOK
<1> QED BY <1>1, <1>2, <1>3, <1>4 DEF IInv, SharedOK, UmaskRestored, InBuild

LEMMA StutterKeeps ==
  ASSUME IInv, UNCHANGED vars
  PROVE  IInv'
<1>1. UNCHANGED <<tree, scene, l, um, pc, exit>> /\ Runs' = Runs /\ req' = req
  BY DEF vars, Runs, req
<1>2. ASSUME NEW p \in Runs PROVE LocalsOK(p)'
  <2>1. Argv(p)' = Argv(p) /\ Path(p)' = Path(p) /\ IsLast(p)' = IsLast(p)
    BY <1>1 DEF Argv, Path, IsLast, Stop
  <2> QED BY <1>1, <2>1, <1>2 DEF IInv, LocalsOK
<1> QED BY <1>1, <1>2 DEF IInv, SharedOK, UmaskRestored, InBuild

LEMMA NextInv == IInv /\ [Next]_vars => IInv'
<1> SUFFICES ASSUME IInv, [Next]_vars PROVE IInv'
  OBVIOUS
<1>1. ASSUME NEW p \in Runs, Step(p) PROVE IInv'
  BY <1>1, OperandKeeps, MkdirKeeps, BuildMkdirKeeps, BuildStatKeeps, ChmodKeeps,
     InstallStatKeeps, InstallMkdirKeeps, InstallChmodKeeps, RmdirKeeps DEF Step
<1> QED BY <1>1, FlapKeeps, StutterKeeps DEF Next

-----------------------------------------------------------------------------
(* The inductive invariant: the two results below are parts of it. *)
THEOREM MkPathInvariance == Spec => []IInv
BY InitInv, NextInv, PTL DEF Spec

(* No loop over the components of a path runs past its end, whatever the
   slashes in it, and no process ends with a status other than 0 or 1.      *)
THEOREM MkPathTypeCorrect == Spec => []TypeOK
<1>1. IInv => TypeOK
  BY DEF IInv, SharedOK, LocalsOK, TypeOK
<1> QED BY <1>1, MkPathInvariance, PTL

(* Outside of build(), and for the last component, a process runs under the
   umask it came with: a failure in the middle of a path does not leave the
   relaxed umask to the operands after it.                                  *)
THEOREM UmaskAlwaysRestored == Spec => []UmaskRestored
<1>1. IInv => UmaskRestored
  BY DEF IInv
<1> QED BY <1>1, MkPathInvariance, PTL

-----------------------------------------------------------------------------
(* The nodes of a path. *)

LEMMA PrefixChar ==
  ASSUME NEW s \in Seq(STRING), NEW t \in Seq(STRING), Len(s) <= Len(t),
         \A i \in 1 .. Len(s) : s[i] = t[i]
  PROVE  IsPrefix(s, t)
<1>1. Len(s) \in Nat /\ Len(t) \in Nat
  BY LenProperties
<1>2. \A i \in 1 .. Len(s) : s[i] \in STRING /\ t[i] \in STRING
  BY <1>1, ElementOfSeq
<1> DEFINE a == SubSeq(s, 1, Len(s))
           b == SubSeq(t, 1, Len(s))
<1>3. a \in Seq(STRING) /\ Len(a) = Len(s) /\ \A i \in 1 .. Len(s) : a[i] = s[i]
  BY <1>1, <1>2, SubSeqProperties
<1>4. b \in Seq(STRING) /\ Len(b) = Len(s) /\ \A i \in 1 .. Len(s) : b[i] = t[i]
  BY <1>1, <1>2, SubSeqProperties
<1> HIDE DEF a, b
<1>5. a = b
  BY <1>3, <1>4, SeqEqual
<1> QED BY <1>5 DEF IsPrefix, a, b

LEMMA PrefixGives ==
  ASSUME NEW s \in Seq(STRING), NEW t \in Seq(STRING), IsPrefix(s, t)
  PROVE  Len(s) <= Len(t) /\ \A i \in 1 .. Len(s) : s[i] = t[i]
<1>1. Len(s) \in Nat /\ Len(t) \in Nat /\ Len(s) <= Len(t)
  BY LenProperties DEF IsPrefix
<1>2. \A i \in 1 .. Len(s) : s[i] \in STRING /\ t[i] \in STRING
  BY <1>1, ElementOfSeq
<1> DEFINE a == SubSeq(s, 1, Len(s))
           b == SubSeq(t, 1, Len(s))
<1>3. a \in Seq(STRING) /\ Len(a) = Len(s) /\ \A i \in 1 .. Len(s) : a[i] = s[i]
  BY <1>1, <1>2, SubSeqProperties
<1>4. b \in Seq(STRING) /\ Len(b) = Len(s) /\ \A i \in 1 .. Len(s) : b[i] = t[i]
  BY <1>1, <1>2, SubSeqProperties
<1>5. a = b
  BY DEF IsPrefix
<1> HIDE DEF a, b
<1> QED BY <1>1, <1>3, <1>4, <1>5

LEMMA UpAppend ==
  ASSUME NEW s \in Seq(STRING), NEW x \in STRING
  PROVE  /\ Append(s, x) \in Seq(STRING) /\ Append(s, x) # << >> /\ Up(Append(s, x)) = s
         /\ IsPrefix(s, Append(s, x)) /\ Len(Append(s, x)) = Len(s) + 1
<1> DEFINE a == Append(s, x)
<1>1. /\ a \in Seq(STRING) /\ Len(a) = Len(s) + 1 /\ Len(s) \in Nat
      /\ \A i \in 1 .. Len(s) : a[i] = s[i]
  BY AppendProperties, LenProperties
<1> HIDE DEF a
<1>2. a # << >>
  BY <1>1, EmptySeq
<1>3. IsPrefix(s, a)
  BY <1>1, PrefixChar
<1> DEFINE u == SubSeq(a, 1, Len(s))
<1>4. \A i \in 1 .. Len(s) : a[i] \in STRING
  BY <1>1, ElementOfSeq
<1>5. u \in Seq(STRING) /\ Len(u) = Len(s) /\ \A i \in 1 .. Len(s) : u[i] = a[i]
  BY <1>1, <1>4, SubSeqProperties
<1>6. Len(a) - 1 = Len(s)
  BY <1>1
<1>7. Up(a) = u
  BY <1>6 DEF Up
<1> HIDE DEF u
<1>8. u = s
  BY <1>1, <1>5, SeqEqual
<1> QED BY <1>1, <1>2, <1>3, <1>7, <1>8 DEF a

(* What is under another name is another name. *)
LEMMA UpDiffers ==
  ASSUME NEW n \in Seq(STRING), n # << >>
  PROVE  Up(n) # n
<1>1. Len(n) \in Nat \ {0} /\ \A i \in 1 .. Len(n) : n[i] \in STRING
  BY LenProperties, EmptySeq, ElementOfSeq
<1>2. \A i \in 1 .. Len(n) - 1 : n[i] \in STRING
  BY <1>1
<1>3. Len(SubSeq(n, 1, Len(n) - 1)) = IF 1 <= Len(n) - 1 THEN (Len(n) - 1) - 1 + 1 ELSE 0
  BY <1>1, <1>2, SubSeqProperties
<1> QED BY <1>1, <1>3 DEF Up

Onto(path, f, i) == IF path[i] = Slash THEN f[i - 1] ELSE Append(f[i - 1], path[i])
NodeSo(path, k, f) == f = [i \in 0 .. k |-> IF i = 0 THEN << >> ELSE Onto(path, f, i)]

LEMMA NodeSoExists ==
  ASSUME NEW d, NEW k \in Nat
  PROVE  \E f : NodeSo(d, k, f)
<1> DEFINE T == {m \in Nat : ~ \E f : NodeSo(d, m, f)}
<1>1. SUFFICES ASSUME T # {} PROVE FALSE
  OBVIOUS
<1>2. PICK m \in T : \A j \in T : m <= j
  BY <1>1, LeastExists
<1>3. m \in Nat /\ ~ \E f : NodeSo(d, m, f)
  BY <1>2
<1>4. m # 0
  <2>1. NodeSo(d, 0, [i \in 0 .. 0 |-> << >>])
    BY DEF NodeSo
  <2> QED BY <1>3, <2>1
<1>5. m - 1 \in Nat /\ m - 1 \notin T
  BY <1>2, <1>3, <1>4
<1>6. PICK f : NodeSo(d, m - 1, f)
  BY <1>5
<1> DEFINE g == [i \in 0 .. m |-> IF i = m THEN Onto(d, f, i) ELSE f[i]]
           h == [i \in 0 .. m |-> IF i = 0 THEN << >> ELSE Onto(d, g, i)]
<1>7. ASSUME NEW i \in 0 .. m PROVE g[i] = h[i]
  <2>1. CASE i = 0
    BY <2>1, <1>3, <1>4, <1>6 DEF NodeSo
  <2>2. CASE i # 0
    <3>1. i - 1 \in 0 .. m - 1 /\ i - 1 \in 0 .. m /\ i - 1 # m
      BY <2>2, <1>3
    <3>2. g[i - 1] = f[i - 1]
      BY <3>1
    <3>3. Onto(d, g, i) = Onto(d, f, i)
      BY <3>2 DEF Onto
    <3>4. i = m \/ i \in 0 .. m - 1
      BY <1>3
    <3>5. g[i] = Onto(d, f, i)
      BY <3>4, <2>2, <1>6 DEF NodeSo
    <3> QED BY <2>2, <3>3, <3>5
  <2> QED BY <2>1, <2>2
<1>8. g = h
  BY <1>7
<1>9. NodeSo(d, m, g)
  BY <1>8 DEF NodeSo
<1> QED BY <1>3, <1>9

LEMMA NodeSoAgree ==
  ASSUME NEW d, NEW k \in Nat, NEW n \in 0 .. k, NEW f, NEW g,
         NodeSo(d, k, f), NodeSo(d, n, g)
  PROVE  f[n] = g[n]
<1> DEFINE T == {i \in 0 .. n : f[i] # g[i]}
<1>1. SUFFICES ASSUME T # {} PROVE FALSE
  OBVIOUS
<1>2. T \in SUBSET Nat
  OBVIOUS
<1>3. PICK m \in T : \A j \in T : m <= j
  BY <1>1, <1>2, LeastExists
<1>4. m \in 0 .. n /\ m \in 0 .. k /\ f[m] # g[m]
  BY <1>3
<1>5. m # 0
  BY <1>4 DEF NodeSo
<1>6. m - 1 \in 0 .. n /\ m - 1 \notin T
  BY <1>3, <1>4, <1>5
<1>7. f[m - 1] = g[m - 1]
  BY <1>6
<1>8. f[m] = Onto(d, f, m) /\ g[m] = Onto(d, g, m)
  BY <1>4, <1>5 DEF NodeSo
<1> QED BY <1>4, <1>7, <1>8 DEF Onto

LEMMA NodeIs ==
  ASSUME NEW d, NEW k \in Nat
  PROVE  \E f : NodeSo(d, k, f) /\ NodeAt(d, k) = f[k]
<1> DEFINE c == CHOOSE f : NodeSo(d, k, f)
<1>1. NodeSo(d, k, c)
  BY NodeSoExists
<1>2. NodeAt(d, k) = c[k]
  BY DEF NodeAt, NodeSo, Onto
<1> QED BY <1>1, <1>2

LEMMA NodeProp ==
  ASSUME NEW d
  PROVE  /\ NodeAt(d, 0) = << >>
         /\ \A k \in Nat \ {0} :
              NodeAt(d, k) = IF d[k] = Slash THEN NodeAt(d, k - 1)
                                             ELSE Append(NodeAt(d, k - 1), d[k])
<1>1. NodeAt(d, 0) = << >>
  <2>1. PICK f : NodeSo(d, 0, f) /\ NodeAt(d, 0) = f[0]
    BY NodeIs
  <2> QED BY <2>1 DEF NodeSo
<1>2. ASSUME NEW k \in Nat \ {0}
      PROVE  NodeAt(d, k) = IF d[k] = Slash THEN NodeAt(d, k - 1)
                                            ELSE Append(NodeAt(d, k - 1), d[k])
  <2>1. k \in Nat /\ k - 1 \in Nat /\ k - 1 \in 0 .. k /\ k \in 0 .. k /\ k # 0
    OBVIOUS
  <2>2. PICK f : NodeSo(d, k, f) /\ NodeAt(d, k) = f[k]
    BY <2>1, NodeIs
  <2>3. PICK g : NodeSo(d, k - 1, g) /\ NodeAt(d, k - 1) = g[k - 1]
    BY <2>1, NodeIs
  <2>4. f[k - 1] = g[k - 1]
    BY <2>1, <2>2, <2>3, NodeSoAgree
  <2>5. f[k] = Onto(d, f, k)
    BY <2>1, <2>2 DEF NodeSo
  <2> QED BY <2>2, <2>3, <2>4, <2>5 DEF Onto
<1> QED BY <1>1, <1>2

LEMMA NodeType ==
  ASSUME NEW path \in Seq(STRING), NEW k \in 0 .. Len(path)
  PROVE  NodeAt(path, k) \in Seq(STRING)
<1> DEFINE T == {i \in 0 .. Len(path) : NodeAt(path, i) \notin Seq(STRING)}
<1>1. SUFFICES ASSUME T # {} PROVE FALSE
  OBVIOUS
<1>2. Len(path) \in Nat /\ T \in SUBSET Nat
  BY LenProperties
<1>3. PICK m \in T : \A j \in T : m <= j
  BY <1>1, <1>2, LeastExists
<1>4. m \in 0 .. Len(path) /\ NodeAt(path, m) \notin Seq(STRING)
  BY <1>3
<1>5. m # 0
  BY <1>4, NodeProp, EmptySeq
<1>6. m \in Nat \ {0} /\ m \in 1 .. Len(path) /\ m - 1 \in 0 .. Len(path) /\ m - 1 \notin T
  BY <1>2, <1>3, <1>4, <1>5
<1>7. NodeAt(path, m - 1) \in Seq(STRING) /\ path[m] \in STRING
  BY <1>6, ElementOfSeq
<1>8. Append(NodeAt(path, m - 1), path[m]) \in Seq(STRING)
  BY <1>7, UpAppend
<1> QED BY <1>4, <1>6, <1>7, <1>8, NodeProp

(* Further along the path the node only gets longer, by every name. *)
LEMMA NodeGrows ==
  ASSUME NEW path \in Seq(STRING), NEW a \in 0 .. Len(path), NEW b \in a .. Len(path)
  PROVE  /\ IsPrefix(NodeAt(path, a), NodeAt(path, b))
         /\ NodeAt(path, a) = NodeAt(path, b) => \A h \in a + 1 .. b : path[h] = Slash
<1> DEFINE N(k) == NodeAt(path, k)
           Fine(k) == /\ Len(N(a)) <= Len(N(k))
                      /\ \A i \in 1 .. Len(N(a)) : N(a)[i] = N(k)[i]
                      /\ (\E h \in a + 1 .. k : path[h] # Slash) => Len(N(a)) < Len(N(k))
           T == {k \in a .. Len(path) : ~ Fine(k)}
<1>0. Len(path) \in Nat /\ a \in Nat /\ b \in Nat /\ b \in 0 .. Len(path)
  BY LenProperties
<1>1. \A k \in 0 .. Len(path) : N(k) \in Seq(STRING) /\ Len(N(k)) \in Nat
  BY NodeType, LenProperties
<1>2. T = {}
  <2>1. SUFFICES ASSUME T # {} PROVE FALSE
    OBVIOUS
  <2>2. T \in SUBSET Nat
    BY <1>0
  <2>3. PICK m \in T : \A j \in T : m <= j
    BY <2>1, <2>2, LeastExists
  <2>4. m \in a .. Len(path) /\ ~ Fine(m)
    BY <2>3
  <2>5. m # a
    BY <1>0, <1>1, <2>4
  <2>6. /\ m \in Nat \ {0} /\ m \in 1 .. Len(path) /\ m - 1 \in 0 .. Len(path)
        /\ m - 1 \in a .. Len(path) /\ m - 1 \notin T /\ m \in 0 .. Len(path)
    BY <1>0, <2>3, <2>4, <2>5
  <2>7. Fine(m - 1)
    BY <2>6
  <2>8. path[m] \in STRING /\ N(m - 1) \in Seq(STRING)
    BY <1>1, <2>6, ElementOfSeq
  <2>9. N(m) = IF path[m] = Slash THEN N(m - 1) ELSE Append(N(m - 1), path[m])
    BY <2>6, NodeProp
  <2>10. \A h \in a + 1 .. m : h = m \/ h \in a + 1 .. m - 1
    BY <1>0, <2>6
  <2> HIDE DEF N
  <2>11. CASE path[m] = Slash
    BY <2>4, <2>7, <2>9, <2>10, <2>11
  <2>12. CASE path[m] # Slash
    <3>1. /\ Len(N(m)) = Len(N(m - 1)) + 1 /\ Len(N(m - 1)) \in Nat /\ Len(N(a)) \in Nat
          /\ \A i \in 1 .. Len(N(m - 1)) : N(m)[i] = N(m - 1)[i]
      BY <1>0, <1>1, <2>6, <2>8, <2>9, <2>12, AppendProperties
    <3>2. Len(N(a)) <= Len(N(m - 1)) /\ \A i \in 1 .. Len(N(a)) : N(a)[i] = N(m - 1)[i]
      BY <2>7
    <3>3. Len(N(a)) < Len(N(m))
      BY <3>1, <3>2
    <3>4. \A i \in 1 .. Len(N(a)) : i \in 1 .. Len(N(m - 1))
      BY <3>1, <3>2
    <3>5. \A i \in 1 .. Len(N(a)) : N(a)[i] = N(m)[i]
      BY <3>1, <3>2, <3>4
    <3>6. Len(N(a)) <= Len(N(m))
      BY <3>1, <3>3, <1>1, <2>6
    <3> QED BY <2>4, <3>3, <3>5, <3>6
  <2> QED BY <2>11, <2>12
<1>3. b \in a .. Len(path) /\ b \notin T
  BY <1>2
<1>4. Fine(b)
  BY <1>3
<1> HIDE DEF N
<1>5. N(a) \in Seq(STRING) /\ N(b) \in Seq(STRING) /\ Len(N(a)) \in Nat /\ Len(N(b)) \in Nat
  BY <1>0, <1>1
<1>6. IsPrefix(N(a), N(b))
  BY <1>4, <1>5, PrefixChar
<1>7. N(a) = N(b) => \A h \in a + 1 .. b : path[h] = Slash
  BY <1>4, <1>5
<1> QED BY <1>6, <1>7 DEF N

Spaced(path) == \A i \in 2 .. Len(path) : Slash \in {path[i - 1], path[i]}

(* From one place where the loops stop to the next there is one name at most. *)
LEMMA PathStep ==
  ASSUME NEW path \in Seq(STRING), Spaced(path), NEW i \in 1 .. Len(path) + 1,
         NEW s, s = StopFrom(path, i)
  PROVE  /\ s \in i .. Len(path) + 1 /\ NodeAt(path, s - 1) \in Seq(STRING)
         /\ \/ NodeAt(path, s - 1) = NodeAt(path, i - 1)
            \/ NodeAt(path, s - 1) # << >> /\ Up(NodeAt(path, s - 1)) = NodeAt(path, i - 1)
         /\ s <= Len(path) => NodeAt(path, s) = NodeAt(path, s - 1)
         /\ s >= Len(path) => NodeAt(path, s - 1) = Node(path)
         /\ s < Len(path) => OnTheWay(path, NodeAt(path, s - 1))
<1>1. Len(path) \in Nat /\ i \in Nat \ {0} /\ i - 1 \in 0 .. Len(path)
  BY LenProperties
<1>2. /\ s \in i .. Len(path) + 1
      /\ s = Len(path) + 1 \/ path[s] = Slash
      /\ \A h \in i .. s - 1 : path[h] # Slash
  BY <1>1, StopAt
<1>3. s \in Nat \ {0} /\ s - 1 \in 0 .. Len(path)
  BY <1>1, <1>2
<1>4. s = i \/ s = i + 1
  <2>1. SUFFICES ASSUME s # i, s # i + 1 PROVE FALSE
    OBVIOUS
  <2>2. i \in i .. s - 1 /\ i + 1 \in i .. s - 1 /\ i + 1 \in 2 .. Len(path) /\ (i + 1) - 1 = i
    BY <1>1, <1>2, <1>3, <2>1
  <2>3. path[i] # Slash /\ path[i + 1] # Slash
    BY <1>2, <2>2
  <2> QED BY <2>2, <2>3 DEF Spaced
<1>5. NodeAt(path, s - 1) \in Seq(STRING) /\ NodeAt(path, i - 1) \in Seq(STRING)
  BY <1>1, <1>3, NodeType
<1>6. \/ NodeAt(path, s - 1) = NodeAt(path, i - 1)
      \/ NodeAt(path, s - 1) # << >> /\ Up(NodeAt(path, s - 1)) = NodeAt(path, i - 1)
  <2>1. CASE s = i
    BY <2>1
  <2>2. CASE s = i + 1
    <3>1. i \in i .. s - 1 /\ s - 1 = i /\ i \in 1 .. Len(path)
      BY <1>1, <1>2, <2>2
    <3>2. path[i] # Slash /\ path[i] \in STRING
      BY <1>2, <3>1, ElementOfSeq
    <3>3. NodeAt(path, i) = Append(NodeAt(path, i - 1), path[i])
      BY <1>1, <3>2, NodeProp
    <3>4. Up(NodeAt(path, i)) = NodeAt(path, i - 1) /\ NodeAt(path, i) # << >>
      BY <1>5, <3>2, <3>3, UpAppend
    <3>5. NodeAt(path, s - 1) = NodeAt(path, i)
      BY <3>1
    <3> QED BY <3>4, <3>5
  <2> QED BY <1>4, <2>1, <2>2
<1>7. ASSUME s <= Len(path) PROVE NodeAt(path, s) = NodeAt(path, s - 1)
  <2>1. path[s] = Slash
    BY <1>1, <1>2, <1>3, <1>7
  <2> QED BY <1>3, <2>1, NodeProp
<1>8. ASSUME s >= Len(path) PROVE NodeAt(path, s - 1) = Node(path)
  <2>1. s = Len(path) + 1 \/ s = Len(path)
    BY <1>1, <1>2, <1>3, <1>8
  <2>2. CASE s = Len(path) + 1
    <3>1. s - 1 = Len(path)
      BY <1>1, <2>2
    <3> QED BY <3>1 DEF Node
  <2>3. CASE s = Len(path)
    <3>1. NodeAt(path, s) = NodeAt(path, s - 1)
      BY <1>1, <1>7, <2>3
    <3> QED BY <2>3, <3>1 DEF Node
  <2> QED BY <2>1, <2>2, <2>3
<1>9. ASSUME s < Len(path) PROVE OnTheWay(path, NodeAt(path, s - 1))
  <2>1. /\ s - 1 \in 0 .. Len(path) /\ Len(path) \in s - 1 .. Len(path)
        /\ Len(path) \in (s - 1) + 1 .. Len(path) /\ Len(path) - 1 \in (s - 1) + 1 .. Len(path)
        /\ ~ (Len(path) < 2)
    BY <1>1, <1>3, <1>9
  <2>2. /\ IsPrefix(NodeAt(path, s - 1), Node(path))
        /\ NodeAt(path, s - 1) = Node(path) =>
             \A h \in (s - 1) + 1 .. Len(path) : path[h] = Slash
    BY <2>1, NodeGrows DEF Node
  <2>3. NodeAt(path, s - 1) = Node(path) => path[Len(path)] = Slash /\ path[Len(path) - 1] = Slash
    BY <2>1, <2>2
  <2> QED BY <2>1, <2>2, <2>3 DEF OnTheWay, OneSlash
<1> QED BY <1>2, <1>5, <1>6, <1>7, <1>8, <1>9

(* The same of the operand in hand. *)
LEMMA HereProp ==
  ASSUME IInv, NEW p \in Runs, pc[p] # "exit"
  PROVE  /\ Path(p) \in Seq(STRING) /\ Len(Path(p)) \in Nat \ {0} /\ Node(Path(p)) \in Seq(STRING)
         /\ l[p].i \in 1 .. Len(Path(p)) + 1 /\ Stop(p) \in Nat \ {0}
         /\ Prefix(p) \in Seq(STRING)
         /\ \/ Prefix(p) = NodeAt(Path(p), l[p].i - 1)
            \/ Prefix(p) # << >> /\ Up(Prefix(p)) = NodeAt(Path(p), l[p].i - 1)
         /\ Stop(p) <= Len(Path(p)) => NodeAt(Path(p), Stop(p)) = Prefix(p)
         /\ Stop(p) = Len(Path(p)) + 1 => Prefix(p) = Node(Path(p))
         /\ Stop(p) # Len(Path(p)) + 1 => Stop(p) <= Len(Path(p))
         /\ IsLast(p) => Prefix(p) = Node(Path(p))
         /\ ~ IsLast(p) => OnTheWay(Path(p), Prefix(p)) /\ NodeAt(Path(p), Stop(p)) = Prefix(p)
         /\ NodeAt(Path(p), 0) = << >>
         /\ Path(p)[1] = Slash => NodeAt(Path(p), 1) = << >>
<1>1. /\ l[p].j \in 1 .. Len(Argv(p)) /\ Len(Path(p)) \in Nat \ {0}
      /\ l[p].i \in 1 .. Len(Path(p)) + 1
  BY Working
<1>2. scene \in Scenes
  BY DEF IInv, SharedOK
<1>3. Path(p) \in Seq(STRING) /\ l[p].j \in DOMAIN Argv(p)
  <2>1. Path(p) \in Seq(STRING)
    BY <1>1, <1>2, RequestProp DEF Path
  <2>2. Argv(p) \in Seq(Seq(STRING))
    BY <1>2, RequestProp
  <2>3. DOMAIN Argv(p) = 1 .. Len(Argv(p))
    BY <2>2, LenProperties
  <2> QED BY <1>1, <2>1, <2>3
<1>4. Spaced(Path(p))
  BY <1>2, <1>3, MkPathAssumption DEF Runs, req, Argv, Path, Spaced
<1> DEFINE d == Path(p)
           i == l[p].i
           s == Stop(p)
<1>5. s = StopFrom(d, i)
  BY DEF Stop
<1>6. /\ s \in i .. Len(d) + 1 /\ NodeAt(d, s - 1) \in Seq(STRING)
      /\ \/ NodeAt(d, s - 1) = NodeAt(d, i - 1)
         \/ NodeAt(d, s - 1) # << >> /\ Up(NodeAt(d, s - 1)) = NodeAt(d, i - 1)
      /\ s <= Len(d) => NodeAt(d, s) = NodeAt(d, s - 1)
      /\ s >= Len(d) => NodeAt(d, s - 1) = Node(d)
      /\ s < Len(d) => OnTheWay(d, NodeAt(d, s - 1))
  BY <1>1, <1>3, <1>4, <1>5, PathStep
<1>7. Prefix(p) = NodeAt(d, s - 1) /\ (IsLast(p) <=> s >= Len(d))
  BY DEF Prefix, IsLast
<1>8. Node(d) \in Seq(STRING)
  BY <1>1, <1>3, NodeType DEF Node
<1>9. NodeAt(d, 0) = << >> /\ (d[1] = Slash => NodeAt(d, 1) = << >>)
  BY NodeProp
<1> HIDE DEF d, i, s
<1>10. /\ s \in Nat \ {0} /\ (s # Len(d) + 1 => s <= Len(d)) /\ (s = Len(d) + 1 => s >= Len(d))
       /\ (~ (s >= Len(d)) => s < Len(d) /\ s <= Len(d))
  BY <1>1, <1>6 DEF d, i
<1>11. /\ d \in Seq(STRING) /\ Len(d) \in Nat \ {0} /\ i \in 1 .. Len(d) + 1
  BY <1>1, <1>3 DEF d, i
<1>12. /\ Prefix(p) \in Seq(STRING)
       /\ \/ Prefix(p) = NodeAt(d, i - 1)
          \/ Prefix(p) # << >> /\ Up(Prefix(p)) = NodeAt(d, i - 1)
       /\ s <= Len(d) => NodeAt(d, s) = Prefix(p)
       /\ s = Len(d) + 1 => Prefix(p) = Node(d)
       /\ s # Len(d) + 1 => s <= Len(d)
       /\ IsLast(p) => Prefix(p) = Node(d)
       /\ ~ IsLast(p) => OnTheWay(d, Prefix(p)) /\ NodeAt(d, s) = Prefix(p)
  BY <1>6, <1>7, <1>10
<1> QED BY <1>8, <1>9, <1>10, <1>11, <1>12 DEF d, i, s

-----------------------------------------------------------------------------
(* What a step does to the process that takes it: it moves to another place
   of the same operand, or it is done with the operand.                     *)
Moved(p, s, i, t, r) ==
  /\ pc'[p] = s /\ l'[p].j = l[p].j
  /\ l'[p].i = i /\ l'[p].tried = t /\ l'[p].retval = r
Ended(p) ==
  /\ pc'[p] = IF l[p].j < Len(Argv(p)) THEN "operand" ELSE "exit"
  /\ l'[p].j = l[p].j + 1 /\ l'[p].i = 1 /\ l'[p].tried = FALSE /\ l'[p].retval = 1
Others(p) ==
  \A q \in Runs \ {p} : l'[q] = l[q] /\ pc'[q] = pc[q] /\ exit'[q] = exit[q]
Exits(p, e) == exit'[p] = e

LEMMA StatusDoes ==
  ASSUME IInv, NEW p \in Runs, NEW bad, Status(p, bad)
  PROVE  /\ Exits(p, IF bad THEN 1 ELSE exit[p])
         /\ \A q \in Runs \ {p} : exit'[q] = exit[q]
BY DEF IInv, SharedOK, Status, Exits

LEMMA NextOperandDoes ==
  ASSUME IInv, NEW p \in Runs, pc[p] # "exit", NextOperand(p)
  PROVE  /\ Ended(p)
         /\ \A q \in Runs \ {p} : l'[q] = l[q] /\ pc'[q] = pc[q]
<1>1. p \in DOMAIN l /\ DOMAIN l = Runs /\ DOMAIN l[p] = Fields /\ pc \in [Runs -> Pcs]
  BY Working
<1>2. l' = [l EXCEPT ![p] = [l[p] EXCEPT !.j = l[p].j + 1, !.i = 1, !.last = FALSE,
                                         !.retval = 1, !.tried = FALSE]]
      /\ pc' = [pc EXCEPT ![p] = IF l[p].j < Len(Argv(p)) THEN "operand" ELSE "exit"]
  BY DEF NextOperand, Goto
<1>3. /\ l'[p].j = l[p].j + 1 /\ l'[p].i = 1 /\ l'[p].tried = FALSE /\ l'[p].retval = 1
      /\ \A q \in Runs \ {p} : l'[q] = l[q]
  BY <1>1, <1>2 DEF Fields
<1>4. /\ pc'[p] = IF l[p].j < Len(Argv(p)) THEN "operand" ELSE "exit"
      /\ \A q \in Runs \ {p} : pc'[q] = pc[q]
  BY <1>1, <1>2
<1> QED BY <1>3, <1>4 DEF Ended

LEMMA ReturnDoes ==
  ASSUME IInv, NEW p \in Runs, pc[p] # "exit", NEW r \in 0 .. 2, Return(p, r)
  PROVE  /\ Others(p)
         /\ r = 1 => Moved(p, "chmod", l[p].i, l[p].tried, r) /\ Exits(p, exit[p])
         /\ r = 0 => Ended(p) /\ Exits(p, 1)
         /\ r = 2 => Ended(p) /\ Exits(p, exit[p])
<1>1. DOMAIN l = Runs /\ DOMAIN l[p] = Fields /\ pc \in [Runs -> Pcs]
  BY Working
<1>2. CASE r = 1
  <2>1. /\ pc' = [pc EXCEPT ![p] = "chmod"]
        /\ l' = [l EXCEPT ![p].retval = r] /\ exit' = exit
    BY <1>2 DEF Return, Goto
  <2>2. /\ l'[p].j = l[p].j /\ l'[p].i = l[p].i /\ l'[p].tried = l[p].tried /\ l'[p].retval = r
        /\ \A q \in Runs \ {p} : l'[q] = l[q]
    BY <1>1, <2>1 DEF Fields
  <2>3. pc'[p] = "chmod" /\ \A q \in Runs \ {p} : pc'[q] = pc[q]
    BY <1>1, <2>1
  <2> QED BY <1>2, <2>1, <2>2, <2>3 DEF Others, Moved, Exits
<1>3. CASE r # 1
  <2>1. Status(p, r = 0) /\ NextOperand(p)
    BY <1>3 DEF Return
  <2>2. /\ r = 0 => Exits(p, 1)
        /\ r = 2 => Exits(p, exit[p])
        /\ \A q \in Runs \ {p} : exit'[q] = exit[q]
    <3>1. exit' = IF r = 0 THEN [exit EXCEPT ![p] = 1] ELSE exit
      BY <2>1 DEF Status
    <3> QED BY <3>1 DEF IInv, SharedOK, Exits
  <2>3. Ended(p) /\ \A q \in Runs \ {p} : l'[q] = l[q] /\ pc'[q] = pc[q]
    BY <2>1, NextOperandDoes
  <2> QED BY <1>3, <2>2, <2>3 DEF Others
<1> QED BY <1>2, <1>3

LEMMA TurnDoes ==
  ASSUME IInv, NEW p \in Runs, pc[p] # "exit", NEW last \in BOOLEAN,
         NEW r \in 0 .. 2, Turn(p, last, r)
  PROVE  /\ Others(p)
         /\ ~ last => Moved(p, "mkdir", Stop(p) + 1, l[p].tried, r) /\ Exits(p, exit[p])
         /\ last /\ r = 1 => Moved(p, "chmod", l[p].i, l[p].tried, r) /\ Exits(p, exit[p])
         /\ last /\ r = 0 => Ended(p) /\ Exits(p, 1)
         /\ last /\ r = 2 => Ended(p) /\ Exits(p, exit[p])
<1>1. DOMAIN l = Runs /\ DOMAIN l[p] = Fields /\ pc \in [Runs -> Pcs]
  BY Working
<1>2. CASE last
  BY <1>2, ReturnDoes DEF Turn
<1>3. CASE ~ last
  <2>1. /\ l' = [l EXCEPT ![p] = [l[p] EXCEPT !.i = Stop(p) + 1, !.last = last, !.retval = r]]
        /\ pc' = [pc EXCEPT ![p] = "mkdir"] /\ exit' = exit
    BY <1>3 DEF Turn, Goto
  <2>2. /\ l'[p].j = l[p].j /\ l'[p].i = Stop(p) + 1 /\ l'[p].tried = l[p].tried
        /\ l'[p].retval = r /\ \A q \in Runs \ {p} : l'[q] = l[q]
    BY <1>1, <2>1 DEF Fields
  <2>3. pc'[p] = "mkdir" /\ \A q \in Runs \ {p} : pc'[q] = pc[q]
    BY <1>1, <2>1
  <2> QED BY <1>3, <2>1, <2>2, <2>3 DEF Others, Moved, Exits
<1> QED BY <1>2, <1>3

LEMMA NextStopDoes ==
  ASSUME IInv, NEW p \in Runs, pc[p] # "exit", NextStop(p)
  PROVE  /\ Others(p) /\ Exits(p, exit[p])
         /\ IF Stop(p) = Len(Path(p)) + 1
            THEN Moved(p, "ichmod", l[p].i, FALSE, l[p].retval)
            ELSE Moved(p, "istat", Stop(p) + 1, FALSE, l[p].retval)
<1> DEFINE end == Stop(p) = Len(Path(p)) + 1
           i == IF end THEN l[p].i ELSE Stop(p) + 1
           s == IF end THEN "ichmod" ELSE "istat"
<1>1. DOMAIN l = Runs /\ DOMAIN l[p] = Fields /\ pc \in [Runs -> Pcs]
  BY Working
<1>2. /\ pc' = [pc EXCEPT ![p] = s] /\ exit' = exit
      /\ l' = [l EXCEPT ![p] = [l[p] EXCEPT !.i = i, !.tried = FALSE]]
  BY DEF NextStop, Goto
<1> HIDE DEF i, s
<1>3. /\ l'[p].j = l[p].j /\ l'[p].i = i /\ l'[p].tried = FALSE /\ l'[p].retval = l[p].retval
      /\ \A q \in Runs \ {p} : l'[q] = l[q]
  BY <1>1, <1>2 DEF Fields
<1>4. pc'[p] = s /\ \A q \in Runs \ {p} : pc'[q] = pc[q]
  BY <1>1, <1>2
<1> QED BY <1>2, <1>3, <1>4 DEF Others, Moved, Exits, i, s

LEMMA ErrDoes ==
  ASSUME IInv, NEW p \in Runs, pc[p] # "exit", Err(p)
  PROVE  Others(p) /\ Moved(p, "exit", l[p].i, l[p].tried, l[p].retval) /\ Exits(p, 1)
<1>1. /\ Exits(p, 1) /\ l' = l /\ pc' = [pc EXCEPT ![p] = "exit"]
      /\ \A q \in Runs \ {p} : exit'[q] = exit[q]
  BY StatusDoes DEF Err, Goto
<1>2. pc'[p] = "exit" /\ \A q \in Runs \ {p} : pc'[q] = pc[q]
  BY <1>1, Working
<1> QED BY <1>1, <1>2 DEF Others, Moved

LEMMA OperandDoes ==
  ASSUME IInv, NEW p \in Runs, Operand(p)
  PROVE  /\ pc[p] = "operand" /\ tree' = tree /\ scene' = scene
         /\ Others(p) /\ Exits(p, exit[p])
         /\ CASE req[p].cmd = "install -d" ->
                   Moved(p, "istat", l[p].i, l[p].tried, l[p].retval)
              [] req[p].cmd \in {"mkdir", "mkdir -p"} ->
                   \E i \in {1, 2} : /\ i = 2 => Path(p)[1] = Slash
                                     /\ Moved(p, "mkdir", i, l[p].tried, l[p].retval)
              [] OTHER -> Moved(p, "rmpath", l[p].i, l[p].tried, l[p].retval)
<1>0. pc[p] = "operand" /\ tree' = tree /\ scene' = scene /\ exit' = exit
  BY DEF Operand, At
<1>1. DOMAIN l = Runs /\ DOMAIN l[p] = Fields /\ pc \in [Runs -> Pcs]
  BY <1>0, Working
<1>2. CASE req[p].cmd = "install -d"
  <2>1. l' = l /\ pc' = [pc EXCEPT ![p] = "istat"]
    BY <1>2 DEF Operand, Goto
  <2>2. pc'[p] = "istat" /\ \A q \in Runs \ {p} : pc'[q] = pc[q]
    BY <1>1, <2>1
  <2> QED BY <1>0, <1>2, <2>1, <2>2 DEF Others, Moved, Exits
<1>3. CASE req[p].cmd \in {"mkdir", "mkdir -p"}
  <2> DEFINE slash == req[p].cmd = "mkdir -p" /\ Path(p)[1] = Slash
             i == IF slash THEN 2 ELSE 1
  <2>1. l' = [l EXCEPT ![p].i = i] /\ pc' = [pc EXCEPT ![p] = "mkdir"]
    BY <1>3 DEF Operand, Goto
  <2> HIDE DEF slash
  <2>2. i \in {1, 2} /\ (i = 2 => slash)
    OBVIOUS
  <2>3. slash => Path(p)[1] = Slash
    BY DEF slash
  <2> HIDE DEF i
  <2>4. pc'[p] = "mkdir" /\ \A q \in Runs \ {p} : pc'[q] = pc[q]
    BY <1>1, <2>1
  <2>5. /\ l'[p].j = l[p].j /\ l'[p].i = i /\ l'[p].tried = l[p].tried
        /\ l'[p].retval = l[p].retval /\ \A q \in Runs \ {p} : l'[q] = l[q]
    BY <1>1, <2>1 DEF Fields
  <2>6. Moved(p, "mkdir", i, l[p].tried, l[p].retval) /\ Others(p) /\ Exits(p, exit[p])
    BY <1>0, <2>4, <2>5 DEF Others, Moved, Exits
  <2>7. req[p].cmd # "install -d"
    BY <1>3
  <2> QED BY <1>0, <1>3, <2>2, <2>3, <2>6, <2>7
<1>4. CASE req[p].cmd # "install -d" /\ req[p].cmd \notin {"mkdir", "mkdir -p"}
  <2>1. l' = [l EXCEPT ![p].up = Node(Path(p))] /\ pc' = [pc EXCEPT ![p] = "rmpath"]
    BY <1>4 DEF Operand, Goto
  <2>2. pc'[p] = "rmpath" /\ \A q \in Runs \ {p} : pc'[q] = pc[q]
    BY <1>1, <2>1
  <2>3. /\ l'[p].j = l[p].j /\ l'[p].i = l[p].i /\ l'[p].tried = l[p].tried
        /\ l'[p].retval = l[p].retval /\ \A q \in Runs \ {p} : l'[q] = l[q]
    BY <1>1, <2>1 DEF Fields
  <2>4. Moved(p, "rmpath", l[p].i, l[p].tried, l[p].retval) /\ Others(p) /\ Exits(p, exit[p])
    BY <1>0, <2>2, <2>3 DEF Others, Moved, Exits
  <2> QED BY <1>0, <1>4, <2>4
<1> QED BY <1>2, <1>3, <1>4

LEMMA GotoDoes ==
  ASSUME IInv, NEW p \in Runs, pc[p] # "exit", NEW s, Goto(p, s), exit' = exit, l' = l
  PROVE  Others(p) /\ Moved(p, s, l[p].i, l[p].tried, l[p].retval) /\ Exits(p, exit[p])
<1>1. pc' = [pc EXCEPT ![p] = s] /\ pc \in [Runs -> Pcs]
  BY Working DEF Goto
<1>2. pc'[p] = s /\ \A q \in Runs \ {p} : pc'[q] = pc[q]
  BY <1>1
<1> QED BY <1>2 DEF Others, Moved, Exits

LEMMA MkdirDoes ==
  ASSUME IInv, NEW p \in Runs, Mkdir(p)
  PROVE  /\ req[p].cmd = "mkdir" /\ pc[p] = "mkdir" /\ scene' = scene /\ Others(p)
         /\ Ended(p) \/ Moved(p, "chmod", l[p].i, l[p].tried, l[p].retval)
<1>0. req[p].cmd = "mkdir" /\ pc[p] = "mkdir" /\ scene' = scene
  BY DEF Mkdir, At
<1>1. CASE Goto(p, "chmod") /\ l' = l /\ exit' = exit
  BY <1>0, <1>1, GotoDoes
<1>2. CASE Status(p, TRUE) /\ NextOperand(p)
  BY <1>0, <1>2, StatusDoes, NextOperandDoes DEF Others
<1> QED BY <1>1, <1>2 DEF Mkdir

LEMMA RmdirDoes ==
  ASSUME IInv, NEW p \in Runs, Rmdir(p)
  PROVE  /\ pc[p] = "rmpath" /\ scene' = scene /\ Others(p)
         /\ Ended(p) \/ Moved(p, "rmpath", l[p].i, l[p].tried, l[p].retval)
<1>0. pc[p] = "rmpath" /\ scene' = scene
  BY DEF Rmdir, At
<1>1. CASE l' = [l EXCEPT ![p].up = Up(l[p].up)] /\ pc' = pc /\ exit' = exit
  <2>1. DOMAIN l = Runs /\ DOMAIN l[p] = Fields
    BY <1>0, Working
  <2>2. /\ l'[p].j = l[p].j /\ l'[p].i = l[p].i /\ l'[p].tried = l[p].tried
        /\ l'[p].retval = l[p].retval /\ \A q \in Runs \ {p} : l'[q] = l[q]
    BY <1>1, <2>1 DEF Fields
  <2> QED BY <1>0, <1>1, <2>2 DEF Others, Moved
<1>2. CASE exit' = exit /\ NextOperand(p)
  BY <1>0, <1>2, NextOperandDoes DEF Others
<1>3. CASE Status(p, TRUE) /\ NextOperand(p)
  BY <1>0, <1>3, StatusDoes, NextOperandDoes DEF Others
<1> QED BY <1>1, <1>2, <1>3 DEF Rmdir

LEMMA BuildMkdirDoes ==
  ASSUME IInv, NEW p \in Runs, BuildMkdir(p), l[p].retval = 1
  PROVE  /\ req[p].cmd = "mkdir -p" /\ pc[p] = "mkdir" /\ scene' = scene /\ Others(p)
         /\ Free(Prefix(p)) /\ ~ IsLast(p) =>
              /\ tree' = With(Prefix(p), Made(p)) /\ um'[p] = "relaxed"
              /\ Moved(p, "mkdir", Stop(p) + 1, l[p].tried, 1) /\ Exits(p, exit[p])
         /\ Free(Prefix(p)) /\ IsLast(p) =>
              /\ tree' = With(Prefix(p), Made(p))
              /\ Moved(p, "chmod", l[p].i, l[p].tried, 1) /\ Exits(p, exit[p])
         /\ ~ Free(Prefix(p)) => tree' = tree
         /\ ~ Free(Prefix(p)) /\ (SeenDir(Prefix(p)) \/ SeenFile(Prefix(p))) =>
              Moved(p, "stat", l[p].i, l[p].tried, 1) /\ Exits(p, exit[p])
         /\ ~ Free(Prefix(p)) /\ ~ (SeenDir(Prefix(p)) \/ SeenFile(Prefix(p))) =>
              Ended(p) /\ Exits(p, 1)
<1> DEFINE n == Prefix(p)
           seen == SeenDir(n) \/ SeenFile(n)
<1>0. req[p].cmd = "mkdir -p" /\ pc[p] = "mkdir" /\ scene' = scene
  BY DEF BuildMkdir, At
<1>1. um' = [um EXCEPT ![p] = IF Free(n) \/ seen THEN UmaskAt(IsLast(p)) ELSE "own"]
  BY DEF BuildMkdir
<1>2. Free(n) => tree' = With(n, Made(p)) /\ Turn(p, IsLast(p), 1)
  BY DEF BuildMkdir
<1>3. /\ ~ Free(n) => tree' = tree
      /\ ~ Free(n) /\ seen =>
           /\ pc' = [pc EXCEPT ![p] = "stat"] /\ exit' = exit
           /\ l' = [l EXCEPT ![p].last = IsLast(p)]
      /\ ~ Free(n) /\ ~ seen => Return(p, 0)
  BY DEF BuildMkdir, Goto
<1>4. um \in [Runs -> {"own", "relaxed"}] /\ IsLast(p) \in BOOLEAN
  BY DEF IInv, SharedOK, IsLast
<1> HIDE DEF n, seen
<1>5. Free(n) /\ ~ IsLast(p) => um'[p] = "relaxed"
  BY <1>1, <1>4 DEF UmaskAt
<1>6. CASE Free(n)
  <2>1. Turn(p, IsLast(p), 1) /\ 1 \in 0 .. 2
    BY <1>2, <1>6
  <2>2. /\ Others(p)
        /\ ~ IsLast(p) => Moved(p, "mkdir", Stop(p) + 1, l[p].tried, 1) /\ Exits(p, exit[p])
        /\ IsLast(p) => Moved(p, "chmod", l[p].i, l[p].tried, 1) /\ Exits(p, exit[p])
    BY <1>0, <1>4, <2>1, TurnDoes
  <2> QED BY <1>0, <1>2, <1>5, <1>6, <2>2 DEF n
<1>7. CASE ~ Free(n) /\ seen
  <2>1. DOMAIN l = Runs /\ DOMAIN l[p] = Fields /\ pc \in [Runs -> Pcs]
    BY <1>0, Working
  <2>2. /\ l'[p].j = l[p].j /\ l'[p].i = l[p].i /\ l'[p].tried = l[p].tried
        /\ l'[p].retval = l[p].retval /\ \A q \in Runs \ {p} : l'[q] = l[q]
    BY <1>3, <1>7, <2>1 DEF Fields
  <2>3. pc'[p] = "stat" /\ \A q \in Runs \ {p} : pc'[q] = pc[q]
    BY <1>3, <1>7, <2>1
  <2>4. Others(p) /\ Moved(p, "stat", l[p].i, l[p].tried, 1) /\ Exits(p, exit[p])
    BY <1>3, <1>7, <2>2, <2>3 DEF Others, Moved, Exits
  <2> QED BY <1>0, <1>3, <1>7, <2>4 DEF n, seen
<1>8. CASE ~ Free(n) /\ ~ seen
  <2>1. Return(p, 0) /\ 0 \in 0 .. 2
    BY <1>3, <1>8
  <2>2. Others(p) /\ Ended(p) /\ Exits(p, 1)
    BY <1>0, <2>1, ReturnDoes
  <2> QED BY <1>0, <1>3, <1>8, <2>2 DEF n, seen
<1> QED BY <1>6, <1>7, <1>8

LEMMA BuildStatDoes ==
  ASSUME IInv, NEW p \in Runs, BuildStat(p), l[p].retval = 1
  PROVE  /\ pc[p] = "stat" /\ scene' = scene /\ tree' = tree /\ Others(p)
         /\ SeenDir(Prefix(p)) /\ ~ IsLast(p) =>
              Moved(p, "mkdir", Stop(p) + 1, l[p].tried, 1) /\ Exits(p, exit[p])
         /\ SeenDir(Prefix(p)) /\ IsLast(p) => Ended(p) /\ Exits(p, exit[p])
         /\ ~ SeenDir(Prefix(p)) => Ended(p) /\ Exits(p, 1)
<1>0. pc[p] = "stat" /\ scene' = scene /\ tree' = tree
  BY DEF BuildStat, At
<1>1. l[p].last = IsLast(p) /\ IsLast(p) \in BOOLEAN /\ l[p].last \in BOOLEAN
  BY <1>0 DEF IInv, LocalsOK, IsLast
<1>2. SeenDir(Prefix(p)) => Turn(p, l[p].last, IF l[p].last THEN 2 ELSE 1)
  BY DEF BuildStat
<1>3. ~ SeenDir(Prefix(p)) => Return(p, 0)
  BY DEF BuildStat
<1>4. CASE SeenDir(Prefix(p)) /\ l[p].last
  <2>1. exit' = exit /\ NextOperand(p)
    BY <1>4 DEF BuildStat, Turn, Return, Status
  <2>2. Others(p) /\ Ended(p) /\ Exits(p, exit[p])
    BY <1>0, <2>1, NextOperandDoes DEF Others, Exits
  <2> QED BY <1>0, <1>1, <1>4, <2>2
<1>5. CASE SeenDir(Prefix(p)) /\ ~ l[p].last
  <2>1. Turn(p, l[p].last, 1) /\ 1 \in 0 .. 2
    BY <1>2, <1>5
  <2>2. /\ Others(p) /\ Moved(p, "mkdir", Stop(p) + 1, l[p].tried, 1)
        /\ Exits(p, exit[p])
    BY <1>0, <1>1, <1>5, <2>1, TurnDoes
  <2> QED BY <1>0, <1>1, <1>5, <2>2
<1>6. CASE ~ SeenDir(Prefix(p))
  <2>1. Return(p, 0) /\ 0 \in 0 .. 2
    BY <1>3, <1>6
  <2>2. Others(p) /\ Ended(p) /\ Exits(p, 1)
    BY <1>0, <2>1, ReturnDoes
  <2> QED BY <1>0, <1>6, <2>2
<1> QED BY <1>1, <1>4, <1>5, <1>6

LEMMA ChmodDoes ==
  ASSUME IInv, NEW p \in Runs, Chmod(p)
  PROVE  /\ pc[p] = "chmod" /\ scene' = scene /\ Others(p) /\ Ended(p)
         /\ Exits(p, IF req[p].m /\ ~ SeenDir(Node(Path(p))) THEN 1 ELSE exit[p])
         /\ tree' = IF req[p].m /\ SeenDir(Node(Path(p))) /\ Node(Path(p)) # << >>
                    THEN With(Node(Path(p)), "given") ELSE tree
BY NextOperandDoes, StatusDoes DEF Chmod, At, Others

LEMMA InstallStatDoes ==
  ASSUME IInv, NEW p \in Runs, InstallStat(p)
  PROVE  /\ pc[p] = "istat" /\ scene' = scene /\ tree' = tree /\ Others(p)
         /\ SeenDir(Prefix(p)) =>
              /\ Exits(p, exit[p])
              /\ IF Stop(p) = Len(Path(p)) + 1
                 THEN Moved(p, "ichmod", l[p].i, FALSE, l[p].retval)
                 ELSE Moved(p, "istat", Stop(p) + 1, FALSE, l[p].retval)
         /\ ~ SeenDir(Prefix(p)) /\ (SeenFile(Prefix(p)) \/ l[p].tried) =>
              Moved(p, "exit", l[p].i, l[p].tried, l[p].retval) /\ Exits(p, 1)
         /\ ~ SeenDir(Prefix(p)) /\ ~ SeenFile(Prefix(p)) /\ ~ l[p].tried =>
              Moved(p, "imkdir", l[p].i, l[p].tried, l[p].retval) /\ Exits(p, exit[p])
<1>0. pc[p] = "istat" /\ scene' = scene /\ tree' = tree
  BY DEF InstallStat, At
<1>1. CASE SeenDir(Prefix(p))
  BY <1>0, <1>1, NextStopDoes DEF InstallStat
<1>2. CASE ~ SeenDir(Prefix(p)) /\ (SeenFile(Prefix(p)) \/ l[p].tried)
  BY <1>0, <1>2, ErrDoes DEF InstallStat
<1>3. CASE ~ SeenDir(Prefix(p)) /\ ~ (SeenFile(Prefix(p)) \/ l[p].tried)
  BY <1>0, <1>3, GotoDoes DEF InstallStat
<1> QED BY <1>1, <1>2, <1>3

LEMMA InstallMkdirDoes ==
  ASSUME IInv, NEW p \in Runs, InstallMkdir(p)
  PROVE  /\ pc[p] = "imkdir" /\ scene' = scene /\ um' = um /\ Others(p)
         /\ Free(Prefix(p)) =>
              /\ tree' = With(Prefix(p), Made(p)) /\ Exits(p, exit[p])
              /\ IF Stop(p) = Len(Path(p)) + 1
                 THEN Moved(p, "ichmod", l[p].i, FALSE, l[p].retval)
                 ELSE Moved(p, "istat", Stop(p) + 1, FALSE, l[p].retval)
         /\ ~ Free(Prefix(p)) => tree' = tree
         /\ ~ Free(Prefix(p)) /\ SeenDir(Prefix(p)) =>
              Moved(p, "istat", l[p].i, TRUE, l[p].retval) /\ Exits(p, exit[p])
         /\ ~ Free(Prefix(p)) /\ ~ SeenDir(Prefix(p)) =>
              Moved(p, "exit", l[p].i, l[p].tried, l[p].retval) /\ Exits(p, 1)
<1>0. pc[p] = "imkdir" /\ scene' = scene /\ um' = um
  BY DEF InstallMkdir, At
<1>1. CASE Free(Prefix(p))
  BY <1>0, <1>1, NextStopDoes DEF InstallMkdir
<1>2. CASE ~ Free(Prefix(p)) /\ SeenDir(Prefix(p))
  <2>1. /\ tree' = tree /\ exit' = exit /\ pc' = [pc EXCEPT ![p] = "istat"]
        /\ l' = [l EXCEPT ![p].tried = TRUE]
    BY <1>2 DEF InstallMkdir, Goto
  <2>2. DOMAIN l = Runs /\ DOMAIN l[p] = Fields /\ pc \in [Runs -> Pcs]
    BY <1>0, Working
  <2>3. /\ l'[p].j = l[p].j /\ l'[p].i = l[p].i /\ l'[p].tried = TRUE
        /\ l'[p].retval = l[p].retval /\ \A q \in Runs \ {p} : l'[q] = l[q]
    BY <2>1, <2>2 DEF Fields
  <2>4. pc'[p] = "istat" /\ \A q \in Runs \ {p} : pc'[q] = pc[q]
    BY <2>1, <2>2
  <2> QED BY <1>0, <1>2, <2>1, <2>3, <2>4 DEF Others, Moved, Exits
<1>3. CASE ~ Free(Prefix(p)) /\ ~ SeenDir(Prefix(p))
  BY <1>0, <1>3, ErrDoes DEF InstallMkdir
<1> QED BY <1>1, <1>2, <1>3

LEMMA InstallChmodDoes ==
  ASSUME IInv, NEW p \in Runs, InstallChmod(p)
  PROVE  /\ pc[p] = "ichmod" /\ scene' = scene /\ Others(p) /\ Ended(p) /\ Exits(p, exit[p])
         /\ tree' = IF SeenDir(Node(Path(p))) /\ Node(Path(p)) # << >>
                    THEN With(Node(Path(p)), "given") ELSE tree
BY NextOperandDoes DEF InstallChmod, At, Others, Exits

-----------------------------------------------------------------------------
(* Which places of the program a command gets to, and that build() starts
   each operand afresh.                                                     *)
Route(p) ==
  /\ pc[p] \in {"istat", "imkdir", "ichmod"} => req[p].cmd = "install -d"
  /\ pc[p] \in {"mkdir", "chmod"} => req[p].cmd \in {"mkdir", "mkdir -p"}
  /\ pc[p] = "stat" => req[p].cmd = "mkdir -p"
  /\ pc[p] = "rmpath" => req[p].cmd \notin {"mkdir", "mkdir -p", "install -d"}
  /\ pc[p] = "exit" => l[p].j = Len(Argv(p)) + 1 \/ req[p].cmd = "install -d"
  /\ req[p].cmd = "mkdir -p" /\ pc[p] \in {"operand", "mkdir", "stat"} => l[p].retval = 1

LEMMA SameScene ==
  ASSUME UNCHANGED scene
  PROVE  /\ Runs' = Runs /\ req' = req /\ Flapping' = Flapping /\ Files' = Files /\ was' = was
         /\ \A p : Argv(p)' = Argv(p)
         /\ \A p : l'[p].j = l[p].j => Path(p)' = Path(p)
BY DEF Runs, req, Flapping, Files, was, Argv, Path

LEMMA SamePlace ==
  ASSUME UNCHANGED scene, NEW p, l'[p].j = l[p].j, l'[p].i = l[p].i
  PROVE  Prefix(p)' = Prefix(p)
<1>1. Path(p)' = Path(p)
  BY SameScene
<1>2. Stop(p)' = Stop(p)
  BY <1>1 DEF Stop
<1> QED BY <1>1, <1>2 DEF Prefix

LEMMA RouteEnded ==
  ASSUME IInv, NEW p \in Runs, pc[p] # "exit", UNCHANGED scene, Ended(p)
  PROVE  Route(p)'
<1>1. Argv(p)' = Argv(p) /\ req' = req
  BY SameScene
<1>2. l[p].j \in 1 .. Len(Argv(p)) /\ Len(Argv(p)) \in Nat
  BY Working
<1>3. /\ pc'[p] \in {"operand", "exit"} /\ l'[p].retval = 1
      /\ pc'[p] = "exit" => l'[p].j = Len(Argv(p)) + 1
  BY <1>2 DEF Ended
<1> QED BY <1>1, <1>3 DEF Route

LEMMA RouteMoved ==
  ASSUME NEW p, UNCHANGED scene, NEW s, NEW i, NEW t, NEW r, Moved(p, s, i, t, r),
         s \in {"istat", "imkdir", "ichmod"} => req[p].cmd = "install -d",
         s \in {"mkdir", "chmod"} => req[p].cmd \in {"mkdir", "mkdir -p"},
         s = "stat" => req[p].cmd = "mkdir -p",
         s = "rmpath" => req[p].cmd \notin {"mkdir", "mkdir -p", "install -d"},
         s = "exit" => req[p].cmd = "install -d",
         req[p].cmd = "mkdir -p" /\ s \in {"operand", "mkdir", "stat"} => r = 1
  PROVE  Route(p)'
<1>1. req' = req
  BY SameScene
<1> QED BY <1>1 DEF Route, Moved

(* A step of p is p's alone. *)
LEMMA StepOthers ==
  ASSUME IInv, NEW p \in Runs, Route(p), Step(p)
  PROVE  Others(p) /\ UNCHANGED scene /\ pc[p] # "exit" /\ Route(p)'
<1>1. CASE Operand(p)
  <2>1. /\ pc[p] = "operand" /\ scene' = scene /\ Others(p)
        /\ CASE req[p].cmd = "install -d" ->
                  Moved(p, "istat", l[p].i, l[p].tried, l[p].retval)
             [] req[p].cmd \in {"mkdir", "mkdir -p"} ->
                  \E i \in {1, 2} : /\ i = 2 => Path(p)[1] = Slash
                                    /\ Moved(p, "mkdir", i, l[p].tried, l[p].retval)
             [] OTHER -> Moved(p, "rmpath", l[p].i, l[p].tried, l[p].retval)
    BY <1>1, OperandDoes
  <2>2. CASE req[p].cmd = "install -d"
    BY <2>1, <2>2, RouteMoved
  <2>3. CASE req[p].cmd \in {"mkdir", "mkdir -p"}
    <3>1. PICK i : Moved(p, "mkdir", i, l[p].tried, l[p].retval)
      BY <2>1, <2>3
    <3>2. req[p].cmd = "mkdir -p" => l[p].retval = 1
      BY <2>1 DEF Route
    <3> QED BY <2>1, <2>3, <3>1, <3>2, RouteMoved
  <2>4. CASE req[p].cmd \notin {"mkdir", "mkdir -p", "install -d"}
    BY <2>1, <2>4, RouteMoved
  <2> QED BY <2>2, <2>3, <2>4
<1>2. CASE Mkdir(p)
  <2>1. /\ req[p].cmd = "mkdir" /\ pc[p] = "mkdir" /\ scene' = scene /\ Others(p)
        /\ Ended(p) \/ Moved(p, "chmod", l[p].i, l[p].tried, l[p].retval)
    BY <1>2, MkdirDoes
  <2> QED BY <2>1, RouteMoved, RouteEnded
<1>3. CASE BuildMkdir(p)
  <2>1. l[p].retval = 1
    BY <1>3 DEF Route, BuildMkdir, At
  <2>2. /\ req[p].cmd = "mkdir -p" /\ pc[p] = "mkdir" /\ scene' = scene /\ Others(p)
        /\ \/ Ended(p)
           \/ Moved(p, "mkdir", Stop(p) + 1, l[p].tried, 1)
           \/ Moved(p, "chmod", l[p].i, l[p].tried, 1)
           \/ Moved(p, "stat", l[p].i, l[p].tried, 1)
    BY <1>3, <2>1, BuildMkdirDoes
  <2> QED BY <2>2, RouteMoved, RouteEnded
<1>4. CASE BuildStat(p)
  <2>1. pc[p] = "stat" /\ req[p].cmd = "mkdir -p" /\ l[p].retval = 1
    BY <1>4 DEF Route, BuildStat, At
  <2>2. /\ scene' = scene /\ Others(p)
        /\ Ended(p) \/ Moved(p, "mkdir", Stop(p) + 1, l[p].tried, 1)
    BY <1>4, <2>1, BuildStatDoes
  <2> QED BY <2>1, <2>2, RouteMoved, RouteEnded
<1>5. CASE Chmod(p)
  <2>1. pc[p] = "chmod" /\ scene' = scene /\ Others(p) /\ Ended(p)
    BY <1>5, ChmodDoes
  <2> QED BY <2>1, RouteEnded
<1>6. CASE InstallStat(p)
  <2>1. /\ pc[p] = "istat" /\ scene' = scene /\ Others(p)
        /\ \/ Moved(p, "ichmod", l[p].i, FALSE, l[p].retval)
           \/ Moved(p, "istat", Stop(p) + 1, FALSE, l[p].retval)
           \/ Moved(p, "exit", l[p].i, l[p].tried, l[p].retval)
           \/ Moved(p, "imkdir", l[p].i, l[p].tried, l[p].retval)
    BY <1>6, InstallStatDoes
  <2>2. req[p].cmd = "install -d"
    BY <2>1 DEF Route
  <2> QED BY <2>1, <2>2, RouteMoved
<1>7. CASE InstallMkdir(p)
  <2>1. /\ pc[p] = "imkdir" /\ scene' = scene /\ Others(p)
        /\ \/ Moved(p, "ichmod", l[p].i, FALSE, l[p].retval)
           \/ Moved(p, "istat", Stop(p) + 1, FALSE, l[p].retval)
           \/ Moved(p, "exit", l[p].i, l[p].tried, l[p].retval)
           \/ Moved(p, "istat", l[p].i, TRUE, l[p].retval)
    BY <1>7, InstallMkdirDoes
  <2>2. req[p].cmd = "install -d"
    BY <2>1 DEF Route
  <2> QED BY <2>1, <2>2, RouteMoved
<1>8. CASE InstallChmod(p)
  <2>1. pc[p] = "ichmod" /\ scene' = scene /\ Others(p) /\ Ended(p)
    BY <1>8, InstallChmodDoes
  <2> QED BY <2>1, RouteEnded
<1>9. CASE Rmdir(p)
  <2>1. /\ pc[p] = "rmpath" /\ scene' = scene /\ Others(p)
        /\ Ended(p) \/ Moved(p, "rmpath", l[p].i, l[p].tried, l[p].retval)
    BY <1>9, RmdirDoes
  <2>2. req[p].cmd \notin {"mkdir", "mkdir -p", "install -d"}
    BY <2>1 DEF Route
  <2> QED BY <2>1, <2>2, RouteMoved, RouteEnded
<1> QED BY <1>1, <1>2, <1>3, <1>4, <1>5, <1>6, <1>7, <1>8, <1>9 DEF Step

LEMMA RouteNext ==
  ASSUME IInv, \A p \in Runs : Route(p), [Next]_vars
  PROVE  UNCHANGED scene /\ \A p \in Runs' : Route(p)'
<1>1. ASSUME NEW p \in Runs, Step(p) PROVE UNCHANGED scene /\ \A q \in Runs' : Route(q)'
  <2>1. Others(p) /\ UNCHANGED scene /\ Route(p)'
    BY <1>1, StepOthers
  <2>2. Runs' = Runs /\ req' = req /\ \A q : Argv(q)' = Argv(q)
    BY <2>1, SameScene
  <2>3. ASSUME NEW q \in Runs \ {p} PROVE Route(q)'
    <3>1. l'[q] = l[q] /\ pc'[q] = pc[q] /\ Route(q)
      BY <2>1 DEF Others
    <3> QED BY <2>2, <3>1 DEF Route
  <2> QED BY <2>1, <2>2, <2>3
<1>2. CASE UNCHANGED <<scene, l, pc>>
  <2>1. Runs' = Runs /\ req' = req /\ \A q : Argv(q)' = Argv(q)
    BY <1>2, SameScene
  <2> QED BY <1>2, <2>1 DEF Route
<1>3. CASE Flap
  BY <1>2, <1>3 DEF Flap
<1>4. CASE UNCHANGED vars
  BY <1>2, <1>4 DEF vars
<1> QED BY <1>1, <1>3, <1>4 DEF Next

-----------------------------------------------------------------------------
(* Makers that nobody is in the way of.  All directories hang together; the
   only closed ones are what a mkdir -p under a strict umask was to make, and
   by then there is nothing left to make below it; and whoever is on the way
   through a path finds what it has passed.                                 *)
There(n)     == n = << >> \/ n \in DOMAIN tree
ThereNext(n) == n = << >> \/ n \in DOMAIN tree'

Calm ==
  /\ Flapping = {} /\ Files = {} /\ OpenTree /\ \A p \in Runs : Makes(p)
  /\ \/ \A p \in Runs : ~ req[p].strict
     \/ \E p \in Proc : Runs = {p} /\ req[p].cmd = "mkdir -p" /\ Len(Argv(p)) = 1

Rooted    == \A n \in DOMAIN tree : n \in Seq(STRING) \ {<< >>} /\ There(Up(n))
Closed(n) == \E p \in Runs : /\ req[p].strict /\ pc[p] \in {"chmod", "exit"}
                             /\ n = Node(Argv(p)[1])
Progress(p) ==
  /\ exit[p] = 0
  /\ \A k \in 1 .. l[p].j - 1 : There(Node(Argv(p)[k]))
  /\ pc[p] \in {"mkdir", "istat", "imkdir"} => There(NodeAt(Path(p), l[p].i - 1))
  /\ pc[p] = "stat" \/ (pc[p] = "istat" /\ l[p].tried) => There(Prefix(p))
  /\ pc[p] \in {"chmod", "ichmod"} => There(Node(Path(p)))
  /\ pc[p] = "operand" => ~ l[p].tried /\ l[p].i = 1
CalmInv ==
  /\ Rooted
  /\ \A n \in DOMAIN tree : tree[n] = "closed" => Closed(n)
  /\ \A p \in Runs : Progress(p)

Grows == \A k : There(k) => ThereNext(k)

LEMMA WithDoes ==
  ASSUME NEW n, NEW m, tree' = With(n, m)
  PROVE  /\ DOMAIN tree' = DOMAIN tree \cup {n} /\ tree'[n] = m
         /\ \A k \in DOMAIN tree : k # n => tree'[k] = tree[k]
         /\ Grows /\ ThereNext(n)
BY DEF With, Grows, There, ThereNext

LEMMA WithGiven ==
  ASSUME NEW n, tree' = With(n, "given")
  PROVE  \A k \in DOMAIN tree' : tree'[k] = "closed" => k \in DOMAIN tree /\ tree[k] = "closed"
<1>1. /\ DOMAIN tree' = DOMAIN tree \cup {n} /\ tree'[n] = "given"
      /\ \A k \in DOMAIN tree : k # n => tree'[k] = tree[k]
  BY WithDoes
<1> QED BY <1>1

LEMMA WithRooted ==
  ASSUME NEW n \in Seq(STRING) \ {<< >>}, NEW m, tree' = With(n, m), Rooted, There(Up(n))
  PROVE  Rooted'
<1>1. DOMAIN tree' = DOMAIN tree \cup {n} /\ Grows
  BY WithDoes
<1>2. \A k \in DOMAIN tree' : k \in Seq(STRING) \ {<< >>} /\ There(Up(k))
  BY <1>1 DEF Rooted
<1>3. \A k \in DOMAIN tree' : k \in Seq(STRING) \ {<< >>} /\ ThereNext(Up(k))
  BY <1>1, <1>2 DEF Grows
<1> QED BY <1>3 DEF Rooted, There, ThereNext

(* What has been reached is seen, and what is missing can be made. *)
LEMMA OpenWay ==
  ASSUME Rooted, Files = {}, \A k \in DOMAIN tree : tree[k] # "closed",
         NEW n, There(n) \/ There(Up(n))
  PROVE  /\ ~ SeenFile(n) /\ (SeenDir(n) <=> There(n)) /\ (Free(n) <=> ~ There(n))
         /\ ~ There(n) => n # << >> /\ There(Up(n))
<1>1. n # << >> => There(Up(n))
  BY DEF Rooted, There
<1>2. n # << >> => Opens(Up(n))
  BY <1>1 DEF There, Opens
<1> QED BY <1>1, <1>2 DEF SeenFile, SeenDir, Free, There

LEMMA NoneClosed ==
  ASSUME Calm, CalmInv, NEW p \in Runs, pc[p] \notin {"chmod", "exit"}
  PROVE  \A k \in DOMAIN tree : tree[k] # "closed"
<1>1. ASSUME NEW n, Closed(n) PROVE FALSE
  <2>1. PICK q \in Runs : req[q].strict /\ pc[q] \in {"chmod", "exit"}
    BY <1>1 DEF Closed
  <2>2. \E x \in Proc : Runs = {x}
    BY <2>1, Zenon DEF Calm
  <2>3. q = p
    BY <2>2
  <2> QED BY <2>1, <2>3
<1> QED BY <1>1 DEF CalmInv

(* The component in hand. *)
LEMMA ReadyHere ==
  ASSUME IInv, Calm, CalmInv, NEW p \in Runs, pc[p] \in {"mkdir", "stat", "istat", "imkdir"}
  PROVE  /\ Prefix(p) \in Seq(STRING) /\ ~ SeenFile(Prefix(p))
         /\ (SeenDir(Prefix(p)) <=> There(Prefix(p)))
         /\ (Free(Prefix(p)) <=> ~ There(Prefix(p)))
         /\ ~ There(Prefix(p)) => Prefix(p) # << >> /\ There(Up(Prefix(p)))
<1>1. /\ Prefix(p) \in Seq(STRING)
      /\ \/ Prefix(p) = NodeAt(Path(p), l[p].i - 1)
         \/ Prefix(p) # << >> /\ Up(Prefix(p)) = NodeAt(Path(p), l[p].i - 1)
  BY HereProp
<1>2. There(Prefix(p)) \/ There(NodeAt(Path(p), l[p].i - 1))
  BY DEF CalmInv, Progress
<1>3. There(Prefix(p)) \/ There(Up(Prefix(p)))
  BY <1>1, <1>2
<1>4. Rooted /\ Files = {} /\ \A k \in DOMAIN tree : tree[k] # "closed"
  BY NoneClosed DEF Calm, CalmInv
<1> QED BY <1>1, <1>3, <1>4, OpenWay

(* A step of p that only adds to the tree disturbs nobody else. *)
LEMMA CalmFrame ==
  ASSUME IInv, CalmInv, NEW p \in Runs, UNCHANGED scene, Others(p),
         Grows, Rooted', \A n \in DOMAIN tree' : tree'[n] = "closed" => Closed(n)',
         Progress(p)'
  PROVE  CalmInv'
<1>1. Runs' = Runs /\ \A q : Argv(q)' = Argv(q)
  BY SameScene
<1>2. ASSUME NEW q \in Runs \ {p} PROVE Progress(q)'
  <2>1. l'[q] = l[q] /\ pc'[q] = pc[q] /\ exit'[q] = exit[q] /\ Progress(q)
    BY DEF Others, CalmInv
  <2>2. Path(q)' = Path(q) /\ Prefix(q)' = Prefix(q)
    BY <2>1, SameScene, SamePlace
  <2>3. \A k : There(k) => There(k)'
    BY DEF Grows, There, ThereNext
  <2> QED BY <1>1, <2>1, <2>2, <2>3 DEF Progress
<1> QED BY <1>1, <1>2 DEF CalmInv

LEMMA ProgressEnded ==
  ASSUME IInv, NEW p \in Runs, pc[p] # "exit", UNCHANGED scene, Grows,
         Ended(p), Exits(p, exit[p]), Progress(p), ThereNext(Node(Path(p)))
  PROVE  Progress(p)'
<1>1. l[p].j \in 1 .. Len(Argv(p)) /\ Len(Argv(p)) \in Nat /\ Argv(p)' = Argv(p)
  BY Working, SameScene
<1>2. \A k \in 1 .. l[p].j : ThereNext(Node(Argv(p)[k]))
  <2>1. \A k \in 1 .. l[p].j : k \in 1 .. l[p].j - 1 \/ k = l[p].j
    BY <1>1
  <2>2. \A k \in 1 .. l[p].j - 1 : ThereNext(Node(Argv(p)[k]))
    BY DEF Progress, Grows
  <2> QED BY <2>1, <2>2 DEF Path
<1>3. l'[p].j - 1 = l[p].j
  BY <1>1 DEF Ended
<1>4. \A k \in 1 .. l'[p].j - 1 : There(Node(Argv(p)[k]))'
  BY <1>1, <1>2, <1>3 DEF There, ThereNext
<1>5. exit'[p] = 0 /\ pc'[p] \in {"operand", "exit"} /\ l'[p].tried = FALSE /\ l'[p].i = 1
  BY DEF Ended, Exits, Progress
<1> QED BY <1>1, <1>4, <1>5 DEF Progress

LEMMA ProgressMoved ==
  ASSUME NEW p \in Runs, UNCHANGED scene, Grows, Progress(p), Exits(p, exit[p]),
         NEW s, NEW i, NEW t \in BOOLEAN, NEW r, Moved(p, s, i, t, r), s # "operand",
         s \in {"mkdir", "istat", "imkdir"} => ThereNext(NodeAt(Path(p), i - 1)),
         s = "stat" \/ (s = "istat" /\ t) => i = l[p].i /\ ThereNext(Prefix(p)),
         s \in {"chmod", "ichmod"} => ThereNext(Node(Path(p)))
  PROVE  Progress(p)'
<1>1. /\ pc'[p] = s /\ l'[p].j = l[p].j /\ l'[p].i = i /\ l'[p].tried = t
      /\ exit'[p] = 0
  BY DEF Moved, Exits, Progress
<1>2. Argv(p)' = Argv(p) /\ Path(p)' = Path(p)
  BY <1>1, SameScene
<1>3. \A k \in 1 .. l[p].j - 1 : There(Node(Argv(p)[k]))'
  BY <1>2 DEF Progress, Grows, There, ThereNext
<1>4. s = "stat" \/ (s = "istat" /\ t) => There(Prefix(p))'
  BY <1>1, SamePlace DEF There, ThereNext
<1>5. /\ s \in {"mkdir", "istat", "imkdir"} => There(NodeAt(Path(p), i - 1))'
      /\ s \in {"chmod", "ichmod"} => There(Node(Path(p)))'
  BY <1>2 DEF There, ThereNext
<1> QED BY <1>1, <1>2, <1>3, <1>4, <1>5 DEF Progress

LEMMA SameTree ==
  ASSUME tree' = tree
  PROVE  Grows /\ (Rooted => Rooted') /\ \A n : There(n) => ThereNext(n)
BY DEF Grows, Rooted, There, ThereNext

LEMMA CalmStrict ==
  ASSUME IInv, Calm, NEW p \in Runs, pc[p] # "exit", req[p].strict
  PROVE  /\ Len(Argv(p)) = 1 /\ l[p].j = 1 /\ Path(p) = Argv(p)[1]
         /\ req[p].cmd = "mkdir -p" /\ Runs = {p}
<1>1. \E x \in Proc : Runs = {x} /\ req[x].cmd = "mkdir -p" /\ Len(Argv(x)) = 1
  BY Zenon DEF Calm
<1>2. Runs = {p} /\ req[p].cmd = "mkdir -p" /\ Len(Argv(p)) = 1
  BY <1>1
<1>3. l[p].j \in 1 .. Len(Argv(p))
  BY Working
<1>4. l[p].j \in 1 .. 1
  BY <1>2, <1>3, Zenon
<1>5. \A x \in 1 .. 1 : x = 1
  OBVIOUS
<1>6. l[p].j = 1
  BY <1>4, <1>5, Zenon
<1> QED BY <1>2, <1>6 DEF Path

LEMMA CalmOperand ==
  ASSUME IInv, Calm, CalmInv, NEW p \in Runs, Operand(p)
  PROVE  CalmInv'
<1>1. /\ pc[p] = "operand" /\ tree' = tree /\ scene' = scene
      /\ Others(p) /\ Exits(p, exit[p])
      /\ CASE req[p].cmd = "install -d" ->
                Moved(p, "istat", l[p].i, l[p].tried, l[p].retval)
           [] req[p].cmd \in {"mkdir", "mkdir -p"} ->
                \E i \in {1, 2} : /\ i = 2 => Path(p)[1] = Slash
                                  /\ Moved(p, "mkdir", i, l[p].tried, l[p].retval)
           [] OTHER -> Moved(p, "rmpath", l[p].i, l[p].tried, l[p].retval)
  BY OperandDoes
<1>0. /\ pc[p] = "operand" /\ tree' = tree /\ scene' = scene
      /\ Others(p) /\ Exits(p, exit[p]) /\ Grows
  BY <1>1, SameTree
<1>2. Progress(p) /\ Rooted /\ Makes(p) /\ ~ l[p].tried /\ l[p].i = 1
  BY <1>1 DEF CalmInv, Progress, Calm
<1>3. l[p].tried \in BOOLEAN
  BY <1>1, Working
<1>4. NodeAt(Path(p), 0) = << >> /\ (Path(p)[1] = Slash => NodeAt(Path(p), 1) = << >>)
  BY <1>1, HereProp
<1>5. Progress(p)'
  <2>1. CASE req[p].cmd = "install -d"
    <3>1. Moved(p, "istat", l[p].i, l[p].tried, l[p].retval) /\ l[p].i - 1 = 0
      <4>1. Moved(p, "istat", l[p].i, l[p].tried, l[p].retval)
        BY <1>1, <2>1
      <4>2. l[p].i - 1 = 0
        BY <1>2
      <4> QED BY <4>1, <4>2
    <3>2. ThereNext(NodeAt(Path(p), l[p].i - 1))
      BY <1>4, <3>1 DEF ThereNext
    <3>3. ~ (l[p].tried)
      BY <1>2
    <3> QED BY <1>0, <1>2, <1>3, <3>1, <3>2, <3>3, ProgressMoved
  <2>2. CASE req[p].cmd = "mkdir -p"
    <3>1. PICK i \in {1, 2} : /\ i = 2 => Path(p)[1] = Slash
                              /\ Moved(p, "mkdir", i, l[p].tried, l[p].retval)
      BY <1>1, <2>2
    <3>2. i - 1 = 0 \/ (i - 1 = 1 /\ Path(p)[1] = Slash)
      BY <3>1
    <3>3. ThereNext(NodeAt(Path(p), i - 1)) /\ Moved(p, "mkdir", i, l[p].tried, l[p].retval)
      BY <1>4, <3>1, <3>2 DEF ThereNext
    <3> QED BY <1>0, <1>2, <1>3, <3>3, ProgressMoved
  <2> QED BY <1>2, <2>1, <2>2 DEF Makes
<1>6. \A k \in DOMAIN tree : tree[k] # "closed"
  BY <1>1, NoneClosed
<1>7. \A k \in DOMAIN tree' : tree'[k] = "closed" => Closed(k)'
  BY <1>1, <1>6
<1>8. Grows /\ Rooted'
  BY <1>1, <1>2, SameTree
<1> QED BY <1>1, <1>5, <1>7, <1>8, CalmFrame

LEMMA CalmBuildMkdir ==
  ASSUME IInv, Calm, CalmInv, NEW p \in Runs, Route(p), BuildMkdir(p)
  PROVE  CalmInv'
<1> DEFINE n == Prefix(p)
<1>1. l[p].retval = 1 /\ pc[p] = "mkdir"
  BY DEF Route, BuildMkdir, At
<1>2. /\ scene' = scene /\ Others(p)
      /\ Free(n) /\ ~ IsLast(p) =>
           /\ tree' = With(n, Made(p)) /\ um'[p] = "relaxed"
           /\ Moved(p, "mkdir", Stop(p) + 1, l[p].tried, 1) /\ Exits(p, exit[p])
      /\ Free(n) /\ IsLast(p) =>
           /\ tree' = With(n, Made(p))
           /\ Moved(p, "chmod", l[p].i, l[p].tried, 1) /\ Exits(p, exit[p])
      /\ ~ Free(n) => tree' = tree
      /\ ~ Free(n) /\ (SeenDir(n) \/ SeenFile(n)) =>
           Moved(p, "stat", l[p].i, l[p].tried, 1) /\ Exits(p, exit[p])
  BY <1>1, BuildMkdirDoes
<1>3. /\ n \in Seq(STRING) /\ (SeenDir(n) <=> There(n)) /\ (Free(n) <=> ~ There(n))
      /\ ~ There(n) => n # << >> /\ There(Up(n))
  BY <1>1, ReadyHere
<1>4. /\ IsLast(p) => n = Node(Path(p))
      /\ ~ IsLast(p) => NodeAt(Path(p), Stop(p)) = n
      /\ Stop(p) \in Nat \ {0} /\ l[p].tried \in BOOLEAN
  BY <1>1, HereProp, Working
<1>5. Progress(p) /\ Rooted /\ \A k \in DOMAIN tree : tree[k] # "closed"
  BY <1>1, NoneClosed DEF CalmInv
<1> HIDE DEF n
<1>6. CASE Free(n)
  <2>1. /\ tree' = With(n, Made(p)) /\ Exits(p, exit[p])
        /\ n \in Seq(STRING) \ {<< >>} /\ There(Up(n))
    BY <1>2, <1>3, <1>6
  <2>2. Grows /\ Rooted' /\ ThereNext(n)
    BY <1>5, <2>1, WithDoes, WithRooted
  <2>3. \A k \in DOMAIN tree' : tree'[k] = "closed" => k = n /\ Made(p) = "closed"
    BY <1>5, <2>1, WithDoes
  <2>4. CASE ~ IsLast(p)
    <3>1. um'[p] = "relaxed" /\ Moved(p, "mkdir", Stop(p) + 1, l[p].tried, 1)
      BY <1>2, <1>6, <2>4
    <3>2. Made(p) # "closed"
      BY <3>1 DEF Made
    <3>3. (Stop(p) + 1) - 1 = Stop(p)
      BY <1>4
    <3>4. ThereNext(NodeAt(Path(p), (Stop(p) + 1) - 1))
      BY <1>4, <2>2, <2>4, <3>3
    <3>5. Progress(p)'
      BY <1>2, <1>4, <1>5, <2>1, <2>2, <3>1, <3>4, ProgressMoved
    <3> QED BY <1>2, <2>2, <2>3, <3>2, <3>5, CalmFrame
  <2>5. CASE IsLast(p)
    <3>1. Moved(p, "chmod", l[p].i, l[p].tried, 1) /\ n = Node(Path(p))
      BY <1>2, <1>4, <1>6, <2>5
    <3>2. Progress(p)'
      BY <1>2, <1>4, <1>5, <2>1, <2>2, <3>1, ProgressMoved
    <3>3. ASSUME NEW k, k = n, Made(p) = "closed" PROVE Closed(k)'
      <4>2. req[p].strict
        BY <3>3 DEF Made
      <4>3. Path(p) = Argv(p)[1]
        BY <1>1, <4>2, CalmStrict
      <4>4. Runs' = Runs /\ req' = req /\ Argv(p)' = Argv(p) /\ pc'[p] = "chmod"
        BY <1>2, <3>1, SameScene DEF Moved
      <4> QED BY <3>1, <3>3, <4>2, <4>3, <4>4 DEF Closed
    <3> QED BY <1>2, <2>2, <2>3, <3>2, <3>3, CalmFrame
  <2> QED BY <2>4, <2>5
<1>7. CASE ~ Free(n)
  <2>1. /\ tree' = tree /\ Moved(p, "stat", l[p].i, l[p].tried, 1) /\ Exits(p, exit[p])
        /\ There(n)
    BY <1>2, <1>3, <1>7
  <2>2. Grows /\ Rooted' /\ ThereNext(Prefix(p))
    BY <1>5, <2>1, SameTree DEF n
  <2>3. Progress(p)'
    BY <1>2, <1>4, <1>5, <2>1, <2>2, ProgressMoved
  <2>4. \A k \in DOMAIN tree' : tree'[k] = "closed" => Closed(k)'
    BY <1>5, <2>1
  <2> QED BY <1>2, <2>2, <2>3, <2>4, CalmFrame
<1> QED BY <1>6, <1>7

LEMMA CalmBuildStat ==
  ASSUME IInv, Calm, CalmInv, NEW p \in Runs, Route(p), BuildStat(p)
  PROVE  CalmInv'
<1>1. pc[p] = "stat" /\ l[p].retval = 1
  BY DEF Route, BuildStat, At
<1>2. /\ scene' = scene /\ tree' = tree /\ Others(p)
      /\ SeenDir(Prefix(p)) /\ ~ IsLast(p) =>
           Moved(p, "mkdir", Stop(p) + 1, l[p].tried, 1) /\ Exits(p, exit[p])
      /\ SeenDir(Prefix(p)) /\ IsLast(p) => Ended(p) /\ Exits(p, exit[p])
  BY <1>1, BuildStatDoes
<1>3. Progress(p) /\ Rooted /\ (\A k \in DOMAIN tree : tree[k] # "closed") /\ There(Prefix(p))
  BY <1>1, NoneClosed DEF CalmInv, Progress
<1>4. SeenDir(Prefix(p)) /\ ThereNext(Prefix(p)) /\ Grows /\ Rooted'
  BY <1>1, <1>2, <1>3, ReadyHere, SameTree
<1>5. /\ IsLast(p) => Prefix(p) = Node(Path(p))
      /\ ~ IsLast(p) => NodeAt(Path(p), Stop(p)) = Prefix(p)
      /\ Stop(p) \in Nat \ {0} /\ l[p].tried \in BOOLEAN
  BY <1>1, HereProp, Working
<1>6. Progress(p)'
  <2>1. CASE IsLast(p)
    <3>1. Ended(p) /\ Exits(p, exit[p]) /\ ThereNext(Node(Path(p)))
      BY <1>2, <1>4, <1>5, <2>1
    <3> QED BY <1>1, <1>2, <1>3, <1>4, <3>1, ProgressEnded
  <2>2. CASE ~ IsLast(p)
    <3>1. (Stop(p) + 1) - 1 = Stop(p)
      BY <1>5
    <3>2. Moved(p, "mkdir", Stop(p) + 1, l[p].tried, 1) /\ Exits(p, exit[p])
      BY <1>2, <1>4, <2>2
    <3>3. ThereNext(NodeAt(Path(p), (Stop(p) + 1) - 1))
      BY <1>4, <1>5, <2>2, <3>1
    <3> QED BY <1>2, <1>3, <1>4, <1>5, <3>2, <3>3, ProgressMoved
  <2> QED BY <2>1, <2>2
<1>7. \A k \in DOMAIN tree' : tree'[k] = "closed" => Closed(k)'
  BY <1>2, <1>3
<1> QED BY <1>2, <1>4, <1>6, <1>7, CalmFrame

(* Closed stays closed when a process goes on from its chmod. *)
LEMMA ChmodClosed ==
  ASSUME IInv, Calm, NEW p \in Runs, pc[p] = "chmod", UNCHANGED scene, Others(p), Ended(p),
         NEW k, Closed(k)
  PROVE  Closed(k)'
<1>1. PICK q \in Runs : req[q].strict /\ pc[q] \in {"chmod", "exit"} /\ k = Node(Argv(q)[1])
  BY DEF Closed
<1>2. Runs' = Runs /\ req' = req /\ Argv(q)' = Argv(q)
  BY SameScene
<1>3. pc'[q] \in {"chmod", "exit"}
  <2>1. CASE q # p
    BY <1>1, <2>1 DEF Others
  <2>2. CASE q = p
    <3>1. Len(Argv(p)) = 1 /\ l[p].j = 1
      BY <1>1, <2>2, CalmStrict
    <3>2. ~ (l[p].j < Len(Argv(p)))
      BY <3>1
    <3> QED BY <2>2, <3>2 DEF Ended
  <2> QED BY <2>1, <2>2
<1> QED BY <1>1, <1>2, <1>3 DEF Closed

(* The last directory of a path may be closed, what it is in is not. *)
LEMMA CalmChmod ==
  ASSUME IInv, Calm, CalmInv, NEW p \in Runs, Chmod(p)
  PROVE  CalmInv'
<1> DEFINE n == Node(Path(p))
<1>1. /\ pc[p] = "chmod" /\ scene' = scene /\ Others(p) /\ Ended(p)
      /\ Exits(p, IF req[p].m /\ ~ SeenDir(n) THEN 1 ELSE exit[p])
      /\ tree' = IF req[p].m /\ SeenDir(n) /\ n # << >> THEN With(n, "given") ELSE tree
  BY ChmodDoes
<1>2. Progress(p) /\ Rooted /\ There(n)
  BY <1>1 DEF CalmInv, Progress
<1>3. n \in Seq(STRING)
  BY <1>1, HereProp
<1>4. ASSUME NEW k \in DOMAIN tree, tree[k] = "closed"
      PROVE  k # Up(n) \/ n = << >>
  <2>1. SUFFICES ASSUME k = Up(n), n # << >> PROVE FALSE
    OBVIOUS
  <2>2. PICK q \in Runs : req[q].strict /\ k = Node(Argv(q)[1])
    BY <1>4 DEF CalmInv, Closed
  <2>3. \E x \in Proc : Runs = {x}
    BY <2>2, Zenon DEF Calm
  <2>4. q = p
    BY <2>3
  <2>5. Path(p) = Argv(p)[1]
    BY <1>1, <2>2, <2>4, CalmStrict
  <2> QED BY <1>3, <2>1, <2>2, <2>4, <2>5, UpDiffers
<1>5. n # << >> => There(Up(n)) /\ n \in DOMAIN tree
  BY <1>2 DEF Rooted, There
<1>6. SeenDir(n)
  BY <1>4, <1>5 DEF SeenDir, Opens, There
<1> HIDE DEF n
<1>7. Exits(p, exit[p])
  BY <1>1, <1>6 DEF Exits
<1>8. CASE tree' = With(n, "given") /\ n # << >>
  <2>1. Grows /\ Rooted' /\ ThereNext(n)
    BY <1>2, <1>3, <1>5, <1>8, WithDoes, WithRooted
  <2>2. \A k \in DOMAIN tree' : tree'[k] = "closed" => k \in DOMAIN tree /\ tree[k] = "closed"
    BY <1>8, WithGiven
  <2>3. \A k \in DOMAIN tree' : tree'[k] = "closed" => Closed(k)'
    BY <1>1, <2>2, ChmodClosed DEF CalmInv
  <2>4. Progress(p)'
    BY <1>1, <1>2, <1>7, <2>1, ProgressEnded DEF n
  <2> QED BY <1>1, <2>1, <2>3, <2>4, CalmFrame
<1>9. CASE tree' = tree
  <2>1. Grows /\ Rooted' /\ ThereNext(n)
    BY <1>2, <1>9, SameTree
  <2>2. \A k \in DOMAIN tree' : tree'[k] = "closed" => Closed(k)'
    BY <1>1, <1>9, ChmodClosed DEF CalmInv
  <2>3. Progress(p)'
    BY <1>1, <1>2, <1>7, <2>1, ProgressEnded DEF n
  <2> QED BY <1>1, <2>1, <2>2, <2>3, CalmFrame
<1> QED BY <1>1, <1>8, <1>9

LEMMA CalmInstallStat ==
  ASSUME IInv, Calm, CalmInv, NEW p \in Runs, InstallStat(p)
  PROVE  CalmInv'
<1>1. /\ pc[p] = "istat" /\ scene' = scene /\ tree' = tree /\ Others(p)
      /\ SeenDir(Prefix(p)) =>
           /\ Exits(p, exit[p])
           /\ IF Stop(p) = Len(Path(p)) + 1
              THEN Moved(p, "ichmod", l[p].i, FALSE, l[p].retval)
              ELSE Moved(p, "istat", Stop(p) + 1, FALSE, l[p].retval)
      /\ ~ SeenDir(Prefix(p)) /\ ~ SeenFile(Prefix(p)) /\ ~ l[p].tried =>
           Moved(p, "imkdir", l[p].i, l[p].tried, l[p].retval) /\ Exits(p, exit[p])
  BY InstallStatDoes
<1>2. /\ Progress(p) /\ Rooted /\ (\A k \in DOMAIN tree : tree[k] # "closed")
      /\ There(NodeAt(Path(p), l[p].i - 1)) /\ (l[p].tried => There(Prefix(p)))
  BY <1>1, NoneClosed DEF CalmInv, Progress
<1>3. ~ SeenFile(Prefix(p)) /\ (SeenDir(Prefix(p)) <=> There(Prefix(p)))
  BY <1>1, ReadyHere
<1>4. Grows /\ Rooted' /\ \A k : There(k) => ThereNext(k)
  BY <1>1, <1>2, SameTree
<1>5. /\ Stop(p) = Len(Path(p)) + 1 => Prefix(p) = Node(Path(p))
      /\ Stop(p) # Len(Path(p)) + 1 => NodeAt(Path(p), Stop(p)) = Prefix(p)
      /\ Stop(p) \in Nat \ {0} /\ l[p].tried \in BOOLEAN
  BY <1>1, HereProp, Working
<1>6. Progress(p)'
  <2>1. CASE SeenDir(Prefix(p)) /\ Stop(p) = Len(Path(p)) + 1
    <3>1. Moved(p, "ichmod", l[p].i, FALSE, l[p].retval) /\ Exits(p, exit[p])
      BY <1>1, <2>1
    <3>2. ThereNext(Node(Path(p)))
      BY <1>3, <1>4, <1>5, <2>1
    <3> QED BY <1>1, <1>2, <1>4, <3>1, <3>2, ProgressMoved
  <2>2. CASE SeenDir(Prefix(p)) /\ Stop(p) # Len(Path(p)) + 1
    <3>1. Moved(p, "istat", Stop(p) + 1, FALSE, l[p].retval) /\ Exits(p, exit[p])
      BY <1>1, <2>2
    <3>2. (Stop(p) + 1) - 1 = Stop(p)
      BY <1>5
    <3>3. ThereNext(NodeAt(Path(p), (Stop(p) + 1) - 1))
      BY <1>3, <1>4, <1>5, <2>2, <3>2
    <3> QED BY <1>1, <1>2, <1>4, <3>1, <3>3, ProgressMoved
  <2>3. CASE ~ SeenDir(Prefix(p))
    <3>1. ~ l[p].tried
      BY <1>2, <1>3, <2>3
    <3>2. Moved(p, "imkdir", l[p].i, l[p].tried, l[p].retval) /\ Exits(p, exit[p])
      BY <1>1, <1>3, <2>3, <3>1
    <3>3. ThereNext(NodeAt(Path(p), l[p].i - 1))
      BY <1>2, <1>4
    <3> QED BY <1>1, <1>2, <1>4, <1>5, <3>2, <3>3, ProgressMoved
  <2> QED BY <2>1, <2>2, <2>3
<1>7. \A k \in DOMAIN tree' : tree'[k] = "closed" => Closed(k)'
  BY <1>1, <1>2
<1> QED BY <1>1, <1>4, <1>6, <1>7, CalmFrame

LEMMA CalmInstallMkdir ==
  ASSUME IInv, Calm, CalmInv, NEW p \in Runs, Route(p), InstallMkdir(p)
  PROVE  CalmInv'
<1>1. /\ pc[p] = "imkdir" /\ scene' = scene /\ Others(p)
      /\ Free(Prefix(p)) =>
           /\ tree' = With(Prefix(p), Made(p)) /\ Exits(p, exit[p])
           /\ IF Stop(p) = Len(Path(p)) + 1
              THEN Moved(p, "ichmod", l[p].i, FALSE, l[p].retval)
              ELSE Moved(p, "istat", Stop(p) + 1, FALSE, l[p].retval)
      /\ ~ Free(Prefix(p)) => tree' = tree
      /\ ~ Free(Prefix(p)) /\ SeenDir(Prefix(p)) =>
           Moved(p, "istat", l[p].i, TRUE, l[p].retval) /\ Exits(p, exit[p])
  BY InstallMkdirDoes
<1>2. /\ Progress(p) /\ Rooted /\ (\A k \in DOMAIN tree : tree[k] # "closed")
      /\ There(NodeAt(Path(p), l[p].i - 1))
  BY <1>1, NoneClosed DEF CalmInv, Progress
<1>3. /\ Prefix(p) \in Seq(STRING)
      /\ (SeenDir(Prefix(p)) <=> There(Prefix(p)))
      /\ (Free(Prefix(p)) <=> ~ There(Prefix(p)))
      /\ ~ There(Prefix(p)) => Prefix(p) # << >> /\ There(Up(Prefix(p)))
  BY <1>1, ReadyHere
<1>4. /\ Stop(p) = Len(Path(p)) + 1 => Prefix(p) = Node(Path(p))
      /\ Stop(p) # Len(Path(p)) + 1 => NodeAt(Path(p), Stop(p)) = Prefix(p)
      /\ Stop(p) \in Nat \ {0}
  BY <1>1, HereProp
<1>5. ~ req[p].strict
  <2>1. req[p].cmd = "install -d"
    BY <1>1 DEF Route
  <2> QED BY <1>1, <2>1, CalmStrict
<1>6. CASE Free(Prefix(p))
  <2>1. tree' = With(Prefix(p), Made(p)) /\ Exits(p, exit[p])
    BY <1>1, <1>6
  <2>2. Grows /\ Rooted' /\ ThereNext(Prefix(p))
    BY <1>2, <1>3, <1>6, <2>1, WithDoes, WithRooted
  <2>3. \A k \in DOMAIN tree' : tree'[k] = "closed" => Closed(k)'
    <3>1. Made(p) # "closed"
      BY <1>5 DEF Made
    <3> QED BY <1>2, <2>1, <3>1, WithDoes
  <2>4. CASE Stop(p) = Len(Path(p)) + 1
    <3>1. Moved(p, "ichmod", l[p].i, FALSE, l[p].retval) /\ ThereNext(Node(Path(p)))
      BY <1>1, <1>4, <1>6, <2>2, <2>4
    <3>2. Progress(p)'
      BY <1>1, <1>2, <2>1, <2>2, <3>1, ProgressMoved
    <3> QED BY <1>1, <2>2, <2>3, <3>2, CalmFrame
  <2>5. CASE Stop(p) # Len(Path(p)) + 1
    <3>1. Moved(p, "istat", Stop(p) + 1, FALSE, l[p].retval)
      BY <1>1, <1>6, <2>5
    <3>2. (Stop(p) + 1) - 1 = Stop(p)
      BY <1>4
    <3>3. ThereNext(NodeAt(Path(p), (Stop(p) + 1) - 1))
      BY <1>4, <2>2, <2>5, <3>2
    <3>4. Progress(p)'
      BY <1>1, <1>2, <2>1, <2>2, <3>1, <3>3, ProgressMoved
    <3> QED BY <1>1, <2>2, <2>3, <3>4, CalmFrame
  <2> QED BY <2>4, <2>5
<1>7. CASE ~ Free(Prefix(p))
  <2>1. /\ tree' = tree /\ Moved(p, "istat", l[p].i, TRUE, l[p].retval)
        /\ Exits(p, exit[p]) /\ There(Prefix(p))
    BY <1>1, <1>3, <1>7
  <2>2. /\ Grows /\ Rooted' /\ ThereNext(Prefix(p))
        /\ ThereNext(NodeAt(Path(p), l[p].i - 1))
    BY <1>2, <2>1, SameTree
  <2>3. Progress(p)'
    BY <1>1, <1>2, <2>1, <2>2, ProgressMoved
  <2>4. \A k \in DOMAIN tree' : tree'[k] = "closed" => Closed(k)'
    BY <1>2, <2>1
  <2> QED BY <1>1, <2>2, <2>3, <2>4, CalmFrame
<1> QED BY <1>6, <1>7

LEMMA CalmInstallChmod ==
  ASSUME IInv, Calm, CalmInv, NEW p \in Runs, InstallChmod(p)
  PROVE  CalmInv'
<1> DEFINE n == Node(Path(p))
<1>1. /\ pc[p] = "ichmod" /\ scene' = scene /\ Others(p) /\ Ended(p) /\ Exits(p, exit[p])
      /\ tree' = IF SeenDir(n) /\ n # << >> THEN With(n, "given") ELSE tree
  BY InstallChmodDoes
<1>2. /\ Progress(p) /\ Rooted /\ There(n) /\ (\A k \in DOMAIN tree : tree[k] # "closed")
  BY <1>1, NoneClosed DEF CalmInv, Progress
<1>3. n \in Seq(STRING) /\ (n # << >> => There(Up(n)))
  BY <1>1, <1>2, HereProp DEF Rooted, There
<1> HIDE DEF n
<1>4. Grows /\ Rooted' /\ ThereNext(n)
  <2>1. CASE tree' = With(n, "given") /\ n # << >>
    BY <1>2, <1>3, <2>1, WithDoes, WithRooted
  <2>2. CASE tree' = tree
    BY <1>2, <2>2, SameTree
  <2> QED BY <1>1, <2>1, <2>2
<1>5. \A k \in DOMAIN tree' : tree'[k] = "closed" => Closed(k)'
  <2>1. CASE tree' = With(n, "given")
    BY <1>2, <2>1, WithGiven
  <2>2. CASE tree' = tree
    BY <1>2, <2>2
  <2> QED BY <1>1, <2>1, <2>2
<1>6. Progress(p)'
  BY <1>1, <1>2, <1>4, ProgressEnded DEF n
<1> QED BY <1>1, <1>4, <1>5, <1>6, CalmFrame

LEMMA CalmInit == Init /\ Calm => CalmInv
<1> SUFFICES ASSUME Init, Calm PROVE CalmInv
  OBVIOUS
<1>1. scene \in Scenes /\ tree = was
  BY DEF Init, was
<1>2. Rooted
  BY <1>1, MkPathAssumption DEF Rooted, There, was
<1>3. \A n \in DOMAIN tree : tree[n] # "closed"
  BY <1>1 DEF Calm, OpenTree
<1>4. ASSUME NEW p \in Runs PROVE Progress(p)
  <2>1. l[p] = [j |-> 1, i |-> 1, last |-> FALSE, retval |-> 1, tried |-> FALSE, up |-> << >>]
        /\ pc[p] = "operand" /\ exit[p] = 0
    BY DEF Init
  <2>2. l[p].j = 1 /\ l[p].i = 1 /\ ~ l[p].tried
    BY <2>1
  <2>3. \A k \in 1 .. l[p].j - 1 : FALSE
    BY <2>2
  <2> QED BY <2>1, <2>2, <2>3 DEF Progress
<1> QED BY <1>2, <1>3, <1>4 DEF CalmInv

LEMMA CalmNext ==
  ASSUME IInv, \A p \in Runs : Route(p), Calm, CalmInv, [Next]_vars
  PROVE  CalmInv'
<1>1. ASSUME NEW p \in Runs, Step(p) PROVE CalmInv'
  <2>1. Route(p) /\ req[p].cmd \in {"mkdir -p", "install -d"}
    BY DEF Calm, Makes
  <2>2. ~ Mkdir(p)
    BY <2>1 DEF Mkdir
  <2>3. ~ Rmdir(p)
    BY <2>1 DEF Rmdir, At, Route
  <2> QED BY <1>1, <2>1, <2>2, <2>3, CalmOperand, CalmBuildMkdir, CalmBuildStat, CalmChmod,
             CalmInstallStat, CalmInstallMkdir, CalmInstallChmod DEF Step
<1>2. ~ Flap
  BY DEF Flap, Calm
<1>3. CASE UNCHANGED vars
  <2>1. UNCHANGED <<tree, scene, l, pc, exit>>
    BY <1>3 DEF vars
  <2>2. Runs' = Runs /\ req' = req /\ \A p : Argv(p)' = Argv(p)
    BY <2>1, SameScene
  <2>3. \A p : Path(p)' = Path(p) /\ Prefix(p)' = Prefix(p)
    BY <2>1, SameScene, SamePlace
  <2>4. \A n : There(n)' <=> There(n)
    BY <2>1 DEF There
  <2>5. Rooted' /\ \A n : Closed(n) => Closed(n)'
    BY <2>1, <2>2, <2>4 DEF CalmInv, Rooted, Closed
  <2>6. \A p \in Runs : Progress(p)'
    BY <2>1, <2>2, <2>3, <2>4 DEF CalmInv, Progress
  <2> QED BY <2>1, <2>2, <2>5, <2>6 DEF CalmInv
<1> QED BY <1>1, <1>2, <1>3 DEF Next

LEMMA CalmMakes ==
  ASSUME IInv, Calm => CalmInv
  PROVE  MakersSucceed
<1>1. TogetherSucceed
  <2>1. SUFFICES ASSUME Flapping = {}, Files = {}, OpenTree,
                        \A p \in Runs : Makes(p) /\ ~ req[p].strict, NEW p \in Runs
                 PROVE  exit[p] = 0 /\ \A k \in 1 .. l[p].j - 1 : SeenDir(Node(Argv(p)[k]))
    BY DEF TogetherSucceed
  <2>2. CalmInv
    BY <2>1 DEF Calm
  <2>3. \A n : ~ Closed(n)
    BY <2>1 DEF Closed
  <2>4. Rooted /\ Progress(p) /\ \A n \in DOMAIN tree : tree[n] # "closed"
    BY <2>2, <2>3 DEF CalmInv
  <2>5. \A n : There(n) => SeenDir(n)
    BY <2>1, <2>4, OpenWay
  <2> QED BY <2>4, <2>5 DEF Progress
<1>2. StrictMakes
  <2>1. SUFFICES ASSUME Alone, Files = {}, OpenTree, NEW p \in Runs,
                        req[p].cmd = "mkdir -p", Len(Argv(p)) = 1
                 PROVE  exit[p] = 0
    BY DEF StrictMakes
  <2>2. Flapping = {} /\ \E x \in Proc : Runs = {x}
    BY <2>1 DEF Alone
  <2>3. Runs = {p} /\ p \in Proc
    BY <2>2
  <2>4. \A q \in Runs : Makes(q)
    BY <2>1, <2>3 DEF Makes
  <2>5. Calm
    BY <2>1, <2>2, <2>3, <2>4 DEF Calm
  <2> QED BY <2>5 DEF CalmInv, Progress
<1> QED BY <1>1, <1>2 DEF MakersSucceed

-----------------------------------------------------------------------------
(* A mkdir -p on its own.  What was there keeps its mode; and with -m what it
   has made has that mode, but for what it has made on its way and the
   directory whose mode it is about to set.                                 *)
Builds(p) == Flapping = {} /\ Runs = {p} /\ req[p].cmd = "mkdir -p"
Passed(p, n) == \E h \in 1 .. l[p].j : h <= Len(Argv(p)) /\ OnTheWay(Argv(p)[h], n)
Excused(p, n) == tree[n] = "given" \/ Passed(p, n) \/ (pc[p] = "chmod" /\ n = Node(Path(p)))
GivenTo(p, k) == Node(Argv(p)[k]) \in DOMAIN tree /\ tree[Node(Argv(p)[k])] = "given"
AloneInv(p) ==
  /\ << >> \notin DOMAIN tree
  /\ \A n \in DOMAIN was : n \in DOMAIN tree /\ tree[n] = was[n]
  /\ pc[p] = "chmod" => Node(Path(p)) \notin DOMAIN was
  /\ req[p].m /\ exit[p] = 0 =>
       /\ \A n \in DOMAIN tree \ DOMAIN was : Excused(p, n)
       /\ \A k \in 1 .. l[p].j - 1 : MadeFor(p, k) => GivenTo(p, k)

LEMMA SameAsked ==
  ASSUME UNCHANGED scene
  PROVE  /\ \A p, k : MadeFor(p, k)' <=> MadeFor(p, k)
         /\ \A p, n : Passed(p, n)' <=>
              \E h \in 1 .. l'[p].j : h <= Len(Argv(p)) /\ OnTheWay(Argv(p)[h], n)
<1>1. was' = was /\ \A p : Argv(p)' = Argv(p)
  BY SameScene
<1> QED BY <1>1 DEF MadeFor, Passed

(* Nothing happens to the tree; or the operand fails. *)
LEMMA AloneFrame ==
  ASSUME NEW p, AloneInv(p), UNCHANGED <<tree, scene>>, pc'[p] # "chmod",
         \/ exit'[p] = 1
         \/ exit'[p] = exit[p] /\ l'[p].j = l[p].j /\ pc[p] # "chmod"
  PROVE  AloneInv(p)'
<1>1. was' = was /\ req' = req /\ Argv(p)' = Argv(p)
  BY SameScene
<1>2. CASE exit'[p] = 1
  BY <1>1, <1>2 DEF AloneInv
<1>3. CASE exit'[p] = exit[p] /\ l'[p].j = l[p].j /\ pc[p] # "chmod"
  <2>1. \A n : Excused(p, n) => Excused(p, n)'
    BY <1>3, SameAsked DEF Excused, Passed
  <2>2. \A k : GivenTo(p, k) => GivenTo(p, k)'
    BY <1>1 DEF GivenTo
  <2> QED BY <1>1, <1>3, <2>1, <2>2, SameAsked DEF AloneInv
<1> QED BY <1>2, <1>3

LEMMA AloneBuildMkdir ==
  ASSUME IInv, NEW p \in Runs, Route(p), AloneInv(p), BuildMkdir(p)
  PROVE  AloneInv(p)'
<1>1. l[p].retval = 1 /\ pc[p] = "mkdir"
  BY DEF Route, BuildMkdir, At
<1>2. PICK n : n = Prefix(p)
  OBVIOUS
<1>3. /\ scene' = scene
      /\ Free(n) /\ ~ IsLast(p) => /\ tree' = With(n, Made(p)) /\ Exits(p, exit[p])
                                   /\ Moved(p, "mkdir", Stop(p) + 1, l[p].tried, 1)
      /\ Free(n) /\ IsLast(p) => /\ tree' = With(n, Made(p)) /\ Exits(p, exit[p])
                                 /\ Moved(p, "chmod", l[p].i, l[p].tried, 1)
      /\ ~ Free(n) => tree' = tree
      /\ ~ Free(n) => \/ Moved(p, "stat", l[p].i, l[p].tried, 1) /\ Exits(p, exit[p])
                      \/ Ended(p) /\ Exits(p, 1)
  BY <1>1, <1>2, BuildMkdirDoes
<1>4. /\ IsLast(p) => n = Node(Path(p))
      /\ ~ IsLast(p) => OnTheWay(Path(p), n)
  BY <1>1, <1>2, HereProp
<1>5. was' = was /\ req' = req /\ Argv(p)' = Argv(p)
  BY <1>3, SameScene
<1>6. CASE Free(n)
  <2>1. /\ tree' = With(n, Made(p)) /\ exit'[p] = exit[p] /\ l'[p].j = l[p].j
        /\ n # << >> /\ n \notin DOMAIN tree
        /\ IsLast(p) => pc'[p] = "chmod"
        /\ ~ IsLast(p) => pc'[p] = "mkdir"
    BY <1>3, <1>6 DEF Moved, Exits, Free
  <2>2. /\ DOMAIN tree' = DOMAIN tree \cup {n}
        /\ \A k \in DOMAIN tree : tree'[k] = tree[k]
    BY <2>1, WithDoes
  <2>3. Path(p)' = Path(p)
    BY <1>3, <2>1, SameScene
  <2>4. l[p].j \in 1 .. l[p].j /\ l[p].j <= Len(Argv(p))
    BY <1>1, Working
  <2>5. \A k : Passed(p, k)' <=> Passed(p, k)
    BY <1>3, <2>1, SameAsked DEF Passed
  <2>6. Excused(p, n)'
    <3>1. CASE IsLast(p)
      BY <1>4, <2>1, <2>3, <3>1 DEF Excused
    <3>2. CASE ~ IsLast(p)
      <4>1. OnTheWay(Argv(p)[l[p].j], n)
        BY <1>4, <3>2 DEF Path
      <4>2. Passed(p, n)
        BY <2>4, <4>1 DEF Passed
      <4> QED BY <2>5, <4>2 DEF Excused
    <3> QED BY <3>1, <3>2
  <2>7. \A k \in DOMAIN tree : Excused(p, k) => Excused(p, k)'
    BY <1>1, <2>2, <2>5 DEF Excused
  <2>8. \A k : GivenTo(p, k) => GivenTo(p, k)'
    BY <1>5, <2>2 DEF GivenTo
  <2>9. /\ << >> \notin DOMAIN tree'
        /\ \A k \in DOMAIN was : k \in DOMAIN tree' /\ tree'[k] = was[k]
        /\ n \notin DOMAIN was
    BY <2>1, <2>2 DEF AloneInv
  <2>10. pc'[p] = "chmod" => Node(Path(p)') \notin DOMAIN was
    BY <1>4, <2>1, <2>3, <2>9
  <2>11. req[p].m /\ exit'[p] = 0 =>
           /\ \A k \in DOMAIN tree' \ DOMAIN was : Excused(p, k)'
           /\ \A k \in 1 .. l'[p].j - 1 : MadeFor(p, k)' => GivenTo(p, k)'
    <3>1. SUFFICES ASSUME req[p].m, exit'[p] = 0
                   PROVE  /\ \A k \in DOMAIN tree' \ DOMAIN was : Excused(p, k)'
                          /\ \A k \in 1 .. l'[p].j - 1 : MadeFor(p, k)' => GivenTo(p, k)'
      OBVIOUS
    <3>2. /\ \A k \in DOMAIN tree \ DOMAIN was : Excused(p, k)
          /\ \A k \in 1 .. l[p].j - 1 : MadeFor(p, k) => GivenTo(p, k)
      BY <2>1, <3>1 DEF AloneInv
    <3>3. \A k \in DOMAIN tree' \ DOMAIN was : Excused(p, k)'
      BY <2>2, <2>6, <2>7, <3>2
    <3>4. \A k \in 1 .. l'[p].j - 1 : MadeFor(p, k)' => GivenTo(p, k)'
      BY <1>3, <2>1, <2>8, <3>2, SameAsked
    <3> QED BY <3>3, <3>4
  <2> QED BY <1>5, <2>9, <2>10, <2>11 DEF AloneInv
<1>7. CASE ~ Free(n)
  <2>1. /\ pc'[p] # "chmod"
        /\ exit'[p] = 1 \/ (exit'[p] = exit[p] /\ l'[p].j = l[p].j)
    BY <1>3, <1>7 DEF Moved, Exits, Ended
  <2> QED BY <1>1, <1>3, <1>7, <2>1, AloneFrame
<1> QED BY <1>6, <1>7

LEMMA AloneOperand ==
  ASSUME IInv, NEW p \in Runs, AloneInv(p), req[p].cmd = "mkdir -p", Operand(p)
  PROVE  AloneInv(p)'
<1>1. /\ pc[p] = "operand" /\ tree' = tree /\ scene' = scene /\ Exits(p, exit[p])
      /\ \E i : Moved(p, "mkdir", i, l[p].tried, l[p].retval)
  BY OperandDoes
<1>2. exit'[p] = exit[p] /\ l'[p].j = l[p].j /\ pc'[p] = "mkdir"
  BY <1>1 DEF Moved, Exits
<1> QED BY <1>1, <1>2, AloneFrame

(* The operand in hand has been done: what holds of those before it holds of
   it as well, if the tree has the mode asked for.                          *)
LEMMA AloneEnded ==
  ASSUME IInv, NEW p \in Runs, pc[p] # "exit", UNCHANGED scene, Ended(p),
         << >> \notin DOMAIN tree', \A n \in DOMAIN was : n \in DOMAIN tree' /\ tree'[n] = was[n],
         req[p].m /\ exit'[p] = 0 =>
           /\ \A n \in DOMAIN tree' \ DOMAIN was : tree'[n] = "given" \/ Passed(p, n)
           /\ \A k \in 1 .. l[p].j : MadeFor(p, k) =>
                Node(Argv(p)[k]) \in DOMAIN tree' /\ tree'[Node(Argv(p)[k])] = "given"
  PROVE  AloneInv(p)'
<1>1. was' = was /\ req' = req /\ Argv(p)' = Argv(p)
  BY SameScene
<1>2. l[p].j \in Nat /\ l'[p].j = l[p].j + 1 /\ l'[p].j - 1 = l[p].j
  BY Working DEF Ended
<1>3. 1 .. l[p].j \subseteq 1 .. l'[p].j
  BY <1>2
<1>4. \A n : Passed(p, n) => Passed(p, n)'
  BY <1>3, SameAsked DEF Passed
<1>5. pc'[p] # "chmod"
  BY DEF Ended
<1>6. req[p].m /\ exit'[p] = 0 => \A n \in DOMAIN tree' \ DOMAIN was : Excused(p, n)'
  BY <1>4 DEF Excused
<1>7. req[p].m /\ exit'[p] = 0 =>
        \A k \in 1 .. l'[p].j - 1 : MadeFor(p, k)' => GivenTo(p, k)'
  BY <1>1, <1>2, SameAsked DEF GivenTo
<1> QED BY <1>1, <1>5, <1>6, <1>7 DEF AloneInv

LEMMA AloneBuildStat ==
  ASSUME IInv, NEW p \in Runs, Route(p), AloneInv(p), BuildStat(p)
  PROVE  AloneInv(p)'
<1>1. pc[p] = "stat" /\ l[p].retval = 1
  BY DEF Route, BuildStat, At
<1>2. PICK n : n = Prefix(p)
  OBVIOUS
<1>3. /\ scene' = scene /\ tree' = tree
      /\ SeenDir(n) /\ ~ IsLast(p) =>
           Moved(p, "mkdir", Stop(p) + 1, l[p].tried, 1) /\ Exits(p, exit[p])
      /\ SeenDir(n) /\ IsLast(p) => Ended(p) /\ Exits(p, exit[p])
      /\ ~ SeenDir(n) => Ended(p) /\ Exits(p, 1)
  BY <1>1, <1>2, BuildStatDoes
<1>4. IsLast(p) => n = Node(Path(p))
  BY <1>1, <1>2, HereProp
<1>5. CASE SeenDir(n) /\ ~ IsLast(p)
  <2>1. exit'[p] = exit[p] /\ l'[p].j = l[p].j /\ pc'[p] = "mkdir"
    BY <1>3, <1>5 DEF Moved, Exits
  <2> QED BY <1>1, <1>3, <2>1, AloneFrame
<1>6. CASE ~ SeenDir(n)
  <2>1. exit'[p] = 1 /\ pc'[p] # "chmod"
    BY <1>3, <1>6 DEF Ended, Exits
  <2> QED BY <1>3, <2>1, AloneFrame
<1>7. CASE SeenDir(n) /\ IsLast(p)
  <2>1. Ended(p) /\ exit'[p] = exit[p] /\ n = Node(Argv(p)[l[p].j])
    BY <1>3, <1>4, <1>7 DEF Exits, Path
  <2>2. l[p].j \in 1 .. Len(Argv(p)) /\ Len(Argv(p)) \in Nat
    BY <1>1, Working
  <2>3. n = << >> \/ n \in DOMAIN tree
    BY <1>7 DEF SeenDir
  <2>4. ASSUME req[p].m, exit'[p] = 0
        PROVE  /\ \A k \in DOMAIN tree \ DOMAIN was : tree[k] = "given" \/ Passed(p, k)
               /\ \A k \in 1 .. l[p].j : MadeFor(p, k) => GivenTo(p, k)
    <3>1. /\ \A k \in DOMAIN tree \ DOMAIN was : tree[k] = "given" \/ Passed(p, k)
          /\ \A k \in 1 .. l[p].j - 1 : MadeFor(p, k) => GivenTo(p, k)
      BY <1>1, <2>1, <2>4 DEF AloneInv, Excused
    <3>2. ASSUME MadeFor(p, l[p].j) PROVE GivenTo(p, l[p].j)
      <4>1. n \notin DOMAIN was /\ n # << >> /\ ~ Passed(p, n)
        BY <2>1, <3>2 DEF MadeFor, Passed
      <4>2. n \in DOMAIN tree /\ tree[n] = "given"
        BY <2>3, <3>1, <4>1
      <4> QED BY <2>1, <4>2 DEF GivenTo
    <3>3. \A k \in 1 .. l[p].j : k = l[p].j \/ k \in 1 .. l[p].j - 1
      BY <2>2
    <3> QED BY <3>1, <3>2, <3>3
  <2>5. /\ << >> \notin DOMAIN tree'
        /\ \A k \in DOMAIN was : k \in DOMAIN tree' /\ tree'[k] = was[k]
    BY <1>3 DEF AloneInv
  <2>6. req[p].m /\ exit'[p] = 0 =>
          /\ \A k \in DOMAIN tree' \ DOMAIN was : tree'[k] = "given" \/ Passed(p, k)
          /\ \A k \in 1 .. l[p].j : MadeFor(p, k) =>
               Node(Argv(p)[k]) \in DOMAIN tree' /\ tree'[Node(Argv(p)[k])] = "given"
    BY <1>3, <2>4 DEF GivenTo
  <2> QED BY <1>1, <1>3, <2>1, <2>5, <2>6, AloneEnded
<1> QED BY <1>5, <1>6, <1>7

LEMMA AloneChmod ==
  ASSUME IInv, NEW p \in Runs, AloneInv(p), Chmod(p)
  PROVE  AloneInv(p)'
<1>1. PICK n : n = Node(Path(p))
  OBVIOUS
<1>2. /\ pc[p] = "chmod" /\ scene' = scene /\ Ended(p)
      /\ Exits(p, IF req[p].m /\ ~ SeenDir(n) THEN 1 ELSE exit[p])
      /\ tree' = IF req[p].m /\ SeenDir(n) /\ n # << >> THEN With(n, "given") ELSE tree
  BY <1>1, ChmodDoes
<1>3. n \notin DOMAIN was /\ << >> \notin DOMAIN tree
      /\ \A k \in DOMAIN was : k \in DOMAIN tree /\ tree[k] = was[k]
  BY <1>1, <1>2 DEF AloneInv
<1>4. l[p].j \in 1 .. Len(Argv(p)) /\ Len(Argv(p)) \in Nat /\ n = Node(Argv(p)[l[p].j])
  BY <1>1, <1>2, Working DEF Path
<1>5. CASE tree' = With(n, "given") /\ n # << >>
  <2>1. /\ DOMAIN tree' = DOMAIN tree \cup {n} /\ tree'[n] = "given"
        /\ \A k \in DOMAIN tree : k # n => tree'[k] = tree[k]
    BY <1>5, WithDoes
  <2>2. /\ << >> \notin DOMAIN tree'
        /\ \A k \in DOMAIN was : k \in DOMAIN tree' /\ tree'[k] = was[k]
    BY <1>3, <1>5, <2>1
  <2>3. ASSUME req[p].m, exit'[p] = 0
        PROVE  /\ \A k \in DOMAIN tree' \ DOMAIN was : tree'[k] = "given" \/ Passed(p, k)
               /\ \A k \in 1 .. l[p].j : MadeFor(p, k) =>
                    Node(Argv(p)[k]) \in DOMAIN tree' /\ tree'[Node(Argv(p)[k])] = "given"
    <3>1. exit[p] = 0
      BY <1>2, <2>3 DEF Exits
    <3>2. /\ \A k \in DOMAIN tree \ DOMAIN was : tree[k] = "given" \/ Passed(p, k) \/ k = n
          /\ \A k \in 1 .. l[p].j - 1 : MadeFor(p, k) => GivenTo(p, k)
      BY <1>1, <2>3, <3>1 DEF AloneInv, Excused
    <3>3. \A k \in DOMAIN tree' \ DOMAIN was : tree'[k] = "given" \/ Passed(p, k)
      BY <2>1, <3>2
    <3>4. \A k \in 1 .. l[p].j : k = l[p].j \/ k \in 1 .. l[p].j - 1
      BY <1>4
    <3>5. \A k : GivenTo(p, k) =>
            Node(Argv(p)[k]) \in DOMAIN tree' /\ tree'[Node(Argv(p)[k])] = "given"
      BY <2>1 DEF GivenTo
    <3>6. Node(Argv(p)[l[p].j]) \in DOMAIN tree' /\ tree'[Node(Argv(p)[l[p].j])] = "given"
      BY <1>4, <2>1
    <3>7. \A k \in 1 .. l[p].j : MadeFor(p, k) =>
            Node(Argv(p)[k]) \in DOMAIN tree' /\ tree'[Node(Argv(p)[k])] = "given"
      BY <3>2, <3>4, <3>5, <3>6
    <3> QED BY <3>3, <3>7
  <2> QED BY <1>2, <2>2, <2>3, AloneEnded
<1>6. CASE tree' = tree /\ n = << >>
  <2>1. /\ << >> \notin DOMAIN tree'
        /\ \A k \in DOMAIN was : k \in DOMAIN tree' /\ tree'[k] = was[k]
    BY <1>3, <1>6
  <2>2. ASSUME req[p].m, exit'[p] = 0
        PROVE  /\ \A k \in DOMAIN tree' \ DOMAIN was : tree'[k] = "given" \/ Passed(p, k)
               /\ \A k \in 1 .. l[p].j : MadeFor(p, k) =>
                    Node(Argv(p)[k]) \in DOMAIN tree' /\ tree'[Node(Argv(p)[k])] = "given"
    <3>1. exit[p] = 0
      BY <1>2, <2>2 DEF Exits
    <3>2. /\ \A k \in DOMAIN tree \ DOMAIN was : tree[k] = "given" \/ Passed(p, k) \/ k = n
          /\ \A k \in 1 .. l[p].j - 1 : MadeFor(p, k) => GivenTo(p, k)
      BY <1>1, <2>2, <3>1 DEF AloneInv, Excused
    <3>3. \A k \in DOMAIN tree' \ DOMAIN was : tree'[k] = "given" \/ Passed(p, k)
      BY <1>3, <1>6, <3>2
    <3>4. \A k \in 1 .. l[p].j : k = l[p].j \/ k \in 1 .. l[p].j - 1
      BY <1>4
    <3>5. ~ MadeFor(p, l[p].j)
      BY <1>4, <1>6 DEF MadeFor
    <3>6. \A k \in 1 .. l[p].j : MadeFor(p, k) => GivenTo(p, k)
      BY <3>2, <3>4, <3>5
    <3> QED BY <1>6, <3>3, <3>6 DEF GivenTo
  <2> QED BY <1>2, <2>1, <2>2, AloneEnded
<1>7. CASE tree' = tree /\ n # << >> /\ (req[p].m => ~ SeenDir(n))
  <2>1. /\ << >> \notin DOMAIN tree'
        /\ \A k \in DOMAIN was : k \in DOMAIN tree' /\ tree'[k] = was[k]
    BY <1>3, <1>7
  <2>2. ~ (req[p].m /\ exit'[p] = 0)
    BY <1>2, <1>7 DEF Exits
  <2> QED BY <1>2, <2>1, <2>2, AloneEnded
<1> QED BY <1>2, <1>5, <1>6, <1>7

LEMMA AloneNext ==
  ASSUME IInv, \A p \in Runs : Route(p), [Next]_vars,
         \A p \in Runs : Builds(p) => AloneInv(p), NEW p \in Runs, Builds(p)
  PROVE  AloneInv(p)'
<1>1. AloneInv(p) /\ Route(p) /\ Runs = {p} /\ req[p].cmd = "mkdir -p"
  BY DEF Builds
<1>2. CASE Step(p)
  <2>1. pc[p] \notin {"istat", "imkdir", "ichmod", "rmpath"} /\ ~ Mkdir(p)
    BY <1>1 DEF Route, Mkdir
  <2>2. ~ InstallStat(p) /\ ~ InstallMkdir(p) /\ ~ InstallChmod(p) /\ ~ Rmdir(p)
    BY <2>1 DEF InstallStat, InstallMkdir, InstallChmod, Rmdir, At
  <2> QED BY <1>1, <1>2, <2>1, <2>2, AloneOperand, AloneBuildMkdir, AloneBuildStat,
             AloneChmod DEF Step
<1>3. ~ Flap
  BY DEF Flap, Builds
<1>4. CASE UNCHANGED vars
  <2>1. UNCHANGED <<tree, scene, l, pc, exit>>
    BY <1>4 DEF vars
  <2>2. /\ was' = was /\ req' = req /\ \A q : Argv(q)' = Argv(q)
        /\ Path(p)' = Path(p)
    BY <2>1, SameScene
  <2>3. /\ \A n : Excused(p, n) => Excused(p, n)'
        /\ \A k : GivenTo(p, k) => GivenTo(p, k)'
    BY <2>1, <2>2, SameAsked DEF Excused, Passed, GivenTo
  <2> QED BY <1>1, <2>1, <2>2, <2>3, SameAsked DEF AloneInv
<1> QED BY <1>1, <1>2, <1>3, <1>4 DEF Next

LEMMA AloneInit ==
  ASSUME Init, NEW p \in Runs
  PROVE  AloneInv(p) /\ Route(p)
<1>1. l[p] = [j |-> 1, i |-> 1, last |-> FALSE, retval |-> 1, tried |-> FALSE, up |-> << >>]
      /\ pc[p] = "operand"
  BY DEF Init
<1>2. scene \in Scenes /\ tree = was
  BY DEF Init, was
<1>3. << >> \notin DOMAIN was
  BY <1>2, MkPathAssumption DEF was
<1>4. l[p].j = 1 /\ l[p].retval = 1
  BY <1>1
<1>5. \A k \in 1 .. l[p].j - 1 : FALSE
  BY <1>4
<1>6. AloneInv(p)
  BY <1>1, <1>2, <1>3, <1>5 DEF AloneInv
<1> QED BY <1>1, <1>4, <1>6 DEF Route

LEMMA AloneMakes ==
  ASSUME IInv, \A p \in Runs : Route(p) /\ (Builds(p) => AloneInv(p))
  PROVE  ModesExact
<1>1. ASSUME Alone, NEW p \in Runs, req[p].cmd = "mkdir -p" PROVE AloneInv(p) /\ Route(p)
  <2>1. Flapping = {} /\ \E x \in Proc : Runs = {x}
    BY <1>1 DEF Alone
  <2>2. Runs = {p}
    BY <2>1
  <2> QED BY <1>1, <2>1, <2>2 DEF Builds
<1>2. FoundKeepsMode
  BY <1>1 DEF FoundKeepsMode, AloneInv
<1>3. ASSUME Alone, NEW p \in Runs PROVE Given(p)
  <2>1. SUFFICES ASSUME req[p].cmd = "mkdir -p", req[p].m, pc[p] = "exit", exit[p] = 0,
                        NEW k \in DOMAIN Argv(p), MadeFor(p, k)
                 PROVE  GivenTo(p, k)
    BY DEF Given, Exited, GivenTo
  <2>2. AloneInv(p) /\ l[p].j = Len(Argv(p)) + 1
    BY <1>1, <1>3, <2>1 DEF Route
  <2>3. Argv(p) \in Seq(Seq(STRING))
    BY RequestProp DEF IInv, SharedOK
  <2>4. Len(Argv(p)) \in Nat /\ k \in 1 .. Len(Argv(p))
    BY <2>3, LenProperties
  <2>5. k \in 1 .. l[p].j - 1
    BY <2>2, <2>4
  <2> QED BY <2>1, <2>2, <2>5 DEF AloneInv
<1> QED BY <1>2, <1>3 DEF ModesExact, ModeGiven

-----------------------------------------------------------------------------
(* The inductive invariant of the makers. *)
MakeInv ==
  /\ IInv
  /\ \A p \in Runs : Route(p)
  /\ Calm => CalmInv
  /\ \A p \in Runs : Builds(p) => AloneInv(p)

LEMMA MakeInit == Init => MakeInv
BY InitInv, CalmInit, AloneInit DEF MakeInv

LEMMA MakeNext == MakeInv /\ [Next]_vars => MakeInv'
<1> SUFFICES ASSUME MakeInv, [Next]_vars PROVE MakeInv'
  OBVIOUS
<1>1. IInv'
  BY NextInv DEF MakeInv
<1>2. scene' = scene /\ \A p \in Runs' : Route(p)'
  BY RouteNext DEF MakeInv
<1>3. /\ Runs' = Runs /\ req' = req /\ Flapping' = Flapping /\ Files' = Files /\ was' = was
      /\ \A p : Argv(p)' = Argv(p)
  BY <1>2, SameScene
<1>4. Calm' => Calm
  BY <1>3 DEF Calm, OpenTree, Makes
<1>5. Calm' => CalmInv'
  BY <1>4, CalmNext DEF MakeInv
<1>6. ASSUME NEW p \in Runs', Builds(p)' PROVE AloneInv(p)'
  <2>1. p \in Runs /\ Builds(p)
    BY <1>3, <1>6 DEF Builds
  <2> QED BY <2>1, AloneNext DEF MakeInv
<1> QED BY <1>1, <1>2, <1>5, <1>6 DEF MakeInv

(* The makers make what they were asked for, each of them with the others at
   work on the same tree, under a umask that denies them what they need, and
   with the modes they were asked for: for any processes, paths and trees.  *)
THEOREM MkPathMadeRight == Spec => []MadeRight
<1>1. MakeInv => MadeRight
  BY CalmMakes, AloneMakes DEF MakeInv, MadeRight
<1> QED BY <1>1, MakeInit, MakeNext, PTL DEF Spec
=============================================================================
