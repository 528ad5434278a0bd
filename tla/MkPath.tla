------------------------------- MODULE MkPath -------------------------------
(***************************************************************************)
(* Programs that build and take down directory hierarchies by name:        *)
(* main() and build() of mkdir/mkdir.c, install_dir() of                   *)
(* install/xinstall.c, main() and rm_path() of rmdir/rmdir.c, several of   *)
(* them at work on one tree, next to a program that keeps making and       *)
(* removing directories of its own.                                        *)
(*                                                                         *)
(* A path is a sequence of names and slashes, as the loops read it; it     *)
(* leads to the node (sequence of names) that is left without the slashes. *)
(*   tree   the directories there are, with their modes: "open", "closed"  *)
(*          (made under a umask that denies the owner writing or           *)
(*          searching), "given" (set by chmod)                             *)
(*   l      per process: j the operand, i the place of p in it, last,      *)
(*          retval (of build), tried (tried_mkdir), up (what rm_path has   *)
(*          left of the path)                                              *)
(*   um     whether the umask is the one the process came with             *)
(*   exit   the exit status                                                *)
(***************************************************************************)
EXTENDS Naturals, Sequences, SequencesExt

CONSTANTS
  Proc,      \* the processes
  Scenes     \* who runs with which command line, on what

Slash == "/"
Mode  == {"open", "closed", "given"}
RequestType == [cmd : {"mkdir", "mkdir -p", "install -d", "rmdir", "rmdir -p"},
                argv : Seq(Seq(STRING)), m : BOOLEAN, strict : BOOLEAN]

Up(n) == SubSeq(n, 1, Len(n) - 1)

(* A scene: the command lines of the processes that run, with a slash between
   any two names of a path; the directories there are at the start, each in
   one of them or in the root; the nodes taken by files, and the nodes that
   the other program makes and removes.                                     *)
ASSUME MkPathAssumption ==
  \A s \in Scenes :
    /\ DOMAIN s.req \subseteq Proc
    /\ \A n \in DOMAIN s.tree :
         /\ s.tree[n] \in Mode
         /\ n \in Seq(STRING) \ {<< >>} /\ Up(n) \in DOMAIN s.tree \cup {<< >>}
    /\ \A p \in DOMAIN s.req :
         /\ s.req[p] \in RequestType /\ s.req[p].argv # << >>
         /\ \A k \in DOMAIN s.req[p].argv :
              /\ s.req[p].argv[k] # << >>
              /\ \A i \in 2 .. Len(s.req[p].argv[k]) :
                   Slash \in {s.req[p].argv[k][i - 1], s.req[p].argv[k][i]}

VARIABLES tree, scene, l, um, pc, exit
vars == <<tree, scene, l, um, pc, exit>>
req      == scene.req
Runs     == DOMAIN req
Files    == scene.files
Flapping == scene.flaps

Pcs  == {"operand", "mkdir", "stat", "chmod", "istat", "imkdir", "ichmod",
         "rmpath", "exit"}

(* Where the first k places of a path lead to, and where all of it does. *)
NodeAt(path, k) ==
  LET n[i \in 0 .. k] == IF i = 0 THEN << >>
                         ELSE IF path[i] = Slash THEN n[i - 1] ELSE Append(n[i - 1], path[i])
  IN  n[k]
Node(path) == NodeAt(path, Len(path))
(* The entries of n can be reached and added to. *)
Opens(n)   == n = << >> \/ (n \in DOMAIN tree /\ tree[n] # "closed")
(* stat(2) finds the directory, or the file, n. *)
SeenDir(n)  == n = << >> \/ (Opens(Up(n)) /\ n \in DOMAIN tree)
SeenFile(n) == n # << >> /\ Opens(Up(n)) /\ n \in Files
Free(n)     == n # << >> /\ Opens(Up(n)) /\ n \notin DOMAIN tree \cup Files
Empty(n)   == \A k \in DOMAIN tree \cup Files : ~ IsStrictPrefix(n, k)
With(n, m) == [k \in DOMAIN tree \cup {n} |-> IF k = n THEN m ELSE tree[k]]
Without(n) == [k \in DOMAIN tree \ {n} |-> tree[k]]

Argv(p) == req[p].argv
Path(p) == Argv(p)[l[p].j]
(* Where the loops stop from place i on: at a slash, or past the end. *)
StopFrom(path, i) ==
  CHOOSE k \in i .. Len(path) + 1 :
    /\ k = Len(path) + 1 \/ path[k] = Slash
    /\ \A h \in i .. k - 1 : path[h] # Slash
Stop(p)   == StopFrom(Path(p), l[p].i)
Prefix(p) == NodeAt(Path(p), Stop(p) - 1)

(* Every local keeps its type and p never runs past the path. *)
TypeOK ==
  /\ \A n \in DOMAIN tree : tree[n] \in Mode
  /\ \A p \in Runs :
       /\ l[p].j \in 1 .. Len(Argv(p)) + 1
       /\ l[p].j <= Len(Argv(p)) => l[p].i \in 1 .. Len(Path(p)) + 1
       /\ l[p].last \in BOOLEAN /\ l[p].tried \in BOOLEAN
       /\ l[p].retval \in 0 .. 2
  /\ um \in [Runs -> {"own", "relaxed"}]
  /\ pc \in [Runs -> Pcs]
  /\ exit \in [Runs -> 0 .. 1]

Init ==
  /\ scene \in Scenes /\ tree = scene.tree
  /\ l = [p \in Runs |-> [j |-> 1, i |-> 1, last |-> FALSE, retval |-> 1,
                          tried |-> FALSE, up |-> << >>]]
  /\ um = [p \in Runs |-> "own"]
  /\ pc = [p \in Runs |-> "operand"]
  /\ exit = [p \in Runs |-> 0]

-----------------------------------------------------------------------------
At(p, s)   == p \in Runs /\ pc[p] = s
Goto(p, s) == pc' = [pc EXCEPT ![p] = s]
(* On to the next operand, or to exit(). *)
NextOperand(p) ==
  /\ l' = [l EXCEPT ![p] = [l[p] EXCEPT !.j = l[p].j + 1, !.i = 1, !.last = FALSE,
                                        !.retval = 1, !.tried = FALSE]]
  /\ Goto(p, IF l[p].j < Len(Argv(p)) THEN "operand" ELSE "exit")
StatusCounts(p, bad) == exit' = [exit EXCEPT ![p] = @ + IF bad THEN 1 ELSE 0] \* mutant
Status(p, bad) == exit' = IF bad THEN [exit EXCEPT ![p] = 1] ELSE exit
Made(p) == IF req[p].strict /\ um'[p] = "own" THEN "closed" ELSE "open"

Operand(p) ==
  /\ At(p, "operand")
  /\ CASE req[p].cmd = "install -d" -> Goto(p, "istat") /\ UNCHANGED l
       [] req[p].cmd \in {"mkdir", "mkdir -p"} ->
            /\ Goto(p, "mkdir")         \* build() skips a leading slash
            /\ l' = [l EXCEPT ![p].i =
                       IF req[p].cmd = "mkdir -p" /\ Path(p)[1] = Slash THEN 2 ELSE 1]
       [] OTHER -> Goto(p, "rmpath") /\ l' = [l EXCEPT ![p].up = Node(Path(p))]
  /\ UNCHANGED <<tree, scene, um, exit>>

(* mkdir without -p: one call on the whole path. *)
Mkdir(p) ==
  LET n == Node(Path(p))
  IN  /\ At(p, "mkdir") /\ req[p].cmd = "mkdir"
      /\ um' = um
      /\ IF Free(n)
         THEN /\ tree' = With(n, Made(p))
              /\ Goto(p, "chmod") /\ UNCHANGED <<l, exit>>
         ELSE /\ tree' = tree /\ Status(p, TRUE) /\ NextOperand(p)
      /\ UNCHANGED scene

(* build() returns r: main() counts a failure, and sets the mode of -m on
   what has just been created.                                              *)
Return(p, r) ==
  IF r = 1 THEN Goto(p, "chmod") /\ l' = [l EXCEPT ![p].retval = r] /\ exit' = exit
  ELSE Status(p, r = 0) /\ NextOperand(p)
(* The turn of the loop is over: out after the last component. *)
Turn(p, last, r) ==
  IF last THEN Return(p, r)
  ELSE /\ l' = [l EXCEPT ![p] = [l[p] EXCEPT !.i = Stop(p) + 1, !.last = last, !.retval = r]]
       /\ Goto(p, "mkdir") /\ exit' = exit

IsLast(p) == Stop(p) >= Len(Path(p))

UmaskAt(last) == IF last THEN "own" ELSE "relaxed"

(* build(): one component.  All but the last are made under a umask that
   leaves the owner the rights to write and search.                         *)
BuildMkdir(p) ==
  LET n    == Prefix(p)
      last == IsLast(p)
      seen == SeenDir(n) \/ SeenFile(n)                   \* EEXIST, EISDIR
  IN  /\ At(p, "mkdir") /\ req[p].cmd = "mkdir -p"
      /\ um' = [um EXCEPT ![p] = IF Free(n) \/ seen THEN UmaskAt(last) ELSE "own"]
      /\ IF Free(n)
         THEN tree' = With(n, Made(p)) /\ Turn(p, last, l[p].retval)
         ELSE /\ tree' = tree
              /\ IF seen
                 THEN /\ Goto(p, "stat") /\ exit' = exit
                      /\ l' = [l EXCEPT ![p].last = last]
                 ELSE Return(p, 0)
      /\ UNCHANGED scene

(* Mutants: the umask stays relaxed after an error; what was there counts
   as created.                                                              *)
BuildStatLeaky(p) ==
  LET n == Prefix(p)
  IN  /\ At(p, "stat")
      /\ um' = um
      /\ IF SeenDir(n) THEN Turn(p, l[p].last, IF l[p].last THEN 2 ELSE l[p].retval)
         ELSE Return(p, 0)
      /\ UNCHANGED <<tree, scene>>
(* What was in the way of mkdir(2) has to be a directory. *)
BuildStat(p) ==
  /\ At(p, "stat")
  /\ um' = [um EXCEPT ![p] = IF SeenDir(Prefix(p)) THEN @ ELSE "own"]
  /\ IF SeenDir(Prefix(p))
     THEN Turn(p, l[p].last, IF l[p].last THEN 2 ELSE l[p].retval)
     ELSE Return(p, 0)
  /\ UNCHANGED <<tree, scene>>

(* main() of mkdir: the mode of -m for the operand. *)
Chmod(p) ==
  LET n == Node(Path(p))
  IN  /\ At(p, "chmod")
      /\ tree' = IF req[p].m /\ SeenDir(n) /\ n # << >>
                 THEN With(n, "given") ELSE tree
      /\ Status(p, req[p].m /\ ~ SeenDir(n))
      /\ NextOperand(p)
      /\ UNCHANGED <<scene, um>>

-----------------------------------------------------------------------------
(* install_dir(): err() ends the program. *)
Err(p) == Goto(p, "exit") /\ Status(p, TRUE) /\ UNCHANGED l
NextStop(p) ==
  LET end == Stop(p) = Len(Path(p)) + 1
  IN  /\ Goto(p, IF end THEN "ichmod" ELSE "istat")
      /\ l' = [l EXCEPT ![p] = [l[p] EXCEPT !.i = IF end THEN l[p].i ELSE Stop(p) + 1,
                                            !.tried = FALSE]]
      /\ exit' = exit
InstallStat(p) ==
  LET n == Prefix(p)
  IN  /\ At(p, "istat")
      /\ IF SeenDir(n) THEN NextStop(p)
         ELSE IF SeenFile(n) \/ l[p].tried THEN Err(p)
         ELSE Goto(p, "imkdir") /\ UNCHANGED <<l, exit>>
      /\ UNCHANGED <<tree, scene, um>>

(* Mutants: no second look after EEXIST; one look after another. *)
InstallMkdirOnce(p) ==
  LET n == Prefix(p)
  IN  /\ At(p, "imkdir") /\ um' = um
      /\ IF Free(n)
         THEN tree' = With(n, Made(p)) /\ NextStop(p)
         ELSE tree' = tree /\ Err(p)
      /\ UNCHANGED scene
InstallMkdirAgain(p) ==
  LET n == Prefix(p)
  IN  /\ At(p, "imkdir") /\ um' = um
      /\ IF Free(n)
         THEN tree' = With(n, Made(p)) /\ NextStop(p)
         ELSE /\ tree' = tree
              /\ IF SeenDir(n) THEN Goto(p, "istat") /\ UNCHANGED <<l, exit>> ELSE Err(p)
      /\ UNCHANGED scene
(* mkdir(2) after a stat that found nothing; when somebody else made the
   directory in between it is looked at once more.                          *)
InstallMkdir(p) ==
  LET n == Prefix(p)
  IN  /\ At(p, "imkdir") /\ um' = um
      /\ IF Free(n)
         THEN tree' = With(n, Made(p)) /\ NextStop(p)
         ELSE /\ tree' = tree
              /\ IF SeenDir(n)
                 THEN /\ Goto(p, "istat") /\ exit' = exit
                      /\ l' = [l EXCEPT ![p].tried = TRUE]
                 ELSE Err(p)
      /\ UNCHANGED scene
(* chown and chmod of the directory, made or found; failures only warn. *)
InstallChmod(p) ==
  LET n == Node(Path(p))
  IN  /\ At(p, "ichmod")
      /\ tree' = IF SeenDir(n) /\ n # << >> THEN With(n, "given") ELSE tree
      /\ NextOperand(p)
      /\ UNCHANGED <<scene, um, exit>>

(* rmdir: the operand, then with -p what is above it, as long as it works. *)
Rmdir(p) ==
  LET n == l[p].up
  IN  /\ At(p, "rmpath")
      /\ IF n \in DOMAIN tree /\ Empty(n) /\ Opens(Up(n))
         THEN /\ tree' = Without(n) /\ exit' = exit
              /\ IF req[p].cmd = "rmdir -p" /\ Len(n) > 1
                 THEN l' = [l EXCEPT ![p].up = Up(n)] /\ UNCHANGED pc
                 ELSE NextOperand(p)
         ELSE /\ tree' = tree /\ Status(p, TRUE) /\ NextOperand(p)
      /\ UNCHANGED <<scene, um>>

(* The other program. *)
Flap ==
  /\ \E n \in Flapping :
       \/ Free(n) /\ tree' = With(n, "open")
       \/ n \in DOMAIN tree /\ Empty(n) /\ tree' = Without(n)
  /\ UNCHANGED <<scene, l, um, pc, exit>>

Step(p) ==
  \/ Operand(p) \/ Mkdir(p) \/ BuildMkdir(p) \/ BuildStat(p) \/ Chmod(p)
  \/ InstallStat(p) \/ InstallMkdir(p) \/ InstallChmod(p) \/ Rmdir(p)
Next == Flap \/ \E p \in Runs : Step(p)

(* A process runs until it exits; nothing is asked of the other program. *)
Spec == Init /\ [][Next]_vars
FairSpec == Spec /\ \A p \in Proc : WF_vars(Step(p))
=============================================================================
