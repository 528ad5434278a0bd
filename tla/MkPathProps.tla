---------------------------- MODULE MkPathProps -----------------------------
(***************************************************************************)
(* What mkdir(1), install(1) -d and rmdir(1) promise about a tree others   *)
(* work on at the same time.                                               *)
(***************************************************************************)
EXTENDS MkPath

was == scene.tree
Makes(p)   == req[p].cmd \in {"mkdir -p", "install -d"}
Removers   == {p \in Runs : req[p].cmd \in {"rmdir", "rmdir -p"}}
Alone      == Flapping = {} /\ \E p \in Proc : Runs = {p}
OpenTree   == \A n \in DOMAIN was : was[n] # "closed"
InBuild(p) == req[p].cmd = "mkdir -p" /\ pc[p] \in {"mkdir", "stat"}
Exited(p)  == pc[p] = "exit"
(* Only the last slash of a path is followed by its end. *)
OneSlash(path) == Len(path) < 2 \/ path[Len(path)] # Slash \/ path[Len(path) - 1] # Slash

(* Any number of mkdir -p and install -d that build overlapping hierarchies
   at once all succeed, whoever makes which directory, as long as nobody
   removes any and all may be searched: each takes a directory another has
   made for its own.                                                        *)
TogetherSucceed ==
  Flapping = {} /\ Removers = {} /\ Files = {} /\ OpenTree
    /\ (\A p \in Runs : Makes(p) /\ ~ req[p].strict) =>
      \A p \in Runs :
        /\ exit[p] = 0
        /\ \A k \in 1 .. l[p].j - 1 : SeenDir(Node(Argv(p)[k]))

(* A umask that denies the owner his rights does not keep mkdir -p from
   making what is below: only the last directory is made under it.          *)
StrictMakes ==
  Alone /\ Files = {} /\ OpenTree => \A p \in Runs :
    req[p].cmd = "mkdir -p" /\ Len(Argv(p)) = 1 => exit[p] = 0

(* Nothing keeps a maker from making: not the others, not its own umask. *)
MakersSucceed == TogetherSucceed /\ StrictMakes

(* Whatever goes wrong with one operand, the next starts under the umask
   the process came with, and so does the chmod in between.                 *)
UmaskRestored ==
  \A p \in Runs : um[p] = "relaxed" => InBuild(p) /\ ~ l[p].last

(* mkdir -p changes the mode of no directory that was there already. *)
FoundKeepsMode ==
  Alone => \A p \in Runs : req[p].cmd = "mkdir -p" =>
    \A n \in DOMAIN was : n \in DOMAIN tree /\ tree[n] = was[n]

(* What build() makes on its way, not for the operand itself: so it takes
   also a last directory with more than one slash behind it.                *)
OnTheWay(path, n) ==
  IsPrefix(n, Node(path)) /\ (n = Node(path) => ~ OneSlash(path))

(* Operand k of p names a directory that nothing else has made before. *)
MadeFor(p, k) ==
  /\ Node(Argv(p)[k]) \notin DOMAIN was \cup {<< >>}
  /\ \A h \in 1 .. k : ~ OnTheWay(Argv(p)[h], Node(Argv(p)[k]))

(* mkdir -p -m ends with that mode on every directory it has made for an
   operand; one that an operand before it was in is not made for it.        *)
Given(p) ==
  req[p].cmd = "mkdir -p" /\ req[p].m /\ Exited(p) /\ exit[p] = 0 =>
    \A k \in DOMAIN Argv(p) : MadeFor(p, k) =>
      Node(Argv(p)[k]) \in DOMAIN tree /\ tree[Node(Argv(p)[k])] = "given"
ModeGiven == Alone => \A p \in Runs : Given(p)

(* The modes a build leaves: of what it found and of what it was to make. *)
ModesExact == FoundKeepsMode /\ ModeGiven

(* All is made that was asked for, with the modes it was asked for with. *)
MadeRight == MakersSucceed /\ ModesExact

(* Each program ends, although another makes and removes directories in its
   way for ever: install -d looks twice at most.                            *)
Terminates == \A p \in Proc : <>(p \in Runs => Exited(p))
=============================================================================
