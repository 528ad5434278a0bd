----------------------------- MODULE MoveProps ------------------------------
(***************************************************************************)
(* What mv(1) promises of the data it moves, at every moment and under     *)
(* every failure.                                                          *)
(***************************************************************************)
EXTENDS Move

Alone    == Cardinality(Runs) = 1
Moved(p) == pc[p] = "exit" /\ status[p] = 0
(* All of the source's data is under name n. *)
Holds(n, p) ==
  /\ dir[n] # None
  /\ IF req[p].same THEN dir[n] = There
     ELSE file[dir[n]].of = p /\ file[dir[n]].whole

(* Until mv reports success the source's data is all there, under the source
   or the target name: nothing is removed before its copy is complete, and
   no error path of fastcopy or copy takes both away.  A second mv to the
   same target, or a program creating it, changes nothing about that.       *)
SourceKept ==
  \A p \in Runs : ~ Moved(p) => Holds(p, p) \/ Holds("to", p) \/ Holds("in", p)

(* A move that was not declined and reports success has taken the data to
   the target, and the source name is gone.                                 *)
AloneWhole ==
  Alone => \A p \in Runs : Moved(p) /\ ~ req[p].same =>
    \/ dir[p] = None /\ (Holds("to", p) \/ Holds("in", p))
    \/ req[p].flag # "f" /\ Holds(p, p)     \* declined, or -n

(* While fastcopy fills the target nobody can open it: it has mode 0. *)
PartHidden ==
  \A p \in Runs : ~ file[<<p, "new">>].whole /\ req[p].kind = "reg" =>
    file[<<p, "new">>].mode0 \/ <<p, "new">> \notin {dir[n] : n \in DOMAIN dir}

(* A copy is setuid only when it belongs to whom the source belongs. *)
SuidSafe ==
  \A p \in Runs : req[p].kind = "reg" /\ file[<<p, "new">>].suid =>
    file[<<p, "new">>].own = req[p].own

(* However several moves to one target end, a success of all of them leaves
   the data of one of them there, complete.                                 *)
LastWins ==
  (\A p \in Runs : Moved(p) /\ dir[p] = None) =>
    \E p \in Runs : Holds("to", p) \/ Holds("in", p)

(* What success says, of one move and of several. *)
MovedWhole == AloneWhole /\ LastWins

(* The copy is not readable before it is whole, nor setuid for another owner:
   the order of open, fchown and fchmod in fastcopy.                        *)
CopyGuarded == PartHidden /\ SuidSafe

(* The source's data is whole under one of the names, what success says is
   true, and nobody sees the copy before.                                   *)
DataSafe == SourceKept /\ MovedWhole /\ CopyGuarded

(* A move with -n leaves the file it finds under the target name there, on
   every path through the code.  (Not a symbolic link that leads nowhere,
   which access(2) does not see, nor a file created after it looked.)       *)
NoClobber ==
  [][To = There /\ file[There].kind # "lnk" /\ (\A p \in Runs : req[p].flag = "n")
       => dir'["to"] = There]_vars

(* mv ends, whatever fails and whoever else moves to the target.  The one way
   it goes on for ever is fastcopy's loop of open(O_EXCL) and unlink, which has
   no limit: then another program has created the target anew, again and
   again, between that mv's unlink and its next open.  A program that creates
   the target any number of times but not for ever, or while mv is anywhere
   else, keeps no mv from ending.                                           *)
Recreated(p) == Create1 /\ At(p, "create")
Terminates ==
  \A p \in Proc : <>(p \in Runs => pc[p] = "exit") \/ []<><<Recreated(p)>>_vars
=============================================================================
