--------------------------------- MODULE Rm ---------------------------------
(***************************************************************************)
(* rm and unlink (rm/rm.c): the arguments one by one, or with -r the trees *)
(* they head.  -P, -W and -x are not modelled.                             *)
(***************************************************************************)
EXTENDS Walk

CONSTANTS Slash    \* the argument "/" (the argument "." is the empty name)

RmF    == job.cmd = "rm" /\ On("f", {"i"})
RmI    == job.cmd = "rm" /\ On("i", {"f"})
RmTree == job.cmd = "rm" /\ (Has("r") \/ Has("R"))
Tty    == job.cmd = "rm" /\ job.tty
NeedStat == t.root \/ (~ RmF /\ ~ RmI /\ Tty)

Removable(args) == SelectSeq(args, LAMBDA p : p \notin {<<>>, Slash})

(* -I asks once for everything: directories to go through, or more than three files *)
AsksOnce(args) ==
  LET found == {n \in DOMAIN args : Lstats(t, args[n])}
      dirs  == {n \in found : LstatNode(t, args[n]).type = "dir"}
  IN Has("I") /\ (IF dirs # {} /\ RmTree THEN TRUE ELSE Cardinality(found) > 3)

RmStart ==
  /\ pc = "start" /\ job.cmd \in {"rm", "unlink"}
  /\ LET args == IF job.cmd = "rm" THEN Removable(job.args) ELSE job.args
         stat == IF args = job.args THEN 0 ELSE 1
         begin == /\ pc' = "next" /\ ret' = stat
                  /\ todo' = [n \in DOMAIN args |-> IF RmTree THEN Entry(args[n], 0, FALSE, {})
                                                    ELSE Word(args[n])]
     IN IF job.args = <<>> THEN Exit(IF RmF THEN 0 ELSE Usage)
        ELSE IF job.cmd = "unlink" /\ Len(args) # 1 THEN Exit(Usage)
        ELSE begin \/ (AsksOnce(args) /\ Exit(1))
  /\ UNCHANGED <<t, job, race, cur, work>>

RmDone ==
  /\ pc = "next" /\ job.cmd \in {"rm", "unlink"}
  /\ todo = <<>> /\ (RmTree => Ahead(FALSE) = {<<>>})
  /\ Exit(ret)
  /\ UNCHANGED <<t, job, race, cur, work>>

(* rm_file: one argument, which is no directory unless -d allows it *)
RmFile ==
  /\ pc = "next" /\ job.cmd \in {"rm", "unlink"} /\ ~ RmTree /\ todo # <<>>
  /\ LET e == Entry(Head(todo).path, 0, FALSE, {}) IN
     /\ cur' = e
     /\ IF e.info = "NS" THEN Skip(IF RmF /\ e.err = "noent" THEN ret ELSE 1)
        ELSE IF e.info = "D" /\ ~ Has("d") THEN Skip(1)
        ELSE pc' = (IF RmF THEN "drop" ELSE "check") /\ UNCHANGED ret
  /\ todo' = Tail(todo)
  /\ UNCHANGED <<t, job, race, work>>

(* The superuser clears the flag that keeps the owner from removing a file. *)
Flagged(e) == t.root /\ e.node.tag = "uchg"
Unflag(tr, p) == [tr EXCEPT !.node[tr.ent[Spot(tr, p)]].tag = ""]

(* rm_tree: the next entry of the walk *)
RmRead ==
  /\ pc = "next" /\ job.cmd = "rm" /\ RmTree
  /\ \E s \in Ahead(FALSE) :
       /\ s # <<>>
       /\ cur' = Head(s) /\ todo' = Tail(s)
       /\ LET e    == Head(s)
              told == IF RmF /\ e.err = "noent" THEN ret ELSE 1
              ask  == pc' = (IF RmF THEN "drop" ELSE "check") /\ UNCHANGED <<t, ret>>
          IN CASE e.info = "DNR" -> Skip(told) /\ UNCHANGED t
               [] e.info = "NS" /\ NeedStat -> Skip(told) /\ UNCHANGED t
               [] e.info = "NS" /\ ~ NeedStat ->
                    IF RmF THEN Skip(ret) /\ UNCHANGED t
                    ELSE pc' = "drop" /\ UNCHANGED <<t, ret>>
               [] e.info = "D" /\ RmI -> pc' = "examine" /\ UNCHANGED <<t, ret>>
               [] e.info = "D" /\ ~ RmI ->
                    /\ Skip(ret)
                    /\ t' = IF Flagged(e) /\ Lstats(t, e.path) THEN Unflag(t, e.path) ELSE t
               [] e.info = "DP" /\ e.num -> Skip(ret) /\ UNCHANGED t
               [] OTHER -> ask
  /\ UNCHANGED <<job, race, work>>

(* checkdir: shall the directory be gone through?  If not it stays, *)
(* and what is in it.                                                      *)
RmExamine ==
  /\ pc = "examine" /\ pc' = "next"
  /\ \/ /\ cur' = [cur EXCEPT !.skip = TRUE, !.num = TRUE]
        /\ no' = no \cup {cur.path} \cup Below(cur.path)
        /\ UNCHANGED t
     \/ /\ t' = IF Flagged(cur) /\ Lstats(t, cur.path) THEN Unflag(t, cur.path) ELSE t
        /\ UNCHANGED <<cur, no>>
  /\ UNCHANGED <<job, race, todo, to, ret, seen, got, fd, root>>

(* check: -i asks always; without it a file that cannot be written is      *)
(* asked about when somebody is there to answer                            *)
Asked ==
  LET n == StatNode(t, cur.path) IN
  IF RmI THEN TRUE
  ELSE IF ~ Tty \/ cur.node.type = "link" THEN FALSE
  ELSE ~ (Stats(t, cur.path) /\ (t.root \/ n.u)) \/ (cur.node.tag = "uchg" /\ ~ t.root)

RmCheck ==
  /\ pc = "check"
  /\ \/ pc' = "drop" /\ UNCHANGED no
     \/ Asked /\ pc' = "next" /\ no' = no \cup {cur.path}
  /\ UNCHANGED <<t, job, race, todo, cur, to, ret, seen, got, fd, root>>

(* Mutant: the directory goes although something has come into it. *)
RmDropAll ==
  /\ pc = "drop" /\ job.cmd \in {"rm", "unlink"} /\ pc' = "next"
  /\ t' = IF Seen(t, Spot(t, cur.path)) THEN Drop(t, Spot(t, cur.path)) ELSE t
  /\ UNCHANGED <<job, race, todo, cur, ret, work>>

(* unlink or rmdir, of whatever the name denotes by now *)
RmDrop ==
  /\ pc = "drop" /\ job.cmd \in {"rm", "unlink"} /\ pc' = "next"
  /\ LET p  == cur.path
         t1 == IF Flagged(cur) /\ Lstats(t, p) THEN Unflag(t, p) ELSE t
         ok == IF cur.node.type = "dir" THEN MayRmdir(t1, p) ELSE MayUnlink(t1, p)
     IN /\ t' = IF ok THEN Drop(t1, Spot(t1, p)) ELSE t1
        /\ ret' = IF ok \/ (RmF /\ ~ Lstats(t, p) /\ Errno(t, p) = "noent") THEN ret ELSE 1
  /\ UNCHANGED <<job, race, todo, cur, work>>

RmNext == RmStart \/ RmDone \/ RmFile \/ RmRead \/ RmExamine \/ RmCheck \/ RmDrop
=============================================================================
