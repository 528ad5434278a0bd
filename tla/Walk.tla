-------------------------------- MODULE Walk --------------------------------
(***************************************************************************)
(* What rm, ln and cp share: the tree they work on, through symbolic       *)
(* links, the option letters, the walk of fts(3), the person who answers   *)
(* their questions, and another process that changes one entry of the      *)
(* tree at a moment of its own.                                            *)
(*                                                                         *)
(*   t      the file tree                 todo   what is still to be done: *)
(*   job    the command line and what            arguments, or entries of  *)
(*          the command starts from              the walk                  *)
(*   race   what the other process does   cur    the entry in hand         *)
(*   pc     where the tool is             to     the name it makes         *)
(*   ret    its exit status               no     names it was told to keep *)
(*   seen   what lstat found at to        got    the source, as opened     *)
(*   fd     inode of the open target      root   cp's target directory     *)
(***************************************************************************)
EXTENDS Tree, SequencesExt

CONSTANTS
  Goal,     \* the name that the text of a symbolic link stands for,
  Rooted,   \*   from the directory of the link on unless it is one of these
  Text,     \* the text of the link that ln -s makes to a name
  Doubles,  \* for a name "._x", the name x
  Usage     \* the status of a command line that is refused

VARIABLES t, job, race, pc, todo, cur, to, ret, no, seen, got, fd, root
vars == <<t, job, race, pc, todo, cur, to, ret, no, seen, got, fd, root>>
work == <<to, no, seen, got, fd, root>>

NoRoot == [kind |-> "", ino |-> 0, made |-> FALSE, again |-> <<>>]

(* The option x is given, and no letter of by after it. *)
On(x, by) == \E n \in DOMAIN job.opt :
  /\ job.opt[n] = x
  /\ \A m \in (n + 1)..Len(job.opt) : job.opt[m] \notin by
Has(x) == On(x, {})

(* The entry that a name leads to, its last part not followed (Spot) or    *)
(* followed (Real); a link leads on from the directory it stands in.       *)
IsLink(tr, p) == There(tr, p) /\ Node(tr, p).type = "link"
Leads(p, text) == IF text \in Rooted THEN Goal[text] ELSE Up(p) \o Goal[text]
Hop(tr, p)  == IF IsLink(tr, p) THEN Leads(p, Node(tr, p).data) ELSE p
Real(tr, p) == LET f[n \in 0..Len(p)] == IF n = 0 THEN <<>>
                                         ELSE Hop(tr, Append(f[n - 1], p[n]))
               IN f[Len(p)]
Spot(tr, p) == IF p = <<>> THEN p ELSE Append(Real(tr, Up(p)), Last(p))
Stats(tr, p)  == LET r == Real(tr, p) IN r = <<>> \/ (Seen(tr, r) /\ ~ IsLink(tr, r))
Lstats(tr, p) == LET s == Spot(tr, p) IN s = <<>> \/ Seen(tr, s)
StatNode(tr, p)  == IF Stats(tr, p) /\ Real(tr, p) # <<>> THEN Node(tr, Real(tr, p)) ELSE Blank
LstatNode(tr, p) == IF Lstats(tr, p) /\ Spot(tr, p) # <<>> THEN Node(tr, Spot(tr, p)) ELSE Blank
StatDir(tr, p) == Stats(tr, p) /\ IsDir(tr, Real(tr, p))

(* Why lstat fails *)
Errno(tr, p) ==
  LET up == Above(Spot(tr, p)) IN
  IF \E a \in up : IsDir(tr, a) /\ ~ Enter(tr, a) THEN "access"
  ELSE IF \E a \in up : There(tr, a) /\ ~ IsDir(tr, a) THEN "notdir" ELSE "noent"

(* Neither p nor its directory is immutable. *)
Free(tr, p) == \A q \in {p, Up(p)} \ {<<>>} : There(tr, q) => Node(tr, q).tag # "uchg"
MayMake(tr, p)   == CanMake(tr, Spot(tr, p)) /\ Free(tr, Spot(tr, p))
MayUnlink(tr, p) == CanUnlink(tr, Spot(tr, p)) /\ Free(tr, Spot(tr, p))
MayRmdir(tr, p)  == CanRmdir(tr, Spot(tr, p)) /\ Free(tr, Spot(tr, p))
MayLink(tr, s, p) == /\ Seen(tr, s) /\ ~ IsDir(tr, s) /\ Node(tr, s).tag # "uchg"
                     /\ MayMake(tr, p)

(*------------------------------- the walk --------------------------------*)
Word(p) == [path |-> p, info |-> "ARG", lev |-> 0, num |-> FALSE, skip |-> FALSE,
            err |-> "", ino |-> 0, node |-> Blank]

(* fts_stat: an entry of the walk, a symbolic link followed if asked for *)
Entry(p, lev, follow, up) ==
  LET r == IF follow /\ Stats(t, p) THEN Real(t, p) ELSE Spot(t, p)
      n == IF Seen(t, r) THEN Node(t, r) ELSE Blank
  IN [Word(p) EXCEPT
        !.lev = lev, !.node = n, !.ino = IF Seen(t, r) THEN t.ent[r] ELSE 0,
        !.err = IF Seen(t, r) THEN "" ELSE Errno(t, p),
        !.info = IF ~ Seen(t, r) THEN "NS"
                 ELSE IF n.type # "dir" THEN "F"
                 ELSE IF t.ent[r] \in up THEN "DC" ELSE "D"]

(* fts_read: the entries from here on.  A directory is opened when the     *)
(* reading goes on from it, its entries come in any order, then itself     *)
(* again.                                                                  *)
Ahead(follow) ==
  LET d    == Real(t, cur.path)
      up   == {cur.ino} \cup {e.ino : e \in {f \in ToSet(todo) : f.info = "DP"}}
      back == <<[cur EXCEPT !.info = "DP", !.skip = FALSE]>>
  IN IF cur.info # "D" THEN {todo}
     ELSE IF cur.skip THEN {back \o todo}
     ELSE IF ~ (Seen(t, d) /\ Enter(t, d))
          THEN {<<[cur EXCEPT !.info = "DNR",
                              !.err = IF Seen(t, d) THEN "access" ELSE Errno(t, d)]>> \o todo}
     ELSE {[n \in 1..Len(s) |-> Entry(Append(cur.path, Last(s[n])), cur.lev + 1, follow, up)]
             \o back \o todo : s \in SetToSeqs(Kids(t, d))}

Exit(status) == pc' = "over" /\ ret' = status /\ todo' = <<>>
Skip(status) == pc' = "next" /\ ret' = status

(*--------------------------- the other process ---------------------------*)
Race ==
  /\ pc # "over" /\ ~ race.done
  /\ \/ race.kind = "gone" /\ CanUnlink(t, race.at) /\ t' = Drop(t, race.at)
     \/ race.kind = "new" /\ CanMake(t, race.at) /\ t' = Make(t, race.at, race.node)
     \/ race.kind = "swap" /\ CanUnlink(t, race.at)
        /\ t' = Make(Drop(t, race.at), race.at, race.node)
  /\ race' = [race EXCEPT !.done = TRUE]
  /\ UNCHANGED <<job, pc, todo, cur, ret, work>>
=============================================================================
