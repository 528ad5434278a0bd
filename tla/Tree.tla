-------------------------------- MODULE Tree --------------------------------
(***************************************************************************)
(* A file tree and the system calls the tools make on it.  A tree t maps   *)
(* names (sequences, <<>> being the directory the tool runs in) to inodes, *)
(* 0 when there is nothing, and inodes to nodes; t.root says whether the   *)
(* tool runs as the superuser.  An operator that tells whether a call is   *)
(* possible stands beside the one that gives the tree after it.            *)
(* Symbolic links are leaves: a name that leads through one leads nowhere. *)
(***************************************************************************)
EXTENDS Naturals, Sequences, FiniteSets

CONSTANTS
  Paths,    \* the names of the tree, closed under prefixes
  Inodes,   \* numbers of the inodes
  Now       \* the time of everything that happens while the tool runs

ASSUME TreeAssumption ==
  /\ Inodes \subseteq Nat \ {0}
  /\ \A p \in Paths : p # <<>> /\ \A n \in 1..Len(p) : SubSeq(p, 1, n) \in Paths

(* u: the owner may read, write and search; s: set-user-id; tag: the other bits *)
Blank == [type |-> "none", u |-> TRUE, s |-> FALSE, tag |-> "", own |-> "me",
          mt |-> 0, at |-> 0, ct |-> 0, data |-> ""]

Up(p)       == SubSeq(p, 1, Len(p) - 1)
Above(p)    == {SubSeq(p, 1, n) : n \in 1..(Len(p) - 1)}
Below(p)    == {q \in Paths : Len(q) > Len(p) /\ SubSeq(q, 1, Len(p)) = p}
There(t, p) == p \in Paths /\ t.ent[p] # 0
Node(t, p)  == t.node[t.ent[p]]
Kids(t, p)  == {q \in Paths : Up(q) = p /\ t.ent[q] # 0}
IsDir(t, p) == p = <<>> \/ (There(t, p) /\ Node(t, p).type = "dir")
Names(t, i) == {p \in Paths : t.ent[p] = i}
Enter(t, p) == p = <<>> \/ (IsDir(t, p) /\ (t.root \/ Node(t, p).u))

(* lstat(p) succeeds; an entry may be made or removed at p *)
Seen(t, p)  == There(t, p) /\ \A a \in Above(p) : Enter(t, a)
Reach(t, p) == p \in Paths /\ (\A a \in Above(p) : Enter(t, a))
CanMake(t, p) == Reach(t, p) /\ t.ent[p] = 0
CanUnlink(t, p) == Seen(t, p) /\ ~ IsDir(t, p)
CanRmdir(t, p)  == Seen(t, p) /\ IsDir(t, p) /\ Kids(t, p) = {}
CanLink(t, to, p) == Seen(t, to) /\ ~ IsDir(t, to) /\ CanMake(t, p)

(* A node changed by chmod, utimes or write: its change time is now. *)
Change(t, p, n) == [t EXCEPT !.node[t.ent[p]] = [n EXCEPT !.ct = Now]]
(* The directory of p has got or lost an entry. *)
Stamp(t, p) == IF Up(p) = <<>> THEN t
               ELSE Change(t, Up(p), [Node(t, Up(p)) EXCEPT !.mt = Now])
Unused(t) == LET free == Inodes \ {t.ent[p] : p \in Paths}
             IN CHOOSE i \in free : \A j \in free : i <= j
(* open(O_CREAT), mkdir, mkfifo, mknod, symlink *)
Make(t, p, n) ==
  LET i == Unused(t) IN
  Stamp([t EXCEPT !.ent[p] = i,
                  !.node[i] = [n EXCEPT !.own = "me", !.s = FALSE, !.mt = Now,
                                        !.at = Now, !.ct = Now]], p)
(* link *)
Link(t, to, p) == Stamp([Change(t, to, Node(t, to)) EXCEPT !.ent[p] = t.ent[to]], p)
(* unlink, rmdir *)
Drop(t, p) ==
  LET i == t.ent[p] IN
  Stamp([t EXCEPT !.ent[p] = 0,
                  !.node[i] = IF Names(t, i) = {p} THEN Blank ELSE @], p)
=============================================================================
