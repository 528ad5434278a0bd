---------------------------- MODULE PaxTreeProps ----------------------------
(***************************************************************************)
(* What pax leaves in the tree when it extracts or copies.                 *)
(***************************************************************************)
EXTENDS PaxTree

Over  == pc = "done"
Clean == Over /\ ~ sig /\ rv = 0
Asked == {"u", "D", "Y", "Z", "k"} \cap sc.opt
(* The members in the tree that nothing put there later has replaced. *)
Last == {i \in DOMAIN log : \A j \in DOMAIN log : log[j].name = log[i].name => j <= i}
Logged(p) == \E i \in DOMAIN log : log[i].name = p
Made(p) == Logged(p) \/ \E c \in Below(p) : Logged(c)
Old0(p) == sc.tree.ent[p] # 0

(* Every variable keeps its type. *)
TypeOK ==
  /\ tree.ent \in [Paths -> Inodes \cup {0}]
  /\ \A p \in Paths : There(tree, p) => Node(tree, p).type \in {"dir", "reg", "slk", "fif"}
                                        /\ IsDir(tree, Up(p))
  /\ m.type \in {"none", "dir", "reg", "slk", "fif", "sck"} \cup Links
  /\ rv \in {0, 1} /\ sig \in BOOLEAN /\ skip \in BOOLEAN
  /\ \A i \in DOMAIN tab.dir : tab.dir[i].name \in Paths
  /\ left \in 0..Faults

(* A run that reports success has put each member it kept in the tree under
   the name it was given, of its type, with its data, a link as the same file
   as the name it is a link to; and nothing else has changed.  However names
   are replaced, parents missing, or directories in the way.  At every moment
   what was there stands as far as -k and -u say, and a copy leaves its source
   alone, whatever the options: with -t its files get their times back.     *)
LinkHolds(i) == LET x == log[i] IN
  (\A j \in Last : log[j].name = x.ln => j < i) => tree.ent[x.name] = tree.ent[x.ln]
Holds(i) == LET x == log[i] IN
  /\ There(tree, x.name)
  /\ IF x.type \in Links THEN Node(tree, x.name).type = "slk" \/ LinkHolds(i)
     ELSE Node(tree, x.name).type = x.type /\ (x.type = "dir" \/ Node(tree, x.name).data = x.data)
Untouched(p) == /\ tree.ent[p] = sc.tree.ent[p]
                /\ Old0(p) => Node(tree, p).data = Node(sc.tree, p).data
NothingElse == \A p \in Paths : Made(p) \/ (\E a \in Above(p) : Logged(a)) \/ Untouched(p)
(* Every member that was to be extracted was. *)
Wanted == {i \in DOMAIN sc.from : LET y == sc.from[i] IN
             y.name \notin sc.unsel /\ Subst(y.name) # <<>> /\ y.type # "sck"}
AllTaken == \A i \in Wanted : Logged(sc.from[i].chd \o Subst(sc.from[i].name))
(* symlink(2) that fails is not told (file_subs.c:262). *)
ToSymlink == \E i \in DOMAIN sc.from : sc.from[i].type = "slk"
(* Two copies are one file only when their sources are. *)
NoAlias == Clean /\ Copies /\ ~ Opt("l") /\ {"k", "Y", "Z"} \cap sc.opt = {} =>
  \A i, j \in Last : tree.ent[log[i].name] = tree.ent[log[j].name] => log[i].dev = log[j].dev
(* With -k nothing that was there is removed or written; with -u only what is
   older than the member.                                                   *)
Newest(p) == {sc.from[i].mt : i \in {i \in DOMAIN sc.from : sc.from[i].name = p}}
OldStay ==
  \A p \in Paths : Old0(p) /\ tree.ent[p] # sc.tree.ent[p] =>
    /\ ~ Opt("k")
    /\ Opt("u") /\ ~ Copies /\ sc.subst = <<>> /\ ~ Opt("i") =>
         \E t \in Newest(p) : t > Node(sc.tree, p).mt

(* A copy leaves its source alone, whatever the options, and with -t gives it
   its times back, also when -n leaves a tree early or a signal comes.      *)
Source(p) == ~ (p = sc.dest \/ sc.dest \in Above(p))
Reading(p) == sig /\ m.org # <<>> /\ tree.ent[p] = tree.ent[m.org]
SourceKept ==
  Copies => \A p \in Paths : Source(p) =>
    /\ tree.ent[p] = sc.tree.ent[p]
    /\ Old0(p) => LET n == Node(tree, p)
                      o == Node(sc.tree, p) IN
         /\ [n EXCEPT !.at = o.at, !.ct = o.ct] = o
         /\ Over /\ Opt("t") /\ (sig \/ rv = 0) /\ ~ Reading(p) => n.at = o.at
Placed ==
  /\ Clean => ((\A i \in Last : Holds(i)) /\ NothingElse)
  /\ Clean /\ ~ Copies /\ Asked = {} /\ ~ Opt("i") /\ ~ ToSymlink => AllTaken
  /\ NoAlias /\ OldStay /\ SourceKept

(* However the run ends, by a signal too, the members in the tree have the
   mode, the times and the owner -p asks for; a directory has not kept the
   rights pax gave itself to work in it; and nothing is set-user-id that does
   not belong to whom the archive says.  (Not directories that were stored
   twice, of which proc_dir puts the oldest mode and times last.)           *)
Twice(i) ==
  LET p == log[i].name IN
  \/ \E j \in DOMAIN log \ {i} : log[j].name = p
  \/ \E j \in 1..(i - 1) : p \in Above(log[j].name)      \* made by chk_path before
Dressed(i) ==
  LET y == log[i]
      n == Node(tree, y.name) IN
  /\ Keep("mode") => n.u = y.u /\ n.s = y.s /\ n.tag = y.tag
  /\ Keep("mt") => n.mt = y.mt
  /\ Keep("at") => n.at = y.at
  /\ ~ Keep("mode") /\ y.type = "dir" /\ ~ Old0(y.name) /\ ~ y.u => ~ n.u
AllDressed ==
  Over =>
    \A i \in Last : log[i].type \notin Links \cup {"slk"} /\ ~ Twice(i)
      /\ (rv = 0 \/ (sig /\ ~ AttrFail(tree, log[i].name))) /\ log[i].name # m.name => Dressed(i)     \* the member the signal interrupted
PathRights ==
  Over /\ sc.umask => \A p \in Paths :
    IsDir(tree, p) /\ ~ Old0(p) /\ ~ Logged(p) /\ (sig => p \notin {w.dir, m.name}) /\ (rv = 0 \/ sig)
      => ~ Node(tree, p).u
SetIdSafe ==
  \A i \in Last : LET y == log[i] IN
    y.type \notin Links /\ y.name # m.name /\ There(tree, y.name) /\ Node(tree, y.name).s /\ ~ Old0(y.name) /\ ~ Twice(i)
      => Node(tree, y.name).own = y.own
Attributes == AllDressed /\ PathRights /\ SetIdSafe

(* Every run ends. *)
Terminates == <>Over
=============================================================================
