------------------------------ MODULE PaxTree -------------------------------
(***************************************************************************)
(* pax as it puts files in the tree: extract() and copy() of ar_subs.c,    *)
(* with the name mapping of pat_rep.c, the traversal of ftree.c, the       *)
(* creation of nodes of file_subs.c and the tables of tables.c (hard links,*)
(* renamed files, directories created, directories read).  A step is at    *)
(* most one call that changes the tree, so that a signal can come between  *)
(* any two: sig_cleanup() then puts modes and times of directories right.  *)
(*                                                                         *)
(*   sc    the scene: options, archive or operands, and the tree           *)
(*   tree  the file tree (module Tree)                                     *)
(*   q     extract: the members still to come; copy: the operands          *)
(*   fts   copy: the directories fts(3) has open, the innermost last       *)
(*   skip  ftree_skip     cwd  where -C has led                            *)
(*   m     the ARCHD of the member     w  the locals of its creation       *)
(*   pc    the place in the program    rv  exit_val     sig  a signal came *)
(*   tab   the tables: lnk (ltab), name (ntab), dir (dirp), at (atab), *)
(*         and ref, the operands something was selected of (refcnt)        *)
(*   log   history: the members that were put in the tree, in order        *)
(***************************************************************************)
EXTENDS Tree

CONSTANTS
  Scenes,   \* the scenes an instance covers
  Faults    \* how many reads or writes of data may fail

VARIABLES sc, tree, q, fts, skip, cwd, m, w, pc, rv, sig, tab, log, left
vars == <<sc, tree, q, fts, skip, cwd, m, w, pc, rv, sig, tab, log, left>>

Opt(o)  == o \in sc.opt          \* a flag letter: u D Y Z k l n d t i
Keep(a) == a \in sc.keep         \* what -p preserves: mode, ids, at, mt
Copies  == sc.op = "copy"
Links   == {"hlk", "hrg"}

NoMember == [name |-> <<>>, org |-> <<>>, ln |-> <<>>, type |-> "none", dev |-> 0,
             nlink |-> 1, u |-> TRUE, s |-> FALSE, tag |-> "", own |-> "me",
             mt |-> 0, at |-> 0, ct |-> 0, data |-> "", chd |-> <<>>]
NoWork == [pass |-> 0, ign |-> FALSE, bad |-> FALSE, force |-> FALSE, soft |-> FALSE,
           back |-> "", dir |-> <<>>, fixed |-> FALSE]

Init ==
  /\ sc \in Scenes
  /\ tree = sc.tree /\ q = sc.from
  /\ fts = <<>> /\ skip = FALSE /\ cwd = <<>>
  /\ m = NoMember /\ w = NoWork
  /\ pc = IF sc.op = "copy" THEN "walk" ELSE "next"
  /\ rv = 0 /\ sig = FALSE
  /\ tab = [lnk |-> {}, name |-> <<>>, dir |-> <<>>, at |-> {}, ref |-> {}]
  /\ log = <<>> /\ left = Faults

(* The place where the next member is fetched. *)
Top == IF Copies THEN "walk" ELSE "next"

---------------------------------------------------------------------------
(* tables.c: hard links                                                    *)

Linked(t, x) == {e \in t.lnk : e.dev = x.dev}
(* chk_lnk: a later link of a file in the table becomes a link to the name
   it was first met under; a first one enters the table.                   *)
LinkType(x) == IF x.type = "reg" THEN "hrg" ELSE "hlk"
ChkLnk(t, x) ==
  IF x.type = "dir" \/ x.nlink <= 1 THEN [t |-> t, x |-> x]
  ELSE IF Linked(t, x) = {}
       THEN [t |-> [t EXCEPT !.lnk = @ \cup {[dev |-> x.dev, name |-> x.name,
                                             nlink |-> x.nlink]}],
             x |-> x]
       ELSE LET e == CHOOSE e \in Linked(t, x) : TRUE
                l == t.lnk \ {e} IN
            [t |-> [t EXCEPT !.lnk = IF e.nlink <= 2 THEN l
                                     ELSE l \cup {[e EXCEPT !.nlink = @ - 1]}],
             x |-> [x EXCEPT !.ln = e.name, !.type = LinkType(x)]]
(* purg_lnk *)
PurgLnk(t, x) ==
  IF x.nlink <= 1 \/ x.type = "dir" \/ x.type \in Links THEN t
  ELSE [t EXCEPT !.lnk = @ \ Linked(t, x)]

(* add_name, sub_name: the names the user gave, by the old ones *)
AddName(t, old, new) == [t EXCEPT !.name = SelectSeq(@, LAMBDA e : e[1] # old) \o <<<<old, new>>>>]
SubName(t, name) ==
  IF \E i \in DOMAIN t.name : t.name[i][1] = name
  THEN (CHOOSE e \in {t.name[i] : i \in DOMAIN t.name} : e[1] = name)[2]
  ELSE name

(* add_dir: mode and times for a created directory, kept for the end *)
AddDir(t, p, x, force) ==
  [t EXCEPT !.dir = Append(@, [name |-> p, u |-> x.u, s |-> x.s, tag |-> x.tag,
                               mt |-> x.mt, at |-> x.at, force |-> force])]

(* add_atdir, get_atdir: times of a directory that is read, for -t *)
AddAtdir(t, p) ==
  IF \E e \in t.at : tree.ent[e.name] = tree.ent[p] THEN t
  ELSE [t EXCEPT !.at = @ \cup {[name |-> p, mt |-> Node(tree, p).mt, at |-> Node(tree, p).at]}]
Atdir(t, p) == {e \in t.at : tree.ent[e.name] = tree.ent[p]}

---------------------------------------------------------------------------
(* file_subs.c: attributes                                                 *)

(* set_pmode, set_ids, set_ftime: whether they fail, which is told, and the tree after *)
AttrFail(t, p) == ~ Seen(t, p) \/ ~ (t.root \/ Node(t, p).own = "me")
SetMode(t, p, x) ==
  IF ~ AttrFail(t, p)
  THEN Change(t, p, [Node(t, p) EXCEPT !.u = x.u, !.s = x.s, !.tag = x.tag]) ELSE t
IdsFail(t, p, x) == AttrFail(t, p) \/ ~ (t.root \/ x.own = "me")
SetIds(t, p, x) ==
  IF IdsFail(t, p, x) THEN t
  ELSE Change(t, p, [Node(t, p) EXCEPT !.own = x.own])
SetTimes(t, p, x, force) ==
  IF ~ AttrFail(t, p)
  THEN LET n == Node(t, p) IN
       Change(t, p, [n EXCEPT !.mt = IF force \/ Keep("mt") THEN x.mt ELSE @,
                              !.at = IF force \/ Keep("at") THEN x.at ELSE @])
  ELSE t
KeepTimes == Keep("mt") \/ Keep("at")
Times(t, p, x) == IF KeepTimes THEN SetTimes(t, p, x, FALSE) ELSE t
(* Mutant: the status counts the warnings. *)
ToldCounts(failed) == IF failed THEN rv + 1 ELSE rv
Told(failed) == IF failed THEN 1 ELSE rv

(* Mode of a node made with the bits of x under the umask. *)
Fresh(x) == [Blank EXCEPT !.type = x.type, !.u = x.u /\ ~ sc.umask,
                          !.tag = "umask", !.data = x.data]

(* unlnk_exist *)
Unlnk(t, p, type) ==
  IF ~ Seen(t, p) THEN [t |-> t, res |-> 0]
  ELSE IF Opt("k") THEN [t |-> t, res |-> 0 - 1]
  ELSE IF CanRmdir(t, p) \/ CanUnlink(t, p) THEN [t |-> Drop(t, p), res |-> 0]
  ELSE IF type = "dir" THEN [t |-> t, res |-> 1] ELSE [t |-> t, res |-> 0 - 1]

---------------------------------------------------------------------------
(* What becomes of a member.                                               *)

Frame == <<sc, q, fts, skip, sig>>
(* on to the next one; told: a warning that makes the status 1 *)
Give(told) == pc' = Top /\ m' = NoMember /\ w' = NoWork /\ rv' = Told(told)

(* -u, -D before the name is changed, -Z, -Y after it: is the file that is
   there as new as the member?                                             *)
Old(a, b, x, p) ==
  /\ Opt(a) \/ Opt(b)
  /\ Seen(tree, p)
  /\ Opt(a) => x.mt <= Node(tree, p).mt
  /\ Opt(b) => x.ct <= Node(tree, p).ct

(* mod_name: -s, then -i; the answers of tty_rename *)
Subst(p) == IF p \in DOMAIN sc.subst THEN sc.subst[p] ELSE p
Answers(p) == IF Opt("i") THEN {p, <<"skip">>, <<"eof">>} \cup sc.names ELSE {p}
Named(t, x, a) ==
  LET old == Subst(x.name)
      lnk == IF x.type \in Links THEN Subst(x.ln) ELSE x.ln
      t2  == IF a # old THEN AddName(t, old, a) ELSE t IN
  [t |-> t2,
   x |-> [x EXCEPT !.name = a, !.ln = IF x.type \in Links /\ Opt("i") THEN SubName(t2, lnk)
                                                                     ELSE lnk]]

(* A directory -C leads to; chdir(2) that fails is told, and the rest goes on. *)
Went == IF m.chd = <<>> THEN cwd ELSE IF IsDir(tree, cwd \o m.chd) THEN cwd \o m.chd ELSE cwd

(* A round of extract() up to the creation of the member. *)
ExtractNext ==
  /\ pc = "next" /\ q # <<>>
  /\ LET c == IF sc.cpio THEN ChkLnk(tab, Head(q)) ELSE [t |-> tab, x |-> Head(q)]
         x == c.x IN
     IF x.name \in sc.unsel \/ Old("u", "D", x, cwd \o x.name)
     THEN Give(FALSE) /\ tab' = c.t /\ q' = Tail(q)
     ELSE \E a \in Answers(Subst(x.name)) :
       IF a = <<"eof">> THEN pc' = "end" /\ tab' = c.t /\ UNCHANGED <<m, w, rv, q>>
       ELSE IF a = <<"skip">> \/ Subst(x.name) = <<>>
       THEN Give(FALSE) /\ tab' = PurgLnk(c.t, x) /\ q' = Tail(q)
       ELSE LET n == Named(c.t, x, a) IN
         /\ tab' = n.t /\ q' = Tail(q)
         /\ IF Old("Z", "Y", n.x, cwd \o n.x.name) THEN Give(FALSE)
            ELSE pc' = "chdir" /\ m' = n.x /\ UNCHANGED <<w, rv>>
  /\ UNCHANGED <<sc, fts, skip, sig, tree, cwd, log, left>>

ExtractChdir ==
  /\ pc = "chdir"
  /\ cwd' = Went /\ rv' = IF m.chd # <<>> /\ Went = cwd THEN 1 ELSE rv
  /\ m' = [m EXCEPT !.name = Went \o m.name,
                    !.ln = IF m.type \in Links THEN Went \o m.ln ELSE m.ln]
  /\ pc' = IF m.type \in Links THEN "link" ELSE IF m.type = "reg" THEN "file" ELSE "node"
  /\ UNCHANGED <<Frame, tree, w, tab, log, left>>

ExtractEnd ==
  /\ pc = "next" /\ q = <<>>
  /\ pc' = "end"
  /\ UNCHANGED <<Frame, tree, cwd, m, w, rv, tab, log, left>>

---------------------------------------------------------------------------
(* ftree.c: next_file() and a round of copy() up to the creation           *)

Inner   == fts[Len(fts)]
Outer   == SubSeq(fts, 1, Len(fts) - 1)
Level(p, kids, read) == [dir |-> p, left |-> kids, read |-> read]

(* ftree_arg: the next operand, when the last is done or -n is through with it *)
NextOperand ==
  /\ pc = "walk" /\ (skip \/ fts = <<>>)
  /\ skip' = FALSE
  /\ IF q = <<>> THEN pc' = "end" /\ fts' = <<>> /\ UNCHANGED q
     ELSE q' = Tail(q) /\ fts' = <<Level(Head(q), {Head(q)}, TRUE)>> /\ UNCHANGED pc
  /\ UNCHANGED <<sc, sig, tree, cwd, m, w, rv, tab, log, left>>

(* fts reads a directory it has reported *)
ReadDir ==
  /\ pc = "walk" /\ ~ skip /\ fts # <<>> /\ ~ Inner.read
  /\ IF Enter(tree, Inner.dir)
     THEN /\ fts' = Outer \o <<Level(Inner.dir, Kids(tree, Inner.dir), TRUE)>>
          /\ tree' = [tree EXCEPT !.node[tree.ent[Inner.dir]].at = Now]
          /\ UNCHANGED rv
     ELSE fts' = Outer /\ rv' = 1 /\ UNCHANGED tree                \* FTS_DNR
  /\ UNCHANGED <<sc, q, skip, sig, cwd, m, w, pc, tab, log, left>>

(* FTS_DP: all below has been seen; -t puts the times back *)
LeaveDir ==
  /\ pc = "walk" /\ ~ skip /\ fts # <<>> /\ Inner.read /\ Inner.left = {}
  /\ fts' = Outer
  /\ IF Len(fts) > 1 /\ Opt("t") /\ Atdir(tab, Inner.dir) # {}
     THEN LET e == CHOOSE e \in Atdir(tab, Inner.dir) : TRUE IN
          tree' = SetTimes(tree, Inner.dir, e, TRUE) /\ tab' = [tab EXCEPT !.at = @ \ {e}]
     ELSE UNCHANGED <<tree, tab>>
  /\ UNCHANGED <<sc, q, skip, sig, cwd, m, w, pc, rv, log, left>>

(* The ARCHD of a file that is read *)
Archd(p) ==
  LET n == Node(tree, p) IN
  [NoMember EXCEPT !.name = p, !.org = p, !.type = n.type, !.dev = tree.ent[p],
     !.nlink = Cardinality(Names(tree, tree.ent[p])), !.u = n.u, !.s = n.s, !.tag = n.tag,
     !.own = n.own, !.mt = n.mt, !.at = n.at, !.ct = n.ct, !.data = n.data]
(* chk_same: is the copy to be left out, and is that told? *)
SameFile(x) == Seen(tree, x.name) /\ tree.ent[x.name] = x.dev

Route(x) == IF x.type \in Links THEN "link" ELSE IF x.type = "reg" THEN "file" ELSE "node"

CopyNext ==
  /\ pc = "walk" /\ ~ skip /\ fts # <<>> /\ Inner.read
  /\ \E p \in Inner.left :
     LET here  == Outer \o <<[Inner EXCEPT !.left = @ \ {p}]>>
         into  == IF IsDir(tree, p) THEN here \o <<Level(p, {}, FALSE)>> ELSE here
         past  == IF IsDir(tree, p) THEN here \o <<Level(p, {}, TRUE)>> ELSE here  \* FTS_SKIP
         tab1  == IF Opt("t") /\ IsDir(tree, p) THEN AddAtdir(tab, p) ELSE tab
         x     == Archd(p) IN
     IF ~ Seen(tree, p) THEN Give(TRUE) /\ fts' = here /\ UNCHANGED <<skip, tab>>  \* FTS_NS
     ELSE IF p \in sc.unsel THEN Give(FALSE) /\ fts' = past /\ tab' = tab1 /\ UNCHANGED skip
     ELSE IF Old("u", "D", x, sc.dest \o p)
     THEN Give(FALSE) /\ fts' = into /\ tab' = tab1 /\ UNCHANGED skip
     ELSE LET c == ChkLnk([tab1 EXCEPT !.ref = @ \cup {fts[1].dir}], x) IN
       /\ skip' = Opt("n")
       /\ fts' = IF Opt("d") THEN past ELSE into
       /\ \E a \in Answers(Subst(p)) :
         IF a = <<"eof">> THEN pc' = "end" /\ tab' = c.t /\ UNCHANGED <<m, w, rv>>
         ELSE IF a = <<"skip">> \/ Subst(p) = <<>>
         THEN Give(FALSE) /\ tab' = PurgLnk(c.t, c.x)
         ELSE LET n == Named(c.t, c.x, a)
                  y == [n.x EXCEPT !.name = sc.dest \o @,
                                   !.ln = IF n.x.type \in Links THEN sc.dest \o @ ELSE @] IN
           /\ tab' = n.t
           /\ IF \/ Old("Z", "Y", y, y.name)
                 \/ ~ Opt("l") /\ Seen(tree, y.name) /\ Opt("k")
              THEN Give(FALSE)
              ELSE IF ~ Opt("l") /\ SameFile(y) THEN Give(TRUE)
              ELSE /\ m' = y /\ UNCHANGED rv
                   /\ IF Opt("l") /\ y.type \notin {"dir", "slk"}
                      THEN pc' = "mklink" /\ w' = [w EXCEPT !.soft = TRUE]    \* cross_lnk
                      ELSE pc' = Route(y) /\ UNCHANGED w
  /\ UNCHANGED <<sc, q, sig, tree, cwd, log, left>>

---------------------------------------------------------------------------
(* file_subs.c: creation                                                   *)

(* The member is in the tree, or is given up. *)
Done(told) == log' = Append(log, m) /\ Give(told) /\ UNCHANGED tab
Fail(told) == Give(told) /\ tab' = PurgLnk(tab, m) /\ UNCHANGED log
(* A call failed: chk_path, then back to the place that tried. *)
Path(back) ==
  /\ pc' = "path" /\ w' = [w EXCEPT !.back = back, !.fixed = FALSE]
  /\ UNCHANGED <<m, rv, tab, log>>
To(place) == pc' = place /\ UNCHANGED <<m, w, rv, tab, log>>

(* chk_path, one missing directory at a time; nothing fixed is a failure *)
Missing == {a \in Above(m.name) : ~ Seen(tree, a)}
PathFails == IF w.soft /\ w.back = "mklink2" THEN To(Route(m)) ELSE Fail(TRUE)
(* Mutant: try again whether something was fixed or not. *)
PathMakeAgain ==
  /\ pc = "path"
  /\ IF Missing = {} \/ ~ \E a \in Missing : CanMake(tree, a)
     THEN /\ IF Missing = {} THEN To(w.back) ELSE PathFails
          /\ UNCHANGED tree
     ELSE LET a == CHOOSE a \in Missing : CanMake(tree, a) IN
          /\ tree' = Make(tree, a, Fresh([NoMember EXCEPT !.type = "dir"]))
          /\ w' = [w EXCEPT !.dir = a, !.fixed = TRUE]
          /\ pc' = "pathids"
          /\ UNCHANGED <<m, rv, tab, log>>
  /\ UNCHANGED <<Frame, cwd, left>>
PathMake ==
  /\ pc = "path"
  /\ IF Missing = {} \/ ~ \E a \in Missing : CanMake(tree, a)
     THEN /\ IF w.fixed /\ Missing = {} THEN To(w.back) ELSE PathFails
          /\ UNCHANGED tree
     ELSE LET a == CHOOSE a \in Missing : CanMake(tree, a) IN
          /\ tree' = Make(tree, a, Fresh([NoMember EXCEPT !.type = "dir"]))
          /\ w' = [w EXCEPT !.dir = a, !.fixed = TRUE]
          /\ pc' = "pathids"
          /\ UNCHANGED <<m, rv, tab, log>>
  /\ UNCHANGED <<Frame, cwd, left>>
PathIds ==
  /\ pc = "pathids"
  /\ tree' = IF Keep("ids") THEN SetIds(tree, w.dir, m) ELSE tree
  /\ rv' = Told(Keep("ids") /\ IdsFail(tree, w.dir, m))
  /\ pc' = IF Enter(tree, w.dir) THEN "path" ELSE "pathforce"
  /\ UNCHANGED <<Frame, cwd, m, w, tab, log, left>>
PathForce ==
  /\ pc = "pathforce"
  /\ tree' = SetMode(tree, w.dir, [Node(tree, w.dir) EXCEPT !.u = TRUE])
  /\ To("pathadd")
  /\ UNCHANGED <<Frame, cwd, left>>
PathAdd ==
  /\ pc = "pathadd"
  /\ tab' = AddDir(tab, w.dir, [Node(tree, w.dir) EXCEPT !.u = FALSE], TRUE)
  /\ pc' = "path"
  /\ UNCHANGED <<Frame, tree, cwd, m, w, rv, log, left>>

(* lnk_creat *)
LinkCreate ==
  /\ pc = "link"
  /\ IF ~ Seen(tree, m.ln) \/ IsDir(tree, m.ln) THEN Fail(TRUE) /\ UNCHANGED tree
     ELSE IF Node(tree, m.ln).type = "slk"
     THEN IF CanMake(tree, m.name) THEN tree' = Make(tree, m.name, Node(tree, m.ln)) /\ Done(FALSE)
                                   ELSE Fail(FALSE) /\ UNCHANGED tree
     ELSE To("mklink") /\ UNCHANGED tree
  /\ UNCHANGED <<Frame, cwd, left>>
(* mk_link: what is under the name goes, then the link is made *)
LinkTo == IF w.soft THEN m.org ELSE m.ln
MkLinkRemove ==
  /\ pc = "mklink"
  /\ IF ~ Seen(tree, m.name) THEN To("mklink2") /\ UNCHANGED tree
     ELSE IF Opt("k") THEN Give(FALSE) /\ UNCHANGED <<tree, tab, log>>
     ELSE IF tree.ent[LinkTo] = tree.ent[m.name]
     THEN UNCHANGED tree /\ IF w.soft THEN Give(TRUE) /\ UNCHANGED <<tab, log>> ELSE Fail(TRUE)
     ELSE IF IsDir(tree, m.name) /\ ~ CanRmdir(tree, m.name)
     THEN UNCHANGED tree /\ IF w.soft THEN Give(TRUE) /\ UNCHANGED <<tab, log>> ELSE Fail(TRUE)
     ELSE tree' = Drop(tree, m.name) /\ To("mklink2")
  /\ UNCHANGED <<Frame, cwd, left>>
MkLink ==
  /\ pc = "mklink2"
  /\ IF CanLink(tree, LinkTo, m.name)
     THEN tree' = Link(tree, LinkTo, m.name) /\ Done(FALSE)
     ELSE Path("mklink2") /\ UNCHANGED tree
  /\ UNCHANGED <<Frame, cwd, left>>

(* copy() opens the source; file_creat: open with O_EXCL; then without what is there; then with chk_path *)
FileOpen ==
  /\ pc = "file"
  /\ IF Copies /\ ~ (tree.root \/ Node(tree, m.org).u) THEN Fail(TRUE) /\ UNCHANGED tree
     ELSE IF CanMake(tree, m.name)
     THEN tree' = Make(tree, m.name, Fresh([m EXCEPT !.data = "empty"])) /\ To("data")
     ELSE LET u == Unlnk(tree, m.name, m.type) IN
          tree' = u.t /\ IF u.res < 0 THEN Fail(~ Opt("k")) ELSE To("reopen")
  /\ UNCHANGED <<Frame, cwd, left>>
FileReopen ==
  /\ pc = "reopen"
  /\ IF CanMake(tree, m.name)
     THEN tree' = Make(tree, m.name, Fresh([m EXCEPT !.data = "empty"])) /\ To("data")
     ELSE Path("reopen") /\ UNCHANGED tree
  /\ UNCHANGED <<Frame, cwd, left>>
(* rd_wrfile or cp_file; a failure leaves a part and is told *)
ReadSource(t) == IF Copies THEN [t EXCEPT !.node[t.ent[m.org]].at = Now] ELSE t
(* Mutant: a failed write is not told. *)
FileDataQuiet ==
  /\ pc = "data"
  /\ \E ok \in {b \in BOOLEAN : b \/ left > 0} :
     /\ left' = IF ok THEN left ELSE left - 1
     /\ rv' = rv
     /\ tree' = ReadSource(Change(tree, m.name, [Node(tree, m.name) EXCEPT
                   !.data = IF ok THEN m.data ELSE "part", !.mt = Now]))
  /\ pc' = "fileids"
  /\ UNCHANGED <<Frame, cwd, m, w, tab, log>>
FileData ==
  /\ pc = "data"
  /\ \E ok \in {b \in BOOLEAN : b \/ left > 0} :
     /\ left' = IF ok THEN left ELSE left - 1
     /\ rv' = IF ok THEN rv ELSE 1
     /\ tree' = ReadSource(Change(tree, m.name, [Node(tree, m.name) EXCEPT
                   !.data = IF ok THEN m.data ELSE "part", !.mt = Now]))
  /\ pc' = "fileids"
  /\ UNCHANGED <<Frame, cwd, m, w, tab, log>>

(* Owner, mode, times: file_close and the end of node_creat. Without the owner
   no set-id bits.                                                          *)
Ids(place) ==
  /\ tree' = IF Keep("ids") THEN SetIds(tree, m.name, m) ELSE tree
  /\ rv' = Told(Keep("ids") /\ IdsFail(tree, m.name, m))
  /\ m' = IF m.type # "slk" /\ (~ Keep("mode") \/ ~ Keep("ids") \/ IdsFail(tree, m.name, m))
          THEN [m EXCEPT !.s = FALSE] ELSE m
  /\ pc' = place
  /\ UNCHANGED <<Frame, cwd, w, tab, log, left>>
Modes(place) ==
  /\ tree' = IF Keep("mode") THEN SetMode(tree, m.name, m) ELSE tree
  /\ rv' = Told(Keep("mode") /\ AttrFail(tree, m.name))
  /\ pc' = place
  /\ UNCHANGED <<Frame, cwd, m, w, tab, log, left>>
FileIds  == pc = "fileids" /\ Ids("filemode")
FileMode == pc = "filemode" /\ Modes("filetime")
FileTime ==
  /\ pc = "filetime"
  /\ tree' = Times(tree, m.name, m)
  /\ cwd' = IF m.chd # <<>> THEN <<>> ELSE cwd      \* fdochdir, only for a file with data
  /\ LET told == KeepTimes /\ AttrFail(tree, m.name) IN
     IF Copies THEN pc' = "close" /\ rv' = Told(told) /\ UNCHANGED <<m, w, tab, log>>
               ELSE Done(told)
  /\ UNCHANGED <<Frame, left>>
(* rdfile_close: -t gives the source its times back *)
FileClose ==
  /\ pc = "close"
  /\ tree' = IF Opt("t") THEN SetTimes(tree, m.org, m, TRUE) ELSE tree
  /\ Done(Opt("t") /\ AttrFail(tree, m.org))
  /\ UNCHANGED <<Frame, cwd, left>>

(* node_creat *)
NodeMake ==
  /\ pc = "node"
  /\ IF m.type = "sck" THEN Fail(FALSE) /\ UNCHANGED tree
     ELSE IF CanMake(tree, m.name) THEN tree' = Make(tree, m.name, Fresh(m)) /\ To("nodeids")
     ELSE IF m.type = "dir" /\ w.ign THEN To("nodeids") /\ UNCHANGED tree
     ELSE LET u == Unlnk(tree, m.name, m.type) IN
       /\ tree' = u.t
       /\ IF u.res < 0 THEN Fail(~ Opt("k"))
          ELSE /\ w' = [w EXCEPT !.ign = (u.res = 1), !.pass = 1, !.back = "node", !.fixed = FALSE]
               /\ pc' = IF w.pass = 0 THEN "node" ELSE "path"
               /\ UNCHANGED <<m, rv, tab, log>>
  /\ UNCHANGED <<Frame, cwd, left>>
NodeIds ==
  /\ pc = "nodeids"
  /\ Ids(IF m.type = "slk" THEN "nodedone" ELSE "nodemode")
NodeMode == pc = "nodemode" /\ Modes(IF m.type = "dir" THEN "nodeforce" ELSE "nodetime")
(* A directory pax could not work in gets the owner's rights for the run. *)
NodeForce ==
  /\ pc = "nodeforce"
  /\ LET n == Node(tree, m.name) IN
     IF ~ Enter(tree, m.name)
     THEN /\ tree' = SetMode(tree, m.name, [n EXCEPT !.u = TRUE])
          /\ m' = IF Keep("mode") THEN m ELSE [m EXCEPT !.u = n.u, !.s = n.s, !.tag = n.tag]
          /\ pc' = "nodeadd" /\ w' = [w EXCEPT !.force = TRUE]
          /\ rv' = Told(AttrFail(tree, m.name))
     ELSE /\ pc' = IF sc.keep \cap {"mode", "at", "mt"} = {} THEN "nodetime" ELSE "nodeadd"
          /\ UNCHANGED <<tree, m, w, rv>>
  /\ UNCHANGED <<Frame, cwd, tab, log, left>>
(* Mutant: the forced mode is put back only when modes are preserved. *)
NodeAddUnforced ==
  /\ pc = "nodeadd"
  /\ tab' = AddDir(tab, m.name, m, FALSE)
  /\ pc' = "nodetime"
  /\ UNCHANGED <<Frame, tree, cwd, m, w, rv, log, left>>
NodeAdd ==
  /\ pc = "nodeadd"
  /\ tab' = AddDir(tab, m.name, m, w.force)
  /\ pc' = "nodetime"
  /\ UNCHANGED <<Frame, tree, cwd, m, w, rv, log, left>>
NodeTime ==
  /\ pc \in {"nodetime", "nodedone"}
  /\ tree' = IF pc = "nodetime" THEN Times(tree, m.name, m) ELSE tree
  /\ Done(pc = "nodetime" /\ KeepTimes /\ AttrFail(tree, m.name))
  /\ UNCHANGED <<Frame, cwd, left>>

---------------------------------------------------------------------------
(* The end, and sig_cleanup()                                              *)

Signal ==
  /\ pc \notin {"proc", "atend", "done"} /\ sc.sig
  /\ sig' = TRUE /\ pc' = "proc"
  /\ UNCHANGED <<sc, q, fts, skip, tree, cwd, m, w, rv, tab, log, left>>
(* sigprocmask: from here on no signal *)
Finish == pc = "end" /\ To("proc") /\ UNCHANGED <<Frame, tree, cwd, left>>
(* proc_dir: the stored modes and times, the last stored first *)
ProcDir ==
  /\ pc = "proc" /\ tab.dir # <<>>
  /\ LET e == tab.dir[Len(tab.dir)]
         t == IF Keep("mode") \/ e.force THEN SetMode(tree, e.name, e) ELSE tree IN
     /\ tree' = Times(t, e.name, e)
     /\ rv' = Told(AttrFail(tree, e.name) /\ (Keep("mode") \/ e.force \/ KeepTimes))
  /\ tab' = [tab EXCEPT !.dir = SubSeq(@, 1, Len(@) - 1)]
  /\ UNCHANGED <<Frame, cwd, m, w, pc, log, left>>
ProcEnd ==
  /\ pc = "proc" /\ tab.dir = <<>>
  /\ pc' = "atend"
  /\ UNCHANGED <<Frame, tree, cwd, m, w, rv, tab, log, left>>
(* ftree_chk, or the end of sig_cleanup: atdir_end, and operands not selected *)
AtdirEnd ==
  /\ pc = "atend"
  /\ IF Opt("t") /\ tab.at # {}
     THEN \E e \in tab.at : /\ tree' = SetTimes(tree, e.name, e, TRUE)
                            /\ tab' = [tab EXCEPT !.at = @ \ {e}]
                            /\ UNCHANGED <<pc, rv>>
     ELSE /\ pc' = "done" /\ UNCHANGED <<tree, tab>>
          /\ rv' = IF Copies /\ ~ sig /\ \E i \in DOMAIN sc.from : sc.from[i] \notin tab.ref
                   THEN 1 ELSE rv
  /\ UNCHANGED <<Frame, cwd, m, w, log, left>>

Fetch  == ExtractNext \/ ExtractChdir \/ ExtractEnd \/ NextOperand \/ ReadDir \/ LeaveDir \/ CopyNext
Create == \/ PathMake \/ PathIds \/ PathForce \/ PathAdd \/ LinkCreate \/ MkLinkRemove \/ MkLink
          \/ FileOpen \/ FileReopen \/ FileData \/ FileIds \/ FileMode \/ FileTime \/ FileClose
          \/ NodeMake \/ NodeIds \/ NodeMode \/ NodeForce \/ NodeAdd \/ NodeTime
End    == Finish \/ ProcDir \/ ProcEnd \/ AtdirEnd
Pax    == Fetch \/ Create \/ End
Next   == Pax \/ Signal
Spec     == Init /\ [][Next]_vars
FairSpec == Spec /\ WF_vars(Pax)
=============================================================================
