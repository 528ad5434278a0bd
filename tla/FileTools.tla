------------------------------ MODULE FileTools -----------------------------
(***************************************************************************)
(* One of rm, ln and cp at work on a tree, beside another process.         *)
(***************************************************************************)
EXTENDS Rm, Ln, Cp

CONSTANT Jobs      \* the command lines, each with its tree and the other process

NoEntry == Word(<<>>)

Init ==
  /\ job \in Jobs
  /\ t = job.was /\ race = job.race
  /\ pc = "start" /\ todo = <<>> /\ cur = NoEntry /\ to = <<>>
  /\ ret = 0 /\ no = {} /\ seen = Blank /\ got = Blank /\ fd = 0 /\ root = NoRoot

Next == RmNext \/ LnNext \/ CpNext \/ Race
Rest == pc = "over" /\ UNCHANGED vars
Spec == Init /\ [][Next \/ Rest]_vars

-----------------------------------------------------------------------------
(***************************************************************************)
(* What rm, ln and cp do to a tree and what they leave alone.              *)
(***************************************************************************)

Over    == pc = "over"
Was     == job.was
Old(p)  == There(Was, p)
Found(p) == IF There(t, p) THEN Node(t, p) ELSE Blank
Is(cmd) == job.cmd = cmd
Removes == job.cmd \in {"rm", "unlink"}
Links   == job.cmd \in {"ln", "link"}
Copies  == Is("cp")
Args    == ToSet(job.args) \ {Slash}
Hit(p)  == race.done /\ p = race.at
Like(n, o) == [n EXCEPT !.mt = o.mt, !.at = o.at, !.ct = o.ct] = o

(* What rm is to remove, and the name that each source of ln is to have. *)
RmNames == IF Is("rm") THEN Removable(job.args) ELSE job.args
RmAll(arg) == {Spot(Was, arg)} \cup (IF RmTree THEN Below(Spot(Was, arg)) ELSE {})
InDir(dst) == LET d == Real(Was, dst) IN IsDir(Was, d)
LnTarget(src) ==
  IF ~ LnDirOff /\ (Into \/ (~ LnH /\ InDir(LnDst)) \/ IsDir(Was, Spot(Was, LnDst)))
  THEN Spot(Was, Append(LnDst, Last(src))) ELSE Spot(Was, LnDst)
LnNames == IF Len(job.args) < 2 THEN job.args ELSE Front(job.args)
LnSources == ToSet(LnNames)
LnOrig(src) == IF LnP THEN Spot(Was, src) ELSE Real(Was, src)

(* What cp is to copy: for the n-th source the names x below it that the walk
   comes to, each with its origin and its destination.  What is already under
   the name of its own copy a source copied into itself leaves out.         *)
CpTarget(src, rest) ==
  IF InDir(Target) THEN Real(Was, Target) \o <<Last(src)>> \o rest
  ELSE Spot(Was, Target) \o rest
Rests == UNION {{SubSeq(p, n, Len(p)) : n \in 1..(Len(p) + 1)} : p \in Paths}
Through(k) == Logical \/ (ComFollow /\ k = 0)
Walked(src) ==
  LET own == CpTarget(src, <<>>) IN
  {x \in Rests :
     /\ src \o x \in Paths
     /\ Lstats(Was, src \o x)
     /\ x # <<>> => CpR /\ ~ IsPrefix(own, Spot(Was, src \o x))
     /\ \A k \in 0..(Len(x) - 1) :
          Through(k) \/ ~ IsLink(Was, Spot(Was, src \o SubSeq(x, 1, k)))
     /\ ~ (x # <<>> /\ Last(x) \in DOMAIN Doubles /\ (CpP \/ ~ Has("X"))
             /\ Lstats(Was, Append(Up(src \o x), Doubles[Last(x)])))}
Wanted    == UNION {{<<n, x>> : x \in Walked(Sources[n])} : n \in DOMAIN Sources}
From(e)   == Sources[e[1]] \o e[2]
Dest(e)   == CpTarget(Sources[e[1]], e[2])
Orig(e)   == IF Through(Len(e[2])) THEN StatNode(Was, From(e)) ELSE LstatNode(Was, From(e))
Origin(e) == IF Orig(e).type = "link" THEN Spot(Was, From(e)) ELSE Real(Was, From(e))
(* An existing target is opened and written, so that a symbolic link there,
   found or copied there from an earlier source, is followed.               *)
Behind(e, all) ==
  IF Orig(e).type \in {"link", "dir"} \/ Linking \/ Clones THEN {}
  ELSE {Real(Was, Dest(e))} \cup
       {Leads(Dest(e), Orig(f).data) :
          f \in {g \in all : g[1] < e[1] /\ Orig(g).type = "link" /\ Dest(g) = Dest(e)}}
OneFile(p, q) == p = q \/ (There(Was, p) /\ There(Was, q) /\ Was.ent[p] = Was.ent[q])
(* The copies that may write on the file that p was. *)
Onto(p, all) == {e \in all : \E q \in Behind(e, all) \cup {Dest(e)} : OneFile(p, q)}

(* The names a command is about, and how often it is about one; and what the
   links lead to that cp follows.                                           *)
Scope ==
  LET dst == Real(Was, Target)
  IN IF job.args = <<>> THEN {}
     ELSE IF Removes THEN UNION {RmAll(p) : p \in ToSet(RmNames)}
     ELSE IF Links THEN {LnTarget(p) : p \in LnSources}
     ELSE {dst, Spot(Was, Target)} \cup Below(dst)
Followed == IF Copies THEN LET all == Wanted IN UNION {Behind(e, all) : e \in all} ELSE {}
Times(p) ==
  IF Removes THEN {n \in DOMAIN RmNames : p \in RmAll(RmNames[n])}
  ELSE IF Links THEN {n \in DOMAIN LnNames : LnTarget(LnNames[n]) = p}
  ELSE Onto(p, Wanted)
Once(p) == Cardinality(Times(p)) < 2

(* Every variable keeps its type, and the tree is a tree. *)
TypeOK ==
  /\ t.ent \in [Paths -> Inodes \cup {0}]
  /\ \A p \in Paths : t.ent[p] # 0 =>
       /\ Node(t, p).type \in {"dir", "file", "link", "fifo", "dev", "sock"}
       /\ IsDir(t, Up(p))
       /\ Node(t, p).type = "dir" => Names(t, t.ent[p]) = {p}
  /\ pc \in {"start", "next", "examine", "check", "drop", "clear", "link",
             "leave", "make", "place", "fill", "finish", "over"}
  /\ ret \in {0, 1, 2, Usage} /\ fd \in Inodes \cup {0}
  /\ seen.type \in {"none", "dir", "file", "link", "fifo", "dev", "sock"}
  /\ \A n \in DOMAIN todo : todo[n].info \in {"ARG", "NS", "DNR", "DC", "D", "DP", "F"}

(* At no moment has a command changed anything outside what it is about, or
   anything it was told to leave (by a no, by cp -n, by ln without -f and -i);
   what a hard link is made to never loses its last name; and cp never writes
   on what it copies from, also when that is the target by another name.  What
   cp is about is the target, what is below it, and what the symbolic links
   lead to that stand where a file is to be copied: those it follows, out of
   the target too.  A no counts for names the command comes to once, and a
   source may be written on by the copy of another.                         *)
Source(p) ==
  LET all == Wanted IN
  (\E e \in all : Origin(e) = p) /\ \A e \in Onto(p, all) : OneFile(Origin(e), p)
Others ==
  LET touched  == {i \in Inodes : ~ Like(t.node[i], Was.node[i])}
      changed  == {p \in Paths : t.ent[p] # Was.ent[p] \/ Was.ent[p] \in touched}
      about(p) == p \in Scope \/ p \in Followed
  IN \A p \in {q \in changed : ~ Hit(q)} :
       /\ \/ about(p)
          \/ t.ent[p] = Was.ent[p] /\ \E q \in Paths : Was.ent[q] = t.ent[p] /\ about(q)
       /\ Copies /\ Old(p) => t.node[Was.ent[p]].data = Node(Was, p).data \/ ~ Source(p)
Stays(p) == Old(p) /\ ~ Hit(p) => t.ent[p] = Was.ent[p] /\ Node(t, p).data = Node(Was, p).data
Told  == \A p \in no : Stays(Spot(Was, p)) \/ ~ Once(Spot(Was, p))
Spared == (Copies /\ CpN) \/ (Links /\ ~ LnF /\ ~ LnI) => \A p \in Paths : Stays(p)
(* Not when a source is what another's link replaces, or a symbolic link to
   what its own replaces, which samedirent does not notice: that is removed,
   and there is nothing to link to.                                         *)
ToTarget == ~ LnS /\ \E p, q \in LnSources :
              LnOrig(p) = LnTarget(q) /\ (p # q \/ Spot(Was, p) # LnTarget(q))
Linked == Links /\ ~ LnS /\ ~ ToTarget /\ ~ race.done =>
            \A p \in {LnOrig(q) : q \in LnSources} \cap Paths : Old(p) => Names(t, Was.ent[p]) # {}
Kept == t # Was => Others /\ Told /\ Spared /\ Linked

(* rm: exactly what can be removed and was not refused is gone, and the exit
   status is 0 exactly when the rest is what was refused.  With another
   process at work, 0 still means that nothing but its doing is left.       *)
Refused(p) == p \in {Spot(Was, q) : q \in no}
Firm(p) ==
  \/ Refused(p)
  \/ ~ Was.root /\ \E a \in Above(p) : ~ Node(Was, a).u
  \/ ~ Was.root /\ IsDir(Was, p) /\ ~ Node(Was, p).u /\ RmTree
  \/ Node(Was, p).tag = "uchg" /\ ~ Was.root
  \/ Up(p) # <<>> /\ Node(Was, Up(p)).tag = "uchg" /\ ~ (Was.root /\ Up(p) \in Scope)
  \/ ~ RmTree /\ IsDir(Was, p) /\ (~ Has("d") \/ Kids(Was, p) # {})
Bad == \/ Is("rm") /\ \E p \in ToSet(job.args) : p \in {<<>>, Slash}
       \/ \E p \in Args \ {<<>>} : ~ Lstats(Was, p) /\ (~ RmF \/ Errno(Was, p) # "noent")
       \/ \E p \in Scope : t.ent[p] # 0 /\ ~ Refused(p)
RmRight ==
  Over /\ Removes /\ ret # Usage =>
    /\ ret = 0 => \A p \in Scope : t.ent[p] = 0 \/ Refused(p) \/ Hit(p)
    /\ ~ race.done /\ (\A p \in Scope : Once(p)) =>
         /\ ret = 0 <=> ~ Bad
         /\ ~ Has("I") => \A p \in Scope : Old(p) =>
              (t.ent[p] # 0 <=> \E q \in {p} \cup Below(p) : Old(q) /\ Firm(q))

(* ln: 0 means that each source has its link, of those with one name for it
   the last.  A single link that fails has changed nothing, unless making it
   failed after its name had been cleared: only then is what stood there lost.
   (ToTarget is the exception here too.)                                    *)
LnMade(src) ==
  LET d == LnTarget(src) IN
  IF LnS THEN Found(d).type = "link" /\ Found(d).data = Text[src]
  ELSE t.ent[d] # 0 /\ t.ent[d] = Was.ent[LnOrig(src)]
LnLast(n) == \A m \in DOMAIN LnNames : m > n => LnTarget(LnNames[m]) # LnTarget(LnNames[n])
LnRight ==
  Over /\ Links =>
    /\ ret = 0 /\ ~ race.done /\ ~ ToTarget =>
         \A n \in DOMAIN LnNames : LnLast(n) => LnMade(LnNames[n])
    /\ ret = 1 /\ Len(job.args) < 3 /\ ~ race.done =>
         \/ t.ent = Was.ent \/ ToTarget
         \/ /\ LnF \/ LnI
            /\ "link" \in job.faults \/ \E p \in LnSources : Node(Was, LnOrig(p)).tag = "uchg"

(* cp: 0 means that each entry of the sources stands at its place in the
   target with its kind, its contents and its rights, and that nothing else
   is there that was not there before, also when the target is inside the
   source; of entries that come to one file, of several sources or by links,
   the last source's is in it.  (Fed: a copy is written to what is copied
   afterwards, another source or a link's goal, and copied again with that.)
   A copy that nothing stands in the way of succeeds, with -c also when the
   file system cannot clone.  (A directory with a "._" name does stand in the
   way: it is left out, but not what is in it.)  Only when the directory copied
   into is met twice is a copy stopped by the assertion.                    *)
Within == \E s \in ToSet(Sources) : Real(Was, s) \in Above(Real(Was, Target) \o <<"">>)
Given(d, n) == LET m == Found(d) IN
  CpP => /\ m.u = n.u
         /\ (n.type = "dir" /\ (Within \/ race.done)) \/ m.mt = n.mt
         /\ m.tag = (IF n.tag = "uchg" /\ Has("N") THEN "" ELSE n.tag)
         /\ m.s = (n.s /\ (Was.root \/ n.own = "me"))
Fresh(d, n) == LET m == Found(d) IN
  ~ CpP /\ ~ Clones /\ ~ Old(d) => m.u = n.u /\ m.tag = Masked(n.tag) /\ (n.type = "file" => ~ m.s)
Lands(e) == LET p == IF Orig(e).type = "link" THEN Dest(e) ELSE Real(t, Dest(e))
            IN [name |-> Dest(e), ino |-> IF There(t, p) THEN t.ent[p] ELSE 0]
Sharers(e, lands) ==
  {f \in DOMAIN lands : \/ lands[f].name = lands[e].name
                        \/ lands[f].ino = lands[e].ino /\ lands[e].ino # 0}
Mirrors(e, alone) ==
  LET n == Orig(e)
      d == Dest(e)
      r == Real(t, d)
      link(text) == Found(d).type = "link" /\ Found(d).data = text
  IN IF n.type = "sock" THEN TRUE
     ELSE IF n.type \in {"file", "fifo", "dev"} /\ Has("s") /\ ~ Clones THEN link(Text[From(e)])
     ELSE IF n.type = "file" /\ Has("l") /\ ~ Clones THEN Was.ent[Origin(e)] = t.ent[d]
     ELSE IF n.type = "link" THEN link(n.data)
     ELSE /\ Found(r).type = n.type
          /\ n.type = "file" => Found(r).data = n.data
          /\ Given(r, n) /\ (alone => Fresh(r, n))
Copied(e, lands) ==
  \/ Hit(Sources[e[1]]) \/ Hit(Dest(e))
  \/ LET same == Sharers(e, lands) IN
     \E f \in same : Mirrors(f, same = {e}) /\ \A g \in same : g[1] <= f[1]
NoMore(all) == {p \in Scope : t.ent[p] # 0 /\ ~ Old(p) /\ ~ Hit(p)} \subseteq {Dest(e) : e \in all}
Fed(all) == \E e, f \in all :
  \/ e[1] < f[1] /\ Origin(f) \in {Dest(e), Up(Dest(e))}
  \/ e \in Onto(Origin(f), all) /\ ~ OneFile(Origin(e), Origin(f))
IntoTwice == Cardinality({e \in Wanted : Orig(e).type = "dir" /\ Origin(e) = Real(Was, Target)}) > 1
Plain == /\ job.faults \subseteq {"clone"} /\ ~ race.done /\ ~ Conflict /\ ~ job.slash
         /\ \A n \in DOMAIN Sources : LET s == Sources[n] IN
              /\ Lstats(Was, s) /\ ~ Old(CpTarget(s, <<>>))
              /\ LstatNode(Was, s).type = "dir" => CpR /\ ~ Has("l")
              /\ \A m \in 1..(n - 1) : CpTarget(Sources[m], <<>>) # CpTarget(s, <<>>)
         /\ \A p \in Paths : Old(p) =>
              Node(Was, p).u /\ Node(Was, p).type \in {"dir", "file"} /\ Node(Was, p).tag # "uchg"
              /\ ~ (IsDir(Was, p) /\ Last(p) \in DOMAIN Doubles)
         /\ InDir(Target) \/ (Len(Sources) = 1 /\ IsDir(Was, Up(Target)))
         /\ ~ IntoTwice
CpRight ==
  Over /\ Copies /\ Len(job.args) > 1 =>
    /\ ret = 0 => LET all   == Wanted
                      lands == [e \in all |-> Lands(e)]
                  IN (NoMore(all) /\ \A e \in all : Copied(e, lands)) \/ Fed(all)
    /\ ret # 0 => ~ Plain
    /\ ret = 2 => IntoTwice

(* How each command ends. *)
ResultRight == RmRight /\ LnRight /\ CpRight
=============================================================================
