--------------------------------- MODULE Cp ---------------------------------
(***************************************************************************)
(* cp (cp/cp.c, cp/utils.c): the sources are walked and each entry is made *)
(* at the target, a directory when it is met and its rights when it is     *)
(* left.  Access lists and extended attributes are not modelled, except    *)
(* that copying them may fail.                                             *)
(*                                                                         *)
(*   cur.num     a directory whose rights cp has to set (fts_number)       *)
(*   root.ino    the directory copied into, root.made when cp made it      *)
(*   root.again  the name at which a copy into itself stops (recurse_path) *)
(*   got, fd     the open source and target; seen.type = "none" is dne     *)
(***************************************************************************)
EXTENDS Walk

CpF == On("f", {"n"})
CpI == On("i", {"n"})
CpN == On("n", {"f", "i"})
CpP == Has("p") \/ Has("a")
CpR == Has("R") \/ Has("a") \/ Has("r")
CpH == On("H", {"L", "P", "a", "r"})
CpL == On("L", {"H", "P", "a"}) \/ On("r", {"H", "P", "a"})
CpNoFollow == On("P", {"H", "L", "r"}) \/ On("a", {"H", "L", "r"})
Logical   == IF CpR THEN CpL ELSE ~ CpNoFollow       \* FTS_LOGICAL
ComFollow == IF CpR THEN CpH ELSE ~ CpNoFollow       \* FTS_COMFOLLOW
Conflict  == \/ Has("c") /\ Has("X")
             \/ Has("r") /\ (Has("R") \/ Has("a"))
             \/ Has("l") /\ Has("s")

Fails(what) == IF what \in job.faults THEN BOOLEAN ELSE {FALSE}

(*------------------------------ the target -------------------------------*)
Target == IF Last(job.args) = <<>> THEN <<>> ELSE Last(job.args)
Sources == Front(job.args)
FirstNode == IF CpR /\ (CpL \/ CpH) THEN StatNode(t, Sources[1]) ELSE LstatNode(t, Sources[1])

(* What kind of copy: to the one name, into a directory, or a whole        *)
(* directory to a new name.  The last is decided from memory never written *)
(* when neither the target nor the source exists.                          *)
Kinds == IF StatDir(t, Target) THEN {"into"}
         ELSE IF Stats(t, Target) \/ ~ CpR THEN {"file"}
         ELSE IF FirstNode.type = "none" THEN {"file", "dir"}
         ELSE IF FirstNode.type = "dir" THEN {"dir"} ELSE {"file"}

CpStart ==
  /\ pc = "start" /\ job.cmd = "cp"
  /\ IF Len(job.args) < 2 \/ Conflict
     THEN Exit(IF Len(job.args) < 2 THEN Usage ELSE 1) /\ UNCHANGED <<root, seen>>
     ELSE IF \/ ~ Stats(t, Target) /\ Errno(t, Real(t, Target)) # "noent"
             \/ ~ StatDir(t, Target) /\ Len(Sources) > 1
     THEN Exit(1) /\ UNCHANGED <<root, seen>>
     ELSE \E kind \in Kinds :
          IF job.slash /\ kind = "file" THEN Exit(1) /\ UNCHANGED <<root, seen>>
          ELSE /\ pc' = "next" /\ UNCHANGED ret
               /\ todo' = [n \in DOMAIN Sources |-> Entry(Sources[n], 0, Logical \/ ComFollow, {})]
               /\ root' = [NoRoot EXCEPT !.kind = kind, !.ino = IF kind = "into" /\ Real(t, Target) # <<>>
                                                 THEN t.ent[Real(t, Target)] ELSE 0]
               /\ UNCHANGED seen
  /\ UNCHANGED <<t, job, race, cur, to, no, got, fd>>

Kind == root.kind

CpDone ==
  /\ pc = "next" /\ job.cmd = "cp" /\ Ahead(Logical) = {<<>>}
  /\ Exit(ret)
  /\ UNCHANGED <<t, job, race, cur, work>>

(* The name at the target: below it go the names from the source's last    *)
(* part on (into), or those below the source (dir).                        *)
Place(e) ==
  LET base == IF Kind = "dir" THEN Len(e.path) - e.lev ELSE Len(e.path) - e.lev - 1
  IN IF Kind = "file" THEN Target
     ELSE Target \o SubSeq(e.path, base + 1, Len(e.path))

(* Attributes kept in a "._" file go with the file they belong to. *)
Double(e) ==
  /\ (CpP \/ ~ Has("X")) /\ e.lev # 0 /\ Last(e.path) \in DOMAIN Doubles
  /\ Lstats(t, Append(Up(e.path), Doubles[Last(e.path)]))

(*------------------------------- the loop --------------------------------*)
(* Mutant: the target is not compared with the source. *)
NotNoticed(p, e) == FALSE
(* The target is the source by another name. *)
Identical(p, e) == Stats(t, p) /\ Real(t, p) # <<>> /\ t.ent[Real(t, p)] = e.ino

(* A copy into itself: cp comes to the directory it copies into.  One it   *)
(* made itself it leaves out; else it stops below, where its own copy of   *)
(* the source would be copied again.                                       *)
Home(e)  == Kind # "file" /\ e.info = "D" /\ root.ino # 0 /\ root.ino = e.ino
Again(e) == IF Home(e) /\ ~ root.made
            THEN Append(Place(e), Last(SubSeq(e.path, 1, Len(e.path) - e.lev)))
            ELSE root.again
(* Mutant: only a directory that cp made stops it. *)
StopMade(e) == Home(e) /\ root.made
Stop(e)  == \/ Home(e) /\ root.made
            \/ Kind # "file" /\ Again(e) # <<>> /\ Place(e) = Again(e)

(* The next entry: left out, a copy into itself cut short, told, or left   *)
(* to the step that its kind calls for.                                    *)
CpRead ==
  /\ pc = "next" /\ job.cmd = "cp"
  /\ \E s \in Ahead(Logical) :
       /\ s # <<>> /\ todo' = Tail(s)
       /\ LET e     == Head(s)
              stays == UNCHANGED <<to, seen, root>>
              past(status) == /\ Skip(status) /\ cur' = [e EXCEPT !.skip = TRUE]
                              /\ UNCHANGED <<to, seen>>
          IN IF e.info \in {"NS", "DNR", "DC"}
             THEN Skip(1) /\ cur' = e /\ stays
             ELSE IF Double(e) THEN Skip(ret) /\ cur' = e /\ stays
             ELSE IF Home(e) /\ ~ root.made /\ root.again # <<>>     \* the assertion
             THEN pc' = "over" /\ ret' = 2 /\ cur' = e /\ stays
             ELSE /\ root' = [root EXCEPT !.again = Again(e)]
                  /\ IF Stop(e) THEN past(ret)
                     ELSE IF e.info = "DP"
                     THEN /\ cur' = e /\ to' = Place(e) /\ UNCHANGED <<ret, seen>>
                          /\ pc' = IF e.num THEN "leave" ELSE "next"
                     ELSE IF Identical(Place(e), e) THEN past(1)
                     ELSE /\ cur' = e /\ to' = Place(e) /\ pc' = "make" /\ UNCHANGED ret
                          /\ seen' = LstatNode(t, Place(e))
  /\ UNCHANGED <<t, job, race, no, got, fd>>

Dne == seen.type = "none"
Type == cur.node.type

(*---------------------------- rights and times ---------------------------*)
Masked(tag) == IF tag = "uchg" \/ job.umask THEN "" ELSE tag
New(n) == [n EXCEPT !.tag = Masked(n.tag)]

(* setfile: times, owner, bits and flags; who may not give the file away   *)
(* does not leave it set-user-id                                           *)
Setfile(n, src) ==
  [n EXCEPT !.mt = src.mt, !.at = src.at,
            !.own = IF t.root THEN src.own ELSE @,
            !.s = src.s /\ (t.root \/ src.own = n.own),
            !.u = src.u,
            !.tag = IF src.tag = "uchg" /\ Has("N") THEN "" ELSE src.tag]
Give(tr, p) == IF CpP THEN Change(tr, p, Setfile(Node(tr, p), cur.node)) ELSE tr

(* the way out of a directory *)
CpLeave ==
  /\ pc = "leave" /\ pc' = "next"
  /\ LET r == Real(t, to)
         n == Node(t, r)
         m == [n EXCEPT !.s = cur.node.s, !.u = cur.node.u, !.tag = Masked(cur.node.tag)]
         asks == cur.node.s \/ ~ cur.node.u
     IN \E bad \in Fails("acl") :
          IF ~ CpP /\ ~ asks THEN UNCHANGED <<t, ret>>
          ELSE IF ~ Stats(t, to) THEN ret' = 1 /\ UNCHANGED t
          ELSE /\ t' = IF CpP THEN Give(t, r) ELSE Change(t, r, m)
               /\ ret' = IF CpP /\ bad THEN 1 ELSE ret
  /\ UNCHANGED <<job, race, todo, cur, work>>

(*---------------------------- one entry each -----------------------------*)
CpDir ==
  /\ pc = "make" /\ Type = "dir" /\ pc' = "next"
  /\ LET sp   == Spot(t, to)
         made == Make(t, sp, [New(cur.node) EXCEPT !.u = TRUE, !.data = ""])
         drop == cur' = [cur EXCEPT !.skip = TRUE] /\ ret' = 1 /\ UNCHANGED <<t, root>>
     IN IF ~ CpR THEN drop
        ELSE IF Dne /\ ~ MayMake(t, to) THEN drop
        ELSE IF ~ Dne /\ seen.type # "dir" THEN drop
        ELSE \E bad \in Fails("xattr") :
             /\ t' = IF Dne THEN made ELSE t
             /\ root' = IF Dne /\ Kind = "dir" /\ root.ino = 0
                        THEN [root EXCEPT !.ino = made.ent[sp], !.made = TRUE] ELSE root
             /\ cur' = [cur EXCEPT !.num = CpP \/ Dne]
             /\ ret' = IF bad /\ ~ Has("X") THEN 1 ELSE ret
  /\ UNCHANGED <<job, race, todo, to, no, seen, got, fd>>

AsFile == \/ Type = "file"
          \/ Type = "link" /\ (Logical \/ (ComFollow /\ cur.lev = 0))
          \/ Type \in {"dev", "fifo"} /\ (~ CpR \/ Has("s"))
Linking == Has("l") \/ Has("s")

(* copy_link, copy_fifo, copy_special: what stands there is removed, unasked *)
CpNode ==
  /\ pc = "make" /\ Type \in {"link", "fifo", "dev", "sock"} /\ ~ AsFile /\ pc' = "next"
  /\ LET src   == Spot(t, cur.path)
         clear == IF Dne THEN t ELSE Drop(t, Spot(t, to))
         node  == IF Type = "link" THEN [cur.node EXCEPT !.data = Node(t, src).data]
                  ELSE New(cur.node)
         can   == MayMake(clear, to) /\ (Type = "dev" => t.root)
     IN IF Type = "sock" THEN UNCHANGED <<t, ret>>
        ELSE IF \/ ~ Dne /\ (CpN \/ ~ MayUnlink(t, to))
                \/ Type = "link" /\ ~ IsLink(t, src)
        THEN ret' = 1 /\ UNCHANGED t
        ELSE \E bad \in Fails("make"), rough \in Fails("xattr") :
             IF bad \/ ~ can THEN ret' = 1 /\ t' = clear
             ELSE /\ t' = IF Type = "link" /\ rough /\ ~ Has("X")
                          THEN Make(clear, Spot(clear, to), node)
                          ELSE Give(Make(clear, Spot(clear, to), node), Spot(clear, to))
                  /\ ret' = IF Type = "link" /\ rough /\ ~ Has("X") THEN 1 ELSE ret
  /\ UNCHANGED <<job, race, todo, cur, work>>

(*------------------------------- copy_file -------------------------------*)
(* The source is opened, and must still be what the walk found.  Then what *)
(* stands at the target: kept by -n or a no, removed for -c, -fl and -fs.  *)
CpOpen ==
  /\ pc = "make" /\ AsFile
  /\ LET r    == Real(t, cur.path)
         n    == StatNode(t, cur.path)
         open == Stats(t, cur.path) /\ (t.root \/ n.u)
         fresh == [seen EXCEPT !.type = "none"]
         away == Has("c") \/ (CpF /\ Linking)
     IN IF ~ Linking /\ (~ open \/ n.type # Type)
        THEN Skip(1) /\ UNCHANGED <<t, no, seen, got>>
        ELSE /\ got' = n
             /\ \/ /\ ~ Dne /\ (CpN \/ CpI)
                   /\ Skip(1) /\ UNCHANGED <<t, seen>>
                   /\ no' = no \cup {to}
                \/ /\ Dne \/ ~ CpN
                   /\ pc' = "place" /\ UNCHANGED <<ret, no>>
                   /\ IF ~ Dne /\ away
                      THEN /\ t' = IF MayUnlink(t, to) THEN Drop(t, Spot(t, to)) ELSE t
                           /\ seen' = fresh
                      ELSE UNCHANGED <<t, seen>>
  /\ UNCHANGED <<job, race, todo, cur, to, fd, root>>

(* clonefile, where the file system has it: else -c goes on as without it. *)
Clones == Has("c") /\ "clone" \notin job.faults
(* clonefile, link and symlink end the copy. *)
CpShort ==
  /\ pc = "place" /\ (Clones \/ Linking)
  /\ LET src  == Real(t, cur.path)
         spot == Spot(t, to)
         hard == Has("l") /\ ~ Clones
         node == IF Clones THEN got
                 ELSE [Blank EXCEPT !.type = "link", !.data = Text[cur.path]]
         can  == IF hard THEN MayLink(t, src, to) ELSE MayMake(t, to)
     IN \E bad \in Fails("make") :
          \/ /\ can /\ ~ bad /\ pc' = "next" /\ UNCHANGED <<ret, seen>>
             /\ t' = IF hard THEN Link(t, src, spot) ELSE Make(t, spot, node)
          \/ (~ can \/ bad) /\ Skip(1) /\ UNCHANGED <<t, seen>>
  /\ UNCHANGED <<job, race, todo, cur, to, no, got, fd, root>>

(* The target is opened: as it is, emptied; with -f, if that fails, anew;  *)
(* or made.  While it is filled nobody else may use it.                    *)
Emptied(tr, p) == Change(tr, p, [Node(tr, p) EXCEPT !.data = "", !.tag = "", !.mt = Now])
CpPlace ==
  /\ pc = "place" /\ ~ Clones /\ ~ Linking
  /\ LET r       == Real(t, to)
         writes  == Stats(t, to) /\ r # <<>> /\ Node(t, r).type = "file"
                    /\ (t.root \/ Node(t, r).u) /\ Node(t, r).tag # "uchg"
         forced  == ~ Dne /\ ~ writes /\ CpF /\ MayUnlink(t, to)
         clear   == IF forced THEN Drop(t, Spot(t, to)) ELSE t
         spot    == Spot(clear, to)
         make    == (Dne \/ forced) /\ MayMake(clear, to)
         new     == Make(clear, spot, [New(cur.node) EXCEPT !.type = "file", !.data = ""])
     IN \E bad \in Fails("make") :
          IF make /\ ~ bad
          THEN /\ t' = [new EXCEPT !.node[new.ent[spot]].tag = ""]
               /\ fd' = new.ent[spot]
               /\ seen' = [seen EXCEPT !.tag = Node(new, spot).tag]
               /\ pc' = "fill" /\ UNCHANGED ret
          ELSE IF writes /\ ~ make
          THEN /\ t' = Emptied(t, r) /\ fd' = t.ent[r]
               /\ seen' = [seen EXCEPT !.tag = Node(t, r).tag]
               /\ pc' = "fill" /\ UNCHANGED ret
          ELSE Skip(1) /\ t' = clear /\ UNCHANGED <<fd, seen>>
  /\ UNCHANGED <<job, race, todo, cur, to, no, got, root>>

(* The open file that fd is, changed; nothing to see when it lost its name *)
OnFd(n) == IF Names(t, fd) = {} THEN t
           ELSE [t EXCEPT !.node[fd] = [n EXCEPT !.ct = Now]]

CpFill ==
  /\ pc = "fill"
  /\ \E bad \in Fails("data") :
       /\ t' = OnFd([t.node[fd] EXCEPT !.mt = Now,
                       !.data = IF bad THEN "part" ELSE got.data])
       /\ ret' = IF bad THEN 1 ELSE ret
  /\ pc' = "finish"
  /\ UNCHANGED <<job, race, todo, cur, work>>

CpFinish ==
  /\ pc = "finish" /\ pc' = "next"
  /\ LET n == [t.node[fd] EXCEPT !.tag = seen.tag] IN
     t' = OnFd(IF CpP THEN Setfile(n, cur.node) ELSE n)
  /\ \E rough \in Fails("xattr"), bad \in Fails("acl"), late \in Fails("close") :
       ret' = IF \/ rough /\ ~ Has("X") /\ Type = "file"
                 \/ bad /\ CpP
                 \/ late THEN 1 ELSE ret
  /\ UNCHANGED <<job, race, todo, cur, work>>

CpNext == \/ CpStart \/ CpDone \/ CpRead \/ CpLeave \/ CpDir \/ CpNode
          \/ CpOpen \/ CpShort \/ CpPlace \/ CpFill \/ CpFinish
=============================================================================
