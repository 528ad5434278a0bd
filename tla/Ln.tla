--------------------------------- MODULE Ln ---------------------------------
(***************************************************************************)
(* ln and link (ln/ln.c): for each source, look at it and at the name to   *)
(* be made, clear that name if told to, and make the link.  The warning of *)
(* -w is not modelled.                                                     *)
(***************************************************************************)
EXTENDS Walk

LnS == Has("s")
LnP == On("P", {"L"})
LnH == Has("h") \/ Has("n")
LnDirOff == Has("F") /\ LnS                    \* Fflag: a directory may be replaced
LnI == On("i", {"f"})
LnF == On("f", {"i"}) \/ (LnDirOff /\ ~ LnI)

(* The target: the directory the tool runs in, a name, or for several sources a directory. *)
Into == Len(job.args) # 2
LnDst == IF Len(job.args) = 1 THEN <<>> ELSE Last(job.args)
LnStart ==
  /\ pc = "start" /\ job.cmd \in {"ln", "link"}
  /\ LET begin == /\ pc' = "next" /\ UNCHANGED ret
                  /\ todo' = [n \in 1..(IF Len(job.args) = 1 THEN 1 ELSE Len(job.args) - 1)
                                |-> Word(job.args[n])]
     IN IF job.args = <<>> THEN Exit(1)
        ELSE IF job.cmd = "link"
             THEN IF Len(job.args) # 2 THEN Exit(1)
                  ELSE IF Lstats(t, LnDst) THEN Exit(1) ELSE begin
        ELSE IF Len(job.args) < 3 THEN begin
        ELSE IF (LnH /\ LstatNode(t, LnDst).type = "link") \/ ~ StatDir(t, LnDst) THEN Exit(1)
        ELSE begin
  /\ UNCHANGED <<t, job, race, cur, work>>

LnDone ==
  /\ pc = "next" /\ job.cmd \in {"ln", "link"} /\ todo = <<>>
  /\ Exit(ret)
  /\ UNCHANGED <<t, job, race, cur, work>>

(* samedirent: two names of one entry of one directory *)
SameEntry(p, q) == p = q \/ (p # <<>> /\ Spot(t, p) = Spot(t, q) /\ StatDir(t, Up(p)))

(* linkit, until it has to change anything *)
LnLook ==
  /\ pc = "next" /\ job.cmd \in {"ln", "link"} /\ todo # <<>>
  /\ LET src == Head(todo).path
         n   == IF LnP THEN LstatNode(t, src) ELSE StatNode(t, src)
         in  == /\ ~ LnDirOff
                /\ \/ Into
                   \/ Lstats(t, LnDst) /\ IsDir(t, Spot(t, LnDst))
                   \/ ~ LnH /\ StatDir(t, LnDst)
         dst == IF in THEN Append(LnDst, Last(src)) ELSE LnDst
     IN IF ~ LnS /\ n.type \in {"none", "dir"}
        THEN Skip(1) /\ UNCHANGED <<cur, to, seen>>
        ELSE /\ cur' = Word(src) /\ to' = dst /\ seen' = LstatNode(t, dst)
             /\ IF ~ LnS /\ Lstats(t, dst) /\ SameEntry(src, dst) THEN Skip(1)
                ELSE pc' = "clear" /\ UNCHANGED ret
  /\ todo' = Tail(todo)
  /\ UNCHANGED <<t, job, race, no, got, fd, root>>

(* What stands at the target is removed, by -f, or by -i and a yes. *)
LnClear ==
  /\ pc = "clear"
  /\ LET exists == seen.type # "none"
         rmdir  == LnDirOff /\ seen.type = "dir"
         ok     == IF rmdir THEN MayRmdir(t, to) ELSE MayUnlink(t, to)
     IN \/ /\ ~ exists \/ ~ (LnF \/ LnI)
           /\ pc' = "link" /\ UNCHANGED <<t, ret, no>>
        \/ /\ exists /\ (LnF \/ LnI)
           /\ IF ok THEN pc' = "link" /\ t' = Drop(t, Spot(t, to)) /\ UNCHANGED ret
              ELSE Skip(1) /\ UNCHANGED t
           /\ UNCHANGED no
        \/ /\ exists /\ ~ LnF /\ LnI
           /\ Skip(1) /\ no' = no \cup {to} /\ UNCHANGED t
  /\ UNCHANGED <<job, race, todo, cur, to, seen, got, fd, root>>

LnLink ==
  /\ pc = "link" /\ pc' = "next"
  /\ LET src == IF LnP THEN Spot(t, cur.path) ELSE Real(t, cur.path)
         ok  == IF LnS THEN MayMake(t, to) ELSE MayLink(t, src, to)
         new == IF LnS THEN Make(t, Spot(t, to), [Blank EXCEPT !.type = "link",
                                                              !.data = Text[cur.path]])
                ELSE Link(t, src, Spot(t, to))
     IN \/ ok /\ t' = new /\ UNCHANGED ret
        \/ (~ ok \/ "link" \in job.faults) /\ ret' = 1 /\ UNCHANGED t
  /\ UNCHANGED <<job, race, todo, cur, work>>

LnNext == LnStart \/ LnDone \/ LnLook \/ LnClear \/ LnLink
=============================================================================
