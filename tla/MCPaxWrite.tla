----------------------------- MODULE MCPaxWrite -----------------------------
(* Instances of PaxWrite: archives of one or two members, written and added
   to, on every kind of archive, with one volume or several.                *)
EXTENDS PaxWriteProps, TLC

M(h, s, p) == [head |-> h, size |-> s, pad |-> p]
New == [single |-> FALSE, artyp |-> "REG", blkalgn |-> 0, wr |-> 4, bsz |-> 4,
        limit |-> 0, tlen |-> 3, app |-> FALSE, data |-> 0, rest |-> 0,
        vol |-> 1, members |-> <<M(2, 3, 1)>>]
Aligned == [New EXCEPT !.blkalgn = 2, !.tlen = 4, !.members = <<M(2, 3, 1), M(2, 0, 0)>>]
News ==
  {[n EXCEPT !.single = o, !.artyp = t, !.wr = w, !.limit = l] :
     n \in {New, Aligned, [New EXCEPT !.members = << >>]},
     o \in BOOLEAN, t \in Types, w \in {0, 2, 3}, l \in {0, 2}}
Adds(n) ==
  {[n EXCEPT !.app = TRUE, !.data = d, !.rest = r, !.single = o, !.artyp = t, !.wr = w,
             !.vol = v, !.limit = l] :
     d \in 2 .. 6, r \in 0 .. 5, o \in BOOLEAN, t \in Types, w \in {0, 2, 4},
     v \in 1 .. 2, l \in {0, 2}}
Appends ==
  {s \in Adds([New EXCEPT !.members = <<M(2, 2, 0)>>]) \cup
         Adds([Aligned EXCEPT !.members = <<M(2, 1, 1)>>]) :
     SceneOK(s) /\ (s.blkalgn # 0 => s.data % 2 = 0)}
(* An archive in blocks of 6 that goes on to a volume with blocks of 4. *)
Smaller == [New EXCEPT !.app = TRUE, !.data = 2, !.rest = 1, !.limit = 5,
                       !.members = <<M(2, 12, 0)>>]
AllScenes == News \cup Appends \cup {Smaller}
=============================================================================
