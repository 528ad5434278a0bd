------------------------------- MODULE MCMove -------------------------------
(* Instances of Move: one mv with every option and kind of file beside a
   program that creates the target, and two to one target.              *)
EXTENDS MoveProps, TLC

CONSTANTS p1, p2

Both == {p1, p2}
Plain == [flag |-> "f", indir |-> FALSE, cross |-> TRUE, same |-> FALSE,
          kind |-> "reg", suid |-> FALSE, own |-> "me", tty |-> FALSE]
OneRequests ==
  {r \in RequestType : /\ r.same => ~ r.cross /\ r.kind = "reg"
                       /\ r.tty => r.flag = "" }
TwoRequests ==
  {[Plain EXCEPT !.flag = f, !.cross = c, !.suid = s, !.own = o] :
     f \in {"f", "n"}, c \in BOOLEAN, s \in BOOLEAN, o \in {"me", "other"}}
  \cup {[Plain EXCEPT !.flag = f, !.kind = "dir"] : f \in {"f", "n"}}
(* What main and do_move can meet: a target that is a directory only below
   the last operand, a link of the source only where there is a file.       *)
Meets(r, t) == /\ r.same => t.there /\ t.kind = "reg"
               /\ ~ r.indir => ~ t.there \/ t.kind \in {"reg", "lnk"}
MoveScenes ==
  {s \in [req : {p1 :> r : r \in OneRequests}, to : TargetType] : Meets(s.req[p1], s.to)}
  \cup [req : {(p1 :> r) @@ (p2 :> q) : r \in TwoRequests, q \in TwoRequests},
        to : {[there |-> b, kind |-> "reg", writable |-> TRUE] : b \in BOOLEAN}]
=============================================================================
