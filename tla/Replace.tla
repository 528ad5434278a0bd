------------------------------ MODULE Replace -------------------------------
(***************************************************************************)
(* What a program that replaces a file promises whoever opens the name:    *)
(* each of several replacers puts its own file there at most once, whole,  *)
(* and may take the name away again, or leave it, only after that.  What   *)
(* it fails at before is not seen.                                         *)
(*                                                                         *)
(*   name   what the name shows: Nothing, or the contents of a file        *)
(*   new    what each replacer puts there; it never changes                *)
(*   st     how far each replacer is                                       *)
(***************************************************************************)
CONSTANT Nothing
VARIABLES name, new, st
vars == <<name, new, st>>

Init == st = [p \in DOMAIN new |-> "begun"]

(* One step: the name showed the whole old file, it shows the whole new one. *)
Put(p) ==
  /\ st[p] = "begun"
  /\ st' = [st EXCEPT ![p] = "put"]
  /\ name' = new[p]
  /\ UNCHANGED new

(* The new file cannot be given what belongs to it, and is taken away. *)
GiveUp(p) ==
  /\ st[p] = "put"
  /\ st' = [st EXCEPT ![p] = "over"]
  /\ name' \in {name, Nothing}
  /\ UNCHANGED new

Next == \E p \in DOMAIN new : Put(p) \/ GiveUp(p)
Spec == Init /\ [][Next]_vars
=============================================================================
