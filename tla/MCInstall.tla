----------------------------- MODULE MCInstall ------------------------------
(* Instances of Install: one process with every command line, two processes
   with those that compete, and what the target directory may hold.         *)
EXTENDS InstallProps, TLC

CONSTANTS p1, p2

Req(src, flags, mode, link) ==
  [src |-> src, flags |-> flags, mode |-> mode, link |-> link]
Attrs(datas, owns, imms) ==
  [data : datas, mode : {"suid", "plain"}, own : owns, imm : imms]

Both == {p1, p2}
CopyFlags == SUBSET {"C", "s", "b", "chown"} \cup
  {f \cup {g} : f \in SUBSET {"C", "b"}, g \in {"U", "f", "null", "simm"}}
  \cup {{"null", "s"}, {"null", "C"}}
OneRequests ==
  {Req("x", f, m, "none") : f \in CopyFlags, m \in {"suid", "plain"}}
  \cup {Req("x", {}, "plain", k) : k \in {"hard", "sym", "mixed"}}
  \cup {Req("x", f \cup {"sandbox"}, "plain", "none") : f \in SUBSET {"s", "chown", "null"}}
AnyTarget ==
  {[to |-> t, bak |-> b, alias |-> a, attr |-> x] :
     t \in {None, Old, Dir, Src}, b \in {None, OldBak}, a \in {None, Old},
     x \in Attrs({<<"o", "plain">>, <<"x", "plain">>, <<"x", "stripped">>},
                 {"me", "want"}, BOOLEAN)}
OneTargets == {t \in AnyTarget : t.to # Old =>
                 /\ t.alias = None /\ t.bak = None
                 /\ t.attr = [data |-> <<"o", "plain">>, mode |-> "plain",
                              own |-> "me", imm |-> FALSE]}

TwoRequests ==
  {Req(s, f, "plain", "none") : s \in {"x", "y"}, f \in {{}, {"b"}, {"s", "C"}, {"C", "chown"}}}
  \cup {Req("x", {}, "plain", k) : k \in {"hard", "mixed"}}
TwoTargets == {t \in OneTargets : t.to \in {None, Old, Src} /\ t.bak = None
                 /\ t.alias = None /\ t.attr.mode = "plain" /\ t.attr.own = "me"
                 /\ t.attr.data # <<"x", "stripped">>}

(* One install with any command line, and each pair of those that compete. *)
InstallScenes ==
  {[req |-> p1 :> r, at |-> t] : r \in OneRequests, t \in OneTargets}
  \cup {[req |-> LET r == CHOOSE r \in R : TRUE
                   IN  (p1 :> r) @@ (p2 :> CHOOSE q \in R : q # r \/ R = {r}),
          at |-> t] :
           R \in {{q, r} : q \in TwoRequests, r \in TwoRequests}, t \in TwoTargets}
=============================================================================
