------------------------------ MODULE MCMkPath ------------------------------
(* Instances of MkPath: hierarchies of up to three levels below "a". *)
EXTENDS MkPathProps, TLC

CONSTANTS p1, p2, p3

All == {p1, p2, p3}

Req(cmd, argv, m, strict) == [cmd |-> cmd, argv |-> argv, m |-> m, strict |-> strict]
A    == <<"a">>
AB   == <<"a", "/", "b">>
ABC  == <<"a", "/", "b", "/", "c">>
AB_  == <<"/", "a", "/", "/", "b", "/">>
AB__ == <<"a", "/", "b", "/", "/">>
AC   == <<"a", "/", "c">>
Root == <<"/">>
Tree(nodes) == [n \in nodes |-> "open"]
a   == <<"a">>
ab  == <<"a", "b">>
abc == <<"a", "b", "c">>
ac  == <<"a", "c">>
NoTree   == {Tree({})}
AllTrees == {Tree({}), Tree({a}), Tree({a, ab}), Tree({a, ab, abc})}

MakerRequests ==
  {Req(c, argv, FALSE, FALSE) : c \in {"mkdir -p", "install -d"},
                                argv \in {<<ABC>>, <<AB_, AC>>, <<AB__>>}}
  \cup {Req("mkdir -p", <<AB_>>, TRUE, FALSE)}

AloneRequests ==
  {Req(c, argv, m, s) : c \in {"mkdir -p", "install -d", "mkdir", "rmdir", "rmdir -p"},
     argv \in {<<A>>, <<ABC>>, <<AB_>>, <<AC, AB>>, <<ABC, AC>>, <<AB, A>>, <<AB__, AB>>,
              <<Root, AC>>}, m \in BOOLEAN, s \in BOOLEAN}

MixedRequests ==
  {Req(c, argv, FALSE, FALSE) : c \in {"mkdir -p", "install -d"}, argv \in {<<ABC>>, <<AC, AB_>>}}
  \cup {Req("rmdir -p", <<ABC>>, FALSE, FALSE), Req("rmdir", <<AC, A>>, FALSE, FALSE),
        Req("mkdir", <<AB>>, TRUE, FALSE)}
Scene(rs, trees, files, flaps) ==
  [req : rs, tree : trees, files : {files}, flaps : {flaps}]
(* Three makers on an empty tree; every program alone; two of any kind with
   a file in the way and a program that flips two of the directories.       *)
MkScenes ==
  Scene({(p1 :> r) @@ (p2 :> Req(c, <<ABC>>, FALSE, FALSE)) @@
           (p3 :> Req("install -d", <<AB_, AC>>, FALSE, FALSE)) :
           r \in MakerRequests, c \in {"mkdir -p", "install -d"}}, NoTree, {}, {})
  \cup Scene([{p1} -> AloneRequests], AllTrees, {}, {})
  \cup Scene([{p1, p2} -> MixedRequests], AllTrees, {ac}, {a, ab})
=============================================================================
