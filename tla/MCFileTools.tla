----------------------------- MODULE MCFileTools ----------------------------
(* Instances of FileTools: a directory with a file and a directory in it, a
   file, sometimes a second directory and links, and the ways to name them.  *)
EXTENDS FileTools, TLC

A  == <<"a">>
B  == <<"b">>
C  == <<"c">>
L  == <<"l">>
AA == <<"a", "a">>
AB == <<"a", "b">>
AC == <<"a", "c">>
AD == <<"a", "_a">>
ABA == <<"a", "b", "a">>
ABB == <<"a", "b", "b">>
BA == <<"b", "a">>
Inner == {<<"a">>, <<"b">>, <<"c">>, <<"_a">>, <<"b", "b">>}     \* what may be in a
MCPaths ==
  LET long == UNION {{d \o p : p \in Inner} : d \in {A, B, L, B \o A, B \o L, AC, AB \o A}}
                \cup {<<"a", "b", "a", "b", "a">>, <<"a", "b", "a", "b", "c">>, <<"a", "c", "c", "a">>,
                      <<"a", "b", "c">>, <<"a", "_a", "a">>, <<"b", "_a", "a">>, C}
  IN UNION {{SubSeq(p, 1, n) : n \in 1..Len(p)} : p \in long}
MCInodes == 1..14
MCNow == 9
MCSlash == <<"/">>
Words == {A, B, C, L, AA, AB, AC, AD, ABA, ABB, BA}
Show(p) == IF Len(p) = 1 THEN p[1] ELSE IF Len(p) = 2 THEN p[1] \o "/" \o p[2]
           ELSE p[1] \o "/" \o p[2] \o "/" \o p[3]
MCText == [p \in Words |-> Show(p)]
MCRooted == {"/a", "/c"}
MCGoal == [x \in {Show(p) : p \in Words} \cup MCRooted |->
             IF x = "/a" THEN A ELSE IF x = "/c" THEN C ELSE CHOOSE p \in Words : Show(p) = x]
MCDoubles == ("_a" :> "a")

(*--------------------------------- trees ---------------------------------*)
Dir       == [Blank EXCEPT !.type = "dir", !.tag = "go", !.mt = 3, !.at = 3]
File(x)   == [Blank EXCEPT !.type = "file", !.tag = "go", !.mt = 4, !.at = 4, !.data = x]
Sym(x)    == [Blank EXCEPT !.type = "link", !.data = x]
Nowhere   == [ent |-> [p \in MCPaths |-> 0], node |-> [i \in MCInodes |-> Blank], root |-> FALSE]
Put(tr, p, n) == LET i == Unused(tr) IN [tr EXCEPT !.ent[p] = i, !.node[i] = n]
Same(tr, p, q) == [tr EXCEPT !.ent[q] = tr.ent[p]]
With(tr, p, k, v) == [tr EXCEPT !.node[tr.ent[p]] = [@ EXCEPT ![k] = v]]
Root(tr) == [tr EXCEPT !.root = TRUE]

Base  == Put(Put(Put(Put(Put(Nowhere, A, Dir), AA, File("x")), AB, Dir), ABB, File("y")), C, File("z"))
Two   == Put(Base, B, Dir)
Lead  == Put(Base, L, Sym("a"))
Shut(tr, p) == With(tr, p, "u", FALSE)
Fixed(tr, p) == With(tr, p, "tag", "uchg")
SetId(tr, p) == With(tr, p, "s", TRUE)

Still == [kind |-> "none", at |-> <<>>, node |-> Blank, done |-> FALSE]
Scene(cmd, opt, args, tr) ==
  [cmd |-> cmd, opt |-> opt, args |-> args, was |-> tr, slash |-> FALSE, tty |-> TRUE,
   umask |-> FALSE, faults |-> {}, race |-> Still]
Racing(S, R) == {[s EXCEPT !.race = r] : s \in S, r \in R}
Change1(kind, at, n) == [kind |-> kind, at |-> at, node |-> n, done |-> FALSE]

(*---------------------------------- rm -----------------------------------*)
RmTrees == {Base, Shut(Base, AB), Shut(Base, AA), Shut(Base, A), Fixed(Base, ABB), Fixed(Base, AB),
            Fixed(Base, C), Root(Fixed(Base, AB)), Root(Fixed(Base, A)), Lead}
RmOpts == {<<"r">>, <<"r", "f">>, <<"r", "i">>, <<"f", "i", "R">>, <<"i", "f">>, <<>>, <<"d">>,
           <<"I", "r">>}
RmArgs == {<<A>>, <<C, A>>, <<C, L>>, <<<<>>, C>>, <<MCSlash, AB>>, <<<<"l", "a">>, C>>}
RmRaces == {Change1("new", <<"a", "c">>, File("n")), Change1("gone", AA, Blank), Change1("gone", C, Blank),
            Change1("new", <<"a", "b", "a">>, File("n")), Change1("swap", AA, Dir),
            Change1("swap", ABB, File("n")), Change1("swap", C, Dir)}
Rms ==
  {Scene("rm", o, a, tr) : o \in RmOpts, a \in RmArgs, tr \in RmTrees}
  \cup {Scene("rm", o, a, tr) : o \in {<<"r">>, <<"r", "i">>, <<"r", "f">>, <<"i">>},
                                   a \in {<<C, C>>, <<A, AB>>, <<AB, A>>}, tr \in {Base, Shut(Base, AB)}}
  \cup {[Scene("rm", o, <<A, C>>, tr) EXCEPT !.tty = FALSE] : o \in {<<"r">>, <<>>}, tr \in RmTrees}
  \cup {Scene("rm", o, <<AA, C, ABB, L>>, Lead) : o \in {<<"I">>, <<"I", "f">>}}
  \cup {Scene("rm", <<"f">>, <<AA, C>>, Shut(Base, A))}
  \cup {Scene("rm", o, <<>>, Base) : o \in {<<>>, <<"f">>}}
  \cup {Scene("unlink", <<>>, a, tr) : a \in {<<C>>, <<A>>, <<L>>, <<A, C>>}, tr \in RmTrees}
  \cup Racing({Scene("rm", o, <<A, C>>, tr) : o \in {<<"r">>, <<"r", "f">>, <<"r", "i">>},
                                            tr \in {Base, Shut(Base, AB)}}, RmRaces)

(*---------------------------------- ln -----------------------------------*)
LnTrees == {Base, Lead, Two, Put(Two, L, Sym("c")), Same(Put(Base, B, File("z")), C, L), Fixed(Base, C),
            Fixed(Base, AA), Shut(Base, A), Put(Base, <<"a", "c">>, File("o"))}
LnOpts == {<<>>, <<"f">>, <<"i">>, <<"s">>, <<"s", "f">>, <<"s", "f", "h">>, <<"s", "F">>,
           <<"s", "F", "i">>, <<"P">>, <<"P", "L", "f">>, <<"P", "f">>}
LnArgs == {<<C, A>>, <<C, B>>, <<C, L>>, <<AA, C>>, <<A, B>>, <<L, B>>, <<L, C>>, <<AA>>, <<C, <<"l", "c">>>>,
           <<C, AA, B>>, <<C, AA, L>>, <<AA, C, A>>}
LnRaces == {Change1("new", B, File("n")), Change1("gone", C, Blank), Change1("swap", C, File("n")),
            Change1("new", <<"a", "c">>, File("n"))}
Lns ==
  {Scene("ln", o, a, tr) : o \in LnOpts, a \in LnArgs, tr \in LnTrees}
  \cup {[Scene("ln", o, a, tr) EXCEPT !.faults = {"link"}] :
           o \in {<<"f">>, <<"s", "f">>, <<"i">>}, a \in {<<C, A>>, <<C, AA>>, <<C, AA, B>>}, tr \in LnTrees}
  \cup {Scene("ln", o, a, tr) : o \in LnOpts, a \in {<<C, AC, B>>, <<AC, C, B>>, <<C, C, B>>},
           tr \in {Put(Two, AC, File("o")), Put(Put(Two, AC, File("o")), <<"b", "c">>, File("p"))}}
  \cup {Scene("link", <<>>, a, Base) : a \in {<<>>, <<C, AA, B>>}}
  \cup {Scene("link", <<>>, a, tr) : a \in {<<C, B>>, <<C, A>>, <<L, B>>, <<A, B>>, <<C>>}, tr \in LnTrees}
  \cup Racing({Scene("ln", o, a, tr) : o \in {<<>>, <<"f">>, <<"s">>}, a \in {<<C, B>>, <<C, A>>},
                                     tr \in {Base, Put(Base, <<"a", "c">>, File("o"))}}, LnRaces)


(*---------------------------------- cp -----------------------------------*)
(* no FIFO or device where a file would be opened *)
CpTrees == {Base, Two, Lead, Shut(Base, AA), Shut(Base, AB), Root(SetId(With(Base, AA, "own", "you"), AA)),
            SetId(With(Base, AA, "own", "you"), AA), SetId(Shut(Root(Base), AB), AB), Fixed(Base, AA),
            Put(Put(Put(Two, <<"b", "a">>, Dir), <<"b", "a", "a">>, File("o")), <<"b", "c">>, File("o")),
            Shut(Put(Two, <<"b", "a">>, File("o")), <<"b", "a">>),
            Put(Base, L, Sym("c")), Put(Base, AC, Sym("a")), Put(Lead, AC, Sym("/a")),
            Put(Put(Base, L, Sym("a/a")), AC, Sym("/c")), Put(Base, AC, [File("") EXCEPT !.type = "fifo"]),
            Root(Put(Base, AC, [File("") EXCEPT !.type = "dev"])), Put(Two, <<"b", "c">>, Sym("/c")),
            Put(Base, AC, [File("") EXCEPT !.type = "sock"]), Put(Base, AD, File("m")), Put(Base, B, File("o")),
            SetId(Put(Base, B, File("o")), B), Shut(Put(Base, B, File("o")), B), Same(Base, C, B),
            Put(Put(Two, <<"b", "a">>, Dir), <<"b", "a", "b">>, File("o"))}
CpArgs == {<<A, B>>, <<C, B>>, <<C, A, B>>, <<A, AB>>, <<A, AC>>, <<AA, C>>, <<C, C>>, <<L, B>>, <<C, L>>}
CpOpts == {<<>>, <<"R">>, <<"R", "p">>, <<"a", "N">>, <<"n", "R">>, <<"R", "f">>, <<"R", "i">>, <<"R", "L">>,
           <<"R", "H", "p">>, <<"P">>, <<"p", "X">>, <<"R", "l">>, <<"R", "s">>, <<"f", "l">>,
           <<"c", "R">>, <<"n", "f", "i">>}
CpRaces == {Change1("new", B, File("n")), Change1("gone", C, Blank), Change1("swap", C, Dir),
            Change1("swap", C, File("n")), Change1("gone", B, Blank), Change1("new", <<"b", "c">>, Dir)}
Simple == {Two, Lead, Put(Base, L, Sym("c")), Put(Base, B, File("o")), Same(Base, C, B)}
Many == {o \in CpOpts : o # <<>> /\ o[1] \in {"R", "n"}}
Odd == {<<<<>>, <<C, B>>>>, <<<<"R">>, <<A, B>>>>, <<<<"R", "p">>, <<A, B>>>>, <<<<"a">>, <<L, B>>>>,
        <<<<"R", "f">>, <<A, C, B>>>>, <<<<"R", "s">>, <<A, B>>>>, <<<<"R", "l">>, <<A, B>>>>, <<<<"c">>, <<C, B>>>>}
(* Below the target a symbolic link, out of it or to a directory, or a second
   name of a file; several sources with one name for their copies, one of them
   a link that the next is written through, or one that feeds another; the
   directory copied into twice, or a copy of it there already; "._" names     *)
InB(x, n) == Put(Put(Two, BA, Dir), BA \o x, n)
Chain   == Put(Put(Base, B, Dir), ABA, File("o"))
Paired  == Put(Two, AC, File("o"))
Deep    == Put(Put(Base, ABA, Dir), ABA \o A, File("o"))
Lone    == Put(Put(Nowhere, A, Dir), AD, File("m"))
Ways    == {<<"R">>, <<"R", "p">>, <<"R", "f">>, <<"R", "i">>, <<"n", "R">>, <<"c", "R">>, <<"R", "L">>}
OntoLink ==
  {<<<<A, B>>, tr>> : tr \in {InB(A, Sym("/c")), InB(B, Sym("/a")), Same(InB(B, Dir), C, BA \o A),
                            Put(Put(Base, AD, Dir), AD \o A, File("m")), Lone}}
  \cup {<<<<AA, ABA, B>>, With(With(Chain, AA, "type", "link"), AA, "data", "/c")>>,
        <<<<A, A, AB>>, Base>>, <<<<C, A, AB>>, Base>>, <<<<A, AB>>, Deep>>}
OneName ==
  {Scene("cp", o, a, tr) : a \in {<<C, AC, B>>, <<AC, C, B>>, <<C, C, B>>}, tr \in {Paired, Put(Paired, <<"b", "c">>, File("p"))},
     o \in {<<>>, <<"n">>, <<"i">>, <<"f">>, <<"p">>, <<"s">>, <<"l">>, <<"s", "f">>, <<"l", "f">>, <<"c">>}}
NoClone ==
  {[Scene("cp", o, a, tr) EXCEPT !.faults = {"clone"}] : tr \in Simple, a \in {<<C, B>>, <<A, B>>},
     o \in {<<"c">>, <<"c", "R">>, <<"c", "l">>, <<"c", "s">>, <<"c", "n">>, <<"c", "R", "p">>}}
Cps ==
  OneName \cup NoClone \cup {Scene("cp", o, k[1], k[2]) : o \in Ways, k \in OntoLink} \cup
  {Scene("cp", o, <<A, B>>, tr) : o \in CpOpts, tr \in CpTrees}
  \cup {Scene("cp", o, a, tr) : o \in Many, a \in CpArgs, tr \in Simple}
  \cup {Scene("cp", o, a, tr) : o \in CpOpts \ Many, a \in CpArgs \ {<<A, AB>>, <<A, AC>>}, tr \in Simple}
  \cup {[Scene("cp", k[1], k[2], tr) EXCEPT !.umask = TRUE, !.slash = TRUE] : k \in Odd, tr \in Simple}
  \cup {[Scene("cp", k[1], k[2], tr) EXCEPT !.faults = {x}] : k \in Odd, tr \in {Two, Put(Lead, B, File("o"))},
           x \in {"make", "data", "xattr", "acl", "close"}}
  \cup {Scene("cp", o, a, Base) : o \in {<<"c", "X">>, <<"R", "r">>, <<"l", "s">>, <<>>}, a \in {<<A, B>>, <<C>>}}
  \cup Racing({Scene("cp", k[1], k[2], tr) : k \in Odd, tr \in {Two, Put(Lead, B, File("o"))}}, CpRaces)

MCJobs == Rms \cup Lns \cup Cps
=============================================================================
