----------------------------- MODULE MCPaxMember -----------------------------
(* Instances of PaxMember: a run of pax that writes, sometimes one that adds,
   and one that lists, over scaled-down header fields.                       *)
EXTENDS PaxMemberProps, TLC

MCCharOrder == <<".", "/", "T", "_", "a", "b", "c", "x", "y">>
MCNameHash  == [x \in {"", "u", "v", "nobody"} |-> IF x = "v" THEN 1 ELSE 0]

a  == <<"a">>
b  == <<"b">>
c  == <<"c">>
ab == <<"a", "b">>
In(dir, name) == dir \o <<"/">> \o name

F(name, data) == [Blank EXCEPT !.name = name, !.type = "reg", !.size = 1, !.data = <<data>>, !.mt = 3,
                  !.ct = 3, !.dev = 1, !.ino = 1]
Link1(name, dev, ino, nlink) == [F(name, "linked") EXCEPT !.dev = dev, !.ino = ino, !.nlink = nlink]
Marked(fs, from) == [i \in DOMAIN fs |-> [fs[i] EXCEPT !.mark = from + i]]

Db1 == [usr |-> ("u" :> 1) @@ ("v" :> 6) @@ ("nobody" :> 3),
        grp |-> ("u" :> 1) @@ ("v" :> 2) @@ ("nobody" :> 3)]
Db2 == [usr |-> ("u" :> 5) @@ ("nobody" :> 3), grp |-> ("v" :> 4) @@ ("nobody" :> 3)]
NoKeys == [g |-> <<>>, x |-> <<>>, del |-> {}, nodir |-> FALSE, linkdata |-> FALSE]

Run(flags, fmt) == [fmt |-> fmt, opt |-> flags, files |-> <<>>, pats |-> <<>>, subs |-> <<>>,
                 usr |-> {}, grp |-> {}, rng |-> <<>>, o |-> NoKeys, db |-> Db1,
                 rmlead |-> FALSE]
Write(fmt, fs) == [Run({"w"}, fmt) EXCEPT !.files = Marked(fs, 0)]
Add(fmt, fs)   == [Run({"w", "a"}, fmt) EXCEPT !.files = Marked(fs, 10)]
List           == Run({}, "")
Scene(runs)    == [runs |-> runs, start |-> <<>>, was |-> <<>>, faults |-> 0]
Formats == {"tar", "ustar", "pax", "cpio", "sv4cpio", "sv4crc", "bcpio"}

(* A: what a header must hold, two files after each other, in every format,
   for a reader with the same users and one with others; names that just fit,
   just fill a prefix or are one too long, and sizes too big for the field  *)
Four  == <<"a", "b", "c", "x">>
Five  == <<"a", "b", "c", "x", "y">>
Kinds == {F(a, "one"), F(ab, "two"), F(In(a, b), "six"),
  F(Four, "name4"), F(Five, "name5"),
  F(In(a, <<"a", "b", "c">>), "split"), F(In(ab, <<"a", "b", "c">>), "split2"),
  F(In(<<"/", "a">>, b), "root"), F(In(ab, Five), "long"),
  F(In(<<"a", "b", "c", "a", "b", "c">>, a), "far"), F(In(Five, <<"a", "b", "c">>), "full"),
  F(In(Five, Four), "full2"), F(In(Four, <<"a", "b", "c">>), "less"), F(In(Four, Four), "less2"),
  [F(a, "") EXCEPT !.type = "dir", !.size = 0],
  [F(In(a, b), "") EXCEPT !.type = "dir", !.size = 0],
  [F(b, "") EXCEPT !.type = "slk", !.ln = a, !.size = 0],
  [F(b, "") EXCEPT !.type = "slk", !.ln = Four, !.size = 0],
  [F(b, "") EXCEPT !.type = "slk", !.ln = In(ab, ab), !.size = 0],
  [F(c, "") EXCEPT !.type = "chr", !.rdev = <<1, 3>>, !.size = 0],
  [F(c, "") EXCEPT !.type = "blk", !.rdev = <<1, 7>>, !.size = 0],
  [F(c, "") EXCEPT !.type = "fif", !.size = 0], [F(c, "") EXCEPT !.type = "sck", !.size = 0],
  [F(c, "eight") EXCEPT !.size = 8], [F(c, "sixteen") EXCEPT !.size = 16],
  [F(c, "user") EXCEPT !.uid = 1, !.gid = 1], [F(c, "three") EXCEPT !.uid = 3, !.gid = 2],
  [F(c, "many") EXCEPT !.uid = 6], [F(c, "five") EXCEPT !.uid = 5, !.gid = 4],
  [F(c, "nine") EXCEPT !.uid = 9, !.mt = 9], [F(c, "old") EXCEPT !.mt = 0, !.nlink = 9]}
Users  == {k \in Kinds : k.name = c /\ k.type = "reg"}
Apart(f, g) == <<f, [g EXCEPT !.ino = 2]>>
Headers == {Scene(<<Write(fmt, fs), [List EXCEPT !.db = db]>>) :
              fmt \in Formats, db \in {Db1, Db2},
              fs \in {Apart(F(a, "plain"), k) : k \in Kinds}
                     \cup {Apart(f, g) : f \in Users, g \in Users}}

(* B: links and device numbers, also of a device whose number map_dev gives *)
On(dev, ino, nl) == [dev |-> dev, ino |-> ino, nlink |-> nl]
Named3(t) == [i \in 1..3 |-> Link1(<<a, b, c>>[i], t[i].dev, t[i].ino, t[i].nlink)]
Nodes   == {On(1, 1, 2), On(5, 1, 2), On(5, 9, 3), On(9, 1, 2), On(9, 9, 2), On(5, 17, 1)}
Threes  == {t \in [1..3 -> Nodes] : \A x \in Nodes : Cardinality({i \in 1..3 : t[i] = x}) <= x.nlink}
LinkScenes == {Scene(<<[Write(fmt, Named3(t)) EXCEPT !.o.linkdata = ld], List>>) :
                 fmt \in Formats, t \in Threes, ld \in BOOLEAN}

(* C: files added to an archive, with -u only those that are newer, and links
   among them; the archive ends with a run that lists                      *)
At(name, t)  == [F(name, "at") EXCEPT !.mt = t, !.ct = t]
Olds    == {<<At(a, 3)>>, <<At(a, 3), At(b, 2)>>, <<At(a, 3), At(a, 1)>>,
            <<Link1(a, 5, 1, 3), Link1(b, 5, 1, 3)>>, <<Link1(a, 5, 9, 2)>>,
            <<Link1(a, 1, 1, 2), Link1(b, 1, 1, 2)>>}
News    == {<<At(a, 2)>>, <<At(a, 4), At(a, 4)>>, <<At(b, 2), At(a, 5)>>,
            <<Link1(c, 5, 1, 3)>>, <<Link1(b, 6, 1, 2), Link1(c, 6, 1, 2)>>, <<Link1(c, 9, 1, 2)>>}
Appends == {Scene(<<Write(fmt, f), Add(as, g), List>>) :
              fmt \in Formats \ {"pax"}, f \in Olds, g \in News, as \in {"", "tar"}}
           \cup {Scene(<<Write(fmt, f), [Add("", g) EXCEPT !.opt = o], List>>) :
              o \in {{"w", "u"}, {"w", "u", "c"}, {"w", "a", "u"}}, fmt \in {"tar", ""}, f \in Olds, g \in News}

(* D: patterns over names, with -n, -c and -d *)
Dir(name)  == [F(name, "") EXCEPT !.type = "dir", !.size = 0]
Names   == {<<F(a, ""), F(ab, ""), F(b, "")>>, <<Dir(a), F(In(a, b), ""), F(In(ab, c), "")>>,
            <<F(In(a, b), ""), F(In(a, c), ""), F(a, "")>>}
Pats    == {a, <<"*">>, <<"a", "*">>, <<"[", "a", "-", "b", "]">>, <<"[", "!", "a", "]", "*">>,
            In(a, b), <<"a", "?", "b">>, <<"?">>, <<"*", "b">>, <<"a", "[", "b">>, <<"b", "*", "/", "c">>}
Matches == {Scene(<<Write("ustar", fs), [List EXCEPT !.pats = p, !.opt = o]>>) :
              fs \in Names, o \in SUBSET {"n", "c", "d"},
              p \in {<<>>} \cup {<<x>> : x \in Pats} \cup {<<x, y>> : x \in {a, <<"*">>, In(a, b)}, y \in Pats}}

(* E: substitutions, on writing and on listing *)
Sub(re, new, flags) == <<",">> \o re \o <<",">> \o new \o <<",">> \o flags
G  == <<"g">>
Subs == {Sub(re, new, fl) : re \in {a, ab, <<"^", "a">>, <<"b", "*">>, <<"x">>}, fl \in {<<>>, G},
                            new \in {c, <<"&", "&">>, <<>>, <<"a", "a", "c">>}}
        \ ({Sub(<<"b", "*">>, <<"a", "a", "c">>, <<>>)} \cup {Sub(re, new, G) : re \in {<<"^", "a">>, <<"b", "*">>}, new \in {c, <<"&", "&">>, <<>>, <<"a", "a", "c">>}})
Wrong  == {<<",", "a">>, <<",", "a", ",", "b", ",", "z">>, <<>>}
SubFiles == {<<F(In(a, <<"a", "b", "a">>), "aba"), F(b, "b")>>, <<F(In(<<"/", "a">>, b), ""), F(ab, "")>>,
             <<Link1(a, 5, 1, 2), Link1(b, 5, 1, 2)>>,
             <<[F(b, "") EXCEPT !.type = "slk", !.ln = a, !.size = 0]>>}
Substs == {Scene(<<[Write("ustar", fs) EXCEPT !.subs = u, !.rmlead = rm], [List EXCEPT !.subs = v]>>) :
             fs \in SubFiles, rm \in BOOLEAN,
             <<u, v>> \in {<< <<x>>, <<>> >> : x \in Subs \cup Wrong} \cup {<< <<>>, <<x>> >> : x \in Subs \cup Wrong}
                        \cup {<< <<x, Sub(b, c, G)>>, <<>> >> : x \in Subs}}

(* F: users, groups and times *)
Id(num)    == [num |-> TRUE, id |-> num]
Named1(x)  == [num |-> FALSE, name |-> x]
Times(lo, hi, of) == [low |-> lo, high |-> hi, of |-> of]
Owned   == <<[At(a, 1) EXCEPT !.uid = 1], [At(b, 4) EXCEPT !.gid = 1, !.ct = 1], [At(c, 3) EXCEPT !.uid = 3]>>
Sels    == {[usr |-> {Id(1)}, grp |-> {}, rng |-> <<>>], [usr |-> {Named1("u"), Id(3)}, grp |-> {}, rng |-> <<>>],
            [usr |-> {}, grp |-> {Named1("u")}, rng |-> <<>>], [usr |-> {Named1("none")}, grp |-> {}, rng |-> <<>>]}
           \cup {[usr |-> us, grp |-> {}, rng |-> r] : us \in {{}, {Id(1)}},
                   r \in {<<Times(2, 3, {"m"})>>, <<Times(NoTime, 1, {"c"})>>, <<Times(2, NoTime, {"m", "c"})>>,
                          <<Times(3, 2, {})>>, <<Times(4, 4, {}), Times(1, 1, {"m"})>>}}
Choice(run, q) == [run EXCEPT !.usr = q.usr, !.grp = q.grp, !.rng = q.rng]
Selects == {Scene(<<Choice(Write("ustar", Owned), q), List>>) : q \in Sels}
           \cup {Scene(<<Write("ustar", Owned), Choice(List, q)>>) : q \in Sels}

(* G: the keywords of -o, for the writer and for the reader *)
Keys  == {NoKeys} \cup {[NoKeys EXCEPT !.g = <<<<"uid", 2>>>>], [NoKeys EXCEPT !.x = <<<<"uid", 3>>>>],
          [NoKeys EXCEPT !.x = <<<<"path", b>>>>], [NoKeys EXCEPT !.g = <<<<"uid", 2>>>>, !.x = <<<<"uid", 0>>>>],
          [NoKeys EXCEPT !.g = <<<<"uid", 2>>>>, !.del = {"uid"}], [NoKeys EXCEPT !.del = {"path"}]}
Keywords == {Scene(<<[Write("pax", <<F(a, "one"), F(ab, "two")>>) EXCEPT !.o = u], [List EXCEPT !.o = v]>>) :
               u \in Keys, v \in Keys}

(* H: metadata in a member before the file, some with a name that is refused,
   and files that cannot be opened                                         *)
Failing(x) == [x EXCEPT !.faults = 1]
Meta(f)  == [f EXCEPT !.md = TRUE]
Wide(data) == Meta(F(<<"a", "b", "c">>, data))         \* a name with no room for the "._" before it
Metas    == {Failing(Scene(<<[Write(fmt, fs) EXCEPT !.opt = o \cup {"w"}], List>>)) :
               fmt \in {"tar", "pax", "cpio", "sv4crc"}, o \in {{}, {"md"}},
               fs \in {<<Meta(F(a, "one")), F(b, "two")>>, <<Meta(F(a, "one")), Meta(F(b, "two"))>>,
                       <<F(a, "one"), Meta(Dir(b)), F(c, "two")>>, <<Wide("one")>>,
                       <<Wide("one"), F(b, "two"), F(a, "three")>>, <<Wide("one"), Meta(F(b, "two"))>>,
                       <<Wide("one"), [Wide("two") EXCEPT !.name = <<"a", "b", "x">>], F(b, "three")>>}}
Unopened == {Failing(Scene(<<Write(fmt, Named3(t)), List>>)) :
               fmt \in Formats, t \in {<<On(5, 1, 3), On(5, 1, 3), On(5, 1, 3)>>, <<On(5, 1, 2), On(5, 9, 2), On(5, 9, 2)>>}}

(* I: archives of GNU tar, with names in members of their own *)
Head0(k) == [k |-> k, name |-> c, prefix |-> <<>>, flag |-> "reg", ln |-> <<>>, size |-> 1, uid |-> 0,
             gid |-> 0, mt |-> 3, uname |-> NoName, gname |-> NoName, rdev |-> <<0, 0>>, data |-> <<>>, mark |-> 0]
Long0    == In(ab, <<"a", "b", "c">>)
Gnu(k, f) == (IF Len(f.name) > NameSz THEN <<[Head0(k) EXCEPT !.flag = "glf", !.data = f.name]>> ELSE <<>>)
             \o (IF Len(f.ln) > NameSz THEN <<[Head0(k) EXCEPT !.flag = "gll", !.data = f.ln]>> ELSE <<>>)
             \o <<[Head0(k) EXCEPT !.name = First(f.name, NameSz), !.ln = First(f.ln, NameSz), !.flag = f.type,
                                   !.size = f.size, !.data = f.data, !.mark = f.mark]>>
GnuFiles == {F(Long0, "long"), F(b, "short"), [F(a, "") EXCEPT !.type = "slk", !.ln = Long0, !.size = 0],
             [F(Long0, "") EXCEPT !.type = "slk", !.ln = Long0, !.size = 0]}
Gnus == {LET fs == Marked(gs, 0) IN
         [runs |-> <<List>>, start |-> Gnu(k, fs[1]) \o Gnu(k, fs[2]), faults |-> 0,
          was |-> [i \in 1..2 |-> [m |-> fs[i], run |-> 0, told |-> FALSE, as |-> fs[i].name]]] :
           k \in {"tar", "ustar"}, gs \in [1..2 -> GnuFiles]}

MCScenes == UNION {Headers, LinkScenes, Appends, Matches, Substs, Selects, Keywords, Metas, Unopened, Gnus}
=============================================================================
