----------------------------- MODULE MCPaxTree ------------------------------
(* Instances of PaxTree: archives of up to three members extracted over small
   trees, and small trees copied.                                            *)
EXTENDS PaxTreeProps, TLC

d == <<"d">>
f == <<"d", "f">>
g == <<"g">>
h == <<"h">>
x == <<"x">>
In(p)   == x \o p
MCPaths == {d, f, g, h, x, In(d), In(f), In(g), In(h)}
MCInodes == 1..9
MCNow == 9

Member(p, t) == [NoMember EXCEPT !.name = p, !.type = t, !.mt = 5, !.at = 5, !.ct = 5,
                                 !.tag = "arch", !.data = t]
Hard(p, to)  == [Member(p, "hlk") EXCEPT !.ln = to]
Cpio(p)      == [Member(p, "reg") EXCEPT !.nlink = 2, !.dev = 1]
Closed       == [Member(d, "dir") EXCEPT !.u = FALSE, !.s = TRUE]
Other        == [Member(g, "reg") EXCEPT !.own = "other", !.s = TRUE]
Newer(y)     == [y EXCEPT !.mt = 6, !.data = "new"]

Entry(t, i) == [Blank EXCEPT !.type = t, !.tag = "old", !.mt = 4, !.at = 4, !.ct = 4,
                             !.data = "old" , !.u = i]
NoEntries == [p \in MCPaths |-> 0]
NoNodes   == [i \in MCInodes |-> Blank]
Put(t, p, n) == LET i == Unused(t) IN [t EXCEPT !.ent[p] = i, !.node[i] = n]
Empty(r) == [ent |-> NoEntries, node |-> NoNodes, root |-> r]

Scene(op, opt, keep, from, t) ==
  [op |-> op, opt |-> opt, keep |-> keep, subst |-> <<>>, names |-> {}, unsel |-> {},
   umask |-> FALSE, cpio |-> FALSE, sig |-> FALSE, dest |-> x, from |-> from, tree |-> t]

(* What may be there already *)
Dir  == Entry("dir", TRUE)
File == Entry("reg", TRUE)
Trees == {Empty(FALSE), Put(Put(Empty(FALSE), d, Dir), f, File), Put(Empty(FALSE), g, Dir),
          Put(Put(Empty(FALSE), g, File), h, File), Put(Empty(FALSE), d, Dir),
          Put(Empty(TRUE), d, File),
          Put(Put(Put(Empty(FALSE), d, Dir), f, [File EXCEPT !.mt = 5]), g, [File EXCEPT !.mt = 7])}
All == {"mode", "ids", "at", "mt"}
Keeps == {All, {"mt"}, {}}
Kinds == {Member(d, "dir"), Closed, Member(f, "reg"), Newer(Member(f, "reg")), Member(g, "reg"),
          Hard(h, g), Hard(f, g), Member(h, "slk"), Member(d, "reg"), Member(g, "fif"), Other,
          Hard(g, h)}
Upto(n, K) == UNION {[1..i -> K] : i \in 1..n}
(* every archive over every tree, to the end *)
Plain == {Scene("extract", o, All, a, t) : o \in {{}, {"k"}, {"u"}}, a \in Upto(2, Kinds), t \in Trees}
(* three members, over nothing or a little *)
Three == {Scene("extract", {}, All, a, t) : a \in [1..3 -> Kinds], t \in {Empty(FALSE), Empty(TRUE)}}
(* a signal anywhere, every way to keep attributes, a umask that takes the owner's rights *)
Dirs == {Member(d, "dir"), Closed, Member(f, "reg"), Other, Member(d, "reg")}
Signals == {[Scene("extract", {}, k, a, t) EXCEPT !.sig = TRUE, !.umask = um] :
              k \in Keeps, a \in Upto(2, Dirs), um \in BOOLEAN,
              t \in {Empty(FALSE), Empty(TRUE), Put(Empty(FALSE), d, [Dir EXCEPT !.own = "other"])}}
(* names changed by -s and by the user, links to them, and cpio's links *)
Renames == {[Scene("extract", o, All, a, Empty(FALSE)) EXCEPT !.subst = s, !.names = {h, f}] :
              o \in {{"i"}, {}}, s \in {<<>>, (g :> h), (g :> <<>>)},
              a \in Upto(2, {Member(g, "reg"), Hard(f, g), Member(d, "reg")})}
Cpios == {[Scene("extract", o, All, a, t) EXCEPT !.cpio = TRUE, !.unsel = n] :
             o \in {{}, {"k"}, {"u"}}, a \in [1..3 -> {Cpio(g), Cpio(h), Cpio(f)}], n \in {{}, {g}},
             t \in {Empty(FALSE), Put(Empty(FALSE), g, File)}}

(* Trees to copy: d with f, g and h links of one file or not, into x *)
Src == Put(Put(Put(Empty(FALSE), x, Dir), d, Dir), f, File)
Two == Put(Src, g, [File EXCEPT !.data = "g", !.mt = 7, !.s = TRUE])
Lnk == [Two EXCEPT !.ent[h] = Two.ent[g]]
Shut == [Lnk EXCEPT !.node[2].u = FALSE]
Slk == Put(Two, h, Entry("slk", TRUE))
Dst == Put(Lnk, In(g), File)
Loop == [Lnk EXCEPT !.ent[In(g)] = Lnk.ent[g]]
Half == Put(Put(Lnk, In(d), Dir), In(f), File)
Wall == Put(Put(Lnk, In(d), File), In(g), Dir)
Mute == [Lnk EXCEPT !.node[3].u = FALSE]
Copied == {Two, Mute, Lnk, Slk, Dst, Loop, Half, Wall}
Copy0(o, from, t) == Scene("copy", o, All, from, t)
CopyOpts == {{}, {"k"}, {"u"}, {"l"}, {"n", "t"}, {"d", "t"}, {"t"}, {"Z"}, {"D"}, {"Y"}}
Copies1 == {Copy0(o, from, t) : o \in CopyOpts, t \in Copied,
                                from \in {<<d, g, h>>, <<g, d>>, <<h, h, f>>}}
Copies2 == {[Copy0(o, <<d, g>>, t) EXCEPT !.sig = TRUE, !.subst = s, !.unsel = n] :
              o \in {{"t"}, {"n", "t"}, {"l"}}, t \in {Two, Half, Shut},
              s \in {<<>>, (g :> h), (f :> <<>>)}, n \in {{}, {d}, {f}}}
Chdirs == {Scene("extract", {}, {}, a, Put(Put(Empty(FALSE), x, Dir), g, File)) :
             a \in [1..2 -> {Member(g, "reg"), [Member(f, "reg") EXCEPT !.chd = x],
                            [Member(g, "reg") EXCEPT !.chd = x]}]}
Extracts == Chdirs \cup Plain \cup Three \cup Signals \cup Renames \cup Cpios
All1 == Extracts \cup Copies1 \cup Copies2
=============================================================================
