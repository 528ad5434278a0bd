----------------------------- MODULE MCPaxRead ------------------------------
(* Instances of PaxRead: two or three members on every kind of archive, whole
   or cut off, split anywhere, with bad media or damaged anywhere.          *)
EXTENDS PaxRead

M(t, s, p, l) == [kind |-> t, skip |-> s, pad |-> p, like |-> l]
Three(l) == <<M("file", 3, 1, l), M("file", 6, 0, l), M("node", 0, 0, "plain")>>
Whole(a, t, ms, r) ==
  LET s == [act |-> a, single |-> FALSE, maxflt |-> -1, artyp |-> t, members |-> ms,
            sel |-> {1, 2}, rest |-> r, len |-> 0, split |-> 0, dam |-> {}, bad |-> {}]
  IN  [s EXCEPT !.len = Len(Archive(s))]

Looks == {Whole(a, t, Three(l), r) :
            a \in {"list", "extract"}, t \in {"REG", "PIPE", "CHR"},
            l \in {"plain", "head", "zeros"}, r \in {0, 4}}
           \cup {Whole("append", "REG", Three(l), r) :
                   l \in {"plain", "head", "zeros"}, r \in 0 .. 8}
Volumed == {[s EXCEPT !.split = n, !.sel = {2}] :
              s \in {Whole(a, t, Three("plain"), 2) :
                       a \in {"list", "extract"}, t \in {"REG", "CHR"}},
              n \in 1 .. 19}
Flawed(s) ==
  {[s EXCEPT !.bad = {n}, !.maxflt = f, !.single = o] :
     n \in 1 .. s.len, f \in {-1, 1}, o \in BOOLEAN}
    \cup {[s EXCEPT !.dam = {n}] : n \in 1 .. s.len}
    \cup {[s EXCEPT !.bad = {7, 8, n}, !.maxflt = f] : n \in 9 .. 16, f \in 0 .. 2}
    \cup {[s EXCEPT !.bad = {n}, !.split = 9] : n \in 1 .. s.len}
Faulty == UNION {Flawed(s) : s \in {Whole("extract", t, Three("plain"), 2) : t \in {"REG", "CHR"}}
                                 \cup {[Whole("list", "PIPE", Three("plain"), 2) EXCEPT !.len = 16]}}
AppendFlaws == {[s EXCEPT !.dam = {n}] : s \in {Whole("append", "REG", Three("head"), 2)}, n \in 1 .. 22}
                 \cup {[s EXCEPT !.bad = {n}] : s \in {Whole("append", "REG", Three("plain"), 2)}, n \in 1 .. 22}
                 \cup {[s EXCEPT !.split = n] : s \in {Whole("append", "CHR", Three("zeros"), 2)}, n \in 2 .. 22}
Cut == {[s EXCEPT !.len = n, !.single = o] :
          s \in {Whole(a, "REG", Three("plain"), 0) : a \in {"list", "extract", "append"}},
          n \in 0 .. 19, o \in BOOLEAN}
AllScenes == Looks \cup Volumed \cup Faulty \cup AppendFlaws \cup Cut
=============================================================================
