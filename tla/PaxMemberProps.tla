--------------------------- MODULE PaxMemberProps ---------------------------
(***************************************************************************)
(* What a user of pax relies on, whatever the format: what is archived     *)
(* comes back as it was, nothing is left out in silence, and patterns and  *)
(* substitutions choose and name what they say.  The reference definitions *)
(* are written from the meaning of patterns, regular expressions and       *)
(* keywords, not from the code.                                            *)
(***************************************************************************)
EXTENDS PaxMember
LOCAL INSTANCE FiniteSetsExt
LOCAL INSTANCE SequencesExt

(* The state of a run is what the program can hold *)
TypeOK ==
  /\ n \in 1..Len(sc.runs) /\ meta \in BOOLEAN /\ left \in 0..sc.faults
  /\ pc \in {"options", "file", "link", "name", "store", "scan", "member", "match", "select",
             "listed", "over"}
  /\ pos \in 1..(Len(arch) + 1)
  /\ \A l \in tab.lnk : l.nlink >= 2 /\ \A k \in tab.lnk : Same(k, l) => k = l
  /\ \A d, e \in tab.dev : d.dev = e.dev => d = e
  /\ \A e, f \in tab.ft : e.name = f.name => e = f
  /\ \A i, j \in DOMAIN pats : pats[i].no = pats[j].no => i = j

Format(c) == IF c.fmt = "" THEN "ustar" ELSE c.fmt

---------------------------------------------------------------------------
(* References                                                              *)

(* The characters of the bracket expression from i to its closing bracket *)
Close(p, i) == Min({k \in (i + 1)..Len(p) : p[k] = "]"})
Class(p, i) ==
  LET a == IF p[i + 1] = "!" THEN i + 2 ELSE i + 1
      in(c) == \E k \in a..(Close(p, i) - 1) :
                 \/ p[k] = c
                 \/ k + 2 < Close(p, i) /\ p[k + 1] = "-"
                    /\ Code(p[k]) <= Code(c) /\ Code(c) <= Code(p[k + 2]) IN
  {c \in {CharOrder[x] : x \in DOMAIN CharOrder} : in(c) = (p[i + 1] # "!")}
(* Where in s the pattern p, from its character i on, can end when it starts
   at one of the places P; a bracket that is not closed stands for nothing *)
RECURSIVE Ends(_, _, _, _)
Ends(p, i, s, P) ==
  IF i > Len(p) THEN P
  ELSE IF p[i] = "*" THEN Ends(p, i + 1, s, {e \in 0..Len(s) : \E a \in P : a <= e})
  ELSE LET step(C) == {a + 1 : a \in {b \in P : b < Len(s) /\ s[b + 1] \in C}}
           all == {CharOrder[x] : x \in DOMAIN CharOrder} IN
       IF p[i] = "[" /\ \A k \in i..Len(p) : p[k] # "]" THEN {}
       ELSE IF p[i] = "[" THEN Ends(p, Close(p, i) + 1, s, step(Class(p, i)))
       ELSE Ends(p, i + 1, s, step(IF p[i] = "?" THEN all ELSE {p[i]}))
(* A pattern chooses a name, and without -d what is below a directory *)
Means(p, s, dflag) == \E e \in Ends(p, 1, s, {0}) :
                        e = Len(s) \/ (~ dflag /\ e > 0 /\ s[e + 1] = "/")

(* With g every occurrence of a literal is replaced, from the left, that does
   not overlap the one before; without it the leftmost match is            *)
RECURSIVE Replace(_, _, _)
Replace(s, lit, new) ==
  IF s = <<>> THEN <<>>
  ELSE IF HasPrefix(s, lit)
       THEN ReSub(new, lit) \o Replace(SubSeq(s, Len(lit) + 1, Len(s)), lit, new)
  ELSE <<Head(s)>> \o Replace(Tail(s), lit, new)
(* Of several the first that finds something counts *)
Renamed(strs, s) ==
  LET on == {i \in DOMAIN strs : RegExec(RepAdd(strs[i]).re, s).ok}
      r == RepAdd(strs[Min(on)])
      x == RegExec(r.re, s) IN
  IF on = {} THEN s
  ELSE IF r.g THEN Replace(s, r.re, r.new)
  ELSE SubSeq(s, 1, x.so) \o ReSub(r.new, SubSeq(s, x.so + 1, x.eo)) \o SubSeq(s, x.eo + 1, Len(s))

Wants(c, x) ==
  /\ c.usr # {} => \E a \in c.usr : IF a.num THEN x.uid = a.id ELSE x.uid = c.db.usr[a.name]
  /\ c.grp # {} => \E a \in c.grp : IF a.num THEN x.gid = a.id ELSE x.gid = c.db.grp[a.name]
  /\ c.rng # <<>> => \E i \in DOMAIN c.rng :
       LET r == c.rng[i]
           ts == (IF "m" \in r.of \/ r.of = {} THEN {x.mt} ELSE {})
                 \cup (IF "c" \in r.of THEN {x.ct} ELSE {}) IN
       (\E t \in ts : r.low = NoTime \/ t >= r.low) /\ (\E t \in ts : r.high = NoTime \/ t <= r.high)

(* An archive holds one time of a file *)
Read(x) == [x EXCEPT !.ct = x.mt]

---------------------------------------------------------------------------
(* Writing                                                                 *)

Logged(r) == {log[i].m.mark : i \in {j \in DOMAIN log : log[j].run = r}}
(* A file every format has room for *)
Small(f) == /\ f.type \in {"reg", "dir", "slk"} /\ f.size < 8 /\ f.uid < 2 /\ f.gid < 2
            /\ Len(f.name) + 1 < NameSz /\ Len(f.ln) < NameSz /\ f.ino < 4 /\ f.nlink <= 2
Reason(c, d, f) ==
  CASE d.why = "usage" -> TRUE
    [] d.why = "sel"   -> ~ Wants(c, f)
    [] d.why = "empty" -> c.subs # <<>> /\ <<>> \in {Renamed(c.subs, f.name), Renamed(c.subs, f.ln),
                                       Renamed(c.subs, Rootless(f.name))}
    [] d.why = "old"   -> \E i \in DOMAIN log : log[i].as = f.name /\ log[i].m.mt >= f.mt
    [] d.why = "nodir" -> c.o.nodir /\ f.type = "dir"
    [] d.why = "told"  -> left < sc.faults \/ c.subs # <<>> \/ ~ Small(f)
(* The metadata of a file, when their member is refused: wr_archive goes on as
   if they had been stored, and puts the file in the place of the next one
   (ar_subs.c:654); one file is lost for each.                             *)
Bared(r) == {f \in ToSet(sc.runs[r].files) : 100 + f.mark \in {d.mark : d \in drop}}
(* Every file a run was given is in the archive when it ends, once and with
   its metadata before it, or was left out for a reason: the user was told,
   asked for it or has it there already (wr_archive(), ar_subs.c:564-793).
   Files are lost only to metadata that were refused, no more than those.  *)
Kept == pc = "over" =>
  LET r == n
      files == ToSet(sc.runs[r].files)
      out(f) == {d \in drop : d.mark = f.mark}
      lost == {f \in files : f.mark \notin Logged(r) /\ out(f) = {}} IN
  /\ Cardinality(lost) <= Cardinality(Bared(r))
  /\ \A f \in files :
    /\ \A d \in out(f) : Reason(sc.runs[r], d, f)
    /\ (f.md /\ "md" \in sc.runs[r].opt /\ f.mark \in Logged(r) /\ left = sc.faults)
         => (100 + f.mark) \in Logged(r) \/ f \in Bared(r)
    /\ Cardinality({j \in DOMAIN log : log[j].m.mark = f.mark /\ log[j].run = r}) <= 1

---------------------------------------------------------------------------
(* Reading                                                                 *)

Listing(r) == SelectSeq(got, LAMBDA g : g.run = r)
Listed     == pc = "over" /\ Act = "list" /\ arch # <<>>
Plain(c)   == c.pats = <<>> /\ c.subs = <<>> /\ c.usr = {} /\ c.grp = {} /\ c.rng = <<>>
              /\ "n" \notin c.opt
(* What a keyword says: -o key:= of the reader, of the writer, then key= *)
Says(key, r, w, fmt, field) ==
  LET has(recs) == \E i \in DOMAIN recs : recs[i][1] = key
      of(recs) == recs[CHOOSE i \in DOMAIN recs : recs[i][1] = key][2]
      kept == key \notin w.del /\ fmt = "pax" IN
  IF key \in r.del THEN field
  ELSE IF has(r.x) THEN of(r.x) ELSE IF kept /\ has(w.x) THEN of(w.x)
  ELSE IF has(r.g) THEN of(r.g) ELSE IF kept /\ has(w.g) THEN of(w.g) ELSE field
(* The owner a member has for a reader: by name when both know it *)
OwnedBy(e, c, w) ==
  LET names == {x \in DOMAIN w.db.usr : w.db.usr[x] = e.m.uid}
      number == IF e.m.uid < 2 ^ (Short - 1) THEN e.m.uid ELSE w.db.usr["nobody"] IN
  IF Format(w) \notin {"ustar", "pax"} THEN {e.m.uid}
  ELSE IF names \cap DOMAIN c.db.usr # {} THEN {c.db.usr[x] : x \in names \cap DOMAIN c.db.usr}
  ELSE {Says("uid", c.o, w.o, Format(w), number)}

(* What the i-th of the members g is after extraction: the place in the log of
   the file whose contents it has; a link has those of the name it goes to *)
RECURSIVE Content(_, _)
Content(g, i) ==
  LET to == {j \in 1..(i - 1) : g[j].m.name = g[i].m.ln} IN
  IF g[i].m.type \notin Links THEN i
  ELSE IF to = {} THEN 0 ELSE Content(g, Max(to))
Twins(e, f) == e.run = f.run /\ Same(e.m, f.m) /\ e.m.nlink > 1 /\ f.m.nlink > 1
               /\ e.m.mark < 100 /\ f.m.mark < 100
Links1(c) == ~ (Format(c) \in Tars /\ c.o.linkdata)
(* Where a member need not come back: its name, in ustar, when the prefix just
   fills its field, of which the last character is lost (tar.c:1034);
   everything from there on, in pax, when one before it was too big for its
   size field, whose record is then given to all that follow; and the links
   of two files, when map_dev gave the one the device number that the other
   has of its own (tables.c:774 asks only which were given).               *)
Stem(w, s)  == IF Format(w) = "ustar" /\ Len(s) > NameSz /\ NameSplit(s) = PrefixSz + 1
               THEN First(s, PrefixSz - 1) \o From(s, PrefixSz + 1) ELSE s
Oversize(w, e) == Format(w) = "pax" /\ HasData(e.m) /\ e.m.size >= 2 ^ (Long - 1)
Heads == {arch[i] : i \in {j \in DOMAIN arch : arch[j].k \in Cpios}}
Key(h)   == <<h.dev, h.ino>>
Confused(e) ==
  \E h, k \in Heads, d, f \in ToSet(log) :
    /\ h.mark = d.m.mark /\ k.mark = f.m.mark /\ Same(d.m, e.m) /\ ~ Same(f.m, e.m)
    /\ Key(h) = Key(k) /\ (Key(h) = Key(d.m)) # (Key(k) = Key(f.m))
(* A list without patterns gives every member that was stored, in order and
   with the name, kind, size, owner and times it was stored with, and its
   hard links lead to the file they were links of, so that exactly the links
   of one file come out as links (tar.c, pax_format.c, cpio.c, chk_lnk() and
   map_dev() of tables.c, cache.c); but for Stem, Oversize and Confused.   *)
ReadBack == (Listed /\ Plain(Cmd)) =>
  LET g == Listing(n)
      c == Cmd
      writer(i) == IF log[i].run = 0 THEN c ELSE sc.runs[log[i].run]
      sound == {i \in DOMAIN log : \A j \in 1..(i - 1) : ~ Oversize(writer(j), log[j])} IN
  /\ sound = DOMAIN log => Len(g) = Len(log)
  /\ \A i \in sound :
       LET e == log[i]
           x == g[i].m
           w == writer(i) IN
       /\ x.mark = e.m.mark
       /\ x.name = Says("path", c.o, w.o, Format(w), Stem(w, e.as))
       /\ x.mt = e.m.mt
       /\ x.uid \in OwnedBy(e, c, w)
       /\ x.type \notin Links =>
            /\ x.type = e.m.type
            /\ x.type = "reg" => x.size = e.m.size /\ x.data = e.m.data
            /\ x.type = "slk" => x.ln = e.m.ln
            /\ x.rdev = e.m.rdev
       /\ x.type \in Links /\ ~ Confused(e) => Content(g, i) # 0 /\ Twins(e, log[Content(g, i)])
       /\ Links1(w) /\ ~ Confused(e) =>
            \A j \in 1..(i - 1) : Twins(e, log[j]) => Content(g, i) = Content(g, j)

(* Below a directory d, or d itself *)
Under(d, s) == s = d \/ HasPrefix(s, Append(d, "/"))
(* A file that is written is in the archive, unless there is a reason, and comes
   out of it as it was (wr_archive() and append() against list(), with the
   tables and the header formats between them).                             *)
ComesBack == Kept /\ ReadBack

(* Without -n a list shows the members that a pattern (with -c no pattern)
   chooses; with -n every pattern takes one member or, without -d, one
   directory with what is in it, and no member is left that a pattern not
   used before could have taken.  Selection by owner and time and the names
   after -s are the ones asked for, and the patterns reported as not matched
   are those that took nothing (pat_match(), pat_sel(), rep_name())        *)
Chosen == (Listed /\ OptionsOK) =>
  LET c == Cmd
      d == "d" \in c.opt
      g == Listing(n)
      hit(k, s) == Means(c.pats[k], s, d)
      took(k) == {i \in DOMAIN g : g[i].no = k}
      shown == {g[i].m.mark : i \in DOMAIN g}
      first(k) == g[Min(took(k))].org IN
  /\ \A i \in DOMAIN g : Wants(c, g[i].m)
  /\ \A i \in DOMAIN g :
         LET s == IF c.rmlead THEN Rootless(g[i].org) ELSE g[i].org IN
         IF g[i].shown THEN g[i].m.name = Renamed(c.subs, s)
         ELSE Renamed(c.subs, s) = <<>> \/ Len(Renamed(c.subs, s)) > PathMax
              \/ Renamed(c.subs, g[i].m.ln) = <<>>
  /\ "n" \notin c.opt =>
       \A i \in DOMAIN log :
         LET e == log[i] IN
         (e.m.mark \in shown) <=>
           (/\ c.pats = <<>> \/ ((\E k \in DOMAIN c.pats : hit(k, e.as)) # ("c" \in c.opt))
            /\ Wants(c, Read(e.m)))
  /\ ("n" \in c.opt /\ "c" \notin c.opt) =>
       /\ \A k \in DOMAIN c.pats : took(k) # {} =>
            \/ Cardinality(took(k)) = 1 /\ hit(k, first(k))
            \/ /\ ~ d /\ hit(k, first(k))
               /\ \E l \in 1..Len(first(k)) :
                    LET dir == SubSeq(first(k), 1, l) IN
                    hit(k, dir) /\ \A i \in took(k) : Under(dir, g[i].org)
       /\ \A i \in DOMAIN log : (log[i].m.mark \notin shown /\ Wants(c, Read(log[i].m))) =>
            \A k \in DOMAIN c.pats : hit(k, log[i].as) => took(k) # {}
  /\ "c" \notin c.opt => \A k \in DOMAIN c.pats :
                         ([run |-> n, no |-> k] \in told) <=> (took(k) = {})

=============================================================================
