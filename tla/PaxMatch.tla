------------------------------ MODULE PaxMatch ------------------------------
(***************************************************************************)
(* How pax chooses members and names them: the patterns and substitutions  *)
(* of pat_rep.c and the selection by owner and time of sel_subs.c, as      *)
(* operators.  A name, a pattern and an argument of -s are sequences of    *)
(* one-character strings.                                                  *)
(***************************************************************************)
EXTENDS Integers, Sequences, FiniteSets
LOCAL INSTANCE FiniteSetsExt

CONSTANTS
  CharOrder,   \* the characters names are made of, in the order of their codes
  PathMax      \* PAXPATHLEN

Code(c)      == CHOOSE i \in DOMAIN CharOrder : CharOrder[i] = c
From(s, i)   == SubSeq(s, i, Len(s))
First(s, k)  == SubSeq(s, 1, IF k < Len(s) THEN k ELSE Len(s))
HasPrefix(s, p) == Len(p) <= Len(s) /\ SubSeq(s, 1, Len(p)) = p

---------------------------------------------------------------------------
(* Patterns                                                                *)

(* range_match: what follows the bracket at k - 1 on the character c; the
   position after the closing bracket, 0 when c is not in it             *)
RECURSIVE Scan(_, _, _, _)
Scan(p, k, c, ok) ==
  IF k > Len(p) THEN [at |-> 0, ok |-> FALSE]
  ELSE IF p[k] = "]" THEN [at |-> k + 1, ok |-> ok]
  ELSE IF k + 2 <= Len(p) /\ p[k + 1] = "-" /\ p[k + 2] # "]"
       THEN Scan(p, k + 3, c, ok \/ (Code(p[k]) <= Code(c) /\ Code(c) <= Code(p[k + 2])))
       ELSE Scan(p, k + 1, c, ok \/ p[k] = c)
RangeMatch(p, k, c) ==
  LET neg == k <= Len(p) /\ p[k] = "!"
      r == Scan(p, IF neg THEN k + 1 ELSE k, c, FALSE) IN
  IF r.ok = neg THEN 0 ELSE r.at

(* fn_match of the pattern from i on and the name from j on: -1 is no match,
   0 a match of the whole name, k > 0 one of what is before the slash at k   *)
None == -1
RECURSIVE FnMatch(_, _, _, _, _)
FnMatch(p, i, s, j, dflag) ==
  IF i > Len(p) THEN
    IF j > Len(s) THEN 0 ELSE IF dflag \/ s[j] # "/" THEN None ELSE j
  ELSE IF p[i] = "*" THEN
    LET rest == {k \in i..Len(p) : p[k] # "*"} IN
    IF rest = {} THEN 0
    ELSE LET on == {e \in j..Len(s) : FnMatch(p, Min(rest), s, e, dflag) # None} IN
         IF on = {} THEN None ELSE FnMatch(p, Min(rest), s, Min(on), dflag)
  ELSE IF j > Len(s) THEN None
  ELSE IF p[i] = "[" THEN
    LET k == RangeMatch(p, i + 1, s[j]) IN
    IF k = 0 THEN None ELSE FnMatch(p, k, s, j + 1, dflag)
  ELSE IF p[i] = "?" \/ p[i] = s[j] THEN FnMatch(p, i + 1, s, j + 1, dflag)
  ELSE None

(* pat_add: str is the pattern, dir says whether it now stands for a
   directory and what is below (DIR_MTCH), hit whether it chose something
   (MTCH), no is its place on the command line                             *)
PatAdd(strs) == [i \in DOMAIN strs |-> [str |-> strs[i], dir |-> FALSE, hit |-> FALSE, no |-> i]]

(* Mutant: what starts with the name of a directory is below it *)
TryPrefix(p, name, dflag) ==
  IF p.dir THEN IF HasPrefix(name, p.str) THEN 0 ELSE None ELSE FnMatch(p.str, 1, name, 1, dflag)
(* One pattern against a name, as pat_match tries it *)
Try(p, name, dflag) ==
  IF p.dir THEN IF HasPrefix(name, p.str) /\ Len(name) > Len(p.str)
                   /\ name[Len(p.str) + 1] = "/" THEN 0 ELSE None
  ELSE FnMatch(p.str, 1, name, 1, dflag)

(* pat_sel: the patterns after the member matched the k-th of them, with the
   part of the name before the slash at pend *)
PatSel(pats, k, pend, name, isdir, opt) ==
  LET dir == IF pend > 0 THEN SubSeq(name, 1, pend - 1) ELSE name IN
  IF k = 0 THEN pats
  ELSE IF "n" \notin opt THEN [pats EXCEPT ![k].hit = TRUE]
  ELSE IF pats[k].dir THEN pats
  ELSE IF "d" \notin opt /\ (pend > 0 \/ isdir)
       THEN [pats EXCEPT ![k] = [@ EXCEPT !.dir = TRUE, !.hit = TRUE,
               !.str = IF dir[Len(dir)] = "/" THEN SubSeq(dir, 1, Len(dir) - 1) ELSE dir]]
  ELSE SubSeq(pats, 1, k - 1) \o From(pats, k + 1)

(* pat_match: stop the walk, skip the member or go on with it; the pattern
   it matched, and where; the patterns after                               *)
Go(pats, k, pend) == [res |-> "go", k |-> k, pend |-> pend, pats |-> pats]
Skip(pats)        == [Go(pats, 0, 0) EXCEPT !.res = "skip"]
Matched(pats, k, name, isdir, opt) ==
  IF k = 0 THEN IF "c" \in opt THEN Go(pats, 0, 0) ELSE Skip(pats)
  ELSE LET pend == Try(pats[k], name, "d" \in opt) IN
       IF "c" \notin opt THEN Go(pats, k, pend)
       ELSE Skip(PatSel(pats, k, pend, name, isdir, opt))
PatMatch(pats, name, isdir, opt) ==
  IF pats = <<>> THEN IF "n" \in opt /\ "c" \notin opt
                      THEN [Go(pats, 0, 0) EXCEPT !.res = "stop"] ELSE Go(pats, 0, 0)
  ELSE LET on == {i \in DOMAIN pats : Try(pats[i], name, "d" \in opt) # None} IN
       Matched(pats, IF on = {} THEN 0 ELSE Min(on), name, isdir, opt)

(* pat_chk: the patterns the user is told about at the end *)
PatChk(pats) == {pats[i].no : i \in {j \in DOMAIN pats : ~ pats[j].hit}}

---------------------------------------------------------------------------
(* Substitutions                                                           *)

(* regexec() on basic regular expressions of literals, one of which may be
   anchored or repeated: where the leftmost match starts and ends          *)
RegExec(re, t) ==
  LET bol == re # <<>> /\ re[1] = "^"
      lit == IF bol THEN Tail(re) ELSE re
      star == Len(lit) = 2 /\ lit[2] = "*"
      run(k) == Max({e \in k..Len(t) : \A x \in (k + 1)..e : t[x] = lit[1]})
      at == {k \in 0..Len(t) : (bol => k = 0) /\ (star \/ HasPrefix(From(t, k + 1), lit))} IN
  IF at = {} THEN [ok |-> FALSE, so |-> 0, eo |-> 0]
  ELSE LET so == Min(at) IN
       [ok |-> TRUE, so |-> so, eo |-> IF star THEN run(so) ELSE so + Len(lit)]

(* rep_add: the parts of the argument of -s *)
NextDelim(str, i) ==
  LET ends == {k \in i..Len(str) : str[k] = str[1]} IN
  IF ends = {} THEN 0 ELSE Min(ends)
RepAdd(str) ==
  LET e == IF str = <<>> THEN 0 ELSE NextDelim(str, 2)
      f == IF e = 0 THEN 0 ELSE NextDelim(str, e + 1)
      flags == IF f = 0 THEN {} ELSE {str[k] : k \in (f + 1)..Len(str)} IN
  IF f = 0 \/ ~ flags \subseteq {"g", "p"} THEN [ok |-> FALSE, re |-> <<>>, new |-> <<>>, g |-> FALSE]
  ELSE [ok |-> TRUE, re |-> SubSeq(str, 2, e - 1), new |-> SubSeq(str, e + 1, f - 1),
        g |-> "g" \in flags]

Cut(s) == First(s, PathMax)
(* resub: the replacement for a match *)
RECURSIVE ReSub(_, _)
ReSub(new, hit) ==
  IF new = <<>> THEN <<>>
  ELSE (IF Head(new) = "&" THEN hit ELSE <<Head(new)>>) \o ReSub(Tail(new), hit)

(* rep_name: one substitution, from what is done of the name (out) and what is
   left of it (inp); m is where it matches next, done the name with it replaced *)
RECURSIVE Rep(_, _, _, _)
Replaced(r, inp, out, m, done) ==
  IF Len(out) + m.so >= PathMax
  THEN [found |-> TRUE, inp |-> From(inp, PathMax - Len(out) + 1), out |-> Cut(out \o SubSeq(inp, 1, m.so))]
  ELSE IF Len(done) = PathMax \/ m.eo = Len(inp) \/ ~ r.g
       THEN [found |-> TRUE, inp |-> From(inp, m.eo + 1), out |-> done]
  ELSE Rep(r, From(inp, m.eo + 1), done, TRUE)
RepAt(r, inp, out, found, m) ==
  IF ~ m.ok THEN [found |-> found, inp |-> inp, out |-> out]
  ELSE Replaced(r, inp, out, m, Cut(out \o SubSeq(inp, 1, m.so)
                                        \o ReSub(r.new, SubSeq(inp, m.so + 1, m.eo))))
Rep(r, inp, out, found) == RepAt(r, inp, out, found, RegExec(r.re, inp))

(* rep_name: the first substitution that finds something decides; a name too
   long is told, an empty one is not *)
AsNamed(name, new) ==
  IF Len(new) > PathMax THEN [skip |-> TRUE, told |-> TRUE, name |-> name]
  ELSE [skip |-> new = <<>>, told |-> FALSE, name |-> new]
RepName(reps, name) ==
  LET on == SelectSeq([i \in DOMAIN reps |-> Rep(reps[i], name, <<>>, FALSE)], LAMBDA e : e.found) IN
  IF on = <<>> THEN [skip |-> FALSE, told |-> FALSE, name |-> name]
  ELSE AsNamed(name, Head(on).out \o Head(on).inp)

(* mod_name: tar and cpio take the first slash of a name away, a link's too *)
Rootless(name) == IF name = <<>> \/ name[1] # "/" THEN name
                  ELSE IF Len(name) = 1 THEN <<".">> ELSE Tail(name)
Modified(m, n, l) ==
  IF n.skip THEN [skip |-> TRUE, told |-> n.told, m |-> m]
  ELSE IF m.type \in {"slk", "hlk", "hrg"}
       THEN [skip |-> l.skip, told |-> FALSE, m |-> [m EXCEPT !.name = n.name, !.ln = l.name]]
  ELSE [skip |-> FALSE, told |-> FALSE, m |-> [m EXCEPT !.name = n.name]]
ModName(m, reps, rmlead) ==
  LET hard == m.type \in {"hlk", "hrg"}
      lead == [m EXCEPT !.name = IF rmlead THEN Rootless(@) ELSE @,
                        !.ln = IF rmlead /\ hard THEN Rootless(@) ELSE @] IN
  IF reps = <<>> THEN [skip |-> FALSE, told |-> FALSE, m |-> lead]
  ELSE Modified(lead, RepName(reps, lead.name), RepName(reps, lead.ln))

---------------------------------------------------------------------------
(* Selection by owner, group and time                                      *)

(* usr_add, grp_add: a number, or a name the data base db knows *)
IdAdd(arg, db) ==
  IF arg.num THEN [ok |-> TRUE, id |-> arg.id]
  ELSE IF arg.name \in DOMAIN db THEN [ok |-> TRUE, id |-> db[arg.name]]
  ELSE [ok |-> FALSE, id |-> 0]
UsrAdd(arg, db) == IdAdd(arg, db.usr)
GrpAdd(arg, db) == IdAdd(arg, db.grp)
(* trng_add: an upper bound below the lower one is refused; neither c nor m
   means m.  NoTime is a bound that is not given                           *)
NoTime == -1
TrngAdd(arg) ==
  [ok |-> arg.low = NoTime \/ arg.high = NoTime \/ arg.low <= arg.high,
   low |-> arg.low, high |-> arg.high,
   of |-> IF arg.of = {} THEN {"m"} ELSE arg.of]
(* trng_match of one range: with both times, one of them may be inside *)
InRange(r, m) ==
  LET times == {IF o = "m" THEN m.mt ELSE m.ct : o \in r.of} IN
  /\ r.low # NoTime => \E t \in times : t >= r.low
  /\ r.high # NoTime => \E t \in times : t <= r.high
UsrMatch(sel, m)  == sel.usr # {} => m.uid \in sel.usr
GrpMatch(sel, m)  == sel.grp # {} => m.gid \in sel.grp
TrngMatch(sel, m) == sel.rng # <<>> => \E i \in DOMAIN sel.rng : InRange(sel.rng[i], m)
(* sel_chk: TRUE when the member is chosen *)
SelChk(sel, m)    == UsrMatch(sel, m) /\ GrpMatch(sel, m) /\ TrngMatch(sel, m)
=============================================================================
