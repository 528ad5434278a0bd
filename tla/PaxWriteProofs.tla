--------------------------- MODULE PaxWriteProofs ---------------------------
(* Types of PaxWrite, what a flush may count on, that a broken archive is left
   alone, and that the archive is in order when pax says so.  First what the
   model is built from: rounding to blocks, writing over a part of a sequence,
   and volumes one after the other.                                         *)
EXTENDS PaxWriteProps, TLAPS, SequenceTheorems, WellFoundedInduction

LEMMA DivNat ==
  ASSUME NEW x \in Nat, NEW n \in Nat \ {0}
  PROVE  x \div n \in Nat
  BY SMT

LEMMA DivMod ==
  ASSUME NEW x \in Nat, NEW n \in Nat \ {0}
  PROVE  x % n \in 0 .. n - 1 /\ x = (n * (x \div n)) + (x % n)
  BY SMT

LEMMA Multiples ==
  ASSUME NEW p \in Nat, NEW q \in Nat, p <= q, NEW n \in Nat
  PROVE  p * n <= q * n
  BY SMT

(* Rounded up to whole blocks: not below, by less than one block, and no more
   than any number of whole blocks that is not below.                       *)
Up(x, n) == ((x + n - 1) \div n) * n
LEMMA RoundUp ==
  ASSUME NEW x \in Nat, NEW n \in Nat \ {0}
  PROVE  Up(x, n) \in Nat /\ x <= Up(x, n) /\ Up(x, n) < x + n
<1>1. x + n - 1 \in Nat
  OBVIOUS
<1>2. ((x + n - 1) \div n) \in Nat
  BY <1>1, DivNat
<1>3. x <= ((x + n - 1) \div n) * n /\ ((x + n - 1) \div n) * n < x + n
  BY SMT
<1>4. ((x + n - 1) \div n) * n \in Nat
  BY <1>2
<1> QED
  BY <1>3, <1>4 DEF Up

LEMMA RoundLeast ==
  ASSUME NEW x \in Nat, NEW n \in Nat \ {0}, NEW q \in Nat, x <= q * n
  PROVE  Up(x, n) <= q * n
<1>1. x + n - 1 \in Nat
  OBVIOUS
<1> DEFINE c == (x + n - 1) \div n
<1>2. c \in Nat
  BY <1>1, DivNat
<1>3. c * n < x + n
  BY RoundUp DEF Up
<1> HIDE DEF c
<1>4. ~ c >= q + 1
  <2> SUFFICES ASSUME c >= q + 1 PROVE FALSE
    OBVIOUS
  <2>1. (q + 1) * n <= c * n
    BY <1>2, Multiples
  <2>2. (q + 1) * n = q * n + n
    OBVIOUS
  <2>3. q * n \in Nat /\ c * n \in Nat
    BY <1>2
  <2> QED
    BY <2>1, <2>2, <1>3, <2>3
<1>5. c <= q
  BY <1>2, <1>4
<1> QED
  BY <1>2, <1>5, Multiples DEF c, Up

LEMMA MaxOfTwo ==
  ASSUME NEW x \in Int, NEW y \in Int
  PROVE  Max({x, y}) = IF x >= y THEN x ELSE y
  BY DEF Max

LEMMA MinOfTwo ==
  ASSUME NEW x \in Int, NEW y \in Int
  PROVE  Min({x, y}) = IF x <= y THEN x ELSE y
  BY DEF Min

LEMMA LeastNumber ==
  ASSUME NEW T \in SUBSET Nat, T # {}
  PROVE  \E i \in T : \A j \in T : i <= j
<1>1. PICK i \in T : \A j \in T : ~ (<<j, i>> \in OpToRel(<, Nat))
  BY NatLessThanWellFounded, WFMin
<1>2. \A j \in T : ~ (j < i)
  BY <1>1 DEF OpToRel
<1> QED
  BY <1>2

LEMMA MaxExists ==
  ASSUME NEW S, NEW n \in Nat, S \subseteq 0 .. n, S # {}
  PROVE  Max(S) \in S
<1> DEFINE T == {j \in Nat : \A x \in S : x <= j}
<1>1. T \in SUBSET Nat /\ n \in T
  OBVIOUS
<1>2. PICK j \in T : \A h \in T : j <= h
  BY <1>1, LeastNumber
<1>3. \A x \in S : x \in Nat /\ x <= j
  BY <1>2
<1>4. j \in S
  <2> SUFFICES ASSUME j \notin S PROVE FALSE
    OBVIOUS
  <2>1. \A x \in S : x <= j - 1
    BY <1>3
  <2>2. j - 1 \in Nat
    <3>1. PICK x \in S : x \in Nat /\ x <= j - 1
      BY <1>3, <2>1
    <3> QED
      BY <3>1, <1>2
  <2>3. j - 1 \in T
    BY <2>1, <2>2
  <2> QED
    BY <1>2, <2>3
<1> QED
  BY <1>3, <1>4 DEF Max

-----------------------------------------------------------------------------
(* A sequence written over from an offset in it, and a part of a sequence. *)
LEMMA MadeSeq ==
  ASSUME NEW S, NEW n \in Nat, NEW f, f \in [1 .. n -> S]
  PROVE  f \in Seq(S) /\ Len(f) = n
  BY SeqDef

LEMMA SpliceProp ==
  ASSUME NEW S, NEW s \in Seq(S), NEW t \in Seq(S), NEW at \in 0 .. Len(s)
  PROVE  /\ Splice(s, at, t) \in Seq(S)
         /\ Len(Splice(s, at, t)) >= Len(s)
         /\ Len(Splice(s, at, t)) >= at + Len(t)
         /\ \A i \in 1 .. at : Splice(s, at, t)[i] = s[i]
         /\ \A i \in 1 .. Len(t) : Splice(s, at, t)[at + i] = t[i]
<1>1. Len(s) \in Nat /\ Len(t) \in Nat /\ at + Len(t) \in Nat
  OBVIOUS
<1> DEFINE m == Max({Len(s), at + Len(t)})
<1>2. m \in Nat /\ m >= Len(s) /\ m >= at + Len(t)
      /\ (m = Len(s) \/ m = at + Len(t))
  BY <1>1, MaxOfTwo
<1> HIDE DEF m
<1> DEFINE e(i) == IF i > at /\ i <= at + Len(t) THEN t[i - at] ELSE s[i]
           f == [i \in 1 .. m |-> e(i)]
<1>3. \A i \in 1 .. m : e(i) \in S
  <2> SUFFICES ASSUME NEW i \in 1 .. m PROVE e(i) \in S
    OBVIOUS
  <2>1. CASE i > at /\ i <= at + Len(t)
    <3>1. i - at \in 1 .. Len(t)
      BY <1>1, <1>2, <2>1
    <3> QED
      BY <3>1, <2>1
  <2>2. CASE ~ (i > at /\ i <= at + Len(t))
    <3>1. i \in 1 .. Len(s)
      BY <1>1, <1>2, <2>2
    <3> QED
      BY <3>1, <2>2
  <2> QED
    BY <2>1, <2>2
<1>4. f \in [1 .. m -> S]
  BY <1>3
<1>5. f \in Seq(S) /\ Len(f) = m
  BY <1>2, <1>4, MadeSeq
<1>6. Splice(s, at, t) = f
  BY DEF Splice, m
<1>7. ASSUME NEW i \in 1 .. at PROVE f[i] = s[i]
  BY <1>1, <1>2
<1>8. ASSUME NEW i \in 1 .. Len(t) PROVE f[at + i] = t[i]
  <2>1. at + i \in 1 .. m /\ at + i > at /\ at + i <= at + Len(t) /\ at + i - at = i
    BY <1>1, <1>2
  <2> QED
    BY <2>1
<1> QED
  BY <1>1, <1>2, <1>5, <1>6, <1>7, <1>8

LEMMA PartProp ==
  ASSUME NEW S, NEW s \in Seq(S), NEW i \in Nat, NEW j \in Nat, i <= j, j <= Len(s)
  PROVE  /\ SubSeq(s, i + 1, j) \in Seq(S)
         /\ Len(SubSeq(s, i + 1, j)) = j - i
         /\ \A h \in 1 .. j - i : SubSeq(s, i + 1, j)[h] = s[i + h]
<1>1. \A h \in i + 1 .. j : s[h] \in S
  BY ElementOfSeq
<1>2. i + 1 \in Int /\ j \in Int
  OBVIOUS
<1>3. /\ SubSeq(s, i + 1, j) \in Seq(S)
      /\ Len(SubSeq(s, i + 1, j)) = IF i + 1 <= j THEN j - (i + 1) + 1 ELSE 0
      /\ \A h \in 1 .. j - (i + 1) + 1 : SubSeq(s, i + 1, j)[h] = s[i + 1 + h - 1]
  BY <1>1, <1>2, SubSeqProperties
<1>4. (IF i + 1 <= j THEN j - (i + 1) + 1 ELSE 0) = j - i /\ j - (i + 1) + 1 = j - i
  OBVIOUS
<1>5. \A h \in 1 .. j - i : i + 1 + h - 1 = i + h
  OBVIOUS
<1> QED
  BY <1>3, <1>4, <1>5

(* What is written over the end of what is in use comes after it. *)
LEMMA SpliceGrows ==
  ASSUME NEW S, NEW s \in Seq(S), NEW t \in Seq(S), NEW at \in 0 .. Len(s)
  PROVE  SubSeq(Splice(s, at, t), 1, at + Len(t)) = SubSeq(s, 1, at) \o t
<1> DEFINE r == Splice(s, at, t)
           x == SubSeq(r, 0 + 1, at + Len(t))
           y == SubSeq(s, 0 + 1, at)
<1>1. r \in Seq(S) /\ at + Len(t) <= Len(r) /\ at + Len(t) \in Nat /\ Len(t) \in Nat
      /\ at \in Nat /\ (\A i \in 1 .. at : r[i] = s[i]) /\ (\A i \in 1 .. Len(t) : r[at + i] = t[i])
  BY SpliceProp
<1> HIDE DEF r
<1>2. x \in Seq(S) /\ Len(x) = at + Len(t) /\ \A h \in 1 .. at + Len(t) : x[h] = r[0 + h]
  <2>1. 0 \in Nat /\ 0 <= at + Len(t) /\ at + Len(t) - 0 = at + Len(t)
    BY <1>1
  <2> QED
    BY <1>1, <2>1, PartProp
<1>3. y \in Seq(S) /\ Len(y) = at /\ \A h \in 1 .. at : y[h] = s[0 + h]
  <2>1. 0 \in Nat /\ 0 <= at /\ at - 0 = at /\ at \in Nat /\ at <= Len(s)
    OBVIOUS
  <2> QED
    BY <2>1, PartProp
<1> HIDE DEF x, y
<1>4. /\ y \o t \in Seq(S) /\ Len(y \o t) = at + Len(t)
      /\ \A i \in 1 .. at + Len(t) : (y \o t)[i] = IF i <= at THEN y[i] ELSE t[i - at]
  BY <1>3, ConcatProperties
<1>5. ASSUME NEW i \in 1 .. at + Len(t) PROVE x[i] = (y \o t)[i]
  <2>1. CASE i <= at
    <3>1. i \in 1 .. at /\ 0 + i = i
      BY <2>1, <1>1
    <3>2. x[i] = s[i] /\ y[i] = s[i]
      BY <3>1, <1>1, <1>2, <1>3
    <3> QED
      BY <2>1, <3>2, <1>4
  <2>2. CASE i > at
    <3>1. i - at \in 1 .. Len(t) /\ at + (i - at) = i /\ 0 + i = i
      BY <2>2, <1>1
    <3>2. r[at + (i - at)] = t[i - at]
      BY <3>1, <1>1
    <3>3. x[i] = t[i - at]
      BY <3>1, <3>2, <1>2
    <3>4. ~ (i <= at)
      BY <2>2, <1>1
    <3>5. (y \o t)[i] = t[i - at]
      BY <3>4, <1>4
    <3> QED
      BY <3>3, <3>5
  <2>3. i <= at \/ i > at
    BY <1>1
  <2> QED
    BY <2>1, <2>2, <2>3
<1>6. x = y \o t
  BY <1>2, <1>4, <1>5, SeqEqual
<1> QED
  BY <1>6 DEF x, y, r

-----------------------------------------------------------------------------
(* FlattenSeq is a recursive function: that it exists, and that two of them
   agree as long as their sequences do, is shown by the least number for
   which it were not so.                                                    *)
Flattens(s, n, f) == f = [i \in 1 .. n |-> IF i = 1 THEN s[i] ELSE f[i - 1] \o s[i]]

LEMMA FlattensExists ==
  ASSUME NEW s, NEW n \in Nat
  PROVE  \E f : Flattens(s, n, f)
<1> DEFINE T == {m \in Nat : ~ \E f : Flattens(s, m, f)}
<1>1. SUFFICES ASSUME T # {} PROVE FALSE
  OBVIOUS
<1>2. PICK m \in T : \A j \in T : m <= j
  BY <1>1, LeastNumber
<1>3. m \in Nat /\ ~ \E f : Flattens(s, m, f)
  BY <1>2
<1>4. CASE m = 0
  <2> DEFINE f == [i \in 1 .. 0 |-> 0]
  <2>1. f = [i \in 1 .. 0 |-> IF i = 1 THEN s[i] ELSE f[i - 1] \o s[i]]
    OBVIOUS
  <2> QED
    BY <2>1, <1>3, <1>4 DEF Flattens
<1>5. CASE m > 0
  <2>1. m - 1 \in Nat /\ m - 1 \notin T
    BY <1>2, <1>3, <1>5
  <2>2. PICK f : Flattens(s, m - 1, f)
    BY <2>1
  <2> DEFINE g == [i \in 1 .. m |-> IF i = m THEN IF i = 1 THEN s[i] ELSE f[i - 1] \o s[i]
                                    ELSE f[i]]
             h == [i \in 1 .. m |-> IF i = 1 THEN s[i] ELSE g[i - 1] \o s[i]]
  <2>3. ASSUME NEW i \in 1 .. m PROVE g[i] = h[i]
    <3>1. CASE i = 1 /\ m = 1
      BY <3>1
    <3>2. CASE i = 1 /\ m # 1
      <4>1. i \in 1 .. m - 1
        BY <3>2, <1>3
      <4>2. f[i] = s[i]
        BY <2>2, <4>1, <3>2 DEF Flattens
      <4> QED
        BY <4>2, <3>2
    <3>3. CASE i # 1
      <4>1. i - 1 \in 1 .. m - 1 /\ i - 1 \in 1 .. m /\ i - 1 # m
        BY <3>3, <1>3
      <4>2. g[i - 1] = f[i - 1]
        BY <4>1
      <4>3. CASE i = m
        BY <4>2, <4>3, <3>3
      <4>4. CASE i # m
        <5>1. i \in 1 .. m - 1
          BY <4>4, <1>3
        <5>2. f[i] = f[i - 1] \o s[i]
          BY <2>2, <5>1, <3>3 DEF Flattens
        <5> QED
          BY <5>2, <4>2, <4>4, <3>3
      <4> QED
        BY <4>3, <4>4
    <3> QED
      BY <3>1, <3>2, <3>3
  <2>4. g = h
    BY <2>3
  <2>5. Flattens(s, m, g)
    BY <2>4 DEF Flattens
  <2> QED
    BY <2>5, <1>3
<1> QED
  BY <1>3, <1>4, <1>5

LEMMA FlattensAgree ==
  ASSUME NEW s, NEW t, NEW n \in Nat, NEW m \in Nat, NEW f, NEW g,
         Flattens(s, n, f), Flattens(t, m, g), n <= m, \A i \in 1 .. n : s[i] = t[i]
  PROVE  \A i \in 1 .. n : f[i] = g[i]
<1> DEFINE T == {i \in 1 .. n : f[i] # g[i]}
<1>1. SUFFICES ASSUME T # {} PROVE FALSE
  OBVIOUS
<1>2. T \in SUBSET Nat
  OBVIOUS
<1>3. PICK i \in T : \A j \in T : i <= j
  BY <1>1, <1>2, LeastNumber
<1>4. i \in 1 .. n /\ i \in 1 .. m /\ f[i] # g[i]
  BY <1>3
<1>5. CASE i = 1
  BY <1>4, <1>5 DEF Flattens
<1>6. CASE i # 1
  <2>1. i - 1 \in 1 .. n /\ i - 1 \notin T
    BY <1>3, <1>4, <1>6
  <2>2. f[i - 1] = g[i - 1]
    BY <2>1
  <2>3. f[i] = f[i - 1] \o s[i] /\ g[i] = g[i - 1] \o t[i]
    BY <1>4, <1>6 DEF Flattens
  <2> QED
    BY <2>2, <2>3, <1>4
<1> QED
  BY <1>5, <1>6

LEMMA FlattenUnfold ==
  ASSUME NEW s, Len(s) \in Nat \ {0}
  PROVE  \E f : Flattens(s, Len(s), f) /\ FlattenSeq(s) = f[Len(s)]
<1> DEFINE c == CHOOSE f : Flattens(s, Len(s), f)
<1>1. Flattens(s, Len(s), c)
  BY FlattensExists
<1>2. FlattenSeq(s) = c[Len(s)]
  BY DEF FlattenSeq, Flattens
<1> QED
  BY <1>1, <1>2

LEMMA FlattenType ==
  ASSUME NEW S, NEW s \in Seq(Seq(S))
  PROVE  FlattenSeq(s) \in Seq(S)
<1>1. CASE Len(s) = 0
  <2>1. s = << >>
    BY <1>1, EmptySeq
  <2>2. FlattenSeq(s) = << >>
    BY <1>1, <2>1 DEF FlattenSeq
  <2> QED
    BY <2>2, EmptySeq
<1>2. CASE Len(s) # 0
  <2>1. Len(s) \in Nat \ {0}
    BY <1>2
  <2>2. PICK f : Flattens(s, Len(s), f) /\ FlattenSeq(s) = f[Len(s)]
    BY <2>1, FlattenUnfold
  <2> DEFINE T == {i \in 1 .. Len(s) : f[i] \notin Seq(S)}
  <2>3. ASSUME T # {} PROVE FALSE
    <3>1. T \in SUBSET Nat
      OBVIOUS
    <3>2. PICK i \in T : \A j \in T : i <= j
      BY <2>3, <3>1, LeastNumber
    <3>3. i \in 1 .. Len(s) /\ f[i] \notin Seq(S) /\ s[i] \in Seq(S)
      BY <3>2
    <3>4. i # 1
      BY <3>3, <2>2 DEF Flattens
    <3>5. i - 1 \in 1 .. Len(s) /\ i - 1 \notin T
      BY <3>2, <3>3, <3>4, <2>1
    <3>6. f[i - 1] \in Seq(S)
      BY <3>5
    <3>7. f[i] = f[i - 1] \o s[i]
      BY <2>2, <3>3, <3>4 DEF Flattens
    <3> QED
      BY <3>3, <3>6, <3>7, ConcatProperties
  <2> QED
    BY <2>1, <2>2, <2>3
<1> QED
  BY <1>1, <1>2

LEMMA FlattenOneMore ==
  ASSUME NEW s, NEW t, Len(s) \in Nat \ {0}, Len(t) = Len(s) + 1,
         \A i \in 1 .. Len(s) : s[i] = t[i]
  PROVE  FlattenSeq(t) = FlattenSeq(s) \o t[Len(s) + 1]
<1> DEFINE n == Len(s)
           m == Len(t)
<1>1. n \in Nat \ {0} /\ m \in Nat \ {0} /\ m = n + 1 /\ n <= m /\ n \in 1 .. n
      /\ m \in 1 .. m /\ m # 1 /\ m - 1 = n
  OBVIOUS
<1>2. PICK f : Flattens(s, n, f) /\ FlattenSeq(s) = f[n]
  BY FlattenUnfold
<1>3. PICK g : Flattens(t, m, g) /\ FlattenSeq(t) = g[m]
  BY <1>1, FlattenUnfold
<1>4. \A i \in 1 .. n : s[i] = t[i]
  OBVIOUS
<1> HIDE DEF n, m
<1>5. \A i \in 1 .. n : f[i] = g[i]
  BY <1>1, <1>2, <1>3, <1>4, FlattensAgree
<1>6. g[m] = g[n] \o t[m]
  BY <1>1, <1>3 DEF Flattens
<1> QED
  BY <1>1, <1>2, <1>3, <1>5, <1>6 DEF n, m

LEMMA FlattenAppend ==
  ASSUME NEW S, NEW s \in Seq(Seq(S)), NEW x \in Seq(S)
  PROVE  FlattenSeq(Append(s, x)) = FlattenSeq(s) \o x
<1> DEFINE t == Append(s, x)
           n == Len(s)
<1>1. /\ t \in Seq(Seq(S)) /\ Len(t) = n + 1 /\ n \in Nat
      /\ (\A i \in 1 .. n : t[i] = s[i]) /\ t[n + 1] = x
  BY AppendProperties
<1> HIDE DEF t
<1>2. PICK g : Flattens(t, n + 1, g) /\ FlattenSeq(t) = g[n + 1]
  BY <1>1, FlattenUnfold
<1>3. CASE n = 0
  <2>1. g[n + 1] = x
    BY <1>1, <1>2, <1>3 DEF Flattens
  <2>2. s = << >>
    BY <1>3, EmptySeq
  <2>3. FlattenSeq(s) = << >>
    BY <1>3, <2>2 DEF FlattenSeq
  <2>4. << >> \o x = x
    BY ConcatEmptySeq
  <2> QED
    BY <2>1, <2>3, <2>4, <1>2 DEF t
<1>4. CASE n # 0
  <2>1. n \in Nat \ {0} /\ \A i \in 1 .. n : s[i] = t[i]
    BY <1>1, <1>4
  <2>2. FlattenSeq(t) = FlattenSeq(s) \o t[n + 1]
    BY <2>1, <1>1, FlattenOneMore
  <2> QED
    BY <2>2, <1>1 DEF t
<1> QED
  BY <1>3, <1>4

(* The last of several volumes cut, or the next one begun. *)
LEMMA FrontLast ==
  ASSUME NEW S, NEW s \in Seq(S), Len(s) > 0, NEW x \in S
  PROVE  /\ SubSeq(s, 1, Len(s) - 1) \in Seq(S)
         /\ [s EXCEPT ![Len(s)] = x] \in Seq(S)
         /\ Len([s EXCEPT ![Len(s)] = x]) = Len(s)
         /\ [s EXCEPT ![Len(s)] = x] = Append(SubSeq(s, 1, Len(s) - 1), x)
<1> DEFINE n == Len(s) - 1
           u == SubSeq(s, 0 + 1, n)
           r == [s EXCEPT ![Len(s)] = x]
<1>1. n \in Nat /\ 0 \in Nat /\ 0 <= n /\ n <= Len(s) /\ n - 0 = n /\ n + 1 = Len(s) /\ Len(s) \in Nat
  OBVIOUS
<1>2. u \in Seq(S) /\ Len(u) = n /\ \A h \in 1 .. n : u[h] = s[0 + h]
  BY <1>1, PartProp
<1>3. r \in Seq(S) /\ Len(r) = Len(s) /\ \A j \in 1 .. Len(s) : r[j] = IF j = Len(s) THEN x ELSE s[j]
  BY <1>1, ExceptSeq
<1> HIDE DEF u, r
<1>4. /\ Append(u, x) \in Seq(S) /\ Len(Append(u, x)) = n + 1
      /\ (\A i \in 1 .. n : Append(u, x)[i] = u[i]) /\ Append(u, x)[n + 1] = x
  BY <1>2, AppendProperties
<1>5. ASSUME NEW j \in 1 .. Len(r) PROVE r[j] = Append(u, x)[j]
  <2>1. CASE j = n + 1
    BY <2>1, <1>1, <1>3, <1>4
  <2>2. CASE j # n + 1
    <3>0. Len(r) = n + 1 /\ n \in Nat /\ n + 1 = Len(s)
      BY <1>1, <1>3
    <3> HIDE DEF n
    <3>1. j \in 1 .. n /\ 0 + j = j /\ j # Len(s) /\ j \in 1 .. Len(s)
      BY <2>2, <3>0
    <3> QED
      BY <3>1, <1>2, <1>3, <1>4
  <2> QED
    BY <2>1, <2>2
<1>6. r = Append(u, x)
  BY <1>1, <1>3, <1>4, <1>5, SeqEqual
<1> QED
  BY <1>2, <1>3, <1>6 DEF u, r

-----------------------------------------------------------------------------
(* What TypeOK leaves out: before the archive is open nothing has changed;
   from then on there are a block size and that of the next volume; what is in
   use of the buffer is in it; a flush counts the buffer for as long as the
   block it began with, and what is behind the block to be written is in the
   buffer; the parts of a member are put for a member.                      *)
Fresh   == k.pc = "start" => Init
Blocks  == k.pc \notin {"start", "exit"} =>
             b.blksz \in 1 .. MAXBLK /\ b.wrblksz \in 1 .. MAXBLK /\ b.end = b.blksz
Buffer  == b.pt <= Len(b.mem)
Counted == /\ k.pc = "write" => k.push + b.blksz <= k.bufcnt
           /\ k.pc \in {"write", "next"} => k.bufcnt <= MAXBLK
Parts   == {"head", "file", "left", "pad"}
Busy    == {"put", "move", "flush", "write", "next"}
OfMember == k.pc \in Busy /\ k.call \in Parts => k.m >= 1
TInv == TypeOK /\ sc \in Scenes /\ Fresh /\ Blocks /\ Buffer /\ Counted /\ OfMember

DevType    == [open : BOOLEAN, artyp : Types, lstrval : -1 .. 1, trail : BOOLEAN,
               done : BOOLEAN, null : BOOLEAN, gone : BOOLEAN, off : Nat]
BufType(n) == [mem : Seq(0 .. n), pt : Nat, end : 0 .. MAXBLK, blksz : 0 .. MAXBLK,
               wrblksz : 0 .. MAXBLK, wrcnt : Nat]
RunType    == [pc : Pcs, call : Calls, m : Nat, todo : Nat, put : Nat, cnt : Nat,
               bufcnt : Nat, push : Nat, tot : Nat, wrone : BOOLEAN, broken : BOOLEAN,
               exit : 0 .. 1, warned : BOOLEAN]
LEMMA TypeParts ==
  TypeOK <=> /\ vols \in Seq(Seq(0 .. k.put)) /\ Len(vols) \in 1 .. MaxVol
             /\ dev \in DevType /\ dev.off <= Len(Last(vols))
             /\ b \in BufType(k.put) /\ Len(b.mem) >= MAXBLK
             /\ k \in RunType /\ k.m <= Len(sc.members)
  BY DEF TypeOK, DevType, BufType, RunType

LEMMA Constants ==
  /\ MAXBLK \in Nat \ {0} /\ BLKMULT \in Nat \ {0} /\ MaxVol \in Nat \ {0}
  /\ FILEBLK \in 1 .. MAXBLK
  /\ \A s \in Scenes : SceneOK(s)
  BY PaxWriteAssumption

LEMMA SceneFacts ==
  ASSUME NEW s \in Scenes
  PROVE  /\ s.wr \in 0 .. MAXBLK /\ s.bsz \in 1 .. MAXBLK /\ s.tlen \in Nat \ {0}
         /\ s.data \in Nat /\ s.rest \in Nat /\ s.limit \in Nat
         /\ s.members \in Seq(Member) /\ s.artyp \in Types /\ s.app \in BOOLEAN
         /\ OldSize(s) \in Nat
<1>1. SceneOK(s)
  BY Constants
<1> QED
  BY <1>1 DEF SceneOK, OldSize

(* The block size that an archive to be added to is read with: it is one, and
   the archive is made of such blocks.                                      *)
LEMMA BlockSize ==
  ASSUME sc \in Scenes
  PROVE  /\ RdBlksz \in 1 .. MAXBLK
         /\ sc.app /\ sc.artyp # "PIPE" => OldSize(sc) % RdBlksz = 0
<1> DEFINE size == OldSize(sc)
           fit  == {n \in 1 .. MAXBLK : n % BLKMULT = 0 /\ size % n = 0}
           one  == sc.wr # 0 /\ (sc.artyp # "REG" \/ size % sc.wr = 0)
           two  == sc.artyp = "REG" /\ fit # {}
<1>1. RdBlksz = IF one THEN sc.wr ELSE IF two THEN Max(fit) ELSE FILEBLK
  BY DEF RdBlksz
<1>2. size \in Nat /\ sc.wr \in 0 .. MAXBLK /\ sc.artyp \in Types
  BY SceneFacts
<1>3. fit # {} => Max(fit) \in fit
  <2>1. fit \subseteq 0 .. MAXBLK /\ MAXBLK \in Nat
    BY Constants
  <2> HIDE DEF fit
  <2> QED
    BY <2>1, MaxExists
<1>4. CASE one
  <2>1. RdBlksz = sc.wr /\ sc.wr # 0
    BY <1>1, <1>4
  <2>2. RdBlksz \in 1 .. MAXBLK
    BY <2>1, <1>2, Constants
  <2>3. ASSUME sc.app, sc.artyp # "PIPE" PROVE size % RdBlksz = 0
    <3>1. SceneOK(sc)
      BY Constants
    <3>2. CASE sc.artyp = "REG"
      BY <3>2, <2>1, <1>4
    <3>3. CASE sc.artyp = "CHR"
      BY <3>1, <3>3, <2>1, <2>3 DEF SceneOK
    <3> QED
      BY <3>2, <3>3, <1>2, <2>3 DEF Types
  <2> QED
    BY <2>2, <2>3
<1>5. CASE ~ one /\ two
  <2>1. RdBlksz \in fit
    BY <1>1, <1>3, <1>5
  <2> QED
    BY <2>1
<1>6. CASE ~ one /\ ~ two
  <2>1. RdBlksz = FILEBLK
    BY <1>1, <1>6
  <2>2. RdBlksz \in 1 .. MAXBLK
    BY <2>1, Constants
  <2>3. ASSUME sc.app, sc.artyp # "PIPE" PROVE size % RdBlksz = 0
    <3>1. SceneOK(sc)
      BY Constants
    <3>2. CASE sc.artyp = "REG"
      <4>1. BLKMULT \in 1 .. MAXBLK
        <5>1. MAXBLK \in Nat \ {0} /\ BLKMULT \in Nat \ {0} /\ MAXBLK % BLKMULT = 0
          BY PaxWriteAssumption
        <5>2. MAXBLK = BLKMULT * (MAXBLK \div BLKMULT) + 0 /\ MAXBLK \div BLKMULT \in Nat
          BY <5>1, DivMod, DivNat
        <5>3. BLKMULT <= MAXBLK
          <6>1. MAXBLK \div BLKMULT # 0
            BY <5>1, <5>2
          <6>2. 1 * BLKMULT <= (MAXBLK \div BLKMULT) * BLKMULT
            BY <6>1, <5>1, <5>2, Multiples
          <6> QED
            BY <6>2, <5>1, <5>2
        <5> QED
          BY <5>1, <5>3
      <4>2. BLKMULT % BLKMULT = 0
        BY Constants
      <4>3. size % BLKMULT = 0
        BY <3>1, <2>3 DEF SceneOK
      <4>4. BLKMULT \in fit
        BY <4>1, <4>2, <4>3
      <4> QED
        BY <4>4, <1>6, <3>2
    <3>3. CASE sc.artyp = "CHR"
      <4>1. sc.wr = 0
        BY <3>3, <1>6
      <4> QED
        BY <4>1, <3>1, <3>3, <2>1, <2>3 DEF SceneOK
    <3> QED
      BY <3>2, <3>3, <1>2, <2>3 DEF Types
  <2> QED
    BY <2>2, <2>3
<1> QED
  BY <1>4, <1>5, <1>6

(* Where the first new header goes: the blocks appnd_start goes back are
   there, and what it keeps of the block it reads again ends where the old
   trailer began.                                                           *)
AppEnd  == Min({OldSize(sc), Up(TrailerEnd, RdBlksz)})
AppBack == Up(Back(AppEnd), RdBlksz)
AppPos  == IF AppBack > AppEnd THEN 0 ELSE AppEnd - AppBack
AppKeep == AppBack - Back(AppEnd)
LEMMA AppendsAt ==
  ASSUME sc \in Scenes, sc.app, sc.artyp # "PIPE"
  PROVE  /\ AppPos \in 0 .. sc.data /\ AppKeep \in 0 .. RdBlksz - 1
         /\ AppPos + AppKeep = sc.data
<1> DEFINE blk == RdBlksz
           size == OldSize(sc)
           te == TrailerEnd
           e == (te + blk - 1) \div blk
           q == size \div blk
<1>1. blk \in Nat \ {0} /\ size % blk = 0
  BY BlockSize, Constants
<1>2. sc.data \in Nat /\ sc.tlen \in Nat /\ sc.rest \in Nat
  BY SceneFacts
<1>3. te \in Nat /\ size \in Nat /\ te = sc.data + sc.tlen /\ te <= size
  BY <1>2 DEF TrailerEnd, OldSize
<1> HIDE DEF te, size, blk
<1>4. q \in Nat /\ size = blk * q
  <2>1. q \in Nat
    BY <1>1, <1>3, DivNat
  <2>2. size = (blk * q) + 0
    BY <1>1, <1>3, DivMod
  <2> QED
    BY <2>1, <2>2, <1>1
<1>5. Up(te, blk) \in Nat /\ te <= Up(te, blk) /\ Up(te, blk) <= size
  <2>1. te <= q * blk /\ q * blk = size
    BY <1>1, <1>3, <1>4
  <2> QED
    BY <2>1, <1>1, <1>3, <1>4, RoundUp, RoundLeast
<1>6. e \in Nat
  <2>1. te + blk - 1 \in Nat
    BY <1>1, <1>3
  <2> QED
    BY <2>1, <1>1, DivNat
<1>7. Up(te, blk) = e * blk
  BY DEF Up
<1> HIDE DEF e, q
<1>8. AppEnd = Up(te, blk)
  BY <1>3, <1>5, MinOfTwo DEF AppEnd, te, blk, size
<1> DEFINE sk == AppEnd - sc.data
<1>9. Back(AppEnd) = sk /\ sk \in Nat /\ sk <= AppEnd /\ AppEnd \in Nat
  <2>1. Back(AppEnd) = sc.tlen + AppEnd - te
    BY DEF Back, te
  <2> QED
    BY <2>1, <1>2, <1>3, <1>5, <1>8
<1>10. AppBack = Up(sk, blk)
  BY <1>9 DEF AppBack, blk
<1>11. AppBack \in Nat /\ sk <= AppBack /\ AppBack < sk + blk /\ AppBack <= AppEnd
  <2>1. sk <= e * blk /\ AppEnd = e * blk
    BY <1>7, <1>8, <1>9
  <2> HIDE DEF sk
  <2> QED
    BY <2>1, <1>1, <1>6, <1>9, <1>10, RoundUp, RoundLeast
<1>12. AppPos = AppEnd - AppBack /\ AppKeep = AppBack - sk
  BY <1>9, <1>11 DEF AppPos, AppKeep
<1> QED
  BY <1>1, <1>2, <1>9, <1>11, <1>12 DEF blk

(* The old archive is the old members, in order, then zeros. *)
LEMMA OldFileProp ==
  ASSUME NEW s \in Scenes
  PROVE  /\ OldFile(s) \in Seq(0 .. s.data) /\ Len(OldFile(s)) = OldSize(s)
         /\ \A i \in 1 .. OldSize(s) : OldFile(s)[i] = IF i <= s.data THEN i ELSE 0
<1> DEFINE d == s.data
           z == s.tlen + s.rest
           S == 0 .. d
           u == Iota(1, d)
           v == Zeros(z)
<1>1. d \in Nat /\ z \in Nat /\ OldSize(s) = d + z
  BY SceneFacts DEF OldSize
<1> HIDE DEF d, z
<1>2. u \in Seq(S) /\ Len(u) = d /\ \A i \in 1 .. d : u[i] = i
  <2>1. (IF d < 1 THEN 0 ELSE d - 1 + 1) = d
    BY <1>1
  <2>2. u = [n \in 1 .. d |-> 1 + n - 1]
    BY <2>1 DEF Iota
  <2>3. u \in [1 .. d -> S] /\ \A i \in 1 .. d : u[i] = i
    BY <2>2, <1>1
  <2> QED
    BY <2>3, <1>1, MadeSeq
<1>3. v \in Seq(S) /\ Len(v) = z /\ \A i \in 1 .. z : v[i] = 0
  <2>1. v = [i \in 1 .. z |-> 0] /\ 0 \in S
    BY <1>1 DEF Zeros
  <2>2. v \in [1 .. z -> S] /\ \A i \in 1 .. z : v[i] = 0
    BY <2>1
  <2> QED
    BY <2>2, <1>1, MadeSeq
<1> HIDE DEF u, v
<1>4. /\ u \o v \in Seq(S) /\ Len(u \o v) = d + z
      /\ \A i \in 1 .. d + z : (u \o v)[i] = IF i <= d THEN u[i] ELSE v[i - d]
  BY <1>2, <1>3, ConcatProperties
<1>5. ASSUME NEW i \in 1 .. d + z PROVE (u \o v)[i] = IF i <= d THEN i ELSE 0
  <2>1. CASE i <= d
    BY <2>1, <1>1, <1>2, <1>4
  <2>2. CASE ~ (i <= d)
    <3>1. i - d \in 1 .. z
      BY <2>2, <1>1
    <3> QED
      BY <3>1, <2>2, <1>3, <1>4
  <2> QED
    BY <2>1, <2>2
<1> QED
  BY <1>1, <1>4, <1>5 DEF OldFile, u, v, d, z

LEMMA IotaProp ==
  ASSUME NEW p \in Nat, NEW n \in Nat
  PROVE  /\ Iota(p + 1, p + n) \in Seq(0 .. p + n) /\ Len(Iota(p + 1, p + n)) = n
         /\ \A i \in 1 .. n : Iota(p + 1, p + n)[i] = p + i
<1> DEFINE u == Iota(p + 1, p + n)
<1>1. (IF p + n < p + 1 THEN 0 ELSE p + n - (p + 1) + 1) = n
  OBVIOUS
<1>2. u = [i \in 1 .. n |-> p + 1 + i - 1]
  BY <1>1 DEF Iota
<1>3. u \in [1 .. n -> 0 .. p + n] /\ \A i \in 1 .. n : u[i] = p + i
  BY <1>2
<1> QED
  BY <1>3, MadeSeq

LEMMA ZerosProp ==
  ASSUME NEW n \in Nat, NEW p \in Nat
  PROVE  Zeros(n) \in Seq(0 .. p) /\ Len(Zeros(n)) = n /\ \A i \in 1 .. n : Zeros(n)[i] = 0
<1>1. Zeros(n) = [i \in 1 .. n |-> 0] /\ 0 \in 0 .. p
  BY DEF Zeros
<1>2. Zeros(n) \in [1 .. n -> 0 .. p] /\ \A i \in 1 .. n : Zeros(n)[i] = 0
  BY <1>1
<1> QED
  BY <1>2, MadeSeq

LEMMA InitTyped ==
  ASSUME Init
  PROVE  TInv
<1>1. sc \in Scenes /\ k.pc = "start"
  BY DEF Init
<1>2. sc.data \in Nat /\ sc.wr \in 0 .. MAXBLK /\ sc.members \in Seq(Member)
      /\ sc.artyp \in Types /\ sc.app \in BOOLEAN
  BY <1>1, SceneFacts
<1>3. k \in RunType
  BY <1>2 DEF Init, RunType, Pcs, Calls
<1>4. k.m <= Len(sc.members)
  BY <1>2 DEF Init
<1>5. Zeros(MAXBLK) \in Seq(0 .. k.put) /\ Len(Zeros(MAXBLK)) = MAXBLK
  BY <1>3, Constants, ZerosProp DEF RunType
<1>6. b \in BufType(k.put) /\ Len(b.mem) >= MAXBLK /\ b.pt <= Len(b.mem)
  BY <1>2, <1>5, Constants DEF Init, BufType
<1>7. vols \in Seq(Seq(0 .. k.put)) /\ Len(vols) = 1 /\ vols[1] \in Seq(0 .. k.put)
  <2>1. CASE sc.app
    <3>1. vols = <<OldFile(sc)>> /\ k.put = sc.data
      BY <2>1 DEF Init
    <3> QED
      BY <3>1, <1>1, OldFileProp
  <2>2. CASE ~ sc.app
    <3>1. vols = << << >> >>
      BY <2>2 DEF Init
    <3> QED
      BY <3>1
  <2> QED
    BY <2>1, <2>2
<1>8. dev \in DevType /\ dev.off <= Len(Last(vols))
  <2>1. Len(vols[1]) \in Nat
    BY <1>7
  <2>2. dev.off = Len(vols[1]) /\ Last(vols) = vols[1]
    BY <1>7 DEF Init, Last
  <2> QED
    BY <1>2, <2>1, <2>2 DEF Init, DevType
<1>9. 1 \in 1 .. MaxVol
  BY Constants
<1> QED
  BY <1>1, <1>3, <1>4, <1>6, <1>7, <1>8, <1>9, TypeParts
     DEF TInv, Fresh, Blocks, Buffer, Counted, OfMember, Busy

-----------------------------------------------------------------------------
LEMMA Wider ==
  ASSUME NEW p \in Nat, NEW q \in Nat, p <= q
  PROVE  Seq(0 .. p) \subseteq Seq(0 .. q) /\ Seq(Seq(0 .. p)) \subseteq Seq(Seq(0 .. q))
<1>1. 0 .. p \subseteq 0 .. q
  OBVIOUS
<1>2. Seq(0 .. p) \subseteq Seq(0 .. q)
  BY <1>1, SeqMonotonic
<1>3. \A s \in Seq(Seq(0 .. p)) : s \in Seq(Seq(0 .. q))
  BY <1>2, SeqMonotonic
<1> QED
  BY <1>2, <1>3

LEMMA RunFacts ==
  ASSUME TypeOK
  PROVE  /\ k.put \in Nat /\ k.todo \in Nat /\ k.m \in Nat /\ k.cnt \in Nat
         /\ k.bufcnt \in Nat /\ k.push \in Nat /\ k.tot \in Nat
         /\ b.pt \in Nat /\ b.blksz \in Nat /\ b.end \in Nat /\ b.wrcnt \in Nat
         /\ b.mem \in Seq(0 .. k.put) /\ Len(b.mem) \in Nat
         /\ dev.off \in Nat /\ Len(vols) \in Nat
<1>1. k.put \in Nat /\ k.todo \in Nat /\ k.m \in Nat /\ k.cnt \in Nat
      /\ k.bufcnt \in Nat /\ k.push \in Nat /\ k.tot \in Nat
  BY DEF TypeOK
<1>2. b.pt \in Nat /\ b.blksz \in 0 .. MAXBLK /\ b.end \in 0 .. MAXBLK /\ b.wrcnt \in Nat
      /\ b.mem \in Seq(0 .. k.put)
  BY DEF TypeOK
<1>3. dev.off \in Nat /\ vols \in Seq(Seq(0 .. k.put))
  BY DEF TypeOK
<1> QED
  BY <1>1, <1>2, <1>3, LenProperties, Constants

(* Where only the run's variables but for put change, the rest stays typed. *)
LEMMA OnlyRun ==
  ASSUME TInv, UNCHANGED <<sc, vols, dev, b>>, k' \in RunType, k'.put = k.put,
         k'.m <= Len(sc.members)
  PROVE  TypeOK' /\ (sc \in Scenes)' /\ Buffer'
<1>1. /\ vols \in Seq(Seq(0 .. k.put)) /\ Len(vols) \in 1 .. MaxVol
      /\ dev \in DevType /\ dev.off <= Len(Last(vols))
      /\ b \in BufType(k.put) /\ Len(b.mem) >= MAXBLK
  BY TypeParts DEF TInv
<1>2. TypeOK'
  BY <1>1 DEF TypeOK, DevType, BufType, RunType
<1> QED
  BY <1>2 DEF TInv, Buffer

LEMMA QuitTyped ==
  ASSUME k \in RunType, Quit(1)
  PROVE  /\ k' \in RunType /\ k'.pc = "exit" /\ k'.put = k.put /\ k'.m = k.m
         /\ k'.broken /\ k'.exit = 1
<1>1. "exit" \in Pcs
  BY DEF Pcs
<1>2. 1 \in 0 .. 1
  OBVIOUS
<1> QED
  BY <1>1, <1>2 DEF Quit, RunType

LEMMA StartStep ==
  ASSUME TInv, WrStart
  PROVE  TInv'
<1> DEFINE w == IF b.wrblksz = 0 THEN sc.bsz ELSE b.wrblksz
<1>1. k.pc = "start" /\ Init /\ k \in RunType /\ sc \in Scenes /\ sc' = sc
      /\ k.put \in Nat /\ k.m = 0
  BY TypeParts DEF TInv, Fresh, WrStart, At, Init, RunType
<1>2. w \in 1 .. MAXBLK
  <2>1. b.wrblksz = sc.wr
    BY <1>1 DEF Init
  <2> QED
    BY <2>1, <1>1, SceneFacts, Constants
<1>3. CASE Quit(1) /\ UNCHANGED <<vols, dev, b>>
  <2>1. k' \in RunType /\ k'.pc = "exit" /\ k'.put = k.put /\ k'.m = k.m
    BY <1>1, <1>3, QuitTyped
  <2>2. k'.m <= Len(sc.members)
    BY <2>1, TypeParts DEF TInv
  <2>3. TypeOK' /\ (sc \in Scenes)' /\ Buffer'
    BY <2>1, <2>2, <1>1, <1>3, OnlyRun
  <2>4. Fresh' /\ Blocks' /\ Counted' /\ OfMember'
    BY <2>1 DEF Fresh, Blocks, Counted, OfMember, Busy
  <2> QED
    BY <2>3, <2>4 DEF TInv
<1>4. CASE /\ dev' = [dev EXCEPT !.open = TRUE]
           /\ b' = [b EXCEPT !.wrblksz = w, !.blksz = w, !.end = w]
           /\ Goto("member") /\ vols' = vols
  <2> HIDE DEF w
  <2>1. k' \in RunType /\ k'.pc = "member" /\ k'.put = k.put /\ k'.m = k.m
    BY <1>1, <1>4 DEF Goto, RunType, Pcs
  <2>2. /\ vols \in Seq(Seq(0 .. k.put)) /\ Len(vols) \in 1 .. MaxVol
        /\ dev \in DevType /\ dev.off <= Len(Last(vols))
        /\ b \in BufType(k.put) /\ Len(b.mem) >= MAXBLK /\ k.m <= Len(sc.members)
        /\ b.pt <= Len(b.mem)
    BY TypeParts DEF TInv, Buffer
  <2>3. dev' \in DevType /\ dev'.off = dev.off
    BY <2>2, <1>4 DEF DevType
  <2>4. w \in 0 .. MAXBLK
    BY <1>2, Constants
  <2>5. /\ b' \in BufType(k.put) /\ b'.mem = b.mem /\ b'.pt = b.pt
        /\ b'.wrblksz = w /\ b'.blksz = w /\ b'.end = w
    BY <2>2, <2>4, <1>4 DEF BufType
  <2>6. TypeOK'
    BY <2>1, <2>2, <2>3, <2>5, <1>1, <1>4 DEF TypeOK, DevType, BufType, RunType
  <2>7. Blocks'
    BY <2>5, <1>2 DEF Blocks
  <2>8. Fresh' /\ Counted' /\ OfMember'
    BY <2>1 DEF Fresh, Counted, OfMember, Busy
  <2>9. Buffer' /\ (sc \in Scenes)'
    BY <2>2, <2>5, <1>1 DEF Buffer
  <2> QED
    BY <2>6, <2>7, <2>8, <2>9 DEF TInv
<1> QED
  BY <1>3, <1>4 DEF WrStart

(* appnd_start in the terms of AppendsAt. *)
AppAgain == SubSeq(vols[1], AppPos + 1, Min({AppPos + RdBlksz, Len(vols[1])}))
LEMMA AgainTyped ==
  ASSUME sc \in Scenes, sc.app, sc.artyp # "PIPE", vols[1] = OldFile(sc)
  PROVE  /\ AppAgain \in Seq(0 .. sc.data) /\ Len(AppAgain) \in Nat
         /\ \A i \in 1 .. Len(AppAgain) : AppAgain[i] = OldFile(sc)[AppPos + i]
<1> DEFINE j == Min({AppPos + RdBlksz, OldSize(sc)})
<1>1. AppPos \in Nat /\ RdBlksz \in Nat /\ OldSize(sc) \in Nat
  <2>1. AppPos \in 0 .. sc.data /\ RdBlksz \in 1 .. MAXBLK /\ sc.data \in Nat
    BY AppendsAt, BlockSize, SceneFacts
  <2> QED
    BY <2>1, SceneFacts, Constants
<1>2. OldFile(sc) \in Seq(0 .. sc.data) /\ Len(OldFile(sc)) = OldSize(sc)
  BY OldFileProp
<1>3. j \in Int /\ j <= OldSize(sc)
  BY <1>1, MinOfTwo
<1>4. AppAgain = SubSeq(OldFile(sc), AppPos + 1, j)
  BY <1>2 DEF AppAgain
<1> HIDE DEF j
<1>5. \A i \in AppPos + 1 .. j : i \in 1 .. Len(OldFile(sc))
  BY <1>1, <1>2, <1>3
<1>6. \A i \in AppPos + 1 .. j : OldFile(sc)[i] \in 0 .. sc.data
  BY <1>5, <1>2, ElementOfSeq
<1>7. AppPos + 1 \in Int /\ (\A i \in 1 .. j - (AppPos + 1) + 1 : AppPos + 1 + i - 1 = AppPos + i)
  BY <1>1, <1>3
<1>8. /\ AppAgain \in Seq(0 .. sc.data)
      /\ Len(AppAgain) = IF AppPos + 1 <= j THEN j - (AppPos + 1) + 1 ELSE 0
      /\ \A i \in 1 .. j - (AppPos + 1) + 1 : AppAgain[i] = OldFile(sc)[AppPos + 1 + i - 1]
  BY <1>3, <1>4, <1>6, <1>7, SubSeqProperties
<1>9. \A i \in 1 .. Len(AppAgain) : i \in 1 .. j - (AppPos + 1) + 1
  <2>1. CASE AppPos + 1 <= j
    BY <2>1, <1>8
  <2>2. CASE ~ (AppPos + 1 <= j)
    BY <2>2, <1>8
  <2> QED
    BY <2>1, <2>2
<1> QED
  BY <1>7, <1>8, <1>9, LenProperties

LEMMA AppendStep ==
  ASSUME TInv, AppndStart
  PROVE  /\ sc' = sc /\ k.pc = "start" /\ Init /\ sc.app /\ vols = <<OldFile(sc)>>
         /\ \/ Quit(1) /\ UNCHANGED <<vols, dev, b>>
            \/ /\ sc.artyp # "PIPE" /\ (AppKeep > 0 => Len(AppAgain) >= RdBlksz)
               /\ vols' = IF sc.artyp = "REG" THEN <<SubSeq(vols[1], 1, AppPos)>> ELSE vols
               /\ dev' = [dev EXCEPT !.open = TRUE, !.off = AppPos, !.trail = FALSE]
               /\ b' = [b EXCEPT !.mem = IF AppKeep > 0 THEN Splice(b.mem, 0, AppAgain)
                                         ELSE b.mem,
                                 !.pt = AppKeep, !.end = RdBlksz, !.blksz = RdBlksz,
                                 !.wrblksz = IF sc.wr = 0 THEN RdBlksz ELSE sc.wr]
               /\ Goto("member")
<1>1. sc' = sc /\ k.pc = "start" /\ Init /\ sc.app
  BY DEF AppndStart, At, TInv, Fresh
<1>2. vols = <<OldFile(sc)>> /\ sc \in Scenes
  BY <1>1 DEF Init
<1>3. Len(vols[1]) = OldSize(sc)
  BY <1>2, OldFileProp
<1>4. CASE Quit(1) /\ UNCHANGED <<vols, dev, b>>
  BY <1>1, <1>2, <1>4
<1> DEFINE blk   == RdBlksz
           end   == Min({Len(vols[1]), ((TrailerEnd + blk - 1) \div blk) * blk})
           skcnt == Back(end)
           cnt   == ((skcnt + blk - 1) \div blk) * blk
           pos   == IF cnt > end THEN 0 ELSE end - cnt
           again == SubSeq(vols[1], pos + 1, Min({pos + blk, Len(vols[1])}))
           keep  == cnt - skcnt
<1>5. CASE ~ (Quit(1) /\ UNCHANGED <<vols, dev, b>>)
  <2>1. /\ sc.artyp # "PIPE" /\ ~ (keep > 0 /\ Len(again) < blk)
        /\ vols' = IF sc.artyp = "REG" THEN <<SubSeq(vols[1], 1, pos)>> ELSE vols
        /\ dev' = [dev EXCEPT !.open = TRUE, !.off = pos, !.trail = FALSE]
        /\ b' = [b EXCEPT !.mem = IF keep > 0 THEN Splice(@, 0, again) ELSE @,
                          !.pt = keep, !.end = blk, !.blksz = blk,
                          !.wrblksz = IF sc.wr = 0 THEN blk ELSE sc.wr]
        /\ Goto("member")
    BY <1>5 DEF AppndStart
  <2>2. end = AppEnd
    BY <1>3 DEF AppEnd, Up
  <2>3. skcnt = Back(AppEnd)
    BY <2>2
  <2>4. cnt = AppBack
    BY <2>3 DEF AppBack, Up
  <2> HIDE DEF end, skcnt, cnt
  <2>5. pos = AppPos /\ keep = AppKeep
    BY <2>2, <2>3, <2>4 DEF AppPos, AppKeep
  <2> HIDE DEF pos, keep
  <2>6. again = AppAgain
    BY <2>5 DEF AppAgain
  <2> HIDE DEF again
  <2>7. Len(AppAgain) \in Nat
    <3>1. vols[1] = OldFile(sc)
      BY <1>2
    <3> QED
      BY <3>1, <1>1, <1>2, <2>1, AgainTyped
  <2>8. RdBlksz \in Nat
    BY <1>2, BlockSize, Constants
  <2>9. AppKeep > 0 => Len(AppAgain) >= RdBlksz
    BY <2>1, <2>5, <2>6, <2>7, <2>8
  <2>10. b' = [b EXCEPT !.mem = IF keep > 0 THEN Splice(b.mem, 0, again) ELSE b.mem,
                          !.pt = keep, !.end = blk, !.blksz = blk,
                          !.wrblksz = IF sc.wr = 0 THEN blk ELSE sc.wr]
    BY <2>1
  <2> QED
    BY <1>1, <1>2, <2>1, <2>5, <2>6, <2>9, <2>10
<1> QED
  BY <1>4, <1>5

LEMMA AppendStart ==
  ASSUME TInv, AppndStart
  PROVE  TInv'
<1>1. /\ sc' = sc /\ k.pc = "start" /\ Init /\ sc.app /\ vols = <<OldFile(sc)>>
      /\ sc \in Scenes /\ k \in RunType /\ k.put = sc.data /\ k.m = 0
      /\ k.m <= Len(sc.members)
  BY AppendStep, TypeParts DEF TInv, Init
<1>2. CASE Quit(1) /\ UNCHANGED <<vols, dev, b>>
  <2>1. k' \in RunType /\ k'.pc = "exit" /\ k'.put = k.put /\ k'.m = k.m
    BY <1>1, <1>2, QuitTyped
  <2>2. TypeOK' /\ (sc \in Scenes)' /\ Buffer'
    BY <2>1, <1>1, <1>2, OnlyRun
  <2>3. Fresh' /\ Blocks' /\ Counted' /\ OfMember'
    BY <2>1 DEF Fresh, Blocks, Counted, OfMember, Busy
  <2> QED
    BY <2>2, <2>3 DEF TInv
<1>3. CASE ~ (Quit(1) /\ UNCHANGED <<vols, dev, b>>)
  <2>1. /\ sc.artyp # "PIPE" /\ (AppKeep > 0 => Len(AppAgain) >= RdBlksz)
        /\ vols' = IF sc.artyp = "REG" THEN <<SubSeq(vols[1], 1, AppPos)>> ELSE vols
        /\ dev' = [dev EXCEPT !.open = TRUE, !.off = AppPos, !.trail = FALSE]
        /\ b' = [b EXCEPT !.mem = IF AppKeep > 0 THEN Splice(b.mem, 0, AppAgain) ELSE b.mem,
                          !.pt = AppKeep, !.end = RdBlksz, !.blksz = RdBlksz,
                          !.wrblksz = IF sc.wr = 0 THEN RdBlksz ELSE sc.wr]
        /\ Goto("member")
    BY <1>3, AppendStep
  <2>a. AppPos \in 0 .. sc.data /\ AppKeep \in 0 .. RdBlksz - 1
    BY <1>1, <2>1, AppendsAt
  <2>b. /\ RdBlksz \in 1 .. MAXBLK /\ sc.wr \in 0 .. MAXBLK /\ sc.data \in Nat
        /\ MAXBLK \in Nat /\ sc.tlen \in Nat /\ sc.rest \in Nat
    BY <1>1, BlockSize, SceneFacts, Constants
  <2>c. sc.data <= OldSize(sc) /\ OldSize(sc) \in Nat
    BY <2>b DEF OldSize
  <2>2. /\ AppPos \in 0 .. sc.data /\ AppPos \in Nat /\ AppKeep \in 0 .. RdBlksz - 1
        /\ RdBlksz \in 1 .. MAXBLK /\ sc.wr \in 0 .. MAXBLK /\ sc.data \in Nat
        /\ MAXBLK \in Nat /\ sc.data <= OldSize(sc) /\ OldSize(sc) \in Nat
    BY <2>a, <2>b, <2>c
  <2>3. /\ OldFile(sc) \in Seq(0 .. sc.data) /\ Len(OldFile(sc)) = OldSize(sc)
        /\ vols[1] = OldFile(sc)
    BY <1>1, OldFileProp
  <2>4. k' \in RunType /\ k'.pc = "member" /\ k'.put = sc.data /\ k'.m = k.m
    BY <1>1, <2>1 DEF Goto, RunType, Pcs
  <2>5. /\ dev \in DevType /\ b \in BufType(sc.data) /\ Len(b.mem) >= MAXBLK
        /\ vols \in Seq(Seq(0 .. sc.data)) /\ Len(vols) \in 1 .. MaxVol
        /\ b.mem \in Seq(0 .. sc.data) /\ b.pt = 0
    BY <1>1, TypeParts DEF TInv, Init, BufType
  <2>6. vols' \in Seq(Seq(0 .. sc.data)) /\ Len(vols') \in 1 .. MaxVol /\ AppPos <= Len(Last(vols'))
    <3>1. CASE sc.artyp = "REG"
      <4>1. 0 \in Nat /\ AppPos \in Nat /\ 0 <= AppPos /\ AppPos <= Len(OldFile(sc)) /\ AppPos - 0 = AppPos
        BY <2>2, <2>3
      <4>2. SubSeq(OldFile(sc), 0 + 1, AppPos) \in Seq(0 .. sc.data)
            /\ Len(SubSeq(OldFile(sc), 0 + 1, AppPos)) = AppPos
        BY <4>1, <2>3, PartProp
      <4>3. vols' = <<SubSeq(OldFile(sc), 0 + 1, AppPos)>>
        BY <3>1, <2>1, <2>3
      <4> DEFINE o == SubSeq(OldFile(sc), 0 + 1, AppPos)
      <4> HIDE DEF o
      <4>4. <<o>> \in Seq(Seq(0 .. sc.data)) /\ Len(<<o>>) = 1 /\ <<o>>[1] = o
        BY <4>2 DEF o
      <4>5. 1 \in 1 .. MaxVol
        BY Constants
      <4> QED
        BY <4>1, <4>2, <4>3, <4>4, <4>5 DEF o, Last
    <3>2. CASE sc.artyp # "REG"
      <4>1. vols' = vols /\ Len(vols) = 1 /\ Last(vols) = OldFile(sc)
        BY <3>2, <2>1, <1>1 DEF Last
      <4> QED
        BY <4>1, <2>2, <2>3, <2>5
    <3> QED
      BY <3>1, <3>2
  <2>7. dev' \in DevType /\ dev'.off = AppPos
    BY <2>1, <2>2, <2>5 DEF DevType
  <2> DEFINE mem == IF AppKeep > 0 THEN Splice(b.mem, 0, AppAgain) ELSE b.mem
             wr  == IF sc.wr = 0 THEN RdBlksz ELSE sc.wr
  <2>8. mem \in Seq(0 .. sc.data) /\ Len(mem) >= MAXBLK /\ Len(mem) \in Nat
    <3>1. CASE AppKeep > 0
      <4>1. AppAgain \in Seq(0 .. sc.data)
        BY <1>1, <2>1, <2>3, AgainTyped
      <4>2. 0 \in 0 .. Len(b.mem)
        BY <2>5, Constants
      <4>3. Splice(b.mem, 0, AppAgain) \in Seq(0 .. sc.data)
            /\ Len(Splice(b.mem, 0, AppAgain)) >= Len(b.mem)
        BY <4>1, <4>2, <2>5, SpliceProp
      <4>4. Len(Splice(b.mem, 0, AppAgain)) \in Nat /\ Len(b.mem) \in Nat
        BY <4>3, <2>5, LenProperties
      <4> QED
        BY <3>1, <4>3, <4>4, <2>2, <2>5
    <3>2. CASE ~ (AppKeep > 0)
      BY <3>2, <2>5
    <3> QED
      BY <3>1, <3>2
  <2>9. wr \in 1 .. MAXBLK
    BY <2>2
  <2> HIDE DEF mem, wr
  <2>10. /\ b' \in BufType(sc.data) /\ b'.mem = mem /\ b'.pt = AppKeep
         /\ b'.blksz = RdBlksz /\ b'.end = RdBlksz /\ b'.wrblksz = wr
    <3>1. b' = [b EXCEPT !.mem = mem, !.pt = AppKeep, !.end = RdBlksz, !.blksz = RdBlksz,
                         !.wrblksz = wr]
      BY <2>1 DEF mem, wr
    <3>2. AppKeep \in Nat /\ RdBlksz \in 0 .. MAXBLK /\ wr \in 0 .. MAXBLK
      BY <2>2, <2>9
    <3> QED
      BY <3>1, <3>2, <2>5, <2>8 DEF BufType
  <2>11. TypeOK'
    <3>1. k'.m <= Len(sc'.members)
      BY <1>1, <2>4
    <3>2. b' \in BufType(k'.put) /\ vols' \in Seq(Seq(0 .. k'.put))
      BY <2>4, <2>6, <2>10
    <3> QED
      BY <3>1, <3>2, <2>4, <2>6, <2>7, <2>8, <2>10 DEF TypeOK, DevType, BufType, RunType
  <2>12. Blocks'
    BY <2>2, <2>9, <2>10 DEF Blocks
  <2>13. Fresh' /\ Counted' /\ OfMember'
    BY <2>4 DEF Fresh, Counted, OfMember, Busy
  <2>14. Buffer' /\ (sc \in Scenes)'
    BY <1>1, <2>2, <2>8, <2>10 DEF Buffer
  <2> QED
    BY <2>11, <2>12, <2>13, <2>14 DEF TInv
<1> QED
  BY <1>2, <1>3

(* A step that changes the run only, but not what it has put, and is not at a
   write afterwards.                                                        *)
LEMMA RunStep ==
  ASSUME TInv, UNCHANGED <<sc, vols, dev, b>>, k' \in RunType, k'.put = k.put,
         k'.m <= Len(sc.members), k.pc \notin {"start", "exit"},
         k'.pc \notin {"start", "write", "next"},
         k'.pc \in Busy /\ k'.call \in Parts => k'.m >= 1
  PROVE  TInv'
<1>1. TypeOK' /\ (sc \in Scenes)' /\ Buffer'
  BY OnlyRun
<1>2. Fresh' /\ Counted' /\ OfMember'
  BY DEF Fresh, Counted, OfMember
<1>3. Blocks'
  BY DEF TInv, Blocks
<1> QED
  BY <1>1, <1>2, <1>3 DEF TInv

LEMMA MemberFacts ==
  ASSUME TInv, k.m >= 1
  PROVE  Mem.head \in Nat /\ Mem.size \in Nat /\ Mem.pad \in Nat
<1>1. k.m \in 1 .. Len(sc.members) /\ sc.members \in Seq(Member)
  <2>1. k.m \in Nat /\ k.m <= Len(sc.members) /\ sc \in Scenes
    BY RunFacts, TypeParts DEF TInv
  <2>2. sc.members \in Seq(Member)
    BY <2>1, SceneFacts
  <2> QED
    BY <2>1, <2>2
<1>2. Mem \in Member
  BY <1>1, ElementOfSeq DEF Mem
<1> QED
  BY <1>2 DEF Member

LEMMA CallTyped ==
  ASSUME k \in RunType, NEW c \in Calls, NEW n \in Nat, Call(c, n)
  PROVE  /\ k' \in RunType /\ k'.pc = "put" /\ k'.call = c /\ k'.todo = n
         /\ k'.put = k.put /\ k'.m = k.m
<1>1. "put" \in Pcs
  BY DEF Pcs
<1> QED
  BY <1>1 DEF Call, RunType

LEMMA GotoTyped ==
  ASSUME k \in RunType, NEW pc \in Pcs, Goto(pc)
  PROVE  k' \in RunType /\ k' = [k EXCEPT !.pc = pc] /\ k'.pc = pc /\ k'.call = k.call
         /\ k'.put = k.put /\ k'.m = k.m
  BY DEF Goto, RunType

LEMMA NextMemberStep ==
  ASSUME TInv, NextMember
  PROVE  TInv'
<1>1. /\ k \in RunType /\ k.m <= Len(sc.members) /\ k.m \in Nat /\ k.put \in Nat
      /\ k.pc = "member" /\ UNCHANGED <<sc, vols, dev, b>> /\ sc \in Scenes
  BY TypeParts, RunFacts DEF TInv, NextMember, At
<1>2. sc.members \in Seq(Member) /\ sc.tlen \in Nat
  BY <1>1, SceneFacts
<1>3. CASE k.m = Len(sc.members)
  <2>1. Trailer
    BY <1>3 DEF NextMember
  <2>2. CASE k.wrone
    <3>1. Call("tail", sc.tlen) /\ "tail" \in Calls
      BY <2>1, <2>2 DEF Trailer, Calls
    <3>2. /\ k' \in RunType /\ k'.pc = "put" /\ k'.call = "tail"
          /\ k'.put = k.put /\ k'.m = k.m
      BY <3>1, <1>1, <1>2, CallTyped
    <3> QED
      BY <3>2, <1>1, RunStep DEF Parts
  <2>3. CASE ~ k.wrone
    <3>1. Goto("close") /\ "close" \in Pcs
      BY <2>1, <2>3 DEF Trailer, Pcs
    <3>2. k' \in RunType /\ k'.pc = "close" /\ k'.put = k.put /\ k'.m = k.m
      BY <3>1, <1>1, GotoTyped
    <3> QED
      BY <3>2, <1>1, RunStep DEF Busy
  <2> QED
    BY <2>2, <2>3
<1>4. CASE k.m # Len(sc.members)
  <2> DEFINE h == sc.members[k.m + 1].head
  <2>1. k' = [k EXCEPT !.pc = "put", !.call = "head", !.m = k.m + 1, !.todo = h]
    BY <1>4 DEF NextMember
  <2>2. k.m + 1 \in 1 .. Len(sc.members) /\ k.m + 1 \in Nat /\ k.m + 1 >= 1
    BY <1>1, <1>2, <1>4
  <2>3. h \in Nat
    <3>1. sc.members[k.m + 1] \in Member
      BY <1>2, <2>2, ElementOfSeq
    <3> QED
      BY <3>1 DEF Member
  <2> HIDE DEF h
  <2>4. "put" \in Pcs /\ "head" \in Calls
    BY DEF Pcs, Calls
  <2>5. k' \in RunType /\ k'.pc = "put" /\ k'.put = k.put /\ k'.m = k.m + 1
    BY <1>1, <2>1, <2>2, <2>3, <2>4 DEF RunType
  <2>6. k'.m >= 1 /\ k'.m <= Len(sc.members)
    BY <2>2, <2>5
  <2> QED
    BY <2>5, <2>6, <1>1, RunStep
<1> QED
  BY <1>3, <1>4

LEMMA ReturnStep ==
  ASSUME TInv, Return
  PROVE  TInv'
<1>1. /\ k \in RunType /\ k.m <= Len(sc.members) /\ k.m \in Nat /\ k.put \in Nat
      /\ k.pc = "put" /\ UNCHANGED <<sc, vols, dev>> /\ sc \in Scenes /\ k.call \in Calls
  BY TypeParts, RunFacts DEF TInv, Return, At, RunType
<1>2. k.call \in Parts => k.m >= 1
  BY <1>1 DEF TInv, OfMember, Busy
<1>3. CASE k.call = "head"
  <2>1. b' = b /\ k' = [k EXCEPT !.call = "file", !.todo = Mem.size, !.wrone = TRUE]
    BY <1>3 DEF Return
  <2>2. Mem.size \in Nat /\ k.m >= 1
    BY <1>2, <1>3, MemberFacts DEF Parts
  <2>3. k' \in RunType /\ k'.pc = "put" /\ k'.put = k.put /\ k'.m = k.m
    BY <2>1, <2>2, <1>1 DEF RunType, Calls
  <2> QED
    BY <2>1, <2>2, <2>3, <1>1, RunStep
<1>4. CASE k.call \in {"file", "left"}
  <2>1. b' = b /\ Call("pad", Mem.pad) /\ "pad" \in Calls
    BY <1>4 DEF Return, Calls
  <2>2. Mem.pad \in Nat /\ k.m >= 1
    BY <1>2, <1>4, MemberFacts DEF Parts
  <2>3. k' \in RunType /\ k'.pc = "put" /\ k'.put = k.put /\ k'.m = k.m
    BY <2>1, <2>2, <1>1, CallTyped
  <2> QED
    BY <2>1, <2>2, <2>3, <1>1, RunStep
<1>5. CASE k.call = "pad"
  <2>1. b' = b /\ Goto("member") /\ "member" \in Pcs
    BY <1>5 DEF Return, Pcs
  <2>3. k' \in RunType /\ k'.pc = "member" /\ k'.put = k.put /\ k'.m = k.m
    BY <2>1, <1>1, GotoTyped
  <2> QED
    BY <2>1, <2>3, <1>1, RunStep DEF Busy
<1>6. CASE k.call = "tail"
  <2>1. b' = b /\ Call("fin", 0) /\ "fin" \in Calls
    BY <1>6 DEF Return, Calls
  <2>3. k' \in RunType /\ k'.pc = "put" /\ k'.put = k.put /\ k'.m = k.m /\ k'.call = "fin"
    BY <2>1, <1>1, CallTyped
  <2> QED
    BY <2>1, <2>3, <1>1, RunStep DEF Parts
<1>7. CASE k.call = "fin" /\ b.pt = 0
  <2>0. b.pt \in Nat /\ b.end \in Nat /\ ~ (b.pt \in 1 .. b.end) /\ ~ (b.pt > b.end)
    BY <1>7, RunFacts DEF TInv
  <2>1. b' = b /\ Goto("close") /\ "close" \in Pcs
    BY <1>7, <2>0 DEF Return, Pcs
  <2>3. k' \in RunType /\ k'.pc = "close" /\ k'.put = k.put /\ k'.m = k.m
    BY <2>1, <1>1, GotoTyped
  <2> QED
    BY <2>1, <2>3, <1>1, RunStep DEF Busy
<1>8. CASE k.call = "fin" /\ b.pt > b.end
  <2>0. b.pt \in Nat /\ b.end \in Nat /\ ~ (b.pt \in 1 .. b.end) /\ b.pt # 0
    BY <1>8, RunFacts DEF TInv
  <2>1. b' = b /\ Goto("crash") /\ "crash" \in Pcs
    BY <1>8, <2>0 DEF Return, Pcs
  <2>3. k' \in RunType /\ k'.pc = "crash" /\ k'.put = k.put /\ k'.m = k.m
    BY <2>1, <1>1, GotoTyped
  <2> QED
    BY <2>1, <2>3, <1>1, RunStep DEF Busy
<1>9. CASE k.call = "fin" /\ b.pt \in 1 .. b.end
  <2>0. b.pt \in Nat /\ b.end \in Nat /\ ~ (b.pt > b.end) /\ b.pt # 0
    BY <1>9, RunFacts DEF TInv
  <2>1. /\ b' = [b EXCEPT !.mem = Splice(b.mem, b.pt, Zeros(Room)), !.pt = b.end]
        /\ Goto("flush") /\ "flush" \in Pcs
    BY <1>9, <2>0 DEF Return, Pcs
  <2>2. k' \in RunType /\ k'.pc = "flush" /\ k'.put = k.put /\ k'.m = k.m /\ k'.call = "fin"
    BY <2>1, <1>1, <1>9, GotoTyped
  <2>3. Room \in Nat /\ b.pt + Room = b.end
    BY <2>0 DEF Room
  <2> DEFINE t == Zeros(Room)
             mem == Splice(b.mem, b.pt, t)
  <2>4. t \in Seq(0 .. k.put) /\ Len(t) = Room
    BY <2>3, <1>1, ZerosProp
  <2> HIDE DEF t
  <2>5. b.mem \in Seq(0 .. k.put) /\ b.pt \in 0 .. Len(b.mem) /\ Len(b.mem) >= MAXBLK
    BY <2>0, RunFacts, TypeParts DEF TInv, Buffer
  <2>6. mem \in Seq(0 .. k.put) /\ Len(mem) >= Len(b.mem) /\ Len(mem) >= b.pt + Len(t)
    BY <2>4, <2>5, SpliceProp
  <2> HIDE DEF mem
  <2>7. Len(mem) \in Nat /\ Len(mem) >= MAXBLK /\ b.end <= Len(mem)
    <3>1. Len(mem) \in Nat /\ Len(b.mem) \in Nat
      BY <2>5, <2>6, LenProperties
    <3> QED
      BY <3>1, <2>3, <2>4, <2>5, <2>6, Constants
  <2>8. /\ b' \in BufType(k.put) /\ b'.mem = mem /\ b'.pt = b.end
        /\ b'.blksz = b.blksz /\ b'.wrblksz = b.wrblksz /\ b'.end = b.end
    <3>1. b' = [b EXCEPT !.mem = mem, !.pt = b.end]
      BY <2>1 DEF mem, t
    <3>2. b \in BufType(k.put)
      BY TypeParts DEF TInv
    <3> QED
      BY <3>1, <3>2, <2>0, <2>6 DEF BufType
  <2>9. TypeOK'
    <3>1. /\ vols \in Seq(Seq(0 .. k.put)) /\ Len(vols) \in 1 .. MaxVol
          /\ dev \in DevType /\ dev.off <= Len(Last(vols))
      BY TypeParts DEF TInv
    <3> QED
      BY <3>1, <1>1, <2>2, <2>7, <2>8 DEF TypeOK, DevType, BufType, RunType
  <2>10. Blocks'
    BY <1>1, <2>8 DEF TInv, Blocks
  <2>11. Fresh' /\ Counted' /\ OfMember'
    BY <2>2 DEF Fresh, Counted, OfMember, Parts
  <2>12. Buffer' /\ (sc \in Scenes)'
    BY <2>7, <2>8, <1>1 DEF Buffer
  <2> QED
    BY <2>9, <2>10, <2>11, <2>12 DEF TInv
<1>10. b.pt = 0 \/ b.pt > b.end \/ b.pt \in 1 .. b.end
  BY RunFacts DEF TInv
<1> QED
  BY <1>1, <1>3, <1>4, <1>5, <1>6, <1>7, <1>8, <1>9, <1>10 DEF Calls

LEMMA PutFlushStep ==
  ASSUME TInv, PutFlush
  PROVE  TInv'
<1>1. /\ k \in RunType /\ k.m <= Len(sc.members)
      /\ k.pc = "put" /\ UNCHANGED <<sc, vols, dev, b>> /\ Goto("flush") /\ "flush" \in Pcs
  BY TypeParts DEF TInv, PutFlush, At, Pcs
<1>2. k.call \in Parts => k.m >= 1
  BY <1>1 DEF TInv, OfMember, Busy
<1>3. k' \in RunType /\ k'.pc = "flush" /\ k'.put = k.put /\ k'.m = k.m /\ k'.call = k.call
  BY <1>1, GotoTyped
<1> QED
  BY <1>1, <1>2, <1>3, RunStep

LEMMA CloseStep ==
  ASSUME TInv, Close
  PROVE  TInv'
<1>1. /\ k \in RunType /\ k.m <= Len(sc.members) /\ dev \in DevType
      /\ k.pc = "close" /\ UNCHANGED <<sc, vols, b>> /\ Goto("exit") /\ "exit" \in Pcs
      /\ dev' = [dev EXCEPT !.open = FALSE]
  BY TypeParts DEF TInv, Close, At, Pcs
<1>2. k' \in RunType /\ k'.pc = "exit" /\ k'.put = k.put /\ k'.m = k.m
  BY <1>1, GotoTyped
<1>3. dev' \in DevType /\ dev'.off = dev.off
  BY <1>1 DEF DevType
<1>4. TypeOK'
  <2>1. /\ vols \in Seq(Seq(0 .. k.put)) /\ Len(vols) \in 1 .. MaxVol
        /\ dev.off <= Len(Last(vols)) /\ b \in BufType(k.put) /\ Len(b.mem) >= MAXBLK
    BY TypeParts DEF TInv
  <2> QED
    BY <2>1, <1>1, <1>2, <1>3 DEF TypeOK, DevType, BufType, RunType
<1>5. Fresh' /\ Blocks' /\ Counted' /\ OfMember'
  BY <1>2 DEF Fresh, Blocks, Counted, OfMember, Busy
<1>6. Buffer' /\ (sc \in Scenes)'
  BY <1>1 DEF TInv, Buffer
<1> QED
  BY <1>4, <1>5, <1>6 DEF TInv

-----------------------------------------------------------------------------
(* What moves into the buffer is no more than there is room for, or has been
   flushed, and than is to be put.                                          *)
Shorter == k.call = "file" /\ k' = [k EXCEPT !.pc = "put", !.call = "left", !.exit = 1] /\ b' = b
LEMMA MovedSome ==
  ASSUME TInv, NEW cnt \in Nat, MoveSome(cnt)
  PROVE  Shorter \/ \E n \in 0 .. k.todo : n <= cnt /\ Move(n)
<1> DEFINE n == Min({cnt, k.todo})
<1>1. n \in Nat /\ n <= cnt /\ n <= k.todo /\ k.todo \in Nat
  <2>1. k.todo \in Nat
    BY RunFacts DEF TInv
  <2> QED
    BY <2>1, MinOfTwo
<1>2. \/ k.call # "file" /\ Move(n)
      \/ k.call = "file" /\ \E r \in 1 .. n : Move(r)
      \/ Shorter
  BY DEF MoveSome, Shorter
<1> HIDE DEF n
<1>3. CASE k.call # "file" /\ Move(n)
  BY <1>1, <1>3
<1>4. CASE k.call = "file" /\ \E r \in 1 .. n : Move(r)
  <2>1. PICK r \in 1 .. n : Move(r)
    BY <1>4
  <2>2. r \in 0 .. k.todo /\ r <= cnt
    BY <1>1, <2>1
  <2> QED
    BY <2>1, <2>2
<1> QED
  BY <1>2, <1>3, <1>4

LEMMA MoveParts ==
  ASSUME TInv, NEW n \in 0 .. k.todo, Move(n)
  PROVE  /\ k' \in RunType /\ k' = [k EXCEPT !.pc = "put", !.todo = k.todo - n, !.put = k.put + n]
         /\ k'.pc = "put" /\ k'.call = k.call /\ k'.m = k.m /\ k'.put = k.put + n
         /\ b' \in BufType(k'.put) /\ b'.pt = b.pt + n
         /\ b' = [b EXCEPT !.mem = Splice(b.mem, b.pt, Iota(k.put + 1, k.put + n)),
                           !.pt = b.pt + n]
         /\ b'.mem = Splice(b.mem, b.pt, Iota(k.put + 1, k.put + n))
         /\ Len(b'.mem) \in Nat /\ Len(b'.mem) >= MAXBLK /\ b'.pt <= Len(b'.mem)
         /\ b'.blksz = b.blksz /\ b'.wrblksz = b.wrblksz /\ b'.end = b.end
         /\ \A i \in 1 .. b.pt : b'.mem[i] = b.mem[i]
         /\ \A i \in 1 .. n : b'.mem[b.pt + i] = k.put + i
<1>1. /\ k \in RunType /\ k.put \in Nat /\ k.todo \in Nat /\ b.pt \in Nat /\ Len(b.mem) \in Nat
      /\ b.mem \in Seq(0 .. k.put) /\ b \in BufType(k.put) /\ Len(b.mem) >= MAXBLK
      /\ b.pt <= Len(b.mem)
  BY TypeParts, RunFacts DEF TInv, Buffer
<1>2. n \in Nat /\ k.todo - n \in Nat /\ k.put + n \in Nat /\ "put" \in Pcs /\ k.put <= k.put + n
      /\ b.pt + n \in Nat
  BY <1>1 DEF Pcs
<1>3. k' = [k EXCEPT !.pc = "put", !.todo = k.todo - n, !.put = k.put + n]
  BY DEF Move
<1>4. /\ k' \in RunType /\ k'.pc = "put" /\ k'.call = k.call /\ k'.m = k.m
      /\ k'.put = k.put + n
  BY <1>1, <1>2, <1>3 DEF RunType
<1> DEFINE t   == Iota(k.put + 1, k.put + n)
           mem == Splice(b.mem, b.pt, t)
<1>5. t \in Seq(0 .. k.put + n) /\ Len(t) = n /\ \A i \in 1 .. n : t[i] = k.put + i
  BY <1>1, <1>2, IotaProp
<1>6. b.mem \in Seq(0 .. k.put + n) /\ b.pt \in 0 .. Len(b.mem)
  BY <1>1, <1>2, Wider
<1> HIDE DEF t
<1>7. /\ mem \in Seq(0 .. k.put + n) /\ Len(mem) >= Len(b.mem) /\ Len(mem) >= b.pt + n
      /\ (\A i \in 1 .. b.pt : mem[i] = b.mem[i])
      /\ \A i \in 1 .. n : mem[b.pt + i] = k.put + i
  <2>1. /\ mem \in Seq(0 .. k.put + n) /\ Len(mem) >= Len(b.mem) /\ Len(mem) >= b.pt + Len(t)
        /\ (\A i \in 1 .. b.pt : mem[i] = b.mem[i])
        /\ \A i \in 1 .. Len(t) : mem[b.pt + i] = t[i]
    <3> DEFINE S == 0 .. k.put + n
    <3>1. t \in Seq(S) /\ b.mem \in Seq(S) /\ b.pt \in 0 .. Len(b.mem)
      BY <1>5, <1>6
    <3> HIDE DEF S
    <3>2. /\ mem \in Seq(S) /\ Len(mem) >= Len(b.mem) /\ Len(mem) >= b.pt + Len(t)
          /\ (\A i \in 1 .. b.pt : mem[i] = b.mem[i])
          /\ \A i \in 1 .. Len(t) : mem[b.pt + i] = t[i]
      BY <3>1, SpliceProp
    <3> QED
      BY <3>2 DEF S
  <2> HIDE DEF mem
  <2> QED
    BY <2>1, <1>5
<1>8. b' = [b EXCEPT !.mem = mem, !.pt = b.pt + n]
  BY DEF Move, t
<1> HIDE DEF mem
<1>9. /\ b' \in BufType(k.put + n) /\ b'.mem = mem /\ b'.pt = b.pt + n
      /\ b'.blksz = b.blksz /\ b'.wrblksz = b.wrblksz /\ b'.end = b.end
  BY <1>1, <1>2, <1>7, <1>8 DEF BufType
<1>10. Len(mem) \in Nat /\ Len(mem) >= MAXBLK /\ b.pt + n <= Len(mem)
  <2>1. Len(mem) \in Nat
    BY <1>7, LenProperties
  <2> QED
    BY <2>1, <1>1, <1>2, <1>7, Constants
<1>11. b'.mem = Splice(b.mem, b.pt, Iota(k.put + 1, k.put + n))
       /\ b' = [b EXCEPT !.mem = Splice(b.mem, b.pt, Iota(k.put + 1, k.put + n)), !.pt = b.pt + n]
  BY <1>8, <1>9 DEF mem, t
<1> QED
  BY <1>3, <1>4, <1>7, <1>9, <1>10, <1>11

LEMMA MoveStep ==
  ASSUME TInv, NEW n \in 0 .. k.todo, Move(n), UNCHANGED <<sc, vols, dev>>,
         k.pc \in {"put", "move"}
  PROVE  TInv'
<1>1. /\ k' \in RunType /\ k'.pc = "put" /\ k'.call = k.call /\ k'.m = k.m
      /\ k'.put = k.put + n
      /\ b' \in BufType(k'.put) /\ Len(b'.mem) >= MAXBLK /\ b'.pt <= Len(b'.mem)
      /\ b'.blksz = b.blksz /\ b'.wrblksz = b.wrblksz /\ b'.end = b.end
  BY MoveParts
<1>2. /\ vols \in Seq(Seq(0 .. k.put)) /\ Len(vols) \in 1 .. MaxVol /\ k.put \in Nat
      /\ dev \in DevType /\ dev.off <= Len(Last(vols)) /\ k.m <= Len(sc.members)
  BY TypeParts, RunFacts DEF TInv
<1>3. vols \in Seq(Seq(0 .. k'.put))
  <2>0. k.put \in Nat /\ k.todo \in Nat
    BY RunFacts DEF TInv
  <2>1. n \in Nat /\ k.put + n \in Nat /\ k.put <= k.put + n
    BY <2>0
  <2> QED
    BY <2>1, <1>1, <1>2, Wider
<1>4. TypeOK'
  BY <1>1, <1>2, <1>3 DEF TypeOK, DevType, BufType, RunType
<1>5. Blocks'
  BY <1>1 DEF TInv, Blocks
<1>6. OfMember'
  BY <1>1 DEF TInv, OfMember, Busy
<1>7. Fresh' /\ Counted'
  BY <1>1 DEF Fresh, Counted
<1>8. Buffer' /\ (sc \in Scenes)'
  BY <1>1 DEF TInv, Buffer
<1> QED
  BY <1>4, <1>5, <1>6, <1>7, <1>8 DEF TInv

LEMMA ShorterStep ==
  ASSUME TInv, Shorter, UNCHANGED <<sc, vols, dev>>, k.pc \in {"put", "move"}
  PROVE  /\ TInv' /\ k' \in RunType /\ k'.pc = "put" /\ k'.put = k.put /\ k'.m = k.m
         /\ k'.call = "left" /\ k'.todo = k.todo
<1>1. k \in RunType /\ k.m <= Len(sc.members) /\ b' = b
      /\ k' = [k EXCEPT !.pc = "put", !.call = "left", !.exit = 1] /\ k.call = "file"
  BY TypeParts DEF TInv, Shorter
<1>2. "put" \in Pcs /\ "left" \in Calls
  BY DEF Pcs, Calls
<1>3. 1 \in 0 .. 1
  OBVIOUS
<1>4. k' \in RunType /\ k'.pc = "put" /\ k'.put = k.put /\ k'.m = k.m /\ k'.todo = k.todo
      /\ k'.call = "left"
  BY <1>1, <1>2, <1>3 DEF RunType
<1>5. k.m >= 1
  BY <1>1 DEF TInv, OfMember, Busy, Parts
<1> QED
  BY <1>1, <1>4, <1>5, RunStep

LEMMA PutStep ==
  ASSUME TInv, Put \/ PutFlushed
  PROVE  TInv' /\ (Shorter \/ \E n \in 0 .. k.todo : Move(n) /\ n <= IF Put THEN Room ELSE k.cnt)
<1>1. CASE Put
  <2>1. Room \in Nat /\ MoveSome(Room) /\ UNCHANGED <<sc, vols, dev>> /\ k.pc \in {"put", "move"}
    BY <1>1, RunFacts DEF TInv, Put, At, Room
  <2>2. Shorter \/ \E n \in 0 .. k.todo : n <= Room /\ Move(n)
    BY <2>1, MovedSome
  <2> QED
    BY <1>1, <2>1, <2>2, MoveStep, ShorterStep
<1>2. CASE ~ Put
  <2>1. k.cnt \in Nat /\ MoveSome(k.cnt) /\ UNCHANGED <<sc, vols, dev>> /\ k.pc \in {"put", "move"}
    BY <1>2, RunFacts DEF TInv, PutFlushed, At
  <2>2. Shorter \/ \E n \in 0 .. k.todo : n <= k.cnt /\ Move(n)
    BY <2>1, MovedSome
  <2> QED
    BY <1>2, <2>1, <2>2, MoveStep, ShorterStep
<1> QED
  BY <1>1, <1>2

-----------------------------------------------------------------------------
(* The last of several sequences, of which the first at elements count, gets t
   written behind those.                                                    *)
Ended(s, x) == [s EXCEPT ![Len(s)] = x]
LEMMA EndedProp ==
  ASSUME NEW S, NEW s \in Seq(S), Len(s) > 0, NEW x \in S
  PROVE  Ended(s, x) \in Seq(S) /\ Len(Ended(s, x)) = Len(s) /\ Ended(s, x)[Len(s)] = x
<1>1. Len(s) \in Nat /\ Len(s) \in 1 .. Len(s)
  OBVIOUS
<1> QED
  BY <1>1, ExceptSeq DEF Ended

LEMMA EndedAgain ==
  ASSUME NEW S, NEW s \in Seq(S), Len(s) > 0, NEW x \in S, NEW y \in S
  PROVE  Ended(Ended(s, x), y) = Ended(s, y)
<1>1. Len(Ended(s, x)) = Len(s)
  BY EndedProp
<1>2. Ended(Ended(s, x), y) = [[s EXCEPT ![Len(s)] = x] EXCEPT ![Len(s)] = y]
  BY <1>1 DEF Ended
<1> QED
  BY <1>2 DEF Ended

LEMMA EndedFlat ==
  ASSUME NEW S, NEW s \in Seq(Seq(S)), Len(s) > 0, NEW x \in Seq(S)
  PROVE  FlattenSeq(Ended(s, x)) = FlattenSeq(SubSeq(s, 1, Len(s) - 1)) \o x
<1>1. SubSeq(s, 1, Len(s) - 1) \in Seq(Seq(S))
  BY FrontLast
<1>2. Ended(s, x) = Append(SubSeq(s, 1, Len(s) - 1), x)
  BY FrontLast DEF Ended
<1> QED
  BY <1>1, <1>2, FlattenAppend

SeqSeq(S) == Seq(Seq(S))
LEMMA EndedMore ==
  ASSUME NEW S, NEW s \in SeqSeq(S), Len(s) > 0, NEW o \in Seq(S), NEW t \in Seq(S)
  PROVE  FlattenSeq(Ended(s, o \o t)) = FlattenSeq(Ended(s, o)) \o t
<1> DEFINE f == FlattenSeq(SubSeq(s, 1, Len(s) - 1))
<1>1. o \o t \in Seq(S)
  BY ConcatProperties
<1>2. FlattenSeq(Ended(s, o \o t)) = f \o (o \o t)
  BY <1>1, EndedFlat DEF SeqSeq
<1>3. FlattenSeq(Ended(s, o)) = f \o o
  BY EndedFlat DEF SeqSeq
<1>4. f \in Seq(S)
  <2>1. SubSeq(s, 1, Len(s) - 1) \in Seq(Seq(S))
    BY FrontLast DEF SeqSeq
  <2> QED
    BY <2>1, FlattenType
<1> HIDE DEF f
<1>5. (f \o o) \o t = f \o (o \o t)
  BY <1>4, ConcatAssociative
<1> QED
  BY <1>2, <1>3, <1>5

-----------------------------------------------------------------------------
(* What is on the volumes: the closed ones, and the open one up to where it
   is written.                                                              *)
LEMMA VolFacts ==
  ASSUME TypeOK
  PROVE  /\ vols \in Seq(Seq(0 .. k.put)) /\ Len(vols) \in Nat /\ Len(vols) > 0
         /\ dev.off \in Nat /\ dev.off <= Len(Last(vols))
<1>1. vols \in Seq(Seq(0 .. k.put)) /\ dev.off <= Len(Last(vols)) /\ Len(vols) \in 1 .. MaxVol
  BY TypeParts
<1>2. dev.off \in Nat /\ Len(vols) \in Nat
  BY RunFacts
<1>3. Len(vols) > 0
  BY <1>1, Constants
<1> QED
  BY <1>1, <1>2, <1>3

LEMMA FlatParts ==
  ASSUME TypeOK
  PROVE  /\ Flat \in Seq(0 .. k.put) /\ Last(vols) \in Seq(0 .. k.put)
         /\ Len(SubSeq(Last(vols), 1, dev.off)) = dev.off
         /\ SubSeq(Last(vols), 1, dev.off) \in Seq(0 .. k.put)
         /\ Last(vols) = vols[Len(vols)]
         /\ Flat = FlattenSeq(SubSeq(vols, 1, Len(vols) - 1)) \o SubSeq(Last(vols), 1, dev.off)
<1> DEFINE S == 0 .. k.put
           o == SubSeq(Last(vols), 0 + 1, dev.off)
<1>1. /\ vols \in Seq(Seq(S)) /\ Len(vols) \in Nat /\ Len(vols) > 0 /\ dev.off \in Nat
      /\ dev.off <= Len(Last(vols))
  BY VolFacts
<1> HIDE DEF S
<1>2. Len(vols) \in 1 .. Len(vols)
  BY <1>1
<1>3. Last(vols) \in Seq(S) /\ Last(vols) = vols[Len(vols)]
  BY <1>1, <1>2, ElementOfSeq DEF Last
<1>4. 0 \in Nat /\ 0 <= dev.off /\ dev.off - 0 = dev.off
  BY <1>1
<1>5. o \in Seq(S) /\ Len(o) = dev.off
  BY <1>1, <1>3, <1>4, PartProp
<1>6. Flat = FlattenSeq(Ended(vols, o))
  BY <1>3 DEF Flat, Ended
<1> HIDE DEF o
<1>7. Flat = FlattenSeq(SubSeq(vols, 1, Len(vols) - 1)) \o o
  BY <1>1, <1>5, <1>6, EndedFlat
<1>8. SubSeq(vols, 1, Len(vols) - 1) \in Seq(Seq(S))
  BY <1>1, <1>5, FrontLast
<1>9. FlattenSeq(SubSeq(vols, 1, Len(vols) - 1)) \in Seq(S)
  BY <1>8, FlattenType
<1>10. Flat \in Seq(S)
  BY <1>5, <1>7, <1>9, ConcatProperties
<1> QED
  BY <1>3, <1>5, <1>7, <1>10 DEF S, o

(* What is written comes after what is there, and /dev/null keeps nothing. *)
LEMMA OutProp ==
  ASSUME TypeOK, NEW n \in Nat, n <= Len(b.mem), Out(n)
  PROVE  /\ vols' \in Seq(Seq(0 .. k.put)) /\ Len(vols') = Len(vols)
         /\ Advance(n) \in Nat /\ Advance(n) <= Len(Last(vols'))
         /\ dev.null => vols' = vols /\ Advance(n) = dev.off
         /\ ~ dev.null /\ dev'.off = Advance(n) => Flat' = Flat \o Part(0, n)
<1> DEFINE S == 0 .. k.put
           p == SubSeq(b.mem, 0 + 1, n)
<1>1. /\ vols \in Seq(Seq(S)) /\ Len(vols) \in Nat /\ Len(vols) > 0 /\ dev.off \in Nat
      /\ dev.off <= Len(Last(vols))
  BY VolFacts
<1>2. b.mem \in Seq(S) /\ Len(b.mem) \in Nat
  BY RunFacts
<1> HIDE DEF S
<1>3. p \in Seq(S) /\ Len(p) = n /\ p = Part(0, n)
  <2>1. 0 \in Nat /\ 0 <= n /\ n - 0 = n
    OBVIOUS
  <2> QED
    BY <2>1, <1>2, PartProp DEF Part
<1> HIDE DEF p
<1>4. CASE dev.null
  <2>1. vols' = vols /\ Advance(n) = dev.off
    BY <1>4 DEF Out, Advance
  <2> QED
    BY <2>1, <1>1, <1>4 DEF S
<1>5. CASE ~ dev.null
  <2>1. vols' = [vols EXCEPT ![Len(vols)] = Splice(@, dev.off, Part(0, n))]
    BY <1>5 DEF Out
  <2> DEFINE l == vols[Len(vols)]
             q == Splice(l, dev.off, p)
             o == SubSeq(l, 0 + 1, dev.off)
             c == SubSeq(q, 1, dev.off + Len(p))
  <2>2. vols' = Ended(vols, q) /\ Flat = FlattenSeq(Ended(vols, o))
    BY <2>1, <1>3 DEF Ended, Flat
  <2>3. Advance(n) = dev.off + Len(p)
    BY <1>3, <1>5 DEF Advance
  <2>4. /\ dev.off \in 0 .. Len(l) /\ l \in Seq(S) /\ 0 \in Nat /\ 0 <= dev.off
        /\ dev.off <= Len(l)
    <3>1. Len(vols) \in 1 .. Len(vols)
      BY <1>1
    <3>2. l \in Seq(S) /\ dev.off <= Len(l)
      BY <3>1, <1>1, ElementOfSeq DEF Last
    <3> QED
      BY <3>2, <1>1, LenProperties
  <2> HIDE DEF l
  <2>5. q \in Seq(S) /\ dev.off + Len(p) <= Len(q) /\ c = o \o p
    <3>1. q \in Seq(S) /\ dev.off + Len(p) <= Len(q)
      BY <1>3, <2>4, SpliceProp
    <3>2. c = SubSeq(l, 1, dev.off) \o p
      BY <1>3, <2>4, SpliceGrows
    <3>3. SubSeq(l, 1, dev.off) = o
      OBVIOUS
    <3> QED
      BY <3>1, <3>2, <3>3
  <2>6. o \in Seq(S)
    BY <1>1, <2>4, PartProp
  <2> HIDE DEF q, o, c
  <2>9. /\ vols' \in Seq(Seq(S)) /\ Len(vols') = Len(vols) /\ vols'[Len(vols')] = q
        /\ Ended(vols', c) = Ended(vols, c)
    <3> DEFINE Z == Seq(S)
    <3>1. vols \in Seq(Z) /\ q \in Z /\ c \in Z
      BY <1>1, <1>3, <2>5, <2>6, ConcatProperties
    <3> HIDE DEF Z
    <3>2. Ended(vols, q) \in Seq(Z) /\ Len(Ended(vols, q)) = Len(vols) /\ Ended(vols, q)[Len(vols)] = q
      BY <3>1, <1>1, EndedProp
    <3>3. Ended(Ended(vols, q), c) = Ended(vols, c)
      BY <3>1, <1>1, EndedAgain
    <3> QED
      BY <2>2, <3>2, <3>3 DEF Z
  <2>10. FlattenSeq(Ended(vols, c)) = FlattenSeq(Ended(vols, o)) \o p
    <3>1. vols \in SeqSeq(S) /\ Len(vols) > 0
      BY <1>1 DEF SeqSeq
    <3>2. p \in Seq(S) /\ o \in Seq(S)
      BY <1>3, <2>6
    <3>3. FlattenSeq(Ended(vols, o \o p)) = FlattenSeq(Ended(vols, o)) \o p
      BY <3>1, <3>2, EndedMore
    <3> QED
      BY <3>3, <2>5
  <2>7. ASSUME dev'.off = Advance(n) PROVE Flat' = Flat \o Part(0, n)
    <3>1. Flat' = FlattenSeq(Ended(vols', SubSeq(vols'[Len(vols')], 1, dev'.off)))
      BY DEF Flat, Ended
    <3>2. dev'.off = dev.off + Len(p)
      BY <2>7, <2>3
    <3>3. Flat' = FlattenSeq(Ended(vols', c))
      BY <3>1, <3>2, <2>9 DEF c
    <3> QED
      BY <3>3, <2>2, <2>9, <2>10, <1>3
  <2>8. Advance(n) \in Nat /\ Advance(n) <= Len(Last(vols'))
    <3>1. Last(vols') = q
      BY <2>9 DEF Last
    <3> QED
      BY <3>1, <1>1, <1>3, <2>3, <2>5
  <2> QED
    BY <1>5, <2>7, <2>8, <2>9 DEF S
<1> QED
  BY <1>4, <1>5

-----------------------------------------------------------------------------
(* buf_flush ends, or its caller gives up: the program is somewhere else, for
   the same member and with as much put.                                    *)
LEMMA FlushedTyped ==
  ASSUME NEW kk \in RunType, NEW cnt \in Nat
  PROVE  /\ Flushed(kk, cnt) \in RunType
         /\ Flushed(kk, cnt).put = kk.put /\ Flushed(kk, cnt).m = kk.m
         /\ Flushed(kk, cnt).call = kk.call /\ Flushed(kk, cnt).todo = kk.todo
         /\ Flushed(kk, cnt).broken = kk.broken /\ Flushed(kk, cnt).exit = kk.exit
         /\ Flushed(kk, cnt).warned = kk.warned /\ Flushed(kk, cnt).wrone = kk.wrone
         /\ \/ Flushed(kk, cnt).pc = "close" /\ kk.call = "fin"
            \/ Flushed(kk, cnt).pc = "move" /\ kk.call # "fin" /\ Flushed(kk, cnt).cnt = cnt
<1>1. "close" \in Pcs /\ "move" \in Pcs
  BY DEF Pcs
<1>2. CASE kk.call = "fin"
  BY <1>1, <1>2 DEF Flushed, RunType
<1>3. CASE kk.call # "fin"
  BY <1>1, <1>3 DEF Flushed, RunType
<1> QED
  BY <1>2, <1>3

LEMMA BrokenTyped ==
  ASSUME NEW kk \in RunType, sc \in Scenes
  PROVE  /\ Broken(kk) \in RunType /\ Broken(kk).put = kk.put /\ Broken(kk).m = kk.m
         /\ Broken(kk).exit = kk.exit /\ Broken(kk).warned = kk.warned /\ Broken(kk).broken = TRUE
         /\ Broken(kk).wrone = kk.wrone
         /\ Broken(kk).pc \in {"put", "close"}
         /\ Broken(kk).call = "fin" => Broken(kk).todo = 0 \/ (kk.call = "fin" /\ Broken(kk).todo = kk.todo)
         /\ Broken(kk).call \in {"tail", "fin"} \/ Broken(kk).pc = "close"
<1>1. "close" \in Pcs /\ "put" \in Pcs /\ "tail" \in Calls /\ "fin" \in Calls
  BY DEF Pcs, Calls
<1>2. sc.tlen \in Nat
  BY SceneFacts
<1>3. CASE kk.call \in {"head", "file", "left", "pad"}
  <2> DEFINE pc == IF kk.wrone THEN "put" ELSE "close"
  <2>1. Broken(kk) = [kk EXCEPT !.pc = pc, !.call = "tail", !.todo = sc.tlen, !.broken = TRUE]
    BY <1>3 DEF Broken
  <2>2. pc \in Pcs /\ pc \in {"put", "close"}
    BY <1>1
  <2> HIDE DEF pc
  <2>3. Broken(kk) \in RunType
    BY <2>1, <2>2, <1>1, <1>2 DEF RunType
  <2>4. /\ Broken(kk).put = kk.put /\ Broken(kk).m = kk.m /\ Broken(kk).exit = kk.exit
        /\ Broken(kk).warned = kk.warned /\ Broken(kk).broken = TRUE
        /\ Broken(kk).wrone = kk.wrone /\ Broken(kk).pc = pc /\ Broken(kk).call = "tail"
    BY <2>1 DEF RunType
  <2>5. Broken(kk).call \in {"tail", "fin"} /\ Broken(kk).pc \in {"put", "close"}
        /\ Broken(kk).call # "fin"
    BY <2>2, <2>4
  <2> HIDE DEF pc
  <2> QED
    BY <2>3, <2>4, <2>5
<1>4. CASE kk.call = "tail"
  <2>1. Broken(kk) = [kk EXCEPT !.pc = "put", !.call = "fin", !.todo = 0, !.broken = TRUE]
    BY <1>4 DEF Broken
  <2>2. Broken(kk) \in RunType
    <3>1. [kk EXCEPT !.pc = "put", !.call = "fin"] \in RunType
      BY <1>1 DEF RunType
    <3>2. 0 \in Nat
      OBVIOUS
    <3> QED
      BY <3>1, <3>2, <2>1 DEF RunType
  <2>3. /\ Broken(kk).put = kk.put /\ Broken(kk).m = kk.m /\ Broken(kk).exit = kk.exit
        /\ Broken(kk).warned = kk.warned /\ Broken(kk).broken = TRUE
        /\ Broken(kk).pc = "put" /\ Broken(kk).call = "fin" /\ Broken(kk).todo = 0
        /\ Broken(kk).wrone = kk.wrone
    BY <2>1 DEF RunType
  <2> QED
    BY <2>2, <2>3
<1>5. CASE kk.call = "fin"
  <2>1. Broken(kk) = [kk EXCEPT !.pc = "close", !.broken = TRUE]
    BY <1>5 DEF Broken
  <2>2. Broken(kk) \in RunType
    BY <2>1, <1>1 DEF RunType
  <2>3. /\ Broken(kk).put = kk.put /\ Broken(kk).m = kk.m /\ Broken(kk).exit = kk.exit
        /\ Broken(kk).warned = kk.warned /\ Broken(kk).broken = TRUE
        /\ Broken(kk).pc = "close" /\ Broken(kk).todo = kk.todo /\ Broken(kk).wrone = kk.wrone
    BY <2>1 DEF RunType
  <2> QED
    BY <2>2, <2>3, <1>5
<1> QED
  BY <1>3, <1>4, <1>5 DEF RunType, Calls

LEMMA FlushStep ==
  ASSUME TInv, Flush
  PROVE  TInv'
<1> DEFINE pc == IF sc.limit > 0 /\ b.wrcnt > sc.limit THEN "next" ELSE "write"
<1>1. /\ k' = [k EXCEPT !.pc = pc, !.bufcnt = b.blksz, !.push = 0, !.tot = 0]
      /\ UNCHANGED <<sc, vols, dev, b>> /\ k.pc = "flush"
  BY DEF Flush, At
<1>2. pc \in Pcs /\ pc \in {"next", "write"}
  BY DEF Pcs
<1> HIDE DEF pc
<1>3. k \in RunType /\ k.m <= Len(sc.members) /\ b.blksz \in Nat
  BY TypeParts, RunFacts DEF TInv
<1>4. /\ k' \in RunType /\ k'.pc = pc /\ k'.bufcnt = b.blksz /\ k'.push = 0
      /\ k'.put = k.put /\ k'.m = k.m /\ k'.call = k.call
  BY <1>1, <1>2, <1>3 DEF RunType
<1>5. TypeOK' /\ (sc \in Scenes)' /\ Buffer'
  BY <1>1, <1>3, <1>4, OnlyRun
<1>6. Blocks' /\ OfMember' /\ Fresh'
  BY <1>1, <1>2, <1>4 DEF TInv, Blocks, OfMember, Fresh, Busy
<1>7. b'.blksz \in 1 .. MAXBLK
  BY <1>1 DEF TInv, Blocks
<1>8. Counted'
  BY <1>1, <1>4, <1>7, Constants DEF Counted
<1> QED
  BY <1>5, <1>6, <1>8 DEF TInv

(* A block is out: what was left behind it is at the front.                 *)
LEMMA WroteProp ==
  ASSUME TInv, k.pc = "write", Wrote(k)
  PROVE  /\ b' = [b EXCEPT !.mem = b'.mem, !.pt = k.push, !.wrcnt = b.wrcnt + b.blksz]
         /\ b' \in BufType(k.put) /\ Len(b'.mem) >= MAXBLK /\ b'.pt = k.push
         /\ b'.pt <= Len(b'.mem)
         /\ b'.blksz = b.blksz /\ b'.wrblksz = b.wrblksz /\ b'.end = b.end
         /\ \A i \in 1 .. k.push : b'.mem[i] = b.mem[b.end + i]
<1> DEFINE S == 0 .. k.put
           t == SubSeq(b.mem, b.end + 1, b.end + k.push)
           mem == Splice(b.mem, 0, t)
<1>1. /\ b \in BufType(k.put) /\ Len(b.mem) >= MAXBLK /\ Len(b.mem) \in Nat
      /\ b.mem \in Seq(S) /\ k.push \in Nat /\ b.end \in Nat /\ b.blksz \in Nat /\ b.wrcnt \in Nat
  BY TypeParts, RunFacts DEF TInv
<1>2. /\ b.end = b.blksz /\ k.push + b.blksz <= k.bufcnt /\ k.bufcnt <= MAXBLK
      /\ k.bufcnt \in Nat
  BY RunFacts DEF TInv, Blocks, Counted
<1> HIDE DEF S
<1>3. b.end + k.push \in Nat /\ b.end <= b.end + k.push /\ b.end + k.push <= Len(b.mem)
      /\ (b.end + k.push) - b.end = k.push /\ k.push <= Len(b.mem) /\ 0 \in 0 .. Len(b.mem)
  BY <1>1, <1>2, Constants
<1>4. t \in Seq(S) /\ Len(t) = k.push /\ \A h \in 1 .. k.push : t[h] = b.mem[b.end + h]
  <2> DEFINE e == b.end + k.push
  <2>1. e \in Nat /\ b.end <= e /\ e <= Len(b.mem) /\ e - b.end = k.push
    BY <1>3
  <2> HIDE DEF e
  <2>2. /\ SubSeq(b.mem, b.end + 1, e) \in Seq(S)
        /\ Len(SubSeq(b.mem, b.end + 1, e)) = e - b.end
        /\ \A h \in 1 .. e - b.end : SubSeq(b.mem, b.end + 1, e)[h] = b.mem[b.end + h]
    <3>1. b.mem \in Seq(S) /\ b.end \in Nat
      BY <1>1
    <3> QED
      BY <3>1, <2>1, PartProp
  <2> QED
    BY <2>1, <2>2 DEF e
<1>5. b' = [b EXCEPT !.mem = mem, !.pt = k.push, !.wrcnt = b.wrcnt + b.blksz]
  BY DEF Wrote, Part
<1> HIDE DEF t
<1>6. /\ mem \in Seq(S) /\ Len(mem) >= Len(b.mem)
      /\ \A i \in 1 .. Len(t) : mem[0 + i] = t[i]
  BY <1>1, <1>3, <1>4, SpliceProp
<1> HIDE DEF mem
<1>7. /\ b'.mem = mem /\ b'.pt = k.push /\ b'.blksz = b.blksz /\ b'.wrblksz = b.wrblksz
      /\ b'.end = b.end
  BY <1>1, <1>5 DEF BufType
<1>8. b.wrcnt + b.blksz \in Nat
  BY <1>1
<1>9. b' \in BufType(k.put)
  BY <1>1, <1>5, <1>6, <1>8 DEF BufType, S
<1>10. Len(mem) \in Nat
  BY <1>6, LenProperties
<1>11. Len(mem) >= MAXBLK /\ k.push <= Len(mem)
  BY <1>1, <1>3, <1>6, <1>10, Constants
<1>12. ASSUME NEW i \in 1 .. k.push PROVE mem[i] = b.mem[b.end + i]
  <2>1. 0 + i = i
    BY <1>1
  <2> QED
    BY <2>1, <1>4, <1>6
<1> QED
  BY <1>5, <1>7, <1>9, <1>11, <1>12

LEMMA WroteRun ==
  ASSUME TInv, k.pc = "write", Wrote(k)
  PROVE  /\ k' \in RunType /\ k'.put = k.put /\ k'.m = k.m /\ k'.call = k.call
         /\ k'.todo = k.todo /\ k'.broken = k.broken /\ k'.exit = k.exit
         /\ k'.warned = k.warned /\ k'.wrone = k.wrone
         /\ \/ /\ k'.pc = "write" /\ k.push >= b.blksz /\ k'.push = k.push - b.blksz
               /\ k'.tot = k.tot + b.blksz /\ k'.bufcnt = k.bufcnt
            \/ /\ k.push < b.blksz
               /\ \/ k'.pc = "move" /\ k'.cnt = k.tot + b.blksz /\ k.call # "fin"
                  \/ k'.pc = "close" /\ k.call = "fin"
<1> DEFINE tot == k.tot + b.blksz
           kk  == [k EXCEPT !.tot = tot]
<1>1. k \in RunType /\ k.push \in Nat /\ b.blksz \in Nat /\ k.tot \in Nat
  BY TypeParts, RunFacts DEF TInv
<1>2. tot \in Nat
  BY <1>1
<1>3. CASE k.push >= b.blksz
  <2>1. k' = [k EXCEPT !.push = k.push - b.blksz, !.tot = tot]
    BY <1>3 DEF Wrote
  <2>2. k.push - b.blksz \in Nat
    BY <1>1, <1>3
  <2> HIDE DEF tot
  <2>3. /\ k' \in RunType /\ k'.put = k.put /\ k'.m = k.m /\ k'.call = k.call /\ k'.pc = k.pc
        /\ k'.todo = k.todo /\ k'.broken = k.broken /\ k'.exit = k.exit
        /\ k'.warned = k.warned /\ k'.wrone = k.wrone
        /\ k'.push = k.push - b.blksz /\ k'.tot = tot /\ k'.bufcnt = k.bufcnt
    BY <1>1, <1>2, <2>1, <2>2 DEF RunType
  <2> QED
    BY <2>3, <1>3 DEF tot
<1>4. CASE ~ (k.push >= b.blksz)
  <2>1. k' = Flushed(kk, tot)
    BY <1>4 DEF Wrote
  <2> HIDE DEF tot
  <2>2. /\ kk \in RunType /\ kk.put = k.put /\ kk.m = k.m /\ kk.call = k.call
        /\ kk.todo = k.todo /\ kk.broken = k.broken /\ kk.exit = k.exit
        /\ kk.warned = k.warned /\ kk.wrone = k.wrone
    BY <1>1, <1>2 DEF RunType
  <2> HIDE DEF kk
  <2>3. /\ k' \in RunType /\ k'.put = kk.put /\ k'.m = kk.m /\ k'.call = kk.call
        /\ k'.todo = kk.todo /\ k'.broken = kk.broken /\ k'.exit = kk.exit
        /\ k'.warned = kk.warned /\ k'.wrone = kk.wrone
        /\ \/ k'.pc = "close" /\ kk.call = "fin"
           \/ k'.pc = "move" /\ kk.call # "fin" /\ k'.cnt = tot
    BY <1>2, <2>1, <2>2, FlushedTyped
  <2>4. k.push < b.blksz
    BY <1>1, <1>4
  <2> QED
    BY <2>2, <2>3, <2>4 DEF tot
<1> QED
  BY <1>3, <1>4

(* Where a step of buf_flush leaves the rest of TInv to what it does to the
   program: the volume and the buffer keep their types.                     *)
LEMMA Rest ==
  ASSUME TInv, sc' = sc, k' \in RunType, k'.put = k.put, k'.m = k.m,
         vols' \in Seq(Seq(0 .. k.put)), Len(vols') \in 1 .. MaxVol,
         dev' \in DevType, dev'.off <= Len(Last(vols')),
         b' \in BufType(k.put), Len(b'.mem) >= MAXBLK, b'.pt <= Len(b'.mem)
  PROVE  TypeOK' /\ (sc \in Scenes)' /\ Buffer'
<1>1. k.m <= Len(sc.members)
  BY TypeParts DEF TInv
<1>2. TypeOK'
  BY <1>1 DEF TypeOK, DevType, BufType, RunType
<1> QED
  BY <1>2 DEF TInv, Buffer

LEMMA WroteStep ==
  ASSUME TInv, k.pc = "write", Wrote(k), sc' = sc,
         vols' \in Seq(Seq(0 .. k.put)), Len(vols') \in 1 .. MaxVol,
         dev' \in DevType, dev'.off <= Len(Last(vols'))
  PROVE  TInv'
<1>1. /\ b' \in BufType(k.put) /\ Len(b'.mem) >= MAXBLK /\ b'.pt <= Len(b'.mem)
      /\ b'.blksz = b.blksz /\ b'.wrblksz = b.wrblksz /\ b'.end = b.end
  BY WroteProp
<1>2. /\ k' \in RunType /\ k'.put = k.put /\ k'.m = k.m /\ k'.call = k.call
      /\ k'.pc \in {"write", "move", "close"}
      /\ k'.pc = "write" => k'.push = k.push - b.blksz /\ k'.bufcnt = k.bufcnt
  BY WroteRun
<1>3. TypeOK' /\ (sc \in Scenes)' /\ Buffer'
  BY <1>1, <1>2, Rest
<1>4. Blocks' /\ Fresh'
  BY <1>1, <1>2 DEF TInv, Blocks, Fresh
<1>5. OfMember'
  BY <1>2 DEF TInv, OfMember, Busy
<1>6. Counted'
  <2>1. k.push + b.blksz <= k.bufcnt /\ k.bufcnt <= MAXBLK
    BY DEF TInv, Counted
  <2>2. k.push \in Nat /\ b.blksz \in Nat /\ k.bufcnt \in Nat
    BY RunFacts DEF TInv
  <2>3. k'.pc = "write" => k'.push + b'.blksz <= k'.bufcnt
    BY <2>1, <2>2, <1>1, <1>2
  <2>4. k'.pc \in {"write", "next"} => k'.bufcnt <= MAXBLK
    BY <2>1, <1>2
  <2> QED
    BY <2>3, <2>4 DEF Counted
<1> QED
  BY <1>3, <1>4, <1>5, <1>6 DEF TInv

(* The device after n units: it is a device, at Advance(n).                 *)
LEMMA DevFacts ==
  ASSUME TypeOK
  PROVE  /\ dev \in DevType /\ dev.off \in Nat /\ dev.off <= Len(Last(vols))
         /\ -1 \in -1 .. 1 /\ 0 \in -1 .. 1 /\ 1 \in -1 .. 1
         /\ "REG" \in Types
<1>1. -1 \in -1 .. 1 /\ 0 \in -1 .. 1 /\ 1 \in -1 .. 1
  OBVIOUS
<1>2. "REG" \in Types
  BY DEF Types
<1> QED
  BY <1>1, <1>2, TypeParts, RunFacts

LEMMA FullStep ==
  ASSUME TInv, WriteFull
  PROVE  TInv'
<1>1. /\ k.pc = "write" /\ Out(b.blksz) /\ Wrote(k) /\ sc' = sc
      /\ dev' = [dev EXCEPT !.off = Advance(b.blksz), !.trail = TRUE]
  BY DEF WriteFull, At
<1>2. b.blksz \in Nat /\ b.blksz <= Len(b.mem)
  <2>1. b.blksz \in 1 .. MAXBLK
    BY <1>1 DEF TInv, Blocks
  <2>2. Len(b.mem) \in Nat /\ Len(b.mem) >= MAXBLK
    BY RunFacts, TypeParts DEF TInv
  <2> QED
    BY <2>1, <2>2, Constants
<1>3. /\ vols' \in Seq(Seq(0 .. k.put)) /\ Len(vols') = Len(vols)
      /\ Advance(b.blksz) \in Nat /\ Advance(b.blksz) <= Len(Last(vols'))
  BY <1>1, <1>2, OutProp DEF TInv
<1>4. dev' \in DevType /\ dev'.off = Advance(b.blksz)
  <2>1. dev \in DevType
    BY DevFacts DEF TInv
  <2> QED
    BY <2>1, <1>1, <1>3 DEF DevType
<1>5. Len(vols') \in 1 .. MaxVol
  BY <1>3, TypeParts DEF TInv
<1> QED
  BY <1>1, <1>3, <1>4, <1>5, WroteStep

LEMMA PipeStep ==
  ASSUME TInv, WriteBroken
  PROVE  TInv'
<1>1. /\ k.pc = "write" /\ Wrote(k) /\ sc' = sc /\ vols' = vols
      /\ dev' = [dev EXCEPT !.null = TRUE, !.gone = TRUE, !.trail = TRUE, !.artyp = "REG"]
  BY DEF WriteBroken, At
<1>2. dev' \in DevType /\ dev'.off = dev.off
  <2>1. dev \in DevType /\ "REG" \in Types
    BY DevFacts DEF TInv
  <2> QED
    BY <2>1, <1>1 DEF DevType
<1>3. /\ vols' \in Seq(Seq(0 .. k.put)) /\ Len(vols') \in 1 .. MaxVol
      /\ dev'.off <= Len(Last(vols'))
  BY <1>1, <1>2, TypeParts DEF TInv
<1> QED
  BY <1>1, <1>2, <1>3, WroteStep

(* None of a block is written. *)
LEMMA NoneStep ==
  ASSUME TInv, WriteNone
  PROVE  TInv'
<1>1. PICK res \in {-1, 0} :
        /\ dev' = [dev EXCEPT !.lstrval = res]
        /\ k' = [k EXCEPT !.pc = "next",
                   !.exit = IF dev.lstrval = 1 /\ (res < 0 \/ ~ dev.trail) THEN 1 ELSE k.exit]
  BY DEF WriteNone
<1> DEFINE e == IF dev.lstrval = 1 /\ (res < 0 \/ ~ dev.trail) THEN 1 ELSE k.exit
<1>2. k.pc = "write" /\ b' = [b EXCEPT !.wrcnt = 0] /\ sc' = sc /\ vols' = vols
  BY DEF WriteNone, At
<1>3. /\ k \in RunType /\ b \in BufType(k.put) /\ dev \in DevType /\ Len(b.mem) >= MAXBLK
      /\ vols \in Seq(Seq(0 .. k.put)) /\ Len(vols) \in 1 .. MaxVol /\ dev.off <= Len(Last(vols))
      /\ b.pt <= Len(b.mem)
  BY TypeParts DEF TInv, Buffer
<1>4. e \in 0 .. 1 /\ "next" \in Pcs /\ res \in -1 .. 1
  <2>1. 1 \in 0 .. 1 /\ k.exit \in 0 .. 1
    BY <1>3 DEF RunType
  <2> QED
    BY <2>1, DevFacts DEF TInv, Pcs
<1> HIDE DEF e
<1>5. /\ k' \in RunType /\ k'.pc = "next" /\ k'.put = k.put /\ k'.m = k.m /\ k'.call = k.call
      /\ k'.bufcnt = k.bufcnt
  BY <1>1, <1>3, <1>4 DEF RunType, e
<1>6. dev' \in DevType /\ dev'.off = dev.off
  BY <1>1, <1>3, <1>4 DEF DevType
<1>7. /\ b' \in BufType(k.put) /\ b'.mem = b.mem /\ b'.pt = b.pt /\ b'.blksz = b.blksz
      /\ b'.wrblksz = b.wrblksz /\ b'.end = b.end
  BY <1>2, <1>3 DEF BufType
<1>8. TypeOK' /\ (sc \in Scenes)' /\ Buffer'
  BY <1>2, <1>3, <1>5, <1>6, <1>7, Rest
<1>9. Blocks' /\ Fresh' /\ OfMember'
  BY <1>2, <1>5, <1>7 DEF TInv, Blocks, Fresh, OfMember, Busy
<1>10. Counted'
  BY <1>2, <1>5 DEF TInv, Counted
<1> QED
  BY <1>8, <1>9, <1>10 DEF TInv

LEMMA BrokenStep ==
  ASSUME TInv, k.pc \in {"write", "next"}, sc' = sc,
         NEW kk \in RunType, kk.put = k.put, kk.m = k.m, k' = Broken(kk),
         vols' \in Seq(Seq(0 .. k.put)), Len(vols') \in 1 .. MaxVol,
         dev' \in DevType, dev'.off <= Len(Last(vols')),
         b' \in BufType(k.put), Len(b'.mem) >= MAXBLK, b'.pt <= Len(b'.mem),
         b'.blksz = b.blksz, b'.wrblksz = b.wrblksz, b'.end = b.end
  PROVE  TInv'
<1>1. /\ k' \in RunType /\ k'.put = k.put /\ k'.m = k.m /\ k'.pc \in {"put", "close"}
      /\ k'.call \in {"tail", "fin"} \/ k'.pc = "close"
  BY BrokenTyped DEF TInv
<1>2. TypeOK' /\ (sc \in Scenes)' /\ Buffer'
  BY <1>1, Rest
<1>3. Blocks' /\ Fresh' /\ OfMember' /\ Counted'
  BY <1>1 DEF TInv, Blocks, Fresh, OfMember, Busy, Counted, Parts
<1> QED
  BY <1>2, <1>3 DEF TInv

LEMMA NextNoneStep ==
  ASSUME TInv, NextNone
  PROVE  TInv'
<1> DEFINE kk == [k EXCEPT !.exit = 1]
           f == dev.done \/ ~ OneVolume
           l == IF OneVolume THEN dev.lstrval ELSE -1
<1>1. /\ dev' = [dev EXCEPT !.open = FALSE, !.done = f, !.lstrval = l]
      /\ b' = [b EXCEPT !.wrcnt = 0] /\ k' = Broken(kk) /\ sc' = sc /\ vols' = vols
      /\ k.pc = "next"
  BY DEF NextNone, At
<1>2. /\ k \in RunType /\ b \in BufType(k.put) /\ dev \in DevType /\ Len(b.mem) >= MAXBLK
      /\ vols \in Seq(Seq(0 .. k.put)) /\ Len(vols) \in 1 .. MaxVol /\ dev.off <= Len(Last(vols))
      /\ b.pt <= Len(b.mem)
  BY TypeParts DEF TInv, Buffer
<1>3. f \in BOOLEAN /\ l \in -1 .. 1 /\ 1 \in 0 .. 1
  BY <1>2, DevFacts DEF TInv, DevType
<1>4. kk \in RunType /\ kk.put = k.put /\ kk.m = k.m
  BY <1>2, <1>3 DEF RunType
<1> HIDE DEF f, l, kk
<1>5. dev' \in DevType /\ dev'.off = dev.off
  BY <1>1, <1>2, <1>3 DEF DevType
<1>6. /\ b' \in BufType(k.put) /\ b'.mem = b.mem /\ b'.pt = b.pt /\ b'.blksz = b.blksz
      /\ b'.wrblksz = b.wrblksz /\ b'.end = b.end
  BY <1>1, <1>2 DEF BufType
<1> QED
  BY <1>1, <1>2, <1>4, <1>5, <1>6, BrokenStep

LEMMA SpliceFront ==
  ASSUME NEW S, NEW s \in Seq(S), NEW t \in Seq(S)
  PROVE  /\ Splice(s, 0, t) \in Seq(S) /\ Len(Splice(s, 0, t)) >= Len(s)
         /\ \A i \in 1 .. Len(t) : Splice(s, 0, t)[i] = t[i]
<1>1. 0 \in 0 .. Len(s)
  BY LenProperties
<1>2. /\ Splice(s, 0, t) \in Seq(S) /\ Len(Splice(s, 0, t)) >= Len(s)
      /\ \A i \in 1 .. Len(t) : Splice(s, 0, t)[0 + i] = t[i]
  BY <1>1, SpliceProp
<1>3. \A i \in 1 .. Len(t) : 0 + i = i
  BY LenProperties
<1> QED
  BY <1>2, <1>3

(* A part of a block is out: what is left of the buffer is at its front.    *)
LEMMA PartWritten ==
  ASSUME TInv, k.pc = "write", NEW n \in 1 .. b.blksz - 1,
         b' = [b EXCEPT !.mem = Splice(b.mem, 0, Part(n, n + (k.bufcnt - n))),
                        !.pt = k.bufcnt - n, !.wrcnt = b.wrcnt + n]
  PROVE  /\ b' \in BufType(k.put) /\ Len(b'.mem) >= MAXBLK /\ b'.pt = k.bufcnt - n
         /\ b'.pt <= Len(b'.mem) /\ n < k.bufcnt /\ k.bufcnt <= MAXBLK /\ n <= Len(b.mem)
         /\ b'.blksz = b.blksz /\ b'.wrblksz = b.wrblksz /\ b'.end = b.end
         /\ \A i \in 1 .. k.bufcnt - n : b'.mem[i] = b.mem[n + i]
<1> DEFINE S == 0 .. k.put
           e == n + (k.bufcnt - n)
           left == k.bufcnt - n
           t == SubSeq(b.mem, n + 1, e)
           mem == Splice(b.mem, 0, t)
<1>1. /\ b \in BufType(k.put) /\ Len(b.mem) >= MAXBLK /\ Len(b.mem) \in Nat
      /\ b.mem \in Seq(S) /\ k.push \in Nat /\ b.blksz \in Nat /\ b.wrcnt \in Nat
      /\ k.bufcnt \in Nat
  BY TypeParts, RunFacts DEF TInv
<1>2. k.push + b.blksz <= k.bufcnt /\ k.bufcnt <= MAXBLK /\ b.blksz <= MAXBLK
  BY DEF TInv, Blocks, Counted
<1>3. /\ n \in Nat /\ left \in Nat /\ n < k.bufcnt /\ e \in Nat /\ n <= e /\ e <= Len(b.mem)
      /\ e - n = left /\ left <= Len(b.mem) /\ 0 \in 0 .. Len(b.mem) /\ n <= Len(b.mem)
  <2>1. n \in Nat /\ n < b.blksz
    BY <1>1
  <2>2. b.blksz <= k.bufcnt /\ k.bufcnt <= MAXBLK /\ MAXBLK <= Len(b.mem) /\ MAXBLK \in Nat
    BY <1>1, <1>2, Constants
  <2>3. e = k.bufcnt
    BY <1>1, <2>1
  <2> HIDE DEF e
  <2> QED
    BY <2>1, <2>2, <2>3, <1>1
<1>4. b' = [b EXCEPT !.mem = mem, !.pt = left, !.wrcnt = b.wrcnt + n]
  BY DEF Part
<1> HIDE DEF S, e, left
<1>5. t \in Seq(S) /\ Len(t) = e - n /\ \A h \in 1 .. e - n : t[h] = b.mem[n + h]
  <2>1. b.mem \in Seq(S) /\ n \in Nat /\ e \in Nat /\ n <= e /\ e <= Len(b.mem)
    BY <1>1, <1>3
  <2> QED
    BY <2>1, PartProp
<1> HIDE DEF t
<1>6. /\ mem \in Seq(S) /\ Len(mem) >= Len(b.mem)
      /\ \A i \in 1 .. Len(t) : mem[i] = t[i]
  <2>1. b.mem \in Seq(S) /\ t \in Seq(S)
    BY <1>1, <1>5
  <2> QED
    BY <2>1, SpliceFront
<1> HIDE DEF mem
<1>7. /\ b'.mem = mem /\ b'.pt = left /\ b'.blksz = b.blksz /\ b'.wrblksz = b.wrblksz
      /\ b'.end = b.end
  BY <1>1, <1>4 DEF BufType
<1>8. b.wrcnt + n \in Nat
  BY <1>1, <1>3
<1>9. b' \in BufType(k.put)
  BY <1>1, <1>3, <1>4, <1>6, <1>8 DEF BufType, S
<1>10. Len(mem) \in Nat
  BY <1>6, LenProperties
<1>11. Len(mem) >= MAXBLK /\ left <= Len(mem)
  BY <1>1, <1>3, <1>6, <1>10, Constants
<1>12. ASSUME NEW i \in 1 .. left PROVE mem[i] = b.mem[n + i]
  BY <1>3, <1>5, <1>6
<1> QED
  BY <1>2, <1>3, <1>7, <1>9, <1>11, <1>12 DEF left

LEMMA PartStep ==
  ASSUME TInv, WritePart
  PROVE  TInv'
<1>1. k.pc = "write" /\ ~ dev.null /\ sc' = sc
  BY DEF WritePart, At
<1> DEFINE Fits(n) == sc.blkalgn = 0 \/ (k.bufcnt - n) % sc.blkalgn = 0
           Exit(n) == IF (sc.blkalgn # 0 /\ n % sc.blkalgn # 0) \/ ~ Fits(n) THEN 1 ELSE k.exit
           Run(n) == [k EXCEPT !.tot = k.tot + n, !.warned = TRUE, !.exit = Exit(n)]
<1>2. PICK n \in 1 .. b.blksz - 1 :
        /\ Out(n)
        /\ dev' = [dev EXCEPT !.off = Advance(n), !.trail = TRUE, !.lstrval = 0]
        /\ b' = [b EXCEPT !.mem = Splice(b.mem, 0, Part(n, n + (k.bufcnt - n))),
                          !.pt = k.bufcnt - n, !.wrcnt = b.wrcnt + n]
        /\ k' = IF Fits(n) THEN Flushed(Run(n), Run(n).tot) ELSE Broken(Run(n))
  BY DEF WritePart
<1> DEFINE e  == Exit(n)
           kk == Run(n)
<1>3. /\ b' \in BufType(k.put) /\ Len(b'.mem) >= MAXBLK /\ b'.pt <= Len(b'.mem)
      /\ n <= Len(b.mem) /\ b'.blksz = b.blksz /\ b'.wrblksz = b.wrblksz /\ b'.end = b.end
  BY <1>1, <1>2, PartWritten
<1>4. n \in Nat
  BY RunFacts DEF TInv
<1>5. /\ vols' \in Seq(Seq(0 .. k.put)) /\ Len(vols') = Len(vols)
      /\ Advance(n) \in Nat /\ Advance(n) <= Len(Last(vols'))
  BY <1>2, <1>3, <1>4, OutProp DEF TInv
<1>6. dev' \in DevType /\ dev'.off = Advance(n)
  <2>1. dev \in DevType /\ 0 \in -1 .. 1
    BY DevFacts DEF TInv
  <2> QED
    BY <2>1, <1>2, <1>5 DEF DevType
<1>7. Len(vols') \in 1 .. MaxVol
  BY <1>5, TypeParts DEF TInv
<1>8. k \in RunType /\ k.tot + n \in Nat /\ e \in 0 .. 1
  <2>1. 1 \in 0 .. 1 /\ k \in RunType
    BY TypeParts DEF TInv
  <2>2. k.exit \in 0 .. 1 /\ k.tot \in Nat
    BY <2>1 DEF RunType
  <2> QED
    BY <2>1, <2>2, <1>4
<1>9. kk = [k EXCEPT !.tot = k.tot + n, !.warned = TRUE, !.exit = e]
  OBVIOUS
<1>10. k' = Flushed(kk, kk.tot) \/ k' = Broken(kk)
  BY <1>2
<1> HIDE DEF kk, e, Run
<1>11. kk \in RunType /\ kk.put = k.put /\ kk.m = k.m /\ kk.call = k.call /\ kk.tot \in Nat
  BY <1>8, <1>9 DEF RunType
<1>12. CASE k' = Broken(kk)
  BY <1>1, <1>3, <1>5, <1>6, <1>7, <1>11, <1>12, BrokenStep
<1>13. CASE k' = Flushed(kk, kk.tot)
  <2>1. /\ k' \in RunType /\ k'.put = k.put /\ k'.m = k.m /\ k'.call = k.call
        /\ k'.pc \in {"move", "close"}
    BY <1>11, <1>13, FlushedTyped
  <2>2. TypeOK' /\ (sc \in Scenes)' /\ Buffer'
    BY <1>1, <1>3, <1>5, <1>6, <1>7, <2>1, Rest
  <2>3. Blocks' /\ Fresh' /\ OfMember' /\ Counted'
    BY <1>1, <1>3, <2>1 DEF TInv, Blocks, Fresh, OfMember, Busy, Counted
  <2> QED
    BY <2>2, <2>3 DEF TInv
<1> QED
  BY <1>10, <1>12, <1>13

(* The next volume: nothing is lost of what is on the volumes.              *)
LEMMA NextParts ==
  ASSUME TInv, NextVolume
  PROVE  /\ k.pc = "next" /\ sc' = sc /\ ~ OneVolume /\ vols' \in Seq(Seq(0 .. k.put))
         /\ Len(vols') \in 1 .. MaxVol
         /\ Last(vols') = << >> /\ Len(Last(vols')) = 0 /\ Flat' = Flat
         /\ dev' \in DevType /\ dev'.off = 0 /\ dev'.null = FALSE /\ dev'.gone = dev.gone
         /\ dev'.open = TRUE
<1> DEFINE S == 0 .. k.put
           o == SubSeq(Last(vols), 1, dev.off)
           Z == Seq(S)
           u == Ended(vols, o)
<1>1. /\ k.pc = "next" /\ sc' = sc /\ Len(vols) < MaxVol /\ ~ OneVolume
      /\ vols' = Append([vols EXCEPT ![Len(vols)] = SubSeq(@, 1, dev.off)], <<>>)
  BY DEF NextVolume, At
<1>2. PICK ty \in Types : dev' = [dev EXCEPT !.open = TRUE, !.artyp = ty, !.lstrval = 1,
                                             !.off = 0, !.null = FALSE]
  BY DEF NextVolume
<1>3. /\ dev' \in DevType /\ dev'.off = 0 /\ dev'.null = FALSE /\ dev'.gone = dev.gone
      /\ dev'.open = TRUE
  <2>1. dev \in DevType /\ 1 \in -1 .. 1
    BY DevFacts DEF TInv
  <2>2. 0 \in Nat
    OBVIOUS
  <2> QED
    BY <2>1, <2>2, <1>2 DEF DevType
<1>4. vols \in Seq(Z) /\ Len(vols) \in Nat /\ Len(vols) > 0
  BY VolFacts DEF TInv
<1>5. o \in Z /\ Last(vols) = vols[Len(vols)]
  BY FlatParts DEF TInv
<1> HIDE DEF o
<1>6. vols' = Append(u, << >>) /\ Flat = FlattenSeq(u)
  BY <1>1, <1>5 DEF Ended, Flat, o
<1>7. << >> \in Z /\ << >> \in Seq(S)
  BY EmptySeq
<1>8. u \in Seq(Seq(S)) /\ Len(u) = Len(vols)
  <2> HIDE DEF Z
  <2>1. u \in Seq(Z) /\ Len(u) = Len(vols)
    BY <1>4, <1>5, EndedProp
  <2> QED
    BY <2>1 DEF Z
<1> HIDE DEF u
<1>9. vols' \in Seq(Z) /\ Len(vols') = Len(vols) + 1 /\ vols'[Len(vols) + 1] = << >>
  <2>1. u \in Seq(Z)
    BY <1>8
  <2> HIDE DEF Z
  <2> QED
    BY <2>1, <1>6, <1>7, <1>8, AppendProperties
<1>10. Last(vols') = << >> /\ Len(<< >>) = 0
  BY <1>9 DEF Last
<1>11. Len(vols') \in 1 .. MaxVol
  BY <1>1, <1>4, <1>9, Constants
<1>12. Flat' = Flat
  <2>1. Flat \in Seq(S)
    BY FlatParts DEF TInv
  <2>2. FlattenSeq(Append(u, << >>)) = FlattenSeq(u) \o << >>
    BY <1>7, <1>8, FlattenAppend
  <2>3. Flat \o << >> = Flat
    BY <2>1, ConcatEmptySeq
  <2>4. Flat' = FlattenSeq(Ended(vols', SubSeq(Last(vols'), 1, 0)))
    BY <1>3 DEF Flat, Ended, Last
  <2>5. SubSeq(<< >>, 1, 0) = << >>
    BY EmptySeq
  <2>6. Ended(vols', << >>) = vols'
    BY <1>4, <1>9 DEF Ended
  <2> QED
    BY <2>2, <2>3, <2>4, <2>5, <2>6, <1>6, <1>10
<1> QED
  BY <1>1, <1>3, <1>9, <1>10, <1>11, <1>12 DEF Z

LEMMA NextVolumeStep ==
  ASSUME TInv, NextVolume
  PROVE  TInv'
<1>1. /\ k.pc = "next" /\ sc' = sc /\ vols' \in Seq(Seq(0 .. k.put)) /\ Len(vols') \in 1 .. MaxVol
      /\ Len(Last(vols')) = 0 /\ dev' \in DevType /\ dev'.off = 0
  BY NextParts
<1>2. /\ b' = [b EXCEPT !.blksz = b.wrblksz, !.end = b.wrblksz, !.wrcnt = 0]
      /\ k' = IF b.wrblksz > k.bufcnt THEN Flushed(k, 0)
              ELSE [k EXCEPT !.pc = "write", !.push = k.bufcnt - b.wrblksz]
  BY DEF NextVolume
<1>3. /\ k \in RunType /\ b \in BufType(k.put) /\ Len(b.mem) >= MAXBLK /\ b.pt <= Len(b.mem)
      /\ b.wrblksz \in 1 .. MAXBLK /\ k.bufcnt <= MAXBLK /\ k.bufcnt \in Nat /\ 0 \in Nat
  BY <1>1, TypeParts, RunFacts DEF TInv, Buffer, Counted, Blocks
<1>4. /\ b' \in BufType(k.put) /\ b'.mem = b.mem /\ b'.pt = b.pt /\ b'.blksz = b.wrblksz
      /\ b'.wrblksz = b.wrblksz /\ b'.end = b.wrblksz
  BY <1>2, <1>3 DEF BufType
<1>5. /\ k' \in RunType /\ k'.put = k.put /\ k'.m = k.m /\ k'.call = k.call
      /\ \/ k'.pc \in {"move", "close"}
         \/ k'.pc = "write" /\ b.wrblksz <= k.bufcnt /\ k'.push = k.bufcnt - b.wrblksz
            /\ k'.bufcnt = k.bufcnt
  <2>1. CASE b.wrblksz > k.bufcnt
    <3>1. k' = Flushed(k, 0)
      BY <1>2, <2>1
    <3> QED
      BY <3>1, <1>3, FlushedTyped
  <2>2. CASE ~ (b.wrblksz > k.bufcnt)
    <3>1. k' = [k EXCEPT !.pc = "write", !.push = k.bufcnt - b.wrblksz]
      BY <1>2, <2>2
    <3>2. b.wrblksz <= k.bufcnt /\ k.bufcnt - b.wrblksz \in Nat
      BY <1>3, <2>2, Constants
    <3>3. "write" \in Pcs
      BY DEF Pcs
    <3> QED
      BY <3>1, <3>2, <3>3, <1>3 DEF RunType
  <2> QED
    BY <2>1, <2>2
<1>6. TypeOK' /\ (sc \in Scenes)' /\ Buffer'
  BY <1>1, <1>3, <1>4, <1>5, Rest
<1>7. Blocks' /\ Fresh' /\ OfMember'
  BY <1>1, <1>3, <1>4, <1>5 DEF TInv, Blocks, Fresh, OfMember, Busy
<1>8. Counted'
  <2>1. k'.pc = "write" => k'.push + b'.blksz <= k'.bufcnt
    BY <1>3, <1>4, <1>5, Constants
  <2>2. k'.pc \in {"write", "next"} => k'.bufcnt <= MAXBLK
    BY <1>3, <1>5
  <2> QED
    BY <2>1, <2>2 DEF Counted
<1> QED
  BY <1>6, <1>7, <1>8 DEF TInv

(* TInv is an invariant: each step keeps it. *)
LEMMA TypedStep ==
  ASSUME TInv, [Next]_vars
  PROVE  TInv'
<1>1. CASE UNCHANGED vars
  BY <1>1 DEF TInv, TypeOK, Last, Fresh, Init, Blocks, Buffer, Counted, OfMember, vars
<1>2. CASE Put \/ PutFlushed
  BY <1>2, PutStep
<1>3. CASE WrStart \/ AppndStart
  BY <1>3, StartStep, AppendStart
<1>4. CASE NextMember \/ Return \/ PutFlush \/ Close
  BY <1>4, NextMemberStep, ReturnStep, PutFlushStep, CloseStep
<1>5. CASE Flush \/ WriteFull \/ WriteBroken \/ WritePart \/ WriteNone
  BY <1>5, FlushStep, FullStep, PipeStep, PartStep, NoneStep
<1>6. CASE NextNone \/ NextVolume
  BY <1>6, NextNoneStep, NextVolumeStep
<1> QED
  BY <1>1, <1>2, <1>3, <1>4, <1>5, <1>6 DEF Next

(* Every variable keeps its type, the buffer's counts stay within it, and
   what buf_flush takes for the buffer is in it.                            *)
THEOREM Invariance == Spec => []TInv
<1>1. Init => TInv
  BY InitTyped
<1>2. TInv /\ [Next]_vars => TInv'
  BY TypedStep
<1> QED
  BY <1>1, <1>2, PTL DEF Spec

(* Every variable of PaxWrite keeps its type, whatever the commands and block
   sizes, and no volume holds what was never put.                           *)
THEOREM TypeCorrect == Spec => []TypeOK
<1>1. TInv => TypeOK
  BY DEF TInv
<1> QED
  BY <1>1, Invariance, PTL

-----------------------------------------------------------------------------
(* What pax leaves on the volumes: a write that failed for good is the last
   one, and the archive is in order, each part where a reader looks for it,
   and whole when pax says so.                                              *)
(* Once a write has failed for good the volume is closed, and no other will be
   opened; or pax has called the archive flawed.                            *)
Left == k.broken /\ ~ k.warned => k.pc = "exit" \/ (~ dev.open /\ OneVolume)

(* Whether a write has failed is told apart by the writes alone. *)
LEMMA SameFailure ==
  ASSUME TInv, NextMember \/ Return \/ Put \/ PutFlush \/ PutFlushed \/ Flush
  PROVE  /\ k'.broken = k.broken /\ k'.warned = k.warned /\ k.pc # "exit"
         /\ sc' = sc /\ dev' = dev /\ vols' = vols
<1>0. k \in RunType
  BY TypeParts DEF TInv
<1>1. CASE NextMember
  BY <1>0, <1>1 DEF NextMember, Trailer, Call, Goto, RunType, At
<1>2. CASE Return
  <2>1. /\ k.pc = "put" /\ UNCHANGED <<sc, vols, dev>>
        /\ CASE k.call = "head" -> k' = [k EXCEPT !.call = "file", !.todo = Mem.size, !.wrone = TRUE]
             [] k.call \in {"file", "left"} -> Call("pad", Mem.pad)
             [] k.call = "pad"  -> Goto("member")
             [] k.call = "tail" -> Call("fin", 0)
             [] k.call = "fin" /\ b.pt = 0 -> Goto("close")
             [] k.call = "fin" /\ b.pt > b.end -> Goto("crash")
             [] k.call = "fin" /\ b.pt \in 1 .. b.end -> Goto("flush")
    BY <1>2 DEF Return, At
  <2>2. k.call \in Calls
    BY <1>0 DEF RunType
  <2>3. k.call = "fin" => b.pt = 0 \/ b.pt > b.end \/ b.pt \in 1 .. b.end
    BY RunFacts DEF TInv
  <2>4. CASE k.call = "head"
    BY <1>0, <2>1, <2>4 DEF RunType
  <2>5. CASE k.call # "head"
    <3>1. (\E c \in Calls : Call(c, 0) \/ Call(c, Mem.pad)) \/ \E pc \in Pcs : Goto(pc)
      BY <2>1, <2>2, <2>3, <2>5 DEF Calls, Pcs
    <3> QED
      BY <3>1, <2>1, <1>0 DEF Call, Goto, RunType
  <2> QED
    BY <2>4, <2>5
<1>3. CASE Put \/ PutFlushed
  <2>1. UNCHANGED <<sc, vols, dev>> /\ k.pc \in {"put", "move"}
    BY <1>3 DEF Put, PutFlushed, At
  <2>2. CASE Shorter
    BY <1>0, <2>1, <2>2 DEF Shorter, RunType
  <2>3. CASE ~ Shorter
    <3>1. PICK n \in 0 .. k.todo : Move(n)
      BY <1>3, <2>3, PutStep
    <3> QED
      BY <1>0, <2>1, <3>1 DEF Move, RunType
  <2> QED
    BY <2>2, <2>3
<1>4. CASE PutFlush
  BY <1>0, <1>4 DEF PutFlush, Goto, RunType, At
<1>5. CASE Flush
  BY <1>0, <1>5 DEF Flush, RunType, At
<1> QED
  BY <1>1, <1>2, <1>3, <1>4, <1>5

(* A flush for wr_fin that fails leaves wr_fin. *)
LEMMA BrokenFin ==
  ASSUME NEW kk \in RunType, kk.call = "fin"
  PROVE  Broken(kk).call = "fin" /\ Broken(kk).pc = "close"
<1>1. Broken(kk) = [kk EXCEPT !.pc = "close", !.broken = TRUE]
  BY DEF Broken
<1> QED
  BY <1>1 DEF RunType

(* A part of a block on the volume, and what of the run is the same after it. *)
LEMMA PartWarns ==
  ASSUME TInv, WritePart
  PROVE  \E n \in 1 .. b.blksz - 1 :
           /\ Out(n) /\ dev'.off = Advance(n) /\ dev'.null = dev.null /\ dev'.gone = dev.gone
           /\ b' = [b EXCEPT !.mem = Splice(b.mem, 0, Part(n, n + (k.bufcnt - n))),
                            !.pt = k.bufcnt - n, !.wrcnt = b.wrcnt + n]
           /\ k' \in RunType /\ k'.warned = TRUE /\ k'.put = k.put /\ k'.m = k.m
           /\ k'.wrone = k.wrone /\ (k.call = "fin" => k'.call = "fin")
           /\ \/ /\ k'.call = k.call /\ k'.todo = k.todo /\ k'.broken = k.broken
                 /\ \/ k'.pc = "close" /\ k.call = "fin"
                    \/ k'.pc = "move" /\ k.call # "fin" /\ k'.cnt = k.tot + n
              \/ /\ k'.broken = TRUE /\ k'.pc \in {"put", "close"}
                 /\ k'.call \in {"tail", "fin"} \/ k'.pc = "close"
                 /\ k'.call = "fin" => k'.todo = 0 \/ (k.call = "fin" /\ k'.todo = k.todo)
<1> DEFINE Fits(n) == sc.blkalgn = 0 \/ (k.bufcnt - n) % sc.blkalgn = 0
           Exit(n) == IF (sc.blkalgn # 0 /\ n % sc.blkalgn # 0) \/ ~ Fits(n) THEN 1 ELSE k.exit
           Run(n) == [k EXCEPT !.tot = k.tot + n, !.warned = TRUE, !.exit = Exit(n)]
<1>2. PICK n \in 1 .. b.blksz - 1 :
        /\ Out(n)
        /\ dev' = [dev EXCEPT !.off = Advance(n), !.trail = TRUE, !.lstrval = 0]
        /\ b' = [b EXCEPT !.mem = Splice(b.mem, 0, Part(n, n + (k.bufcnt - n))),
                          !.pt = k.bufcnt - n, !.wrcnt = b.wrcnt + n]
        /\ k' = IF Fits(n) THEN Flushed(Run(n), Run(n).tot) ELSE Broken(Run(n))
  BY DEF WritePart
<1> DEFINE e  == Exit(n)
           kk == Run(n)
<1>3. dev'.off = Advance(n) /\ dev'.null = dev.null /\ dev'.gone = dev.gone
  <2>1. dev \in DevType
    BY DevFacts DEF TInv
  <2> QED
    BY <2>1, <1>2 DEF DevType
<1>4. k \in RunType /\ k.tot + n \in Nat /\ e \in 0 .. 1 /\ sc \in Scenes
  <2>1. 1 \in 0 .. 1 /\ k \in RunType /\ sc \in Scenes
    BY TypeParts DEF TInv
  <2>2. k.exit \in 0 .. 1 /\ k.tot \in Nat /\ n \in Nat
    BY <2>1, RunFacts DEF TInv, RunType
  <2> QED
    BY <2>1, <2>2
<1>5. kk = [k EXCEPT !.tot = k.tot + n, !.warned = TRUE, !.exit = e]
  OBVIOUS
<1>6. k' = Flushed(kk, kk.tot) \/ k' = Broken(kk)
  BY <1>2
<1> HIDE DEF kk, e, Run, Fits
<1>7. /\ kk \in RunType /\ kk.put = k.put /\ kk.m = k.m /\ kk.call = k.call /\ kk.tot = k.tot + n
      /\ kk.todo = k.todo /\ kk.broken = k.broken /\ kk.warned = TRUE /\ kk.wrone = k.wrone
  BY <1>4, <1>5 DEF RunType
<1>8. ASSUME k' = Broken(kk)
      PROVE  /\ k' \in RunType /\ k'.warned = TRUE /\ k'.put = k.put /\ k'.m = k.m
             /\ k'.broken = TRUE /\ k'.pc \in {"put", "close"} /\ k'.wrone = k.wrone
             /\ k'.call \in {"tail", "fin"} \/ k'.pc = "close"
             /\ k'.call = "fin" => k'.todo = 0 \/ (k.call = "fin" /\ k'.todo = k.todo)
             /\ k.call = "fin" => k'.call = "fin"
  <2>1. k.call = "fin" => k'.call = "fin"
    BY <1>7, <1>8, BrokenFin
  <2> QED
    BY <2>1, <1>4, <1>7, <1>8, BrokenTyped
<1>9. ASSUME k' = Flushed(kk, kk.tot)
      PROVE  /\ k' \in RunType /\ k'.warned = TRUE /\ k'.put = k.put /\ k'.m = k.m
             /\ k'.call = k.call /\ k'.todo = k.todo /\ k'.broken = k.broken
             /\ k'.wrone = k.wrone
             /\ \/ k'.pc = "close" /\ k.call = "fin"
                \/ k'.pc = "move" /\ k.call # "fin" /\ k'.cnt = k.tot + n
  <2>1. kk.tot \in Nat
    BY <1>4, <1>7
  <2>2. /\ k' \in RunType /\ k'.warned = kk.warned /\ k'.put = kk.put /\ k'.m = kk.m
        /\ k'.call = kk.call /\ k'.todo = kk.todo /\ k'.broken = kk.broken
        /\ k'.wrone = kk.wrone
        /\ \/ k'.pc = "close" /\ kk.call = "fin"
           \/ k'.pc = "move" /\ kk.call # "fin" /\ k'.cnt = kk.tot
    BY <2>1, <1>7, <1>9, FlushedTyped
  <2> QED
    BY <2>2, <1>7
<1> QED
  <2> WITNESS n \in 1 .. b.blksz - 1
  <2> QED
    BY <1>2, <1>3, <1>6, <1>8, <1>9

LEMMA LeftStep ==
  ASSUME TInv, Left, [Next]_vars
  PROVE  Left' /\ (k.broken /\ ~ k.warned => Flat' = Flat)
<1>0. k \in RunType /\ dev \in DevType /\ dev.off \in Nat
  BY TypeParts, RunFacts DEF TInv
<1>a. ASSUME vols' = vols, dev'.off = dev.off PROVE Flat' = Flat
  BY <1>a DEF Flat
<1>1. CASE UNCHANGED vars
  BY <1>1, <1>a DEF Left, OneVolume, vars
<1>2. CASE NextMember \/ Return \/ Put \/ PutFlush \/ PutFlushed \/ Flush
  BY <1>2, <1>a, SameFailure DEF Left, OneVolume
<1>3. CASE WrStart
  <2>1. ~ k.broken /\ k.pc = "start"
    BY <1>3 DEF WrStart, At, TInv, Fresh, Init
  <2>2. k'.pc = "exit" \/ ~ k'.broken
    BY <1>0, <1>3, <2>1 DEF WrStart, Quit, Goto, RunType
  <2> QED
    BY <2>1, <2>2 DEF Left
<1>4. CASE AppndStart
  <2>1. ~ k.broken /\ k.pc = "start"
    BY <1>4 DEF AppndStart, At, TInv, Fresh, Init
  <2>2. Quit(1) \/ Goto("member")
    BY <1>4, AppendStep
  <2>3. k'.pc = "exit" \/ ~ k'.broken
    BY <1>0, <2>1, <2>2 DEF Quit, Goto, RunType
  <2> QED
    BY <2>1, <2>3 DEF Left
<1>5. CASE WriteFull \/ WriteBroken
  <2>1. k.pc = "write" /\ Wrote(k) /\ dev.open
    BY <1>5 DEF WriteFull, WriteBroken, At
  <2>2. ~ (k.broken /\ ~ k.warned)
    BY <2>1 DEF Left
  <2>3. k'.broken = k.broken /\ k'.warned = k.warned
    BY <2>1, WroteRun
  <2> QED
    BY <2>2, <2>3 DEF Left
<1>6. CASE WritePart
  <2>1. k.pc = "write" /\ dev.open
    BY <1>6 DEF WritePart, At
  <2>2. ~ (k.broken /\ ~ k.warned)
    BY <2>1 DEF Left
  <2>3. k'.warned
    BY <1>6, PartWarns
  <2> QED
    BY <2>2, <2>3 DEF Left
<1>7. CASE WriteNone
  <2>1. /\ k.pc = "write" /\ vols' = vols /\ sc' = sc /\ dev'.off = dev.off /\ dev'.open = dev.open
        /\ dev'.done = dev.done /\ dev'.trail = dev.trail
        /\ k'.broken = k.broken /\ k'.warned = k.warned
    BY <1>0, <1>7 DEF WriteNone, At, DevType, RunType
  <2> QED
    BY <2>1, <1>a DEF Left, OneVolume
<1>8. CASE NextNone
  <2>1. /\ k.pc = "next" /\ vols' = vols /\ sc' = sc /\ dev'.off = dev.off /\ dev'.open = FALSE
        /\ dev'.done = (dev.done \/ ~ OneVolume) /\ dev'.trail = dev.trail
    BY <1>0, <1>8 DEF NextNone, At, DevType
  <2>2. OneVolume'
    BY <2>1 DEF OneVolume
  <2> QED
    BY <2>1, <2>2, <1>a DEF Left
<1>9. CASE NextVolume
  <2>1. k.pc = "next" /\ ~ OneVolume /\ Flat' = Flat
    BY <1>9, NextParts
  <2>2. ~ (k.broken /\ ~ k.warned)
    BY <2>1 DEF Left
  <2>3. k' = IF b.wrblksz > k.bufcnt THEN Flushed(k, 0)
             ELSE [k EXCEPT !.pc = "write", !.push = k.bufcnt - b.wrblksz]
    BY <1>9 DEF NextVolume
  <2>4. k'.broken = k.broken /\ k'.warned = k.warned
    BY <1>0, <2>3 DEF Flushed, RunType
  <2> QED
    BY <2>2, <2>4 DEF Left
<1>10. CASE Close
  <2>1. /\ vols' = vols /\ sc' = sc /\ dev'.off = dev.off /\ k'.pc = "exit"
    BY <1>0, <1>10 DEF Close, Goto, DevType, RunType
  <2> QED
    BY <2>1, <1>a DEF Left
<1> QED
  BY <1>1, <1>2, <1>3, <1>4, <1>5, <1>6, <1>7, <1>8, <1>9, <1>10 DEF Next

(* After a write has failed for good nothing else is written, the trailer not
   either, whatever the volumes and wherever it failed (buf_flush, wr_fin).  *)
THEOREM FailureStops == Spec => FailStops
<1>1. Init => TInv /\ Left
  <2>1. Init => Left
    BY DEF Init, Left
  <2> QED
    BY <2>1, InitTyped
<1>2. TInv /\ Left /\ [Next]_vars => TInv' /\ Left'
  BY TypedStep, LeftStep
<1>3. TInv /\ Left /\ [Next]_vars => [k.broken /\ ~ k.warned => Flat' = Flat]_vars
  BY LeftStep
<1> QED
  BY <1>1, <1>2, <1>3, PTL DEF Spec, FailStops

-----------------------------------------------------------------------------
(* Where the members end: the first begins where the old ones end, each of the
   others where the one before it ends.                                     *)
EndsSo(s, n, e) ==
  e = [i \in 0 .. n |-> IF i = 0 THEN IF s.app THEN s.data ELSE 0
                        ELSE e[i - 1] + Size(s.members[i])]

LEMMA EndsExists ==
  ASSUME NEW s, NEW n \in Nat
  PROVE  \E e : EndsSo(s, n, e)
<1> DEFINE T == {m \in Nat : ~ \E e : EndsSo(s, m, e)}
           base == IF s.app THEN s.data ELSE 0
           x(i) == Size(s.members[i])
<1>1. SUFFICES ASSUME T # {} PROVE FALSE
  OBVIOUS
<1>2. PICK m \in T : \A j \in T : m <= j
  BY <1>1, LeastNumber
<1>3. m \in Nat /\ ~ \E e : EndsSo(s, m, e)
  BY <1>2
<1>4. \A n_1, e : EndsSo(s, n_1, e) <=>
        e = [i \in 0 .. n_1 |-> IF i = 0 THEN base ELSE e[i - 1] + x(i)]
  BY DEF EndsSo
<1> HIDE DEF base, x
<1>5. CASE m = 0
  <2> DEFINE e == [i \in 0 .. 0 |-> base]
  <2>1. e = [i \in 0 .. 0 |-> IF i = 0 THEN base ELSE e[i - 1] + x(i)]
    OBVIOUS
  <2> QED
    BY <2>1, <1>3, <1>4, <1>5
<1>6. CASE m > 0
  <2>1. m - 1 \in Nat /\ m - 1 \notin T
    BY <1>2, <1>3, <1>6
  <2>2. PICK f : EndsSo(s, m - 1, f)
    BY <2>1
  <2>3. f = [i \in 0 .. m - 1 |-> IF i = 0 THEN base ELSE f[i - 1] + x(i)]
    BY <2>2, <1>4
  <2> DEFINE g == [i \in 0 .. m |-> IF i = m THEN f[i - 1] + x(i) ELSE f[i]]
             h == [i \in 0 .. m |-> IF i = 0 THEN base ELSE g[i - 1] + x(i)]
  <2>4. ASSUME NEW i \in 0 .. m PROVE g[i] = h[i]
    <3>1. CASE i = 0
      <4>1. i \in 0 .. m - 1 /\ i # m
        BY <3>1, <1>3, <1>6
      <4>2. f[i] = base
        BY <2>3, <4>1, <3>1
      <4> QED
        BY <4>1, <4>2, <3>1
    <3>2. CASE i # 0
      <4>1. i - 1 \in 0 .. m - 1 /\ i - 1 \in 0 .. m /\ i - 1 # m
        BY <3>2, <1>3
      <4>2. g[i - 1] = f[i - 1]
        BY <4>1
      <4>3. CASE i = m
        BY <4>2, <4>3, <3>2
      <4>4. CASE i # m
        <5>1. i \in 0 .. m - 1
          BY <4>4, <1>3
        <5>2. f[i] = f[i - 1] + x(i)
          BY <2>3, <5>1, <3>2
        <5> QED
          BY <5>2, <4>2, <4>4, <3>2
      <4> QED
        BY <4>3, <4>4
    <3> QED
      BY <3>1, <3>2
  <2>5. g = h
    BY <2>4
  <2>6. EndsSo(s, m, g)
    BY <2>5, <1>4
  <2> QED
    BY <2>6, <1>3
<1> QED
  BY <1>3, <1>5, <1>6

LEMMA EndsProp ==
  ASSUME NEW s \in Scenes
  PROVE  /\ Ends(s)[0] = IF s.app THEN s.data ELSE 0
         /\ \A i \in 1 .. Len(s.members) : Ends(s)[i] = Ends(s)[i - 1] + Size(s.members[i])
         /\ \A i \in 1 .. Len(s.members) : /\ s.members[i].head \in Nat
                                           /\ s.members[i].size \in Nat
                                           /\ s.members[i].pad \in Nat
         /\ \A i \in 0 .. Len(s.members) : Ends(s)[i] \in Nat
<1> DEFINE n == Len(s.members)
           c == CHOOSE e : EndsSo(s, n, e)
<1>1. s.members \in Seq(Member) /\ n \in Nat /\ s.data \in Nat
  BY SceneFacts, LenProperties
<1>2. EndsSo(s, n, c)
  BY <1>1, EndsExists
<1>3. Ends(s) = c
  BY DEF Ends, EndsSo
<1> HIDE DEF n, c
<1>4. Ends(s)[0] = IF s.app THEN s.data ELSE 0
  <2>1. 0 \in 0 .. n
    BY <1>1
  <2> QED
    BY <2>1, <1>2, <1>3 DEF EndsSo
<1>5. ASSUME NEW i \in 1 .. n PROVE Ends(s)[i] = Ends(s)[i - 1] + Size(s.members[i])
  <2>1. i \in 0 .. n /\ i # 0
    BY <1>1
  <2> QED
    BY <2>1, <1>2, <1>3 DEF EndsSo
<1>6. ASSUME NEW i \in 1 .. n
      PROVE  s.members[i].head \in Nat /\ s.members[i].size \in Nat /\ s.members[i].pad \in Nat
  <2>1. s.members[i] \in Member
    BY <1>1, ElementOfSeq DEF n
  <2> QED
    BY <2>1 DEF Member
<1>7. ASSUME NEW i \in 0 .. n, Ends(s)[i] \notin Nat PROVE FALSE
  <2> DEFINE T == {j \in 0 .. n : Ends(s)[j] \notin Nat}
  <2>1. T # {} /\ T \in SUBSET Nat
    BY <1>1, <1>7
  <2>2. PICK j \in T : \A h \in T : j <= h
    BY <2>1, LeastNumber
  <2>3. j \in 0 .. n /\ Ends(s)[j] \notin Nat
    BY <2>2
  <2>4. j # 0
    BY <1>1, <1>4, <2>3
  <2>5. j - 1 \in 0 .. n /\ j - 1 \notin T /\ j \in 1 .. n
    BY <2>2, <2>3, <2>4, <1>1
  <2>6. Ends(s)[j - 1] \in Nat
    BY <2>5
  <2>7. Size(s.members[j]) \in Nat
    BY <1>6, <2>5 DEF Size
  <2>8. Ends(s)[j] \in Nat
    BY <1>5, <2>5, <2>6, <2>7
  <2> QED
    BY <2>3, <2>8
<1> QED
  BY <1>4, <1>5, <1>6, <1>7 DEF n

-----------------------------------------------------------------------------
(* Where the program can be: between members nothing is left to put; wr_fin
   puts nothing itself and does not go on after a flush.                    *)
Order ==
  /\ k.pc = "member" => k.call \in {"head", "pad"} /\ k.todo = 0
  /\ k.call = "fin" => k.todo = 0 /\ k.pc # "move"
(* The blocks of a volume are not smaller than those of the one before it, or
   else the scene shrinks; then the buffer is never fuller than a block, is
   full when it is flushed, and what a flush returns there is room for.     *)
Fits == ~ Shrinks =>
  /\ k.pc \notin {"start", "exit"} => b.pt <= b.end /\ b.blksz <= b.wrblksz
  /\ ~ Grows /\ k.pc \notin {"start", "exit"} => b.blksz = b.wrblksz
  /\ k.pc # "crash"
Flushes == ~ Shrinks =>
  /\ k.pc = "move" => b.pt + k.cnt <= b.end
  /\ k.pc \in {"flush", "write", "next"} => b.pt = b.end
  /\ k.pc \in {"write", "next"} => k.bufcnt = b.pt /\ k.push = 0 /\ k.tot = 0
(* How much has been put at each place of wr_archive. *)
Work == {"put", "move", "flush", "write", "next"}
Place == ~ k.broken =>
  /\ k.pc = "member" => k.put = Before(k.m) /\ (k.m > 0 => k.wrone)
  /\ k.pc \in Work =>
        /\ k.call = "head" => k.put + k.todo = Before(k.m - 1) + Mem.head
        /\ k.call \in {"file", "left"} => k.put + k.todo = Before(k.m) - Mem.pad
        /\ k.call = "pad" => k.put + k.todo = Before(k.m)
        /\ k.call \in {"tail", "fin"} => k.put + k.todo = Before(Count) + sc.tlen
        /\ k.call # "head" => k.wrone
  /\ k.pc \in {"close", "exit"} => k.put = Before(Count) + (IF k.wrone THEN sc.tlen ELSE 0)
Once   == sc.app => k.wrone
Blamed == k.broken /\ ~ k.warned => k.exit = 1
Control == Order /\ Fits /\ Flushes /\ Place /\ Once /\ Blamed

LEMMA SameScene ==
  ASSUME sc' = sc
  PROVE  (Shrinks' <=> Shrinks) /\ (Grows' <=> Grows) /\ RdBlksz' = RdBlksz /\ Count' = Count
<1>1. RdBlksz' = RdBlksz
  BY DEF RdBlksz
<1> QED
  BY <1>1 DEF Shrinks, Grows, Count

(* The ends of the members, for the member the program is at. *)
LEMMA BeforeFacts ==
  ASSUME TInv
  PROVE  /\ Before(0) = IF sc.app THEN sc.data ELSE 0
         /\ Count \in Nat /\ k.m \in 0 .. Count
         /\ Before(k.m) \in Nat /\ Before(Count) \in Nat /\ sc.tlen \in Nat
         /\ k.m >= 1 => /\ Before(k.m - 1) \in Nat
                        /\ Before(k.m) = Before(k.m - 1) + (Mem.head + Mem.size + Mem.pad)
                        /\ Mem.head \in Nat /\ Mem.size \in Nat /\ Mem.pad \in Nat
<1>1. sc \in Scenes /\ k.m <= Count /\ k.m \in Nat /\ sc.tlen \in Nat
  BY TypeParts, RunFacts, SceneFacts DEF TInv, Count
<1>2. Count \in Nat
  BY <1>1, SceneFacts, LenProperties DEF Count
<1>3. k.m \in 0 .. Count /\ Count \in 0 .. Count
  BY <1>1, <1>2
<1>4. Before(k.m) \in Nat /\ Before(Count) \in Nat /\ Before(0) = IF sc.app THEN sc.data ELSE 0
  BY <1>1, <1>3, EndsProp DEF Before, Count
<1>5. ASSUME k.m >= 1
      PROVE  /\ Before(k.m - 1) \in Nat
             /\ Before(k.m) = Before(k.m - 1) + (Mem.head + Mem.size + Mem.pad)
             /\ Mem.head \in Nat /\ Mem.size \in Nat /\ Mem.pad \in Nat
  <2>1. k.m \in 1 .. Count /\ k.m - 1 \in 0 .. Count
    BY <1>1, <1>2, <1>5
  <2>2. Mem.head \in Nat /\ Mem.size \in Nat /\ Mem.pad \in Nat
    BY <1>5, MemberFacts
  <2>3. Before(k.m - 1) \in Nat /\ Before(k.m) = Before(k.m - 1) + Size(Mem)
    BY <1>1, <2>1, EndsProp DEF Before, Count, Mem
  <2> QED
    BY <2>2, <2>3 DEF Size
<1> QED
  BY <1>1, <1>2, <1>3, <1>4, <1>5

(* The steps that leave everything but the run as it is. *)
LEMMA QuitControl ==
  ASSUME TInv, k.pc = "start", Quit(1), sc' = sc
  PROVE  Control'
<1>1. k \in RunType /\ k.call = "head" /\ k.wrone = sc.app
  BY TypeParts DEF TInv, Fresh, Init
<1>2. k'.pc = "exit" /\ k'.call = "head" /\ k'.broken /\ k'.exit = 1 /\ k'.wrone = k.wrone
  BY <1>1 DEF Quit, RunType
<1> QED
  BY <1>1, <1>2 DEF Control, Order, Fits, Flushes, Place, Once, Blamed

LEMMA BeginControl ==
  ASSUME TInv, k.pc = "start", Goto("member"), sc' = sc,
         ~ Shrinks => b'.pt <= b'.end /\ b'.blksz <= b'.wrblksz,
         ~ Shrinks /\ ~ Grows => b'.blksz = b'.wrblksz
  PROVE  Control'
<1>1. /\ k \in RunType /\ k.call = "head" /\ k.wrone = sc.app /\ ~ k.broken /\ k.todo = 0
      /\ k.m = 0 /\ k.put = IF sc.app THEN sc.data ELSE 0
  BY TypeParts DEF TInv, Fresh, Init
<1>2. /\ k'.pc = "member" /\ k'.call = "head" /\ ~ k'.broken /\ k'.wrone = k.wrone /\ k'.todo = 0
      /\ k'.m = 0 /\ k'.put = k.put
  BY <1>1 DEF Goto, RunType
<1>3. k'.put = Before(0)'
  <2>1. Before(0) = IF sc.app THEN sc.data ELSE 0
    BY BeforeFacts
  <2>2. Before(0)' = Before(0)
    BY DEF Before
  <2> QED
    BY <2>1, <2>2, <1>1, <1>2
<1>4. Order' /\ Flushes' /\ Once' /\ Blamed'
  BY <1>1, <1>2 DEF Order, Flushes, Once, Blamed
<1>5. Fits'
  BY <1>2, SameScene DEF Fits
<1>6. Place'
  <2>1. k'.put = Before(k.m)'
    BY <1>2, <1>3 DEF Before
  <2> QED
    BY <1>2, <1>3 DEF Place, Before, Work
<1> QED
  BY <1>4, <1>5, <1>6 DEF Control

LEMMA StartControl ==
  ASSUME TInv, WrStart
  PROVE  Control'
<1> DEFINE w == IF b.wrblksz = 0 THEN sc.bsz ELSE b.wrblksz
<1>1. k.pc = "start" /\ sc' = sc
  BY DEF WrStart, At
<1>2. CASE Quit(1)
  BY <1>1, <1>2, QuitControl
<1>3. CASE ~ Quit(1)
  <2>1. b' = [b EXCEPT !.wrblksz = w, !.blksz = w, !.end = w] /\ Goto("member")
    BY <1>3 DEF WrStart
  <2>2. b \in BufType(k.put) /\ b.pt = 0 /\ b.wrblksz \in Nat /\ sc.bsz \in Nat
    BY <1>1, TypeParts, SceneFacts DEF TInv, Fresh, Init, BufType
  <2>3. w \in Nat
    BY <2>2
  <2> HIDE DEF w
  <2>4. b'.pt = 0 /\ b'.end = w /\ b'.blksz = w /\ b'.wrblksz = w
    BY <2>1, <2>2 DEF BufType
  <2>5. b'.pt <= b'.end /\ b'.blksz <= b'.wrblksz
    BY <2>3, <2>4
  <2> QED
    BY <1>1, <2>1, <2>4, <2>5, BeginControl
<1> QED
  BY <1>2, <1>3

LEMMA AppendControl ==
  ASSUME TInv, AppndStart
  PROVE  Control'
<1>1. k.pc = "start" /\ sc' = sc /\ sc.app /\ sc \in Scenes
  BY AppendStep DEF TInv
<1>2. CASE Quit(1)
  BY <1>1, <1>2, QuitControl
<1>3. CASE ~ Quit(1)
  <2> DEFINE mem == IF AppKeep > 0 THEN Splice(b.mem, 0, AppAgain) ELSE b.mem
             next == IF sc.wr = 0 THEN RdBlksz ELSE sc.wr
             blk == RdBlksz
             keep == AppKeep
  <2>1. /\ b' = [b EXCEPT !.mem = mem, !.pt = keep, !.end = blk, !.blksz = blk, !.wrblksz = next]
        /\ Goto("member") /\ sc.artyp # "PIPE"
    BY <1>3, AppendStep
  <2>2. b \in BufType(k.put) /\ sc.wr \in Nat /\ blk \in Nat /\ keep \in 0 .. blk - 1
    BY <1>1, <2>1, TypeParts, SceneFacts, BlockSize, AppendsAt DEF TInv
  <2>3. ~ Shrinks => blk <= next
    BY <1>1, <2>2 DEF Shrinks
  <2>4. ~ Shrinks /\ ~ Grows => blk = next
    BY <1>1, <2>2 DEF Shrinks, Grows
  <2> HIDE DEF mem, next, blk, keep
  <2>5. b'.pt = keep /\ b'.end = blk /\ b'.blksz = blk /\ b'.wrblksz = next
    BY <2>1, <2>2 DEF BufType
  <2>6. b'.pt <= b'.end
    BY <2>2, <2>5
  <2> QED
    BY <1>1, <2>1, <2>3, <2>4, <2>5, <2>6, BeginControl
<1> QED
  BY <1>2, <1>3

(* The next header, or the trailer, begins where the last part ended. *)
LEMMA MemberControl ==
  ASSUME TInv, Control, NextMember
  PROVE  Control'
<1>0. /\ k.pc = "member" /\ UNCHANGED <<sc, vols, dev, b>> /\ k \in RunType
      /\ k.call \in {"head", "pad"} /\ k.todo = 0
  BY TypeParts DEF TInv, NextMember, At, Control, Order
<1>1. (k'.call = "fin" => k'.todo = 0 /\ k'.pc # "move") /\ k'.pc \in {"put", "close"}
      /\ k'.wrone = k.wrone /\ k'.broken = k.broken /\ k'.warned = k.warned /\ k'.exit = k.exit
      /\ k'.put = k.put
  BY <1>0 DEF NextMember, Trailer, Call, Goto, RunType
<1>2. Order' /\ Once' /\ Blamed'
  BY <1>0, <1>1 DEF Control, Order, Once, Blamed
<1>3. Fits' /\ Flushes'
  BY <1>0, <1>1, SameScene DEF Control, Fits, Flushes
<1>4. ASSUME ~ k.broken PROVE Place'
  <2>1. k.put = Before(k.m) /\ (k.m > 0 => k.wrone) /\ k.put \in Nat
    BY <1>0, <1>4, RunFacts DEF TInv, Control, Place
  <2>2. CASE k.m = Count
    <3>1. IF k.wrone THEN Call("tail", sc.tlen) ELSE Goto("close")
      BY <1>0, <2>2 DEF NextMember, Trailer, Count
    <3>2. CASE k.wrone
      <4>1. k'.pc = "put" /\ k'.call = "tail" /\ k'.todo = sc.tlen /\ k'.put = k.put
        BY <1>0, <3>1, <3>2 DEF Call, RunType
      <4>2. Before(Count)' = Before(Count) /\ sc'.tlen = sc.tlen
        BY <1>0 DEF Before, Count
      <4>3. k'.put + k'.todo = Before(Count)' + sc'.tlen
        BY <4>1, <4>2, <2>1, <2>2
      <4> QED
        BY <4>1, <4>3, <1>1, <3>2 DEF Place
    <3>3. CASE ~ k.wrone
      <4>1. k'.pc = "close" /\ k'.put = k.put
        BY <1>0, <3>1, <3>3 DEF Goto, RunType
      <4>2. Before(Count)' = Before(Count)
        BY <1>0 DEF Before, Count
      <4>3. k'.put = Before(Count)' + 0
        BY <4>1, <4>2, <2>1, <2>2
      <4> QED
        BY <4>1, <4>3, <1>1, <3>3 DEF Place, Work
    <3> QED
      BY <3>2, <3>3
  <2>3. CASE k.m # Count
    <3>1. k' = [k EXCEPT !.pc = "put", !.call = "head", !.m = k.m + 1,
                         !.todo = sc.members[k.m + 1].head]
      BY <1>0, <2>3 DEF NextMember, Count
    <3>2. /\ k'.pc = "put" /\ k'.call = "head" /\ k'.m = k.m + 1
          /\ k'.todo = sc.members[k.m + 1].head /\ k'.put = k.put
      BY <1>0, <3>1 DEF RunType
    <3>3. k.m \in Nat /\ (k.m + 1) - 1 = k.m
      BY RunFacts DEF TInv
    <3>4. Mem' = sc.members[k.m + 1] /\ Before(k.m - 1)' = Before(k.m)
      BY <1>0, <3>2, <3>3 DEF Mem, Before
    <3>5. k'.put + k'.todo = Before(k.m - 1)' + Mem'.head
      BY <3>2, <3>4, <2>1
    <3> QED
      BY <3>2, <3>5 DEF Place
  <2> QED
    BY <2>2, <2>3
<1>5. ASSUME k.broken PROVE Place'
  BY <1>1, <1>5 DEF Place
<1> QED
  BY <1>2, <1>3, <1>4, <1>5 DEF Control

(* The parts of a member follow one another, and the end of the trailer is
   filled up with zeros.                                                    *)
LEMMA ReturnCases ==
  ASSUME TInv, Return
  PROVE  /\ k.pc = "put" /\ k.todo = 0 /\ UNCHANGED <<sc, vols, dev>> /\ k \in RunType
         /\ k.call # "fin" => b' = b
         /\ \/ k.call = "head" /\ k' = [k EXCEPT !.call = "file", !.todo = Mem.size, !.wrone = TRUE]
            \/ k.call \in {"file", "left"} /\ Call("pad", Mem.pad)
            \/ k.call = "pad" /\ Goto("member")
            \/ k.call = "tail" /\ Call("fin", 0)
            \/ k.call = "fin" /\ b.pt = 0 /\ Goto("close") /\ b' = b
            \/ k.call = "fin" /\ b.pt > b.end /\ Goto("crash") /\ b' = b
            \/ /\ k.call = "fin" /\ b.pt \in 1 .. b.end /\ Goto("flush")
               /\ b' = [b EXCEPT !.mem = Splice(b.mem, b.pt, Zeros(Room)), !.pt = b.end]
<1>1. /\ k.pc = "put" /\ k.todo = 0 /\ UNCHANGED <<sc, vols, dev>>
      /\ CASE k.call = "head" -> k' = [k EXCEPT !.call = "file", !.todo = Mem.size, !.wrone = TRUE]
           [] k.call \in {"file", "left"} -> Call("pad", Mem.pad)
           [] k.call = "pad"  -> Goto("member")
           [] k.call = "tail" -> Call("fin", 0)
           [] k.call = "fin" /\ b.pt = 0 -> Goto("close")
           [] k.call = "fin" /\ b.pt > b.end -> Goto("crash")
           [] k.call = "fin" /\ b.pt \in 1 .. b.end -> Goto("flush")
      /\ b' = IF k.call = "fin" /\ b.pt \in 1 .. b.end
              THEN [b EXCEPT !.mem = Splice(b.mem, b.pt, Zeros(Room)), !.pt = b.end] ELSE b
  BY DEF Return, At
<1>2. k \in RunType /\ k.call \in Calls
  BY TypeParts DEF TInv, RunType
<1>3. b.pt \in Nat /\ b.end \in Nat
  BY RunFacts DEF TInv
<1>4. CASE k.call # "fin"
  BY <1>1, <1>2, <1>4 DEF Calls
<1>5. CASE k.call = "fin"
  <2>1. b.pt = 0 \/ b.pt > b.end \/ b.pt \in 1 .. b.end
    BY <1>3
  <2>2. CASE b.pt = 0
    <3>1. ~ (b.pt \in 1 .. b.end) /\ ~ (b.pt > b.end)
      BY <2>2, <1>3
    <3> QED
      BY <1>1, <1>2, <1>5, <2>2, <3>1
  <2>3. CASE b.pt > b.end
    <3>1. ~ (b.pt \in 1 .. b.end) /\ ~ (b.pt = 0)
      BY <2>3, <1>3
    <3> QED
      BY <1>1, <1>2, <1>5, <2>3, <3>1
  <2>4. CASE b.pt \in 1 .. b.end
    <3>1. ~ (b.pt > b.end) /\ ~ (b.pt = 0)
      BY <2>4, <1>3
    <3> QED
      BY <1>1, <1>2, <1>5, <2>4, <3>1
  <2> QED
    BY <2>1, <2>2, <2>3, <2>4
<1> QED
  BY <1>4, <1>5

LEMMA ReturnControl ==
  ASSUME TInv, Control, Return
  PROVE  Control'
<1>0. k.pc = "put" /\ k.todo = 0 /\ UNCHANGED <<sc, vols, dev>> /\ k \in RunType /\ k.put \in Nat
  BY ReturnCases, RunFacts DEF TInv
<1>1. k.call \in Parts => k.m >= 1
  BY <1>0 DEF TInv, OfMember, Busy
<1>2. /\ Before(k.m) \in Nat /\ Before(Count) \in Nat /\ sc.tlen \in Nat
      /\ k.m >= 1 => /\ Before(k.m - 1) \in Nat
                     /\ Before(k.m) = Before(k.m - 1) + (Mem.head + Mem.size + Mem.pad)
                     /\ Mem.head \in Nat /\ Mem.size \in Nat /\ Mem.pad \in Nat
  BY BeforeFacts
<1>3. ~ k.broken =>
        /\ k.call = "head" => k.put = Before(k.m - 1) + Mem.head
        /\ k.call \in {"file", "left"} => k.put = Before(k.m) - Mem.pad
        /\ k.call = "pad" => k.put = Before(k.m)
        /\ k.call \in {"tail", "fin"} => k.put = Before(Count) + sc.tlen
        /\ k.call # "head" => k.wrone
  BY <1>0 DEF Control, Place, Work
<1>4. ASSUME k'.m = k.m PROVE Before(k.m)' = Before(k.m) /\ Mem' = Mem /\ Before(Count)' = Before(Count)
                              /\ sc'.tlen = sc.tlen
  BY <1>0, <1>4 DEF Before, Mem, Count
<1>5. CASE k.call = "head"
  <2>1. /\ k'.pc = "put" /\ k'.call = "file" /\ k'.todo = Mem.size /\ k'.wrone /\ k'.m = k.m
        /\ k'.put = k.put /\ k'.broken = k.broken /\ k'.warned = k.warned /\ k'.exit = k.exit /\ b' = b
    BY <1>0, <1>5, ReturnCases DEF RunType
  <2>2. Order' /\ Once' /\ Blamed' /\ Fits' /\ Flushes'
    BY <1>0, <2>1, SameScene DEF Control, Order, Once, Blamed, Fits, Flushes
  <2>3. ~ k.broken => k.put + Mem.size = Before(k.m) - Mem.pad
    BY <1>0, <1>1, <1>2, <1>3, <1>5 DEF Parts
  <2>4. Place'
    BY <2>1, <2>3, <1>4 DEF Place
  <2> QED
    BY <2>2, <2>4 DEF Control
<1>6. CASE k.call \in {"file", "left"}
  <2>1. /\ k'.pc = "put" /\ k'.call = "pad" /\ k'.todo = Mem.pad /\ k'.wrone = k.wrone /\ k'.m = k.m
        /\ k'.put = k.put /\ k'.broken = k.broken /\ k'.warned = k.warned /\ k'.exit = k.exit /\ b' = b
    BY <1>0, <1>6, ReturnCases DEF RunType, Call
  <2>2. Order' /\ Once' /\ Blamed' /\ Fits' /\ Flushes'
    BY <1>0, <2>1, SameScene DEF Control, Order, Once, Blamed, Fits, Flushes
  <2>3. ~ k.broken => k.put + Mem.pad = Before(k.m)
    BY <1>0, <1>1, <1>2, <1>3, <1>6 DEF Parts
  <2>4. Place'
    BY <2>1, <2>3, <1>3, <1>4, <1>6 DEF Place
  <2> QED
    BY <2>2, <2>4 DEF Control
<1>7. CASE k.call = "pad"
  <2>1. /\ k'.pc = "member" /\ k'.call = "pad" /\ k'.todo = 0 /\ k'.wrone = k.wrone /\ k'.m = k.m
        /\ k'.put = k.put /\ k'.broken = k.broken /\ k'.warned = k.warned /\ k'.exit = k.exit /\ b' = b
    BY <1>0, <1>7, ReturnCases DEF RunType, Goto
  <2>2. Order' /\ Once' /\ Blamed' /\ Fits' /\ Flushes'
    BY <1>0, <2>1, SameScene DEF Control, Order, Once, Blamed, Fits, Flushes
  <2>3. Place'
    BY <2>1, <1>3, <1>4, <1>7 DEF Place, Work
  <2> QED
    BY <2>2, <2>3 DEF Control
<1>8. CASE k.call = "tail"
  <2>1. /\ k'.pc = "put" /\ k'.call = "fin" /\ k'.todo = 0 /\ k'.wrone = k.wrone /\ k'.m = k.m
        /\ k'.put = k.put /\ k'.broken = k.broken /\ k'.warned = k.warned /\ k'.exit = k.exit /\ b' = b
    BY <1>0, <1>8, ReturnCases DEF RunType, Call
  <2>2. Order' /\ Once' /\ Blamed' /\ Fits' /\ Flushes'
    BY <1>0, <2>1, SameScene DEF Control, Order, Once, Blamed, Fits, Flushes
  <2>3. ~ k.broken => k.put + 0 = Before(Count) + sc.tlen
    BY <1>0, <1>3, <1>8
  <2>4. Place'
    BY <2>1, <2>3, <1>3, <1>4, <1>8 DEF Place
  <2> QED
    BY <2>2, <2>4 DEF Control
<1>9. CASE k.call = "fin"
  <2>1. /\ k'.call = "fin" /\ k'.todo = 0 /\ k'.wrone = k.wrone /\ k'.m = k.m
        /\ k'.put = k.put /\ k'.broken = k.broken /\ k'.warned = k.warned /\ k'.exit = k.exit
        /\ \/ k'.pc = "close" /\ b' = b
           \/ k'.pc = "crash" /\ b' = b /\ b.pt > b.end
           \/ /\ k'.pc = "flush" /\ b.pt \in 1 .. b.end
              /\ b' = [b EXCEPT !.mem = Splice(b.mem, b.pt, Zeros(Room)), !.pt = b.end]
    BY <1>0, <1>9, ReturnCases DEF RunType, Goto
  <2>2. Order' /\ Once' /\ Blamed'
    BY <1>0, <2>1 DEF Control, Order, Once, Blamed
  <2>3. b'.end = b.end /\ b'.blksz = b.blksz /\ b'.wrblksz = b.wrblksz
        /\ (b' = b \/ b'.pt = b.end) /\ (k'.pc = "flush" => b'.pt = b.end)
    <3>1. b \in BufType(k.put)
      BY TypeParts DEF TInv
    <3> HIDE DEF Splice, Room, Zeros
    <3> QED
      BY <3>1, <2>1 DEF BufType
  <2>4. Fits'
    <3>1. ~ Shrinks => b.pt <= b.end /\ b.blksz <= b.wrblksz /\ (~ Grows => b.blksz = b.wrblksz)
      BY <1>0 DEF Control, Fits
    <3>2. b.pt \in Nat /\ b.end \in Nat
      BY RunFacts DEF TInv
    <3>3. ~ Shrinks => k'.pc # "crash"
      BY <3>1, <3>2, <2>1
    <3>4. ~ Shrinks => b'.pt <= b'.end
      BY <3>1, <3>2, <2>3
    <3> QED
      BY <3>1, <3>3, <3>4, <2>3, <1>0, SameScene DEF Fits
  <2>5. Flushes'
    BY <2>1, <2>3 DEF Flushes
  <2>6. ~ k.broken => k.put + 0 = Before(Count) + sc.tlen /\ k.wrone
    BY <1>0, <1>3, <1>9
  <2>7. Place'
    BY <2>1, <2>6, <1>0, <1>3, <1>4, <1>9 DEF Place, Work
  <2> QED
    BY <2>2, <2>4, <2>5, <2>7 DEF Control
<1> QED
  <2>1. k.call \in Calls
    BY <1>0 DEF RunType
  <2> QED
    BY <2>1, <1>5, <1>6, <1>7, <1>8, <1>9 DEF Calls

(* Moving units leaves their sum what it is. *)
LEMMA MoveControl ==
  ASSUME TInv, Control, Put \/ PutFlushed
  PROVE  Control'
<1>0. UNCHANGED <<sc, vols, dev>> /\ k \in RunType /\ k.put \in Nat /\ k.todo \in Nat
      /\ k.pc \in {"put", "move"} /\ (Put => k.pc = "put" /\ k.todo > 0)
      /\ (~ Put => k.pc = "move") /\ b.pt \in Nat /\ b.end \in Nat /\ k.cnt \in Nat
  BY TypeParts, RunFacts DEF TInv, Put, PutFlushed, At
<1>1. k.call # "fin"
  BY <1>0 DEF Control, Order
<1>2. k.pc \in Work
  BY <1>0 DEF Work
<1>3. ASSUME k'.m = k.m PROVE /\ Before(k.m)' = Before(k.m) /\ Mem' = Mem /\ sc'.tlen = sc.tlen
                              /\ Before(Count)' = Before(Count) /\ Before(k.m - 1)' = Before(k.m - 1)
  BY <1>0, <1>3 DEF Before, Mem, Count
<1>4. CASE Shorter
  <2>1. /\ k'.pc = "put" /\ k'.call = "left" /\ k'.m = k.m /\ k'.put = k.put /\ k'.todo = k.todo
        /\ k'.wrone = k.wrone /\ k'.broken = k.broken /\ k'.warned = k.warned /\ k'.exit = 1
        /\ b' = b /\ k.call = "file"
    BY <1>0, <1>4 DEF Shorter, RunType
  <2>2. Order' /\ Once' /\ Blamed'
    BY <1>0, <2>1 DEF Control, Order, Once, Blamed
  <2>3. Fits' /\ Flushes'
    BY <1>0, <2>1, SameScene DEF Control, Fits, Flushes
  <2>4. Place'
    BY <2>1, <1>2, <1>3 DEF Control, Place
  <2> QED
    BY <2>2, <2>3, <2>4 DEF Control
<1>5. CASE ~ Shorter
  <2>1. PICK n \in 0 .. k.todo : Move(n) /\ n <= IF Put THEN Room ELSE k.cnt
    BY <1>5, PutStep
  <2>2. /\ k'.pc = "put" /\ k'.call = k.call /\ k'.m = k.m /\ k'.put = k.put + n
        /\ k' = [k EXCEPT !.pc = "put", !.todo = k.todo - n, !.put = k.put + n]
        /\ b'.pt = b.pt + n
        /\ b'.blksz = b.blksz /\ b'.wrblksz = b.wrblksz /\ b'.end = b.end
    BY <2>1, MoveParts
  <2>3. /\ k'.todo = k.todo - n /\ k'.wrone = k.wrone /\ k'.broken = k.broken
        /\ k'.warned = k.warned /\ k'.exit = k.exit
    BY <2>2, <1>0 DEF RunType
  <2>4. k'.put + k'.todo = k.put + k.todo
    BY <2>2, <2>3, <1>0
  <2>5. Order' /\ Once' /\ Blamed'
    BY <1>0, <1>1, <2>2, <2>3 DEF Control, Order, Once, Blamed
  <2>6. ~ Shrinks => b.pt + n <= b.end
    <3>1. CASE Put
      <4>1. n <= Room
        BY <2>1, <3>1
      <4> QED
        BY <4>1, <1>0 DEF Room
    <3>2. CASE ~ Put
      <4>1. n <= k.cnt /\ (~ Shrinks => b.pt + k.cnt <= b.end)
        BY <2>1, <3>2, <1>0 DEF Control, Flushes
      <4> QED
        BY <4>1, <1>0
    <3> QED
      BY <3>1, <3>2
  <2>7. Fits'
    BY <1>0, <2>2, <2>6, SameScene DEF Control, Fits
  <2>8. Flushes'
    BY <2>2 DEF Flushes
  <2>9. Place'
    BY <2>2, <2>3, <2>4, <1>1, <1>2, <1>3 DEF Control, Place
  <2> QED
    BY <2>5, <2>7, <2>8, <2>9 DEF Control
<1> QED
  BY <1>4, <1>5

LEMMA PutFlushControl ==
  ASSUME TInv, Control, PutFlush
  PROVE  Control'
<1>0. /\ UNCHANGED <<sc, vols, dev, b>> /\ k \in RunType /\ k.pc = "put" /\ Goto("flush")
      /\ b.pt \in Nat /\ b.end \in Nat /\ b.pt >= b.end
  BY TypeParts, RunFacts DEF TInv, PutFlush, At, Room
<1>1. /\ k'.pc = "flush" /\ k'.call = k.call /\ k'.m = k.m /\ k'.put = k.put /\ k'.todo = k.todo
      /\ k'.wrone = k.wrone /\ k'.broken = k.broken /\ k'.warned = k.warned /\ k'.exit = k.exit
  BY <1>0 DEF Goto, RunType
<1>2. Order' /\ Once' /\ Blamed' /\ Fits'
  BY <1>0, <1>1, SameScene DEF Control, Order, Once, Blamed, Fits
<1>3. ~ Shrinks => b.pt = b.end
  BY <1>0 DEF Control, Fits
<1>4. Flushes'
  BY <1>0, <1>1, <1>3, SameScene DEF Flushes
<1>5. Place'
  BY <1>0, <1>1 DEF Control, Place, Before, Mem, Count, Work
<1> QED
  BY <1>2, <1>4, <1>5 DEF Control

LEMMA FlushControl ==
  ASSUME TInv, Control, Flush
  PROVE  Control'
<1> DEFINE pc == IF sc.limit > 0 /\ b.wrcnt > sc.limit THEN "next" ELSE "write"
<1>0. /\ UNCHANGED <<sc, vols, dev, b>> /\ k \in RunType /\ k.pc = "flush"
      /\ k' = [k EXCEPT !.pc = pc, !.bufcnt = b.blksz, !.push = 0, !.tot = 0]
  BY TypeParts DEF TInv, Flush, At
<1>1. pc \in {"next", "write"}
  OBVIOUS
<1> HIDE DEF pc
<1>2. /\ k'.pc = pc /\ k'.call = k.call /\ k'.m = k.m /\ k'.put = k.put /\ k'.todo = k.todo
      /\ k'.wrone = k.wrone /\ k'.broken = k.broken /\ k'.warned = k.warned /\ k'.exit = k.exit
      /\ k'.bufcnt = b.blksz /\ k'.push = 0 /\ k'.tot = 0
  BY <1>0 DEF RunType
<1>3. Order' /\ Once' /\ Blamed' /\ Fits'
  BY <1>0, <1>1, <1>2, SameScene DEF Control, Order, Once, Blamed, Fits
<1>4. ~ Shrinks => b.pt = b.end /\ b.end = b.blksz
  BY <1>0 DEF Control, Flushes, TInv, Blocks
<1>5. Flushes'
  BY <1>0, <1>1, <1>2, <1>4, SameScene DEF Flushes
<1>6. Place'
  BY <1>0, <1>1, <1>2 DEF Control, Place, Before, Mem, Count, Work
<1> QED
  BY <1>3, <1>5, <1>6 DEF Control

LEMMA CloseControl ==
  ASSUME TInv, Control, Close
  PROVE  Control'
<1>0. sc' = sc /\ b' = b /\ k \in RunType /\ k.pc = "close" /\ Goto("exit")
  BY TypeParts DEF TInv, Close, At
<1>1. /\ k'.pc = "exit" /\ k'.call = k.call /\ k'.m = k.m /\ k'.put = k.put /\ k'.todo = k.todo
      /\ k'.wrone = k.wrone /\ k'.broken = k.broken /\ k'.warned = k.warned /\ k'.exit = k.exit
  BY <1>0 DEF Goto, RunType
<1>2. Order' /\ Once' /\ Blamed' /\ Fits' /\ Flushes'
  BY <1>0, <1>1, SameScene DEF Control, Order, Once, Blamed, Fits, Flushes
<1>3. Place'
  BY <1>0, <1>1 DEF Control, Place, Before, Count, Work
<1> QED
  BY <1>2, <1>3 DEF Control

(* After buf_flush the program is where it was, with as much put; only wr_fin
   ends with it.                                                            *)
LEMMA FlushedPlace ==
  ASSUME TInv, Control, k.pc \in Work, sc' = sc,
         k'.call = k.call, k'.m = k.m, k'.put = k.put, k'.todo = k.todo,
         k'.wrone = k.wrone, k'.broken = k.broken,
         k'.pc \in Work \/ (k'.pc = "close" /\ k.call = "fin")
  PROVE  Place'
<1>1. CASE k'.pc \in Work
  BY <1>1 DEF Control, Place, Before, Mem, Count, Work
<1>2. CASE k'.pc = "close" /\ k.call = "fin"
  <2>1. k.todo = 0 /\ k.put \in Nat
    BY <1>2, RunFacts DEF Control, Order, TInv
  <2>2. ~ k.broken => k.put + k.todo = Before(Count) + sc.tlen /\ k.wrone
    BY <1>2 DEF Control, Place
  <2>3. ~ k.broken => k.put = Before(Count) + sc.tlen
    BY <2>1, <2>2
  <2> QED
    BY <1>2, <2>2, <2>3 DEF Place, Before, Count, Work
<1> QED
  BY <1>1, <1>2

LEMMA WroteControl ==
  ASSUME TInv, Control, k.pc = "write", Wrote(k), sc' = sc
  PROVE  Control' /\ (~ Shrinks => b'.pt = 0 /\ b.pt = b.blksz)
<1>1. /\ k'.put = k.put /\ k'.m = k.m /\ k'.call = k.call
      /\ k'.todo = k.todo /\ k'.broken = k.broken /\ k'.exit = k.exit
      /\ k'.warned = k.warned /\ k'.wrone = k.wrone
      /\ \/ /\ k'.pc = "write" /\ k.push >= b.blksz /\ k'.push = k.push - b.blksz
            /\ k'.tot = k.tot + b.blksz /\ k'.bufcnt = k.bufcnt
         \/ /\ k.push < b.blksz
            /\ \/ k'.pc = "move" /\ k'.cnt = k.tot + b.blksz /\ k.call # "fin"
               \/ k'.pc = "close" /\ k.call = "fin"
  BY WroteRun
<1>2. /\ b'.pt = k.push /\ b'.blksz = b.blksz /\ b'.wrblksz = b.wrblksz /\ b'.end = b.end
      /\ b.blksz \in 1 .. MAXBLK /\ b.end = b.blksz
  BY WroteProp DEF TInv, Blocks
<1>3. ~ Shrinks => /\ k.push = 0 /\ k.tot = 0 /\ b.pt = b.end /\ b.blksz <= b.wrblksz
                   /\ (~ Grows => b.blksz = b.wrblksz)
  BY DEF Control, Flushes, Fits
<1>4. ~ Shrinks => k'.pc # "write"
  BY <1>1, <1>2, <1>3, Constants
<1>5. Order' /\ Once' /\ Blamed'
  BY <1>1 DEF Control, Order, Once, Blamed
<1>6. Fits'
  BY <1>1, <1>2, <1>3, SameScene, Constants DEF Fits
<1>7. Flushes'
  <2>1. ~ Shrinks /\ k'.pc = "move" => b'.pt + k'.cnt <= b'.end
    BY <1>1, <1>2, <1>3, Constants
  <2> QED
    BY <1>1, <1>4, <2>1, SameScene DEF Flushes
<1>8. Place'
  BY <1>1, FlushedPlace DEF Work
<1> QED
  BY <1>2, <1>3, <1>5, <1>6, <1>7, <1>8 DEF Control

LEMMA PartControl ==
  ASSUME TInv, Control, WritePart
  PROVE  Control'
<1>0. k.pc = "write" /\ sc' = sc
  BY DEF WritePart, At
<1>1. PICK n \in 1 .. b.blksz - 1 :
        /\ b' = [b EXCEPT !.mem = Splice(b.mem, 0, Part(n, n + (k.bufcnt - n))),
                          !.pt = k.bufcnt - n, !.wrcnt = b.wrcnt + n]
        /\ k' \in RunType /\ k'.warned = TRUE /\ k'.put = k.put /\ k'.m = k.m
        /\ k'.wrone = k.wrone
        /\ \/ /\ k'.call = k.call /\ k'.todo = k.todo /\ k'.broken = k.broken
              /\ k'.wrone = k.wrone
              /\ \/ k'.pc = "close" /\ k.call = "fin"
                 \/ k'.pc = "move" /\ k.call # "fin" /\ k'.cnt = k.tot + n
           \/ /\ k'.broken = TRUE /\ k'.pc \in {"put", "close"}
              /\ k'.call \in {"tail", "fin"} \/ k'.pc = "close"
              /\ k'.call = "fin" => k'.todo = 0 \/ (k.call = "fin" /\ k'.todo = k.todo)
  BY PartWarns
<1>2. /\ b'.pt = k.bufcnt - n /\ b'.blksz = b.blksz /\ b'.wrblksz = b.wrblksz /\ b'.end = b.end
      /\ k.bufcnt \in Nat /\ n \in Nat /\ b.end \in Nat
  <2>1. k.bufcnt \in Nat /\ b.end \in Nat /\ n \in Nat
    BY RunFacts DEF TInv
  <2> QED
    BY <2>1, <1>0, <1>1, PartWritten
<1>3. ~ Shrinks => /\ k.tot = 0 /\ b.pt = b.end /\ k.bufcnt = b.pt /\ b.blksz <= b.wrblksz
                   /\ (~ Grows => b.blksz = b.wrblksz)
  BY <1>0 DEF Control, Flushes, Fits
<1>4. k.call = "fin" => k.todo = 0
  BY DEF Control, Order
<1>5. Order'
  BY <1>1, <1>4 DEF Order
<1>6. Once' /\ Blamed'
  BY <1>0, <1>1 DEF Control, Once, Blamed
<1>7. Fits'
  <2>1. ~ Shrinks => b'.pt <= b'.end
    BY <1>2, <1>3
  <2> QED
    BY <1>0, <1>1, <1>2, <1>3, <2>1, SameScene DEF Fits
<1>8. Flushes'
  <2>1. ~ Shrinks /\ k'.pc = "move" => b'.pt + k'.cnt <= b'.end
    BY <1>1, <1>2, <1>3
  <2> QED
    BY <1>0, <1>1, <2>1, SameScene DEF Flushes
<1>9. Place'
  <2>1. CASE k'.broken = TRUE
    BY <2>1 DEF Place
  <2>2. CASE k'.broken # TRUE
    BY <1>0, <1>1, <2>2, FlushedPlace DEF Work
  <2> QED
    BY <2>1, <2>2
<1> QED
  BY <1>5, <1>6, <1>7, <1>8, <1>9 DEF Control

LEMMA NoneControl ==
  ASSUME TInv, Control, WriteNone
  PROVE  Control'
<1> DEFINE e(res) == IF dev.lstrval = 1 /\ (res < 0 \/ ~ dev.trail) THEN 1 ELSE k.exit
<1>0. k.pc = "write" /\ sc' = sc /\ b' = [b EXCEPT !.wrcnt = 0] /\ k \in RunType
      /\ b \in BufType(k.put)
  BY TypeParts DEF TInv, WriteNone, At
<1>1. PICK res \in {-1, 0} : k' = [k EXCEPT !.pc = "next", !.exit = e(res)]
  BY DEF WriteNone
<1>2. e(res) = 1 \/ e(res) = k.exit
  OBVIOUS
<1> HIDE DEF e
<1>3. /\ k'.pc = "next" /\ k'.call = k.call /\ k'.m = k.m /\ k'.put = k.put /\ k'.todo = k.todo
      /\ k'.wrone = k.wrone /\ k'.broken = k.broken /\ k'.warned = k.warned /\ k'.exit = e(res)
      /\ k'.bufcnt = k.bufcnt /\ k'.push = k.push /\ k'.tot = k.tot
  BY <1>0, <1>1 DEF RunType
<1>4. b'.pt = b.pt /\ b'.end = b.end /\ b'.blksz = b.blksz /\ b'.wrblksz = b.wrblksz
  BY <1>0 DEF BufType
<1>5. Order' /\ Once' /\ Blamed'
  BY <1>0, <1>2, <1>3 DEF Control, Order, Once, Blamed
<1>6. Fits' /\ Flushes'
  BY <1>0, <1>3, <1>4, SameScene DEF Control, Fits, Flushes
<1>7. Place'
  BY <1>0, <1>3, FlushedPlace DEF Work
<1> QED
  BY <1>5, <1>6, <1>7 DEF Control

LEMMA NextNoneControl ==
  ASSUME TInv, Control, NextNone
  PROVE  Control'
<1> DEFINE kk == [k EXCEPT !.exit = 1]
<1>0. k.pc = "next" /\ sc' = sc /\ b' = [b EXCEPT !.wrcnt = 0] /\ k \in RunType
      /\ b \in BufType(k.put) /\ sc \in Scenes /\ k' = Broken(kk)
  BY TypeParts DEF TInv, NextNone, At
<1>1. 1 \in 0 .. 1
  OBVIOUS
<1>2. kk \in RunType /\ kk.exit = 1 /\ kk.call = k.call /\ kk.todo = k.todo /\ kk.wrone = k.wrone
  BY <1>0, <1>1 DEF RunType
<1> HIDE DEF kk
<1>3. /\ k'.exit = 1 /\ k'.broken = TRUE /\ k'.wrone = k.wrone /\ k'.pc \in {"put", "close"}
      /\ k'.call = "fin" => k'.todo = 0 \/ (k.call = "fin" /\ k'.todo = k.todo)
  BY <1>0, <1>2, BrokenTyped
<1>4. b'.pt = b.pt /\ b'.end = b.end /\ b'.blksz = b.blksz /\ b'.wrblksz = b.wrblksz
  BY <1>0 DEF BufType
<1>5. Order' /\ Once' /\ Blamed' /\ Place'
  BY <1>0, <1>3 DEF Control, Order, Once, Blamed, Place
<1>6. Fits' /\ Flushes'
  BY <1>0, <1>3, <1>4, SameScene DEF Control, Fits, Flushes
<1> QED
  BY <1>5, <1>6 DEF Control

LEMMA NextVolumeControl ==
  ASSUME TInv, Control, NextVolume
  PROVE  Control' /\ b'.mem = b.mem /\ b'.pt = b.pt
         /\ (~ Shrinks /\ ~ Grows => k'.pc = "write")
<1>0. k.pc = "next" /\ sc' = sc /\ k \in RunType /\ b \in BufType(k.put)
      /\ b' = [b EXCEPT !.blksz = b.wrblksz, !.end = b.wrblksz, !.wrcnt = 0]
      /\ k' = IF b.wrblksz > k.bufcnt THEN Flushed(k, 0)
              ELSE [k EXCEPT !.pc = "write", !.push = k.bufcnt - b.wrblksz]
  BY TypeParts DEF TInv, NextVolume, At
<1>1. b'.pt = b.pt /\ b'.end = b.wrblksz /\ b'.blksz = b.wrblksz /\ b'.wrblksz = b.wrblksz
      /\ b'.mem = b.mem
  BY <1>0 DEF BufType
<1>2. b.wrblksz \in Nat /\ b.blksz \in Nat /\ b.end = b.blksz /\ k.bufcnt \in Nat /\ b.pt \in Nat
  BY <1>0, RunFacts DEF TInv, Blocks, BufType
<1>3. ~ Shrinks => /\ k.tot = 0 /\ b.pt = b.end /\ k.bufcnt = b.pt /\ b.blksz <= b.wrblksz
                   /\ (~ Grows => b.blksz = b.wrblksz)
  BY <1>0 DEF Control, Flushes, Fits
<1>4. /\ k'.put = k.put /\ k'.m = k.m /\ k'.call = k.call
      /\ k'.todo = k.todo /\ k'.broken = k.broken /\ k'.exit = k.exit
      /\ k'.warned = k.warned /\ k'.wrone = k.wrone
      /\ \/ b.wrblksz > k.bufcnt /\ k'.pc = "close" /\ k.call = "fin"
         \/ b.wrblksz > k.bufcnt /\ k'.pc = "move" /\ k.call # "fin" /\ k'.cnt = 0
         \/ /\ ~ (b.wrblksz > k.bufcnt) /\ k'.pc = "write" /\ k'.push = k.bufcnt - b.wrblksz
            /\ k'.bufcnt = k.bufcnt /\ k'.tot = k.tot
  <2>1. CASE b.wrblksz > k.bufcnt
    <3>1. k' = Flushed(k, 0) /\ 0 \in Nat
      BY <1>0, <2>1
    <3> QED
      BY <1>0, <2>1, <3>1, FlushedTyped
  <2>2. CASE ~ (b.wrblksz > k.bufcnt)
    BY <1>0, <2>2 DEF RunType
  <2> QED
    BY <2>1, <2>2
<1>5. Order' /\ Once' /\ Blamed'
  BY <1>0, <1>4 DEF Control, Order, Once, Blamed
<1>6. Fits'
  BY <1>0, <1>1, <1>2, <1>3, <1>4, SameScene DEF Fits
<1>7. Flushes'
  <2>1. ~ Shrinks /\ k'.pc = "move" => b'.pt + k'.cnt <= b'.end
    BY <1>1, <1>2, <1>3, <1>4
  <2>2. ~ Shrinks /\ k'.pc = "write" => b'.pt = b'.end /\ k'.bufcnt = b'.pt /\ k'.push = 0 /\ k'.tot = 0
    BY <1>1, <1>2, <1>3, <1>4
  <2> QED
    BY <1>0, <1>4, <2>1, <2>2, SameScene DEF Flushes
<1>8. Place'
  BY <1>0, <1>4, FlushedPlace DEF Work
<1>9. ~ Shrinks /\ ~ Grows => k'.pc = "write"
  BY <1>2, <1>3, <1>4
<1> QED
  BY <1>1, <1>5, <1>6, <1>7, <1>8, <1>9 DEF Control

LEMMA ControlStep ==
  ASSUME TInv, Control, [Next]_vars
  PROVE  Control'
<1>1. CASE UNCHANGED vars
  BY <1>1, SameScene DEF Control, Order, Fits, Flushes, Place, Once, Blamed, Before, Mem, Count, vars
<1>2. CASE WrStart \/ AppndStart \/ NextMember \/ Return \/ Put \/ PutFlush \/ PutFlushed
  BY <1>2, StartControl, AppendControl, MemberControl, ReturnControl, PutFlushControl, MoveControl
<1>3. CASE WriteFull \/ WriteBroken
  <2>1. k.pc = "write" /\ Wrote(k) /\ sc' = sc
    BY <1>3 DEF WriteFull, WriteBroken, At
  <2> QED
    BY <2>1, WroteControl
<1>4. CASE Flush \/ WritePart \/ WriteNone \/ NextNone \/ NextVolume \/ Close
  BY <1>4, FlushControl, PartControl, NoneControl, NextNoneControl, NextVolumeControl, CloseControl
<1> QED
  BY <1>1, <1>2, <1>3, <1>4 DEF Next

LEMMA InitControl ==
  ASSUME Init
  PROVE  Control
  BY DEF Init, Control, Order, Fits, Flushes, Place, Once, Blamed, Work

-----------------------------------------------------------------------------
(* What the volumes and the buffer hold: each unit in its place, and zeros
   behind the last.  Until wr_fin fills the last block up, what has been put is
   all there is; the rest of an archive to be added to comes first.         *)
Unit(i)  == IF i <= k.put THEN i ELSE 0
Written  == \A i \in 1 .. Len(Flat) : Flat[i] = Unit(i)
Buffered == \A i \in 1 .. b.pt : b.mem[i] = Unit(Len(Flat) + i)
Enough   == /\ Len(Flat) + b.pt >= k.put
            /\ k.call # "fin" /\ k.pc \notin {"start", "exit"} => Len(Flat) + b.pt = k.put
Kept == dev.gone \/ Shrinks \/ (~ dev.null /\ Written /\ Buffered /\ Enough)

LEMMA FlatFacts ==
  ASSUME TInv
  PROVE  /\ Flat \in Seq(0 .. k.put) /\ Len(Flat) \in Nat /\ b.pt \in Nat /\ k.put \in Nat
         /\ b.mem \in Seq(0 .. k.put) /\ Len(b.mem) \in Nat /\ b.pt <= Len(b.mem)
<1>1. Flat \in Seq(0 .. k.put)
  BY FlatParts DEF TInv
<1>2. Len(Flat) \in Nat
  BY <1>1, LenProperties
<1> QED
  BY <1>1, <1>2, RunFacts DEF TInv, Buffer

LEMMA SameFlat ==
  ASSUME vols' = vols, dev'.off = dev.off
  PROVE  Flat' = Flat
  BY DEF Flat

(* Steps that put and write nothing. *)
LEMMA SameKept ==
  ASSUME TInv, Kept, sc' = sc, Flat' = Flat, b'.mem = b.mem, b'.pt = b.pt, k'.put = k.put,
         dev'.gone = dev.gone, dev'.null = dev.null \/ dev'.null = FALSE,
         \/ k'.call = "fin" \/ k'.pc \in {"start", "exit"} \/ dev.gone \/ Shrinks
         \/ k.call # "fin" /\ k.pc \notin {"start", "exit"}
  PROVE  Kept'
<1>1. CASE dev.gone \/ Shrinks
  BY <1>1, SameScene DEF Kept
<1>2. CASE ~ (dev.gone \/ Shrinks)
  <2>1. ~ dev.null /\ Written /\ Buffered /\ Enough
    BY <1>2 DEF Kept
  <2>2. Written' /\ Buffered'
    BY <2>1 DEF Written, Buffered, Unit
  <2>3. Enough'
    BY <2>1, <1>2 DEF Enough
  <2> QED
    BY <2>1, <2>2, <2>3 DEF Kept
<1> QED
  BY <1>1, <1>2

(* What moves to the buffer comes after what is there. *)
LEMMA MoveKept ==
  ASSUME TInv, Control, Kept, UNCHANGED <<sc, vols, dev>>, NEW n \in 0 .. k.todo, Move(n),
         k.call # "fin", k.pc \notin {"start", "exit"}
  PROVE  Kept'
<1>0. Flat' = Flat /\ (Shrinks' <=> Shrinks)
  BY SameFlat, SameScene
<1>1. CASE dev.gone \/ Shrinks
  BY <1>0, <1>1 DEF Kept
<1>2. CASE ~ (dev.gone \/ Shrinks)
  <2>1. ~ dev.null /\ Written /\ Buffered /\ Enough
    BY <1>2 DEF Kept
  <2>2. /\ Len(Flat) \in Nat /\ b.pt \in Nat /\ k.put \in Nat /\ n \in Nat
        /\ Len(Flat) + b.pt = k.put
    BY <2>1, FlatFacts, RunFacts DEF Enough, TInv
  <2>3. /\ k'.put = k.put + n /\ k'.call = k.call /\ b'.pt = b.pt + n
        /\ \A i \in 1 .. b.pt : b'.mem[i] = b.mem[i]
        /\ \A i \in 1 .. n : b'.mem[b.pt + i] = k.put + i
    BY MoveParts
  <2>4. Written'
    <3>1. ASSUME NEW i \in 1 .. Len(Flat) PROVE Flat[i] = Unit(i)'
      <4>1. Flat[i] = Unit(i) /\ i <= k.put /\ i <= k'.put
        BY <2>1, <2>2, <2>3 DEF Written
      <4> QED
        BY <4>1 DEF Unit
    <3> QED
      BY <3>1, <1>0 DEF Written
  <2>5. Buffered'
    <3>1. ASSUME NEW i \in 1 .. b.pt + n PROVE b'.mem[i] = Len(Flat) + i
      <4>1. CASE i <= b.pt
        <5>1. i \in 1 .. b.pt /\ Len(Flat) + i <= k.put
          BY <4>1, <2>2
        <5>2. b.mem[i] = Len(Flat) + i
          BY <5>1, <2>1 DEF Buffered, Unit
        <5> QED
          BY <5>1, <5>2, <2>3
      <4>2. CASE ~ (i <= b.pt)
        <5> DEFINE j == i - b.pt
        <5>1. j \in 1 .. n /\ b.pt + j = i /\ k.put + j = Len(Flat) + i
          BY <4>2, <2>2
        <5> HIDE DEF j
        <5>2. b'.mem[b.pt + j] = k.put + j
          BY <5>1, <2>3
        <5> QED
          BY <5>1, <5>2
      <4> QED
        BY <4>1, <4>2
    <3>2. ASSUME NEW i \in 1 .. b.pt + n PROVE Unit(Len(Flat) + i)' = Len(Flat) + i
      <4>1. Len(Flat) + i <= k'.put
        BY <2>2, <2>3
      <4> QED
        BY <4>1, <1>0 DEF Unit
    <3> QED
      BY <3>1, <3>2, <2>3, <1>0 DEF Buffered
  <2>6. Enough'
    BY <2>2, <2>3, <1>0 DEF Enough
  <2> QED
    BY <2>1, <2>4, <2>5, <2>6 DEF Kept
<1> QED
  BY <1>1, <1>2

(* The front of the buffer goes to the volume, and the rest to the front. *)
LEMMA OutKept ==
  ASSUME TInv, Kept, sc' = sc, NEW n \in Nat, n <= b.pt,
         Flat' = Flat \o Part(0, n), b'.pt = b.pt - n,
         \A i \in 1 .. b.pt - n : b'.mem[i] = b.mem[n + i],
         k'.put = k.put, dev'.gone = dev.gone, dev'.null = dev.null,
         k'.call = "fin" \/ k'.pc \in {"start", "exit"} \/
           (k.call # "fin" /\ k.pc \notin {"start", "exit"})
  PROVE  Kept'
<1>1. CASE dev.gone \/ Shrinks
  BY <1>1, SameScene DEF Kept
<1>2. CASE ~ (dev.gone \/ Shrinks)
  <2> DEFINE L == Len(Flat)
             p == SubSeq(b.mem, 0 + 1, n)
             S == 0 .. k.put
  <2>1. ~ dev.null /\ Written /\ Buffered /\ Enough
    BY <1>2 DEF Kept
  <2>2. /\ Flat \in Seq(S) /\ L \in Nat /\ b.pt \in Nat /\ k.put \in Nat /\ b.mem \in Seq(S)
        /\ 0 \in Nat /\ 0 <= n /\ n <= Len(b.mem) /\ n - 0 = n
    BY FlatFacts
  <2> HIDE DEF S
  <2>3. p \in Seq(S) /\ Len(p) = n /\ \A h \in 1 .. n : p[h] = b.mem[0 + h]
    BY <2>2, PartProp
  <2>4. Flat' = Flat \o p
    BY DEF Part
  <2> HIDE DEF p
  <2>5. /\ Len(Flat') = L + n
        /\ \A i \in 1 .. L : Flat'[i] = Flat[i]
        /\ \A i \in 1 .. n : Flat'[L + i] = p[i]
    <3>0. Flat \in Seq(S) /\ p \in Seq(S)
      BY <2>2, <2>3
    <3>1. /\ Len(Flat \o p) = Len(Flat) + Len(p)
          /\ \A i \in 1 .. Len(Flat) + Len(p) :
               (Flat \o p)[i] = IF i <= Len(Flat) THEN Flat[i] ELSE p[i - Len(Flat)]
      BY <3>0, ConcatProperties
    <3>2. ASSUME NEW i \in 1 .. n
          PROVE  L + i \in 1 .. L + n /\ ~ (L + i <= L) /\ (L + i) - L = i
      BY <2>2
    <3>3. ASSUME NEW i \in 1 .. L PROVE i \in 1 .. L + n /\ i <= L
      BY <2>2
    <3> HIDE DEF L
    <3>4. /\ Len(Flat \o p) = L + n
          /\ \A i \in 1 .. L + n : (Flat \o p)[i] = IF i <= L THEN Flat[i] ELSE p[i - L]
      BY <3>1, <2>3 DEF L
    <3>5. ASSUME NEW i \in 1 .. n PROVE Flat'[L + i] = p[i]
      BY <3>2, <3>4, <2>4
    <3>6. ASSUME NEW i \in 1 .. L PROVE Flat'[i] = Flat[i]
      BY <3>3, <3>4, <2>4
    <3> QED
      BY <3>4, <3>5, <3>6, <2>4
  <2>6. ASSUME NEW i \in 1 .. n PROVE Flat'[L + i] = Unit(L + i)
    <3>1. i \in 1 .. b.pt /\ 0 + i = i
      BY <2>2
    <3>2. b.mem[i] = Unit(L + i)
      BY <3>1, <2>1 DEF Buffered
    <3> QED
      BY <3>1, <3>2, <2>3, <2>5
  <2>7. \A i : Unit(i)' = Unit(i)
    BY DEF Unit
  <2>8. Written'
    <3>1. ASSUME NEW i \in 1 .. L + n PROVE Flat'[i] = Unit(i)
      <4>1. CASE i <= L
        <5>1. i \in 1 .. L
          BY <4>1, <2>2
        <5> QED
          BY <5>1, <2>1, <2>5 DEF Written
      <4>2. CASE ~ (i <= L)
        <5> DEFINE j == i - L
        <5>1. j \in 1 .. n /\ L + j = i
          BY <4>2, <2>2
        <5> HIDE DEF j
        <5> QED
          BY <5>1, <2>6
      <4> QED
        BY <4>1, <4>2
    <3> QED
      BY <3>1, <2>5, <2>7 DEF Written
  <2>9. Buffered'
    <3>1. ASSUME NEW i \in 1 .. b.pt - n PROVE b'.mem[i] = Unit((L + n) + i)
      <4>1. n + i \in 1 .. b.pt /\ L + (n + i) = (L + n) + i
        BY <2>2
      <4>2. b.mem[n + i] = Unit(L + (n + i))
        BY <4>1, <2>1 DEF Buffered
      <4> QED
        BY <4>1, <4>2
    <3> QED
      BY <3>1, <2>5, <2>7 DEF Buffered
  <2>10. Enough'
    <3>1. (L + n) + (b.pt - n) = L + b.pt
      BY <2>2
    <3>2. Len(Flat') + b'.pt = L + b.pt
      BY <3>1, <2>5
    <3> QED
      BY <3>2, <2>1 DEF Enough
  <2> QED
    BY <2>1, <2>8, <2>9, <2>10 DEF Kept
<1> QED
  BY <1>1, <1>2

(* wr_fin fills the last block up, with zeros. *)
LEMMA Filled ==
  ASSUME NEW p \in Nat, NEW s \in Seq(0 .. p), NEW pt \in 0 .. Len(s), NEW n \in Nat
  PROVE  /\ \A i \in 1 .. pt : Splice(s, pt, Zeros(n))[i] = s[i]
         /\ \A i \in 1 .. n : Splice(s, pt, Zeros(n))[pt + i] = 0
<1> DEFINE z == Zeros(n)
           m == Splice(s, pt, z)
           S == 0 .. p
<1>1. z \in Seq(S) /\ Len(z) = n /\ \A i \in 1 .. n : z[i] = 0
  BY ZerosProp
<1>2. s \in Seq(S) /\ z \in Seq(S) /\ pt \in 0 .. Len(s)
  BY <1>1
<1> HIDE DEF z, S
<1>3. /\ \A i \in 1 .. pt : m[i] = s[i]
      /\ \A i \in 1 .. Len(z) : m[pt + i] = z[i]
  BY <1>2, SpliceProp
<1> HIDE DEF m
<1>4. /\ \A i \in 1 .. pt : m[i] = s[i]
      /\ \A i \in 1 .. n : m[pt + i] = 0
  BY <1>1, <1>3
<1> QED
  BY <1>4 DEF m, z

LEMMA FillKept ==
  ASSUME TInv, Control, Kept, UNCHANGED <<sc, vols, dev>>, b.pt \in 1 .. b.end, k.call = "fin",
         k'.call = k.call, k'.put = k.put,
         b' = [b EXCEPT !.mem = Splice(b.mem, b.pt, Zeros(Room)), !.pt = b.end]
  PROVE  Kept'
<1>0. Flat' = Flat /\ (Shrinks' <=> Shrinks)
  BY SameFlat, SameScene
<1>1. CASE dev.gone \/ Shrinks
  BY <1>0, <1>1 DEF Kept
<1>2. CASE ~ (dev.gone \/ Shrinks)
  <2> DEFINE L == Len(Flat)
             S == 0 .. k.put
             m == Splice(b.mem, b.pt, Zeros(Room))
  <2>1. ~ dev.null /\ Written /\ Buffered /\ Enough
    BY <1>2 DEF Kept
  <2>2. /\ L \in Nat /\ b.pt \in Nat /\ b.end \in Nat /\ k.put \in Nat /\ b.mem \in Seq(S)
        /\ b.pt \in 0 .. Len(b.mem) /\ Room \in Nat /\ b.pt + Room = b.end
        /\ L + b.pt >= k.put /\ b \in BufType(k.put)
    <3>1. /\ L \in Nat /\ b.pt \in Nat /\ b.end \in Nat /\ k.put \in Nat /\ b.mem \in Seq(S)
          /\ b.pt <= Len(b.mem) /\ Len(b.mem) \in Nat /\ b.pt <= b.end /\ b \in BufType(k.put)
      BY FlatFacts, RunFacts, TypeParts DEF TInv
    <3>2. L + b.pt >= k.put
      BY <2>1 DEF Enough
    <3> HIDE DEF L, S
    <3>3. Room \in Nat /\ b.pt + Room = b.end
      BY <3>1 DEF Room
    <3> QED
      BY <3>1, <3>2, <3>3
  <2> HIDE DEF L
  <2>4. /\ \A i \in 1 .. b.pt : m[i] = b.mem[i]
        /\ \A i \in 1 .. Room : m[b.pt + i] = 0
    BY <2>2, Filled
  <2> HIDE DEF m
  <2>5. b'.mem = m /\ b'.pt = b.end
    BY <2>2 DEF BufType, m
  <2>6. \A i : Unit(i)' = Unit(i)
    BY DEF Unit
  <2>7. Buffered'
    <3>1. ASSUME NEW i \in 1 .. b.end PROVE m[i] = Unit(L + i)
      <4>1. CASE i <= b.pt
        <5>1. i \in 1 .. b.pt
          BY <4>1, <2>2
        <5> QED
          BY <5>1, <2>1, <2>4 DEF Buffered, L
      <4>2. CASE ~ (i <= b.pt)
        <5> DEFINE j == i - b.pt
        <5>0. /\ L \in Nat /\ b.pt \in Nat /\ b.end \in Nat /\ k.put \in Nat /\ Room \in Nat
              /\ b.pt + Room = b.end /\ L + b.pt >= k.put /\ i \in Nat /\ i <= b.end /\ i > b.pt
          BY <4>2, <2>2
        <5>1. j \in 1 .. Room /\ b.pt + j = i /\ ~ (L + i <= k.put)
          BY <5>0
        <5> HIDE DEF j
        <5> QED
          BY <5>1, <2>4 DEF Unit
      <4> QED
        BY <4>1, <4>2
    <3> QED
      BY <3>1, <1>0, <2>5, <2>6 DEF Buffered, L
  <2>8. Written'
    BY <2>1, <2>6, <1>0 DEF Written
  <2>9. Enough'
    <3>1. L + b.end >= k.put
      BY <2>2
    <3> QED
      BY <3>1, <1>0, <2>5 DEF Enough, L
  <2> QED
    BY <2>1, <2>7, <2>8, <2>9 DEF Kept
<1> QED
  BY <1>1, <1>2

(* With one volume, it is all there is up to where the next block goes. *)
LEMMA OneFlat ==
  ASSUME NEW S, NEW x \in Seq(S), NEW n \in Nat, n <= Len(x)
  PROVE  /\ FlattenSeq([<<x>> EXCEPT ![Len(<<x>>)] = SubSeq(@, 1, n)]) = SubSeq(x, 1, n)
         /\ SubSeq(x, 1, n) \in Seq(S) /\ Len(SubSeq(x, 1, n)) = n
         /\ \A i \in 1 .. n : SubSeq(x, 1, n)[i] = x[i]
<1> DEFINE y == SubSeq(x, 0 + 1, n)
           v == [<<x>> EXCEPT ![Len(<<x>>)] = SubSeq(@, 1, n)]
<1>1. 0 \in Nat /\ 0 <= n /\ n - 0 = n /\ \A i \in 1 .. n : 0 + i = i
  OBVIOUS
<1>2. y \in Seq(S) /\ Len(y) = n /\ \A i \in 1 .. n : y[i] = x[i]
  BY <1>1, PartProp
<1>3. y = SubSeq(x, 1, n)
  OBVIOUS
<1>4. v = <<SubSeq(x, 1, n)>>
  OBVIOUS
<1> HIDE DEF v, y
<1>5. v = Append(<< >>, y)
  BY <1>3, <1>4
<1>6. << >> \in Seq(Seq(S))
  BY EmptySeq
<1>7. FlattenSeq(Append(<< >>, y)) = FlattenSeq(<< >>) \o y
  BY <1>2, <1>6, FlattenAppend
<1>8. FlattenSeq(<< >>) = << >>
  BY DEF FlattenSeq
<1>9. << >> \o y = y
  BY <1>2, ConcatEmptySeq
<1> QED
  BY <1>2, <1>3, <1>5, <1>7, <1>8, <1>9 DEF v

(* Before the archive is open, what is there is the old archive, if any. *)
LEMMA InitFlat ==
  ASSUME Init
  PROVE  /\ Len(Flat) = IF sc.app THEN OldSize(sc) ELSE 0
         /\ Len(Flat) \in Nat /\ Len(Flat) >= k.put /\ Written
<1>1. /\ sc \in Scenes /\ sc.data \in Nat /\ OldSize(sc) \in Nat /\ sc.app \in BOOLEAN
      /\ OldSize(sc) >= sc.data
  BY SceneFacts DEF Init, OldSize
<1> DEFINE x == IF sc.app THEN OldFile(sc) ELSE << >>
           S == 0 .. sc.data
<1>2. /\ vols = <<x>> /\ dev.off = Len(x) /\ k.put = IF sc.app THEN sc.data ELSE 0
  <2>1. vols = <<x>>
    BY DEF Init
  <2> HIDE DEF x
  <2> QED
    BY <2>1 DEF Init
<1>3. x \in Seq(S) /\ Len(x) = IF sc.app THEN OldSize(sc) ELSE 0
  BY <1>1, OldFileProp, EmptySeq
<1>4. \A i \in 1 .. Len(x) : x[i] = IF i <= sc.data THEN i ELSE 0
  BY <1>1, OldFileProp
<1>5. Len(x) \in Nat /\ Len(x) <= Len(x)
  BY <1>1, <1>3
<1> HIDE DEF x, S
<1>6. /\ FlattenSeq([<<x>> EXCEPT ![Len(<<x>>)] = SubSeq(@, 1, Len(x))]) = SubSeq(x, 1, Len(x))
      /\ Len(SubSeq(x, 1, Len(x))) = Len(x)
      /\ \A i \in 1 .. Len(x) : SubSeq(x, 1, Len(x))[i] = x[i]
  BY <1>3, <1>5, OneFlat
<1>7. Flat = SubSeq(x, 1, Len(x))
  BY <1>2, <1>6 DEF Flat
<1>8. Len(Flat) = Len(x) /\ \A i \in 1 .. Len(x) : Flat[i] = x[i]
  BY <1>6, <1>7
<1>9. Written
  <2>1. ASSUME NEW i \in 1 .. Len(x) PROVE x[i] = Unit(i)
    <3>1. CASE sc.app
      BY <3>1, <1>2, <1>4 DEF Unit
    <3>2. CASE ~ sc.app
      BY <3>2, <1>3
    <3> QED
      BY <3>1, <3>2
  <2> QED
    BY <1>8, <2>1 DEF Written
<1> QED
  BY <1>1, <1>2, <1>3, <1>8, <1>9

LEMMA InitKept ==
  ASSUME Init
  PROVE  Kept
<1>1. b.pt = 0 /\ k.pc = "start" /\ dev.null = FALSE
  BY DEF Init
<1>2. Written /\ Len(Flat) >= k.put /\ Len(Flat) \in Nat
  BY InitFlat
<1>3. Buffered
  BY <1>1 DEF Buffered
<1> QED
  BY <1>1, <1>2, <1>3 DEF Kept, Enough

(* The archive cut back to where the new header goes. *)
LEMMA AppendFlat ==
  ASSUME TInv, AppndStart, k'.pc # "exit"
  PROVE  /\ Len(Flat') = AppPos /\ AppPos \in 0 .. sc.data
         /\ \A i \in 1 .. AppPos : Flat'[i] = i
<1>1. /\ sc' = sc /\ sc.app /\ vols = <<OldFile(sc)>> /\ sc \in Scenes /\ k.pc = "start"
      /\ k \in RunType /\ dev \in DevType
  BY AppendStep, TypeParts DEF TInv
<1>2. ~ Quit(1)
  BY <1>1 DEF Quit, RunType
<1>3. /\ sc.artyp # "PIPE"
      /\ vols' = IF sc.artyp = "REG" THEN <<SubSeq(vols[1], 1, AppPos)>> ELSE vols
      /\ dev' = [dev EXCEPT !.open = TRUE, !.off = AppPos, !.trail = FALSE]
  BY <1>2, AppendStep
<1>4. /\ AppPos \in 0 .. sc.data /\ sc.data \in Nat /\ OldSize(sc) \in Nat
      /\ OldSize(sc) >= sc.data
  BY <1>1, <1>3, AppendsAt, SceneFacts DEF OldSize
<1> DEFINE x == OldFile(sc)
           y == SubSeq(x, 1, AppPos)
           n == AppPos
           S == 0 .. sc.data
<1>5. x \in Seq(S) /\ Len(x) = OldSize(sc) /\ \A i \in 1 .. OldSize(sc) : x[i] = IF i <= sc.data THEN i ELSE 0
  BY <1>1, OldFileProp
<1>6. dev'.off = n /\ n \in Nat /\ n <= Len(x) /\ n <= n
  BY <1>1, <1>3, <1>4, <1>5 DEF DevType
<1>7. \A i \in 1 .. n : x[i] = i
  BY <1>4, <1>5
<1>8. vols' = <<x>> \/ vols' = <<y>>
  BY <1>1, <1>3
<1> HIDE DEF x, y, S, n
<1>9. /\ FlattenSeq([<<x>> EXCEPT ![Len(<<x>>)] = SubSeq(@, 1, n)]) = SubSeq(x, 1, n)
      /\ SubSeq(x, 1, n) \in Seq(S) /\ Len(SubSeq(x, 1, n)) = n
      /\ \A i \in 1 .. n : SubSeq(x, 1, n)[i] = x[i]
  BY <1>5, <1>6, OneFlat
<1>10. y = SubSeq(x, 1, n)
  BY DEF x, y, n
<1>11. y \in Seq(S) /\ Len(y) = n /\ \A i \in 1 .. n : y[i] = x[i]
  BY <1>9, <1>10
<1>12. n <= Len(y)
  BY <1>6, <1>11
<1>13. /\ FlattenSeq([<<y>> EXCEPT ![Len(<<y>>)] = SubSeq(@, 1, n)]) = SubSeq(y, 1, n)
       /\ Len(SubSeq(y, 1, n)) = n
       /\ \A i \in 1 .. n : SubSeq(y, 1, n)[i] = y[i]
  BY <1>6, <1>11, <1>12, OneFlat
<1>14. Len(Flat') = n /\ \A i \in 1 .. n : Flat'[i] = x[i]
  <2>1. CASE vols' = <<x>>
    <3>1. Flat' = SubSeq(x, 1, n)
      BY <2>1, <1>6, <1>9 DEF Flat
    <3> QED
      BY <3>1, <1>9
  <2>2. CASE vols' = <<y>>
    <3>1. Flat' = SubSeq(y, 1, n)
      BY <2>2, <1>6, <1>13 DEF Flat
    <3> QED
      BY <3>1, <1>11, <1>13
  <2> QED
    BY <2>1, <2>2, <1>8
<1>15. Len(Flat') = AppPos /\ \A i \in 1 .. n : Flat'[i] = i
  BY <1>14, <1>7 DEF n
<1> QED
  BY <1>4, <1>15 DEF n

(* What is read again of the old archive is in the buffer, up to the trailer. *)
LEMMA AppendKept ==
  ASSUME TInv, AppndStart, Kept
  PROVE  Kept'
<1>1. /\ sc' = sc /\ sc.app /\ vols = <<OldFile(sc)>> /\ sc \in Scenes /\ k.pc = "start"
      /\ k \in RunType /\ dev \in DevType /\ b \in BufType(k.put) /\ Init
  BY AppendStep, TypeParts DEF TInv
<1>2. CASE k'.pc = "exit"
  <2>1. Quit(1) /\ UNCHANGED <<vols, dev, b>>
    <3>1. ~ Goto("member")
      BY <1>1, <1>2 DEF Goto, RunType
    <3> QED
      BY <3>1, AppendStep
  <2>2. k'.put = k.put /\ Flat' = Flat
    BY <1>1, <2>1, SameFlat DEF Quit, RunType
  <2> QED
    BY <1>1, <1>2, <2>1, <2>2, SameKept
<1>3. CASE k'.pc # "exit"
  <2>1. ~ Quit(1)
    BY <1>1, <1>3 DEF Quit, RunType
  <2>2. /\ sc.artyp # "PIPE" /\ (AppKeep > 0 => Len(AppAgain) >= RdBlksz)
        /\ dev' = [dev EXCEPT !.open = TRUE, !.off = AppPos, !.trail = FALSE]
        /\ b' = [b EXCEPT !.mem = IF AppKeep > 0 THEN Splice(b.mem, 0, AppAgain)
                                  ELSE b.mem,
                          !.pt = AppKeep, !.end = RdBlksz, !.blksz = RdBlksz,
                          !.wrblksz = IF sc.wr = 0 THEN RdBlksz ELSE sc.wr]
        /\ Goto("member")
    BY <2>1, AppendStep
  <2>3. /\ AppPos \in 0 .. sc.data /\ AppKeep \in 0 .. RdBlksz - 1 /\ AppPos + AppKeep = sc.data
        /\ sc.data \in Nat /\ OldSize(sc) >= sc.data /\ RdBlksz \in Nat /\ OldSize(sc) \in Nat
    BY <1>1, <2>2, AppendsAt, SceneFacts, BlockSize DEF OldSize
  <2>4. k.put = sc.data /\ k.call = "head" /\ dev.null = FALSE /\ dev.gone = FALSE
    BY <1>1 DEF Init
  <2>5. k'.put = sc.data /\ dev'.null = FALSE /\ b'.pt = AppKeep
        /\ b'.mem = IF AppKeep > 0 THEN Splice(b.mem, 0, AppAgain) ELSE b.mem
    <3> DEFINE m == IF AppKeep > 0 THEN Splice(b.mem, 0, AppAgain) ELSE b.mem
               w == IF sc.wr = 0 THEN RdBlksz ELSE sc.wr
    <3>1. b' = [b EXCEPT !.mem = m, !.pt = AppKeep, !.end = RdBlksz, !.blksz = RdBlksz,
                         !.wrblksz = w]
      BY <2>2
    <3> HIDE DEF m, w
    <3>2. b'.mem = m /\ b'.pt = AppKeep
      BY <3>1, <1>1 DEF BufType
    <3>3. k'.put = k.put
      BY <1>1, <2>2 DEF Goto, RunType
    <3>4. dev'.null = dev.null
      BY <1>1, <2>2 DEF DevType
    <3> QED
      BY <2>4, <3>2, <3>3, <3>4 DEF m
  <2>6. Len(Flat') = AppPos /\ \A i \in 1 .. AppPos : Flat'[i] = i
    BY <1>3, AppendFlat
  <2>7. Written'
    <3>1. ASSUME NEW i \in 1 .. AppPos PROVE Flat'[i] = Unit(i)'
      <4>1. i <= sc.data /\ Flat'[i] = i
        BY <2>3, <2>6
      <4> QED
        BY <4>1, <2>5 DEF Unit
    <3> QED
      BY <3>1, <2>6 DEF Written
  <2>8. ASSUME NEW i \in 1 .. AppKeep PROVE b'.mem[i] = AppPos + i
    <3>1. AppKeep > 0 /\ Len(AppAgain) >= RdBlksz /\ i \in Nat /\ i <= AppKeep
      BY <2>2, <2>3, <2>8
    <3>2. vols[1] = OldFile(sc)
      BY <1>1
    <3> DEFINE S == 0 .. sc.data
    <3>3. AppAgain \in Seq(S) /\ b.mem \in Seq(S) /\ Len(AppAgain) \in Nat
          /\ \A h \in 1 .. Len(AppAgain) : AppAgain[h] = OldFile(sc)[AppPos + h]
      BY <1>1, <2>2, <2>4, <3>2, AgainTyped DEF BufType
    <3> HIDE DEF S
    <3>4. \A h \in 1 .. Len(AppAgain) : Splice(b.mem, 0, AppAgain)[h] = AppAgain[h]
      BY <3>3, SpliceFront
    <3>5. i \in 1 .. Len(AppAgain)
      BY <3>1, <3>3, <2>3
    <3>6. AppPos + i \in 1 .. OldSize(sc) /\ AppPos + i <= sc.data
      BY <3>1, <2>3
    <3>7. OldFile(sc)[AppPos + i] = AppPos + i
      BY <3>6, <1>1, OldFileProp
    <3> QED
      BY <3>1, <3>3, <3>4, <3>5, <3>7, <2>5
  <2>9. Buffered'
    <3>1. ASSUME NEW i \in 1 .. AppKeep PROVE Unit(Len(Flat) + i)' = AppPos + i
      <4>1. AppPos + i <= sc.data
        BY <2>3
      <4> QED
        BY <4>1, <2>5, <2>6 DEF Unit
    <3> QED
      BY <3>1, <2>5, <2>8 DEF Buffered
  <2>10. Enough'
    BY <2>3, <2>5, <2>6 DEF Enough
  <2> QED
    BY <2>5, <2>7, <2>9, <2>10 DEF Kept
<1> QED
  BY <1>2, <1>3

LEMMA StartKept ==
  ASSUME TInv, WrStart, Kept
  PROVE  Kept'
<1>1. /\ sc' = sc /\ ~ sc.app /\ sc \in Scenes /\ k.pc = "start" /\ vols' = vols
      /\ k \in RunType /\ dev \in DevType /\ b \in BufType(k.put) /\ Init
  BY TypeParts DEF TInv, Fresh, WrStart, At
<1>2. k'.put = k.put /\ b'.mem = b.mem /\ b'.pt = b.pt /\ dev'.off = dev.off
      /\ dev'.null = dev.null /\ dev'.gone = dev.gone
  BY <1>1 DEF WrStart, Quit, Goto, RunType, BufType, DevType
<1>3. Flat' = Flat /\ (Shrinks' <=> Shrinks)
  BY <1>1, <1>2, SameFlat, SameScene
<1>4. Len(Flat) = 0 /\ b.pt = 0 /\ k.put = 0
  BY <1>1, InitFlat DEF Init
<1>5. Written' /\ Buffered' /\ Enough'
  BY <1>2, <1>3, <1>4 DEF Written, Buffered, Enough
<1> QED
  BY <1>1, <1>2, <1>5 DEF Kept, Init

(* The steps that leave volumes and buffer alone. *)
LEMMA QuietKept ==
  ASSUME TInv, Control, Kept, NextMember \/ PutFlush \/ Flush \/ Close
  PROVE  Kept'
<1>1. /\ sc' = sc /\ vols' = vols /\ b' = b /\ k \in RunType /\ dev \in DevType
      /\ k.pc \in {"member", "put", "flush", "close"}
  BY TypeParts DEF TInv, NextMember, PutFlush, Flush, Close, At
<1>2. dev'.off = dev.off /\ dev'.null = dev.null /\ dev'.gone = dev.gone
  BY <1>1 DEF NextMember, PutFlush, Flush, Close, DevType
<1>3. k'.put = k.put
  BY <1>1 DEF NextMember, PutFlush, Flush, Close, Goto, Trailer, Call, RunType
<1>4. CASE k.call # "fin"
  BY <1>1, <1>2, <1>3, <1>4, SameFlat, SameKept
<1>5. CASE k.call = "fin"
  <2>1. ~ NextMember
    BY <1>5 DEF Control, Order, NextMember, At
  <2>2. k'.call = "fin"
    BY <1>1, <1>5, <2>1 DEF PutFlush, Flush, Close, Goto, RunType
  <2> QED
    BY <1>1, <1>2, <1>3, <2>2, SameFlat, SameKept
<1> QED
  BY <1>4, <1>5

LEMMA ReturnKept ==
  ASSUME TInv, Control, Kept, Return
  PROVE  Kept'
<1>1. k.pc = "put" /\ UNCHANGED <<sc, vols, dev>> /\ k \in RunType
  BY ReturnCases
<1>2. k'.put = k.put
  BY <1>1, ReturnCases DEF Goto, Call, RunType
<1>3. CASE k.call # "fin"
  <2>1. b' = b
    BY <1>3, ReturnCases
  <2> QED
    BY <1>1, <1>2, <1>3, <2>1, SameFlat, SameKept
<1>4. CASE k.call = "fin"
  <2>1. k'.call = "fin"
    BY <1>1, <1>4, ReturnCases DEF Goto, RunType
  <2>2. CASE b' = b
    BY <1>1, <1>2, <2>1, <2>2, SameFlat, SameKept
  <2>3. CASE b' # b
    <3>1. b.pt \in 1 .. b.end /\ b' = [b EXCEPT !.mem = Splice(b.mem, b.pt, Zeros(Room)), !.pt = b.end]
      BY <1>4, <2>3, ReturnCases
    <3> QED
      BY <1>1, <1>2, <1>4, <2>1, <3>1, FillKept
  <2> QED
    BY <2>2, <2>3
<1> QED
  BY <1>3, <1>4

LEMMA PutKept ==
  ASSUME TInv, Control, Kept, Put \/ PutFlushed
  PROVE  Kept'
<1>1. UNCHANGED <<sc, vols, dev>> /\ k.pc \in {"put", "move"} /\ k \in RunType
  BY TypeParts DEF TInv, Put, PutFlushed, At
<1>2. k.call # "fin"
  <2>1. k.call = "fin" => k.todo = 0 /\ k.pc # "move"
    BY DEF Control, Order
  <2> QED
    BY <2>1, RunFacts DEF TInv, Put, PutFlushed, At
<1>3. CASE Shorter
  <2>1. b' = b /\ k'.put = k.put
    BY <1>1, <1>3 DEF Shorter, RunType
  <2> QED
    BY <1>1, <1>2, <2>1, SameFlat, SameKept
<1>4. CASE ~ Shorter
  <2>1. PICK n \in 0 .. k.todo : Move(n)
    BY <1>4, PutStep
  <2> QED
    BY <1>1, <1>2, <2>1, MoveKept
<1> QED
  BY <1>3, <1>4

(* The steps that write, and those that change the volume. *)
LEMMA FullKept ==
  ASSUME TInv, Control, Kept, WriteFull
  PROVE  Kept'
<1>1. k.pc = "write" /\ Wrote(k) /\ sc' = sc /\ Out(b.blksz) /\ dev \in DevType
      /\ dev' = [dev EXCEPT !.off = Advance(b.blksz), !.trail = TRUE]
  BY TypeParts DEF TInv, WriteFull, At
<1>2. dev'.null = dev.null /\ dev'.gone = dev.gone /\ dev'.off = Advance(b.blksz)
  <2> DEFINE a == Advance(b.blksz)
  <2>1. dev' = [dev EXCEPT !.off = a, !.trail = TRUE]
    BY <1>1
  <2> HIDE DEF a
  <2>2. dev'.null = dev.null /\ dev'.gone = dev.gone /\ dev'.off = a
    BY <2>1, <1>1 DEF DevType
  <2> QED
    BY <2>2 DEF a
<1>3. CASE dev.gone \/ Shrinks
  BY <1>1, <1>2, <1>3, SameScene DEF Kept
<1>4. CASE ~ (dev.gone \/ Shrinks)
  <2>1. b'.pt = 0 /\ b.pt = b.blksz
    BY <1>1, <1>4, WroteControl
  <2>2. b.blksz \in Nat /\ b.blksz <= Len(b.mem) /\ b.blksz <= b.pt /\ b.pt - b.blksz = 0
    BY <2>1, FlatFacts
  <2>3. dev.null = FALSE
    BY <1>4 DEF Kept
  <2>4. Flat' = Flat \o Part(0, b.blksz)
    BY <1>1, <1>2, <2>2, <2>3, OutProp DEF TInv
  <2>5. k'.put = k.put /\ k'.call = k.call
    BY <1>1, WroteRun
  <2>6. \A i \in 1 .. b.pt - b.blksz : b'.mem[i] = b.mem[b.blksz + i]
    BY <2>2
  <2> QED
    BY <1>1, <1>2, <2>1, <2>2, <2>4, <2>5, <2>6, OutKept
<1> QED
  BY <1>3, <1>4

LEMMA PartKept ==
  ASSUME TInv, Control, Kept, WritePart
  PROVE  Kept'
<1>0. k.pc = "write" /\ sc' = sc /\ ~ dev.null
  BY DEF WritePart, At
<1>1. PICK n \in 1 .. b.blksz - 1 :
        /\ Out(n) /\ dev'.off = Advance(n) /\ dev'.null = dev.null /\ dev'.gone = dev.gone
        /\ b' = [b EXCEPT !.mem = Splice(b.mem, 0, Part(n, n + (k.bufcnt - n))),
                          !.pt = k.bufcnt - n, !.wrcnt = b.wrcnt + n]
        /\ k'.put = k.put /\ (k.call = "fin" => k'.call = "fin")
  BY PartWarns
<1>2. n \in Nat
  BY RunFacts DEF TInv
<1>3. CASE dev.gone \/ Shrinks
  BY <1>0, <1>1, <1>3, SameScene DEF Kept
<1>4. CASE ~ (dev.gone \/ Shrinks)
  <2>1. k.bufcnt = b.pt
    BY <1>0, <1>4 DEF Control, Flushes
  <2>2. /\ b'.pt = b.pt - n /\ n < b.pt /\ n <= Len(b.mem)
        /\ \A i \in 1 .. b.pt - n : b'.mem[i] = b.mem[n + i]
    BY <1>0, <1>1, <2>1, PartWritten
  <2>3. Flat' = Flat \o Part(0, n)
    BY <1>0, <1>1, <1>2, <2>2, OutProp DEF TInv
  <2>4. n <= b.pt
    BY <1>2, <2>2, FlatFacts
  <2> QED
    BY <1>0, <1>1, <1>2, <2>2, <2>3, <2>4, OutKept
<1> QED
  BY <1>3, <1>4

LEMMA NoneKept ==
  ASSUME TInv, Control, Kept, WriteNone \/ NextNone
  PROVE  Kept'
<1>1. /\ sc' = sc /\ vols' = vols /\ k \in RunType /\ dev \in DevType /\ b \in BufType(k.put)
      /\ sc \in Scenes /\ k.pc \in {"write", "next"} /\ b' = [b EXCEPT !.wrcnt = 0]
  BY TypeParts DEF TInv, WriteNone, NextNone, At
<1>2. dev'.off = dev.off /\ dev'.null = dev.null /\ dev'.gone = dev.gone
  <2>1. CASE WriteNone
    BY <1>1, <2>1 DEF WriteNone, DevType
  <2>2. CASE NextNone
    <3> DEFINE d == dev.done \/ ~ OneVolume
               l == IF OneVolume THEN dev.lstrval ELSE -1
    <3>1. dev' = [dev EXCEPT !.open = FALSE, !.done = d, !.lstrval = l]
      BY <2>2 DEF NextNone
    <3> HIDE DEF d, l
    <3> QED
      BY <3>1, <1>1 DEF DevType
  <2> QED
    BY <2>1, <2>2
<1>3. b'.mem = b.mem /\ b'.pt = b.pt
  BY <1>1 DEF BufType
<1>4. k'.put = k.put /\ (k.call = "fin" => k'.call = "fin")
  <2>1. CASE WriteNone
    <3> DEFINE e(res) == IF dev.lstrval = 1 /\ (res < 0 \/ ~ dev.trail) THEN 1 ELSE k.exit
    <3>1. PICK res \in {-1, 0} : k' = [k EXCEPT !.pc = "next", !.exit = e(res)]
      BY <2>1 DEF WriteNone
    <3> HIDE DEF e
    <3> QED
      BY <3>1, <1>1 DEF RunType
  <2>2. CASE NextNone
    <3> DEFINE kk == [k EXCEPT !.exit = 1]
    <3>1. 1 \in 0 .. 1
      OBVIOUS
    <3>2. kk \in RunType /\ kk.put = k.put /\ kk.call = k.call
      BY <1>1, <3>1 DEF RunType
    <3>3. k' = Broken(kk)
      BY <2>2 DEF NextNone
    <3> HIDE DEF kk
    <3>4. k'.put = kk.put
      BY <1>1, <3>2, <3>3, BrokenTyped
    <3>5. kk.call = "fin" => k'.call = "fin"
      BY <3>2, <3>3, BrokenFin
    <3> QED
      BY <3>2, <3>4, <3>5
  <2> QED
    BY <1>1, <2>1, <2>2
<1>5. CASE k.call # "fin"
  BY <1>1, <1>2, <1>3, <1>4, <1>5, SameFlat, SameKept
<1>6. CASE k.call = "fin"
  BY <1>1, <1>2, <1>3, <1>4, <1>6, SameFlat, SameKept
<1> QED
  BY <1>5, <1>6

LEMMA NextVolumeKept ==
  ASSUME TInv, Control, Kept, NextVolume
  PROVE  Kept'
<1>1. /\ sc' = sc /\ Flat' = Flat /\ dev'.null = FALSE /\ dev'.gone = dev.gone /\ k.pc = "next"
      /\ k \in RunType
  BY NextParts, TypeParts DEF TInv
<1>2. b'.mem = b.mem /\ b'.pt = b.pt
  BY NextVolumeControl
<1>3. k'.put = k.put /\ k'.call = k.call
  <2>1. CASE b.wrblksz > k.bufcnt
    <3>1. k' = Flushed(k, 0) /\ 0 \in Nat
      BY <2>1 DEF NextVolume
    <3> QED
      BY <1>1, <3>1, FlushedTyped
  <2>2. CASE ~ (b.wrblksz > k.bufcnt)
    BY <1>1, <2>2 DEF NextVolume, RunType
  <2> QED
    BY <2>1, <2>2
<1>4. CASE k.call # "fin"
  BY <1>1, <1>2, <1>3, <1>4, SameKept
<1>5. CASE k.call = "fin"
  BY <1>1, <1>2, <1>3, <1>5, SameKept
<1> QED
  BY <1>4, <1>5

LEMMA KeptStep ==
  ASSUME TInv, Control, Kept, [Next]_vars
  PROVE  Kept'
<1>1. CASE UNCHANGED vars
  BY <1>1, SameFlat, SameScene DEF Kept, Written, Buffered, Enough, Unit, vars
<1>2. CASE WrStart \/ AppndStart \/ NextMember \/ Return \/ Put \/ PutFlush \/ PutFlushed
  BY <1>2, StartKept, AppendKept, QuietKept, ReturnKept, PutKept
<1>3. CASE WriteBroken
  BY <1>3, TypeParts DEF TInv, WriteBroken, Kept, DevType
<1>4. CASE Flush \/ WriteFull \/ WritePart \/ WriteNone \/ NextNone \/ NextVolume \/ Close
  BY <1>4, FullKept, PartKept, NoneKept, NextVolumeKept, QuietKept
<1> QED
  BY <1>1, <1>2, <1>3, <1>4 DEF Next

-----------------------------------------------------------------------------
(* Only the start of an append takes anything off a volume. *)
LEMMA FlatGrows ==
  ASSUME TInv, [Next]_vars, ~ AppndStart
  PROVE  Len(Flat') \in Nat /\ Len(Flat') >= Len(Flat)
<1>0. Len(Flat) \in Nat /\ Len(Flat) >= Len(Flat)
  BY FlatFacts
<1>1. CASE UNCHANGED <<vols, dev>>
  BY <1>0, <1>1, SameFlat
<1>2. CASE WrStart \/ WriteBroken \/ WriteNone \/ NextNone \/ Close
  <2>1. vols' = vols /\ dev'.off = dev.off
    BY <1>2, TypeParts
       DEF TInv, WrStart, WriteBroken, WriteNone, NextNone, Close, DevType
  <2> QED
    BY <2>1, <1>0, SameFlat
<1>3. ASSUME NEW n \in Nat, n <= Len(b.mem), Out(n), dev'.off = Advance(n)
      PROVE  Len(Flat') \in Nat /\ Len(Flat') >= Len(Flat)
  <2>1. CASE dev.null
    <3>1. vols' = vols /\ dev'.off = dev.off
      BY <1>3, <2>1, OutProp DEF TInv
    <3> QED
      BY <3>1, <1>0, SameFlat
  <2>2. CASE ~ dev.null
    <3> DEFINE p == SubSeq(b.mem, 0 + 1, n)
               S == 0 .. k.put
    <3>1. Flat' = Flat \o p
      BY <1>3, <2>2, OutProp DEF TInv, Part
    <3>2. b.mem \in Seq(S) /\ Flat \in Seq(S) /\ 0 \in Nat /\ 0 <= n /\ n - 0 = n
      BY <1>3, FlatFacts
    <3> HIDE DEF S
    <3>3. p \in Seq(S) /\ Len(p) = n
      BY <1>3, <3>2, PartProp
    <3> HIDE DEF p
    <3>4. Flat \in Seq(S) /\ p \in Seq(S)
      BY <3>2, <3>3
    <3>5. Len(Flat \o p) = Len(Flat) + Len(p)
      BY <3>4, ConcatProperties
    <3> QED
      BY <3>1, <3>3, <3>5, <1>0
  <2> QED
    BY <2>1, <2>2
<1>4. CASE WriteFull
  <2>1. b.blksz \in Nat /\ b.blksz <= Len(b.mem)
    BY FlatFacts, RunFacts, TypeParts, Constants DEF TInv, BufType
  <2> DEFINE a == Advance(b.blksz)
  <2>2. dev' = [dev EXCEPT !.off = a, !.trail = TRUE] /\ Out(b.blksz) /\ dev \in DevType
    BY <1>4, TypeParts DEF TInv, WriteFull
  <2> HIDE DEF a
  <2>3. dev'.off = a
    BY <2>2 DEF DevType
  <2> QED
    BY <2>1, <2>2, <2>3, <1>3 DEF a
<1>5. CASE WritePart
  <2>1. k.pc = "write"
    BY <1>5 DEF WritePart, At
  <2>2. PICK n \in 1 .. b.blksz - 1 :
          /\ Out(n) /\ dev'.off = Advance(n)
          /\ b' = [b EXCEPT !.mem = Splice(b.mem, 0, Part(n, n + (k.bufcnt - n))),
                            !.pt = k.bufcnt - n, !.wrcnt = b.wrcnt + n]
    BY <1>5, PartWarns
  <2>3. n \in Nat /\ n <= Len(b.mem)
    <3>1. n \in Nat
      BY RunFacts DEF TInv
    <3>2. n <= Len(b.mem)
      BY <2>1, <2>2, PartWritten
    <3> QED
      BY <3>1, <3>2
  <2> QED
    BY <2>2, <2>3, <1>3
<1>6. CASE NextVolume
  BY <1>0, <1>6, NextParts
<1>7. CASE NextMember \/ Return \/ Put \/ PutFlush \/ PutFlushed \/ Flush
  BY <1>1, <1>7 DEF NextMember, Return, Put, PutFlush, PutFlushed, Flush
<1>8. CASE UNCHANGED vars
  BY <1>1, <1>8 DEF vars
<1> QED
  BY <1>2, <1>4, <1>5, <1>6, <1>7, <1>8 DEF Next

LEMMA TailStep ==
  ASSUME TInv, TailAtRisk, [Next]_vars
  PROVE  TailAtRisk'
<1>1. sc' = sc
  BY DEF Next, vars, WrStart, AppndStart, NextMember, Return, Put, PutFlush, PutFlushed,
         Flush, WriteFull, WriteBroken, WritePart, WriteNone, NextNone, NextVolume, Close
<1>2. RdBlksz' = RdBlksz
  BY <1>1, SameScene
<1>3. sc \in Scenes /\ sc.data \in Nat /\ RdBlksz \in Nat
  BY SceneFacts, BlockSize DEF TInv
<1>4. CASE ~ AppndStart
  <2>1. Len(Flat') \in Nat /\ Len(Flat') >= Len(Flat) /\ Len(Flat) \in Nat
    BY <1>4, FlatGrows, FlatFacts
  <2>2. sc.app => Len(Flat) > sc.data - RdBlksz
    BY DEF TailAtRisk
  <2>3. sc.app => Len(Flat') > sc.data - RdBlksz
    BY <2>1, <2>2, <1>3
  <2> QED
    BY <2>3, <1>1, <1>2 DEF TailAtRisk
<1>5. CASE AppndStart
  <2>1. CASE k'.pc = "exit"
    <3>1. ~ Goto("member") /\ k \in RunType
      BY <2>1, TypeParts DEF TInv, Goto, RunType
    <3>2. UNCHANGED <<vols, dev>>
      BY <3>1, <1>5, AppendStep
    <3>3. Flat' = Flat
      BY <3>2, SameFlat
    <3> QED
      BY <3>3, <1>1, <1>2 DEF TailAtRisk
  <2>2. CASE k'.pc # "exit"
    <3>1. sc.app /\ sc.artyp # "PIPE" /\ Len(Flat') = AppPos
      <4>1. k \in RunType /\ ~ Quit(1)
        BY <2>2, TypeParts DEF TInv, Quit, RunType
      <4> QED
        BY <4>1, <1>5, <2>2, AppendStep, AppendFlat
    <3>2. /\ AppPos \in 0 .. sc.data /\ AppKeep \in 0 .. RdBlksz - 1 /\ AppPos + AppKeep = sc.data
      BY <1>3, <3>1, AppendsAt
    <3>3. AppPos > sc.data - RdBlksz
      BY <3>2, <1>3
    <3> QED
      BY <3>1, <3>3, <1>1, <1>2 DEF TailAtRisk
  <2> QED
    BY <2>1, <2>2
<1> QED
  BY <1>4, <1>5

-----------------------------------------------------------------------------
(* When the program is through and has had nothing to say, nothing that was
   put is left in the buffer only.                                          *)
Emptied ==
  /\ k.pc \in {"close", "exit"} /\ ~ k.broken /\ ~ k.warned
  /\ ~ Shrinks /\ ~ Grows /\ ~ dev.gone
  => b.pt = 0 \/ Len(Flat) >= k.put

LEMMA EmptiedStep ==
  ASSUME TInv, Control, Emptied, [Next]_vars
  PROVE  Emptied'
<1>0. k \in RunType /\ dev \in DevType
  BY TypeParts DEF TInv
<1>1. CASE UNCHANGED vars
  BY <1>1, SameFlat, SameScene DEF Emptied, vars
<1>2. CASE WrStart \/ AppndStart
  <2>1. Quit(1) \/ Goto("member")
    BY <1>2, AppendStep DEF WrStart
  <2>2. k'.broken \/ k'.pc = "member"
    BY <2>1, <1>0 DEF Quit, Goto, RunType
  <2> QED
    BY <2>2 DEF Emptied
<1>3. CASE NextMember
  <2>1. CASE k.m = Count /\ ~ k.wrone
    <3>1. k'.put = k.put /\ k'.broken = k.broken /\ k.pc = "member" /\ UNCHANGED <<sc, vols, dev, b>>
      BY <1>0, <1>3, <2>1 DEF NextMember, Trailer, Goto, RunType, Count, At
    <3>2. ~ k.broken => k.put = 0
      <4>1. ~ k.broken => k.put = Before(k.m) /\ ~ (k.m > 0) /\ ~ sc.app
        BY <2>1, <3>1 DEF Control, Place, Once
      <4>2. k.m \in Nat /\ (k.m > 0 \/ k.m = 0)
        BY RunFacts DEF TInv
      <4> QED
        BY <4>1, <4>2, BeforeFacts
    <3>3. Flat' = Flat /\ Len(Flat) \in Nat
      BY <3>1, SameFlat, FlatFacts
    <3>4. ~ k.broken => Len(Flat') >= k'.put
      BY <3>1, <3>2, <3>3
    <3> QED
      BY <3>1, <3>4 DEF Emptied
  <2>2. CASE ~ (k.m = Count /\ ~ k.wrone)
    <3>1. k'.pc = "put"
      BY <1>0, <1>3, <2>2 DEF NextMember, Trailer, Call, RunType, Count
    <3> QED
      BY <3>1 DEF Emptied
  <2> QED
    BY <2>1, <2>2
<1>4. CASE Return
  <2>1. k'.pc \in {"close", "exit"} => b'.pt = 0
    <3>1. k.pc = "put"
      BY <1>4, ReturnCases
    <3> QED
      BY <3>1, <1>0, <1>4, ReturnCases DEF Call, Goto, RunType
  <2> QED
    BY <2>1 DEF Emptied
<1>5. CASE Put \/ PutFlushed
  <2>1. k'.pc = "put"
    <3>1. CASE Shorter
      BY <3>1, <1>0 DEF Shorter, RunType
    <3>2. CASE ~ Shorter
      <4>1. PICK n \in 0 .. k.todo : Move(n)
        BY <1>5, <3>2, PutStep
      <4> QED
        BY <4>1, MoveParts
    <3> QED
      BY <3>1, <3>2
  <2> QED
    BY <2>1 DEF Emptied
<1>6. CASE PutFlush \/ Flush
  <2>1. k'.pc \in {"flush", "write", "next"}
    BY <1>0, <1>6 DEF PutFlush, Flush, Goto, RunType
  <2> QED
    BY <2>1 DEF Emptied
<1>7. CASE WriteFull
  <2>1. k.pc = "write" /\ Wrote(k) /\ sc' = sc
    BY <1>7 DEF WriteFull, At
  <2>2. ~ Shrinks => b'.pt = 0
    BY <2>1, WroteControl
  <2> QED
    BY <2>1, <2>2, SameScene DEF Emptied
<1>8. CASE WriteBroken
  <2>1. dev'.gone
    BY <1>0, <1>8 DEF WriteBroken, DevType
  <2> QED
    BY <2>1 DEF Emptied
<1>9. CASE WritePart
  <2>1. k'.warned = TRUE
    BY <1>9, PartWarns
  <2> QED
    BY <2>1 DEF Emptied
<1>10. CASE WriteNone
  <2>1. PICK res \in {-1, 0} :
          k' = [k EXCEPT !.pc = "next",
                  !.exit = IF dev.lstrval = 1 /\ (res < 0 \/ ~ dev.trail) THEN 1 ELSE @]
    BY <1>10 DEF WriteNone
  <2>2. k'.pc = "next"
    BY <1>0, <2>1 DEF RunType
  <2> QED
    BY <2>2 DEF Emptied
<1>11. CASE NextNone
  <2> DEFINE kk == [k EXCEPT !.exit = 1]
  <2>1. 1 \in 0 .. 1
    OBVIOUS
  <2>2. kk \in RunType /\ k' = Broken(kk) /\ sc \in Scenes
    BY <1>0, <1>11, <2>1 DEF RunType, NextNone, TInv
  <2> HIDE DEF kk
  <2>3. k'.broken = TRUE
    BY <2>2, BrokenTyped
  <2> QED
    BY <2>3 DEF Emptied
<1>12. CASE NextVolume
  <2>1. sc' = sc /\ (~ Shrinks /\ ~ Grows => k'.pc = "write")
    BY <1>12, NextParts, NextVolumeControl
  <2> QED
    BY <2>1, SameScene DEF Emptied
<1>13. CASE Close
  <2>1. /\ UNCHANGED <<sc, vols, b>> /\ dev'.off = dev.off /\ dev'.gone = dev.gone
        /\ k'.put = k.put /\ k'.broken = k.broken /\ k'.warned = k.warned /\ k.pc = "close"
    BY <1>0, <1>13 DEF Close, At, Goto, DevType, RunType
  <2> QED
    BY <2>1, SameFlat, SameScene DEF Emptied
<1> QED
  BY <1>1, <1>2, <1>3, <1>4, <1>5, <1>6, <1>7, <1>8, <1>9, <1>10, <1>11, <1>12, <1>13 DEF Next

-----------------------------------------------------------------------------
(* The four parts of ArchiveRight from all this. *)
LEMMA KeptInOrder ==
  ASSUME TInv, Kept
  PROVE  InOrder
<1>1. CASE dev.gone \/ Shrinks
  BY <1>1 DEF InOrder
<1>2. CASE ~ (dev.gone \/ Shrinks)
  <2> DEFINE L == Len(Flat)
             p == SubSeq(b.mem, 0 + 1, b.pt)
             S == 0 .. k.put
             s == Flat \o p
  <2>1. Written /\ Buffered /\ Enough
    BY <1>2 DEF Kept
  <2>2. /\ Flat \in Seq(S) /\ L \in Nat /\ b.pt \in Nat /\ k.put \in Nat /\ b.mem \in Seq(S)
        /\ 0 \in Nat /\ 0 <= b.pt /\ b.pt <= Len(b.mem) /\ b.pt - 0 = b.pt
    BY FlatFacts
  <2> HIDE DEF S
  <2>3. p \in Seq(S) /\ Len(p) = b.pt /\ \A h \in 1 .. b.pt : p[h] = b.mem[0 + h]
    BY <2>2, PartProp
  <2>4. s = Flat \o Held
    BY DEF Held, Part
  <2> HIDE DEF p
  <2>5. Flat \in Seq(S) /\ p \in Seq(S)
    BY <2>2, <2>3
  <2>6. /\ s \in Seq(S) /\ Len(s) = Len(Flat) + Len(p)
        /\ \A i \in 1 .. Len(Flat) + Len(p) :
             s[i] = IF i <= Len(Flat) THEN Flat[i] ELSE p[i - Len(Flat)]
    BY <2>5, ConcatProperties
  <2>7. DOMAIN s = 1 .. Len(s)
    BY <2>6, LenProperties
  <2> HIDE DEF s
  <2>8. ASSUME NEW i \in 1 .. L + b.pt PROVE s[i] = Unit(i)
    <3>1. CASE i <= L
      <4>1. i \in 1 .. L
        BY <3>1, <2>2
      <4> QED
        BY <4>1, <3>1, <2>1, <2>3, <2>6 DEF Written
    <3>2. CASE ~ (i <= L)
      <4> DEFINE j == i - L
      <4>1. j \in 1 .. b.pt /\ 0 + j = j /\ L + j = i
        BY <3>2, <2>2
      <4>2. s[i] = p[j]
        BY <3>2, <2>3, <2>6
      <4> HIDE DEF j
      <4>3. p[j] = b.mem[j] /\ b.mem[j] = Unit(L + j)
        BY <4>1, <2>1, <2>3 DEF Buffered
      <4> QED
        BY <4>1, <4>2, <4>3
    <3> QED
      BY <3>1, <3>2
  <2>9. Len(s) >= k.put /\ \A i \in DOMAIN s : s[i] = IF i <= k.put THEN i ELSE 0
    BY <2>1, <2>3, <2>6, <2>7, <2>8 DEF Enough, Unit
  <2> QED
    BY <2>4, <2>9 DEF InOrder
<1> QED
  BY <1>1, <1>2

LEMMA PlaceTold ==
  ASSUME TInv, Control, Emptied
  PROVE  Layout /\ Told
<1>1. Layout
  BY DEF Control, Place, Work, Layout
<1>2. ASSUME Done, ~ k.warned, ~ Shrinks, ~ Grows PROVE All
  <2>1. k.pc = "exit" /\ k.exit = 0 /\ ~ dev.gone
    BY <1>2 DEF Done
  <2>2. ~ k.broken
    BY <2>1, <1>2 DEF Control, Blamed
  <2>3. k.put = Before(Count) + (IF k.wrone THEN sc.tlen ELSE 0)
    BY <2>1, <2>2 DEF Control, Place
  <2>4. b.pt = 0 \/ Len(Flat) >= k.put
    BY <2>1, <2>2, <1>2 DEF Emptied
  <2> QED
    BY <2>3, <2>4 DEF All
<1> QED
  BY <1>1, <1>2 DEF Told

LEMMA InitTail ==
  ASSUME Init
  PROVE  TailAtRisk /\ Emptied
<1>1. sc \in Scenes /\ k.pc = "start"
  BY DEF Init
<1>2. /\ sc.data \in Nat /\ OldSize(sc) >= sc.data /\ RdBlksz \in 1 .. MAXBLK /\ MAXBLK \in Nat
      /\ OldSize(sc) \in Nat
  BY <1>1, SceneFacts, BlockSize, Constants DEF OldSize
<1>3. sc.app => Len(Flat) > sc.data - RdBlksz
  BY <1>2, InitFlat
<1> QED
  BY <1>1, <1>3 DEF TailAtRisk, Emptied

RInv == TInv /\ Control /\ Kept /\ TailAtRisk /\ Emptied

(* The archive is in order at every moment, each part of a member where its
   header says, whole when pax ends with status 0 and without a warning, and
   less than a block of the old members is ever in memory only.             *)
THEOREM ArchiveIsRight == Spec => []ArchiveRight
<1>1. Init => RInv
  BY InitTyped, InitControl, InitKept, InitTail DEF RInv
<1>2. RInv /\ [Next]_vars => RInv'
  BY TypedStep, ControlStep, KeptStep, TailStep, EmptiedStep DEF RInv
<1>3. RInv => ArchiveRight
  BY KeptInOrder, PlaceTold DEF RInv, ArchiveRight
<1> QED
  BY <1>1, <1>2, <1>3, PTL DEF Spec
=============================================================================
