---------------------------- MODULE PaxReadProofs ---------------------------
(***************************************************************************)
(* Reading an archive: no buffer is overrun; what is in the buffer and in  *)
(* hdbuf is what the archive holds before the place the device stands at,  *)
(* so that a file begins as its data does, and append() goes on only at    *)
(* the trailer.  For any archive, block sizes, flaws and volumes.          *)
(***************************************************************************)
EXTENDS PaxRead, SequenceTheorems, WellFoundedInduction, TLAPS

LEMMA LeastNumber ==
  ASSUME NEW T \in SUBSET Nat, T # {}
  PROVE  \E i \in T : \A j \in T : i <= j
<1>1. PICK i \in T : \A j \in T : ~ (<<j, i>> \in OpToRel(<, Nat))
  BY NatLessThanWellFounded, WFMin
<1>2. \A j \in T : ~ (j < i)
  BY <1>1 DEF OpToRel
<1> QED
  BY <1>2

LEMMA MinOfTwo ==
  ASSUME NEW x \in Int, NEW y \in Int
  PROVE  Min({x, y}) = IF x <= y THEN x ELSE y
  BY DEF Min

LEMMA MaxExists ==
  ASSUME NEW S, NEW n \in Nat, S \subseteq 0 .. n, S # {}
  PROVE  Max(S) \in S
<1> DEFINE T == {j \in Nat : \A x \in S : x <= j}
<1>1. T \in SUBSET Nat /\ n \in T
  OBVIOUS
<1>2. PICK j \in T : \A h0 \in T : j <= h0
  BY <1>1, LeastNumber
<1>3. \A x \in S : x \in Nat /\ x <= j
  BY <1>2
<1>4. j \in S
  <2> SUFFICES ASSUME j \notin S PROVE FALSE
    OBVIOUS
  <2>1. \A x \in S : x <= j - 1
    BY <1>3
  <2>2. j - 1 \in Nat
    <3>1. PICK x \in S : x \in Nat /\ x <= j - 1
      BY <1>3, <2>1
    <3> QED
      BY <3>1, <1>2
  <2>3. j - 1 \in T
    BY <2>1, <2>2
  <2> QED
    BY <1>2, <2>3
<1> QED
  BY <1>3, <1>4 DEF Max

LEMMA MinExists ==
  ASSUME NEW S \in SUBSET Nat, S # {}
  PROVE  Min(S) \in S /\ \A x \in S : Min(S) <= x
<1>1. PICK i \in S : \A j \in S : i <= j
  BY LeastNumber
<1> QED
  BY <1>1 DEF Min

LEMMA MadeSeq ==
  ASSUME NEW S, NEW n \in Nat, NEW f, f \in [1 .. n -> S]
  PROVE  f \in Seq(S) /\ Len(f) = n
  BY SeqDef

(* Two sequences, one after the other. *)
LEMMA TwoParts ==
  ASSUME NEW S, NEW p \in Seq(S), NEW q \in Seq(S)
  PROVE  /\ p \o q \in Seq(S) /\ Len(p \o q) = Len(p) + Len(q)
         /\ \A i \in 1 .. Len(p) + Len(q) : (p \o q)[i] = IF i <= Len(p) THEN p[i] ELSE q[i - Len(p)]
  BY ConcatProperties

(* Four sequences, one after the other. *)
LEMMA FourParts ==
  ASSUME NEW S, NEW p \in Seq(S), NEW q \in Seq(S), NEW r \in Seq(S), NEW t \in Seq(S),
         NEW w, w = p \o q \o r \o t
  PROVE  /\ w \in Seq(S)
         /\ Len(w) = Len(p) + Len(q) + Len(r) + Len(t)
         /\ \A i \in 1 .. Len(p) : w[i] = p[i]
         /\ \A i \in 1 .. Len(q) : w[Len(p) + i] = q[i]
         /\ \A i \in 1 .. Len(r) : w[Len(p) + Len(q) + i] = r[i]
         /\ \A i \in 1 .. Len(t) : w[Len(p) + Len(q) + Len(r) + i] = t[i]
<1> DEFINE x == p \o q
           y == x \o r
           z == y \o t
<1>0. Len(p) \in Nat /\ Len(q) \in Nat /\ Len(r) \in Nat /\ Len(t) \in Nat
  OBVIOUS
<1>1. /\ x \in Seq(S) /\ Len(x) = Len(p) + Len(q)
      /\ \A i \in 1 .. Len(p) + Len(q) : x[i] = IF i <= Len(p) THEN p[i] ELSE q[i - Len(p)]
  BY TwoParts
<1> HIDE DEF x
<1>2. /\ y \in Seq(S) /\ Len(y) = Len(x) + Len(r)
      /\ \A i \in 1 .. Len(x) + Len(r) : y[i] = IF i <= Len(x) THEN x[i] ELSE r[i - Len(x)]
  BY <1>1, TwoParts
<1> HIDE DEF y
<1>3. /\ z \in Seq(S) /\ Len(z) = Len(y) + Len(t)
      /\ \A i \in 1 .. Len(y) + Len(t) : z[i] = IF i <= Len(y) THEN y[i] ELSE t[i - Len(y)]
  <2>1. y \in Seq(S)
    BY <1>2
  <2> QED
    BY ONLY <2>1, t \in Seq(S), TwoParts
<1> HIDE DEF z
<1>4. Len(z) = Len(p) + Len(q) + Len(r) + Len(t)
  BY <1>0, <1>1, <1>2, <1>3
<1>5. ASSUME NEW i \in 1 .. Len(p) PROVE z[i] = p[i]
  <2>1. i \in 1 .. Len(p) + Len(q) /\ i <= Len(p) /\ i \in 1 .. Len(x) + Len(r) /\ i <= Len(x)
        /\ i \in 1 .. Len(y) + Len(t) /\ i <= Len(y)
    BY <1>0, <1>1, <1>2, <1>3
  <2> QED
    BY <2>1, <1>1, <1>2, <1>3
<1>6. ASSUME NEW i \in 1 .. Len(q) PROVE z[Len(p) + i] = q[i]
  <2>1. /\ Len(p) + i \in 1 .. Len(p) + Len(q) /\ ~ Len(p) + i <= Len(p)
        /\ Len(p) + i - Len(p) = i
        /\ Len(p) + i \in 1 .. Len(x) + Len(r) /\ Len(p) + i <= Len(x)
        /\ Len(p) + i \in 1 .. Len(y) + Len(t) /\ Len(p) + i <= Len(y)
    BY <1>0, <1>1, <1>2, <1>3
  <2> QED
    BY <2>1, <1>1, <1>2, <1>3
<1>7. ASSUME NEW i \in 1 .. Len(r) PROVE z[Len(p) + Len(q) + i] = r[i]
  <2> DEFINE j == Len(p) + Len(q) + i
  <2>1. /\ j \in 1 .. Len(x) + Len(r) /\ ~ j <= Len(x) /\ j - Len(x) = i
        /\ j \in 1 .. Len(y) + Len(t) /\ j <= Len(y)
    BY <1>0, <1>1, <1>2, <1>3
  <2> QED
    BY <2>1, <1>1, <1>2, <1>3
<1>8. ASSUME NEW i \in 1 .. Len(t) PROVE z[Len(p) + Len(q) + Len(r) + i] = t[i]
  <2> DEFINE j == Len(p) + Len(q) + Len(r) + i
  <2>1. j \in 1 .. Len(y) + Len(t) /\ ~ j <= Len(y) /\ j - Len(y) = i
    BY <1>0, <1>1, <1>2, <1>3
  <2> QED
    BY <2>1, <1>3
<1> QED
  BY <1>3, <1>4, <1>5, <1>6, <1>7, <1>8 DEF z, y, x

-----------------------------------------------------------------------------
(* The scene and what the assumption says of it. *)
Cells == [t : {"H", "D", "Z", "X"}, m : Nat, n : Nat]
N == Len(sc.members)
Fits(m) == sc.members[m]

LEMMA Constants ==
  /\ BLKMULT \in Nat \ {0} /\ NULLCNT \in Nat \ {0} /\ MAXBLK \in Nat \ {0}
  /\ FILEBLK \in Nat \ {0} /\ DEVBLK \in Nat \ {0} /\ FSBLK \in Nat \ {0}
  /\ TLen \in Nat /\ TLen = NULLCNT * BLKMULT
<1>1. BLKMULT \in Nat /\ NULLCNT \in Nat
  BY PaxReadAssumption
<1>2. NULLCNT * BLKMULT \in Nat
  BY <1>1
<1> QED
  BY <1>2, PaxReadAssumption DEF TLen

LEMMA SceneFacts ==
  ASSUME sc \in Scenes
  PROVE  /\ sc.act \in {"list", "extract", "append"} /\ sc.single \in BOOLEAN
         /\ sc.maxflt \in {-1} \cup Nat /\ sc.artyp \in {"REG", "PIPE", "CHR"}
         /\ N \in Nat /\ DOMAIN sc.members = 1 .. N
         /\ \A m \in 1 .. N : /\ Fits(m).kind \in {"file", "node"}
                              /\ Fits(m).like \in {"plain", "head", "zeros"}
                              /\ Fits(m).skip \in Nat /\ Fits(m).pad \in Nat
         /\ sc.rest \in Nat /\ sc.len \in Nat /\ sc.len <= Len(Archive(sc))
         /\ sc.split \in Nat /\ sc.split <= sc.len
         /\ sc.dam \subseteq 1 .. sc.len /\ sc.bad \subseteq 1 .. sc.len
         /\ sc.len \in 0 .. Len(Archive(sc)) /\ sc.split \in 0 .. sc.len
<1>1. SceneOK(sc)
  BY PaxReadAssumption
<1> DEFINE T == [kind : {"file", "node"}, like : {"plain", "head", "zeros"},
                 skip : Nat, pad : Nat]
<1>2. sc.members \in Seq(T)
  BY <1>1 DEF SceneOK
<1> HIDE DEF T
<1>3. N \in Nat /\ DOMAIN sc.members = 1 .. N
  BY <1>2 DEF N
<1>4. \A m \in 1 .. N : Fits(m) \in T
  BY <1>2, <1>3 DEF N, Fits
<1> USE DEF T
<1> QED
  BY <1>1, <1>3, <1>4 DEF SceneOK

-----------------------------------------------------------------------------
(* What the archive is made of, from its members.  UpTo is a recursive
   function: that there is one is shown by the least number of members for
   which there were none.                                                   *)
Onto(s, m) == Header(m) \o Body(m, s.members[m]) \o Zeros(s.members[m].pad)
Ups(s, n, f) ==
  f = [m \in 0 .. n |-> IF m = 0 THEN <<>>
                        ELSE f[m - 1] \o Header(m) \o Body(m, s.members[m])
                               \o Zeros(s.members[m].pad)]

LEMMA UpsExists ==
  ASSUME NEW s, NEW n \in Nat
  PROVE  \E f : Ups(s, n, f)
<1> DEFINE T == {m \in Nat : ~ \E f : Ups(s, m, f)}
<1>1. SUFFICES ASSUME T # {} PROVE FALSE
  OBVIOUS
<1>2. PICK n0 \in T : \A j \in T : n0 <= j
  BY <1>1, LeastNumber
<1>3. n0 \in Nat /\ ~ \E f : Ups(s, n0, f)
  BY <1>2
<1> DEFINE e(g, m) == IF m = 0 THEN <<>>
                      ELSE g[m - 1] \o Header(m) \o Body(m, s.members[m])
                             \o Zeros(s.members[m].pad)
<1>4. CASE n0 = 0
  <2> DEFINE f == [m \in 0 .. 0 |-> <<>>]
  <2>1. f = [m \in 0 .. 0 |-> e(f, m)]
    OBVIOUS
  <2> QED
    BY <2>1, <1>3, <1>4 DEF Ups
<1>5. CASE n0 > 0
  <2>1. n0 - 1 \in Nat /\ n0 - 1 \notin T
    BY <1>2, <1>3, <1>5
  <2>2. PICK f : Ups(s, n0 - 1, f)
    BY <2>1
  <2>3. \A m \in 0 .. n0 - 1 : f[m] = e(f, m)
    BY <2>2 DEF Ups
  <2> HIDE DEF e
  <2> DEFINE g == [m \in 0 .. n0 |-> IF m = n0 THEN e(f, m) ELSE f[m]]
             x == [m \in 0 .. n0 |-> e(g, m)]
  <2>4. ASSUME NEW m \in 0 .. n0 PROVE e(g, m) = e(f, m)
    <3>1. CASE m = 0
      BY <3>1 DEF e
    <3>2. CASE m # 0
      <4>1. m - 1 \in 0 .. n0 /\ m - 1 # n0
        BY <3>2, <1>3
      <4>2. g[m - 1] = f[m - 1]
        BY <4>1
      <4> HIDE DEF g
      <4> QED
        BY <4>2, <3>2 DEF e
    <3> QED
      BY <3>1, <3>2
  <2>5. ASSUME NEW m \in 0 .. n0 PROVE g[m] = e(f, m)
    <3>1. CASE m = n0
      BY <3>1
    <3>2. CASE m # n0
      <4>1. m \in 0 .. n0 - 1
        BY <3>2, <1>3
      <4> QED
        BY <4>1, <3>2, <2>3
    <3> QED
      BY <3>1, <3>2
  <2>6. g = x
    BY <2>4, <2>5
  <2>7. Ups(s, n0, g)
    BY <2>6 DEF Ups, e
  <2> QED
    BY <2>7, <1>3
<1> QED
  BY <1>3, <1>4, <1>5

LEMMA UpToUnfold ==
  ASSUME NEW s, Len(s.members) \in Nat
  PROVE  /\ UpTo(s)[0] = <<>>
         /\ \A m \in 1 .. Len(s.members) :
              UpTo(s)[m] = UpTo(s)[m - 1] \o Header(m) \o Body(m, s.members[m])
                             \o Zeros(s.members[m].pad)
<1> DEFINE c == CHOOSE f : Ups(s, Len(s.members), f)
<1>1. Ups(s, Len(s.members), c)
  BY UpsExists
<1>2. UpTo(s) = c
  BY DEF UpTo, Ups
<1> HIDE DEF c
<1>3. 0 \in 0 .. Len(s.members) /\ \A m \in 1 .. Len(s.members) : m \in 0 .. Len(s.members) /\ m # 0
  OBVIOUS
<1> QED
  BY <1>1, <1>2, <1>3 DEF Ups

LEMMA PieceTypes ==
  ASSUME sc \in Scenes, NEW m \in 1 .. N
  PROVE  /\ Header(m) \in Seq(Cells) /\ Len(Header(m)) = BLKMULT
         /\ \A i \in 1 .. BLKMULT : Header(m)[i] = Unit("H", m, i)
         /\ Body(m, Fits(m)) \in Seq(Cells) /\ Len(Body(m, Fits(m))) = Fits(m).skip
         /\ Zeros(Fits(m).pad) \in Seq(Cells) /\ Len(Zeros(Fits(m).pad)) = Fits(m).pad
         /\ \A i \in 1 .. Fits(m).pad : Zeros(Fits(m).pad)[i] = Zero
<1>1. m \in Nat /\ Fits(m).skip \in Nat /\ Fits(m).pad \in Nat /\ BLKMULT \in Nat
  BY SceneFacts, Constants
<1>2. \A n \in 1 .. BLKMULT : Unit("H", m, n) \in Cells
  BY <1>1 DEF Unit, Cells
<1>3. Zero \in Cells
  BY DEF Zero, Unit, Cells
<1>4. Header(m) \in [1 .. BLKMULT -> Cells]
  BY <1>2 DEF Header
<1>5. Zeros(Fits(m).pad) \in [1 .. Fits(m).pad -> Cells]
  BY <1>3 DEF Zeros
<1>6. Body(m, Fits(m)) \in [1 .. Fits(m).skip -> Cells]
  <2> DEFINE e(n) == IF Fits(m).like = "zeros" THEN Zero
                     ELSE IF Fits(m).like = "head" THEN Header(1)[((n - 1) % BLKMULT) + 1]
                     ELSE Unit("D", m, n)
  <2>1. ASSUME NEW n \in 1 .. Fits(m).skip PROVE e(n) \in Cells
    <3>1. ((n - 1) % BLKMULT) + 1 \in 1 .. BLKMULT
      <4>1. n - 1 \in Nat /\ BLKMULT \in Nat \ {0}
        BY <1>1, Constants
      <4>2. (n - 1) % BLKMULT \in 0 .. BLKMULT - 1
        BY <4>1
      <4> QED
        BY <4>2, <1>1
    <3>2. \A i \in 1 .. BLKMULT : Header(1)[i] = Unit("H", 1, i) /\ Unit("H", 1, i) \in Cells
      BY <1>1 DEF Header, Unit, Cells
    <3>3. Unit("D", m, n) \in Cells
      BY <1>1 DEF Unit, Cells
    <3> QED
      BY <3>1, <3>2, <3>3, <1>3
  <2>2. Body(m, Fits(m)) = [n \in 1 .. Fits(m).skip |-> e(n)]
    BY DEF Body
  <2> QED
    BY <2>1, <2>2
<1>7. /\ Header(m) \in Seq(Cells) /\ Len(Header(m)) = BLKMULT
  BY <1>1, <1>4, MadeSeq
<1>8. Body(m, Fits(m)) \in Seq(Cells) /\ Len(Body(m, Fits(m))) = Fits(m).skip
  BY <1>1, <1>6, MadeSeq
<1>9. Zeros(Fits(m).pad) \in Seq(Cells) /\ Len(Zeros(Fits(m).pad)) = Fits(m).pad
  BY <1>1, <1>5, MadeSeq
<1> QED
  BY <1>7, <1>8, <1>9 DEF Header, Zeros

(* The units up to member m, in sequence. *)
U(m) == UpTo(sc)[m]

LEMMA UpToStep ==
  ASSUME sc \in Scenes, NEW m \in 1 .. N, U(m - 1) \in Seq(Cells)
  PROVE  /\ U(m) \in Seq(Cells)
         /\ Len(U(m)) = Len(U(m - 1)) + BLKMULT + Fits(m).skip + Fits(m).pad
         /\ \A i \in 1 .. Len(U(m - 1)) : U(m)[i] = U(m - 1)[i]
         /\ \A i \in 1 .. BLKMULT : U(m)[Len(U(m - 1)) + i] = Unit("H", m, i)
         /\ \A i \in 1 .. Fits(m).skip :
              U(m)[Len(U(m - 1)) + BLKMULT + i] = Body(m, Fits(m))[i]
         /\ \A i \in 1 .. Fits(m).pad :
              U(m)[Len(U(m - 1)) + BLKMULT + Fits(m).skip + i] = Zero
<1>1. Len(sc.members) \in Nat /\ m \in 1 .. Len(sc.members)
  BY SceneFacts DEF N
<1>2. UpTo(sc)[m] = UpTo(sc)[m - 1] \o Header(m) \o Body(m, sc.members[m])
                             \o Zeros(sc.members[m].pad)
  BY <1>1, UpToUnfold
<1> DEFINE p == U(m - 1)
           q == Header(m)
           r == Body(m, Fits(m))
           t == Zeros(Fits(m).pad)
<1>3. U(m) = p \o q \o r \o t
  BY <1>2 DEF U, Fits
<1>4. /\ q \in Seq(Cells) /\ Len(q) = BLKMULT /\ (\A i \in 1 .. BLKMULT : q[i] = Unit("H", m, i))
      /\ r \in Seq(Cells) /\ Len(r) = Fits(m).skip
      /\ t \in Seq(Cells) /\ Len(t) = Fits(m).pad /\ (\A i \in 1 .. Fits(m).pad : t[i] = Zero)
  BY PieceTypes
<1>5. p \in Seq(Cells)
  OBVIOUS
<1> HIDE DEF p, q, r, t
<1>9. q \in Seq(Cells) /\ r \in Seq(Cells) /\ t \in Seq(Cells)
  BY <1>4
<1> DEFINE w == U(m)
<1>6. w = p \o q \o r \o t
  BY <1>3
<1> HIDE DEF w
<1>7. /\ w \in Seq(Cells)
      /\ Len(w) = Len(p) + Len(q) + Len(r) + Len(t)
      /\ \A i \in 1 .. Len(p) : w[i] = p[i]
      /\ \A i \in 1 .. Len(q) : w[Len(p) + i] = q[i]
      /\ \A i \in 1 .. Len(r) : w[Len(p) + Len(q) + i] = r[i]
      /\ \A i \in 1 .. Len(t) : w[Len(p) + Len(q) + Len(r) + i] = t[i]
  BY ONLY <1>5, <1>6, <1>9, FourParts
<1>8. /\ w \in Seq(Cells)
      /\ Len(w) = Len(p) + BLKMULT + Fits(m).skip + Fits(m).pad
      /\ \A i \in 1 .. Len(p) : w[i] = p[i]
      /\ \A i \in 1 .. BLKMULT : w[Len(p) + i] = Unit("H", m, i)
      /\ \A i \in 1 .. Fits(m).skip : w[Len(p) + BLKMULT + i] = r[i]
      /\ \A i \in 1 .. Fits(m).pad : w[Len(p) + BLKMULT + Fits(m).skip + i] = Zero
  BY <1>4, <1>7
<1> QED
  BY <1>8 DEF p, r, w

LEMMA UpToType ==
  ASSUME sc \in Scenes
  PROVE  \A m \in 0 .. N : U(m) \in Seq(Cells) /\ Len(U(m)) \in Nat
<1> DEFINE T == {m \in 0 .. N : U(m) \notin Seq(Cells)}
<1>0. N \in Nat
  BY SceneFacts
<1>1. SUFFICES ASSUME T # {} PROVE FALSE
  OBVIOUS
<1>2. T \in SUBSET Nat
  BY <1>0
<1>3. PICK m \in T : \A j \in T : m <= j
  BY <1>1, <1>2, LeastNumber
<1>4. CASE m = 0
  <2>1. U(0) = <<>>
    BY <1>0, UpToUnfold DEF U, N
  <2>2. <<>> \in Seq(Cells)
    OBVIOUS
  <2> QED
    BY <1>3, <1>4, <2>1, <2>2
<1>5. CASE m # 0
  <2>1. m \in 1 .. N /\ m - 1 \in 0 .. N /\ m - 1 \notin T
    BY <1>0, <1>3, <1>5
  <2> QED
    BY <2>1, <1>3, UpToStep
<1> QED
  BY <1>4, <1>5

(* What is up to a member is the beginning of what is up to a later one. *)
LEMMA UpToMore ==
  ASSUME sc \in Scenes, NEW m \in 0 .. N, NEW n \in 0 .. N, m <= n
  PROVE  Len(U(m)) <= Len(U(n)) /\ \A i \in 1 .. Len(U(m)) : U(n)[i] = U(m)[i]
<1> DEFINE Ok(x) == Len(U(m)) <= Len(U(x)) /\ \A i \in 1 .. Len(U(m)) : U(x)[i] = U(m)[i]
           T == {x \in m .. N : ~ Ok(x)}
<1>0. N \in Nat
  BY SceneFacts
<1>1. SUFFICES ASSUME T # {} PROVE FALSE
  BY <1>0
<1>2. T \in SUBSET Nat
  BY <1>0
<1>3. PICK x \in T : \A j \in T : x <= j
  BY <1>1, <1>2, LeastNumber
<1>4. CASE x = m
  <2>1. Len(U(m)) \in Nat
    BY UpToType
  <2> QED
    BY <2>1, <1>3, <1>4
<1>5. CASE x # m
  <2>1. x \in 1 .. N /\ x - 1 \in m .. N /\ x - 1 \in 0 .. N /\ m \in 0 .. N
    BY <1>0, <1>3, <1>5
  <2>2. x - 1 \notin T
    BY <2>1, <1>3
  <2>3. Ok(x - 1)
    BY <2>1, <2>2
  <2>4. U(x - 1) \in Seq(Cells) /\ Len(U(x - 1)) \in Nat /\ Len(U(m)) \in Nat
    BY <2>1, UpToType
  <2>5. /\ Len(U(x)) = Len(U(x - 1)) + BLKMULT + Fits(x).skip + Fits(x).pad
        /\ \A i \in 1 .. Len(U(x - 1)) : U(x)[i] = U(x - 1)[i]
    BY <2>1, <2>4, UpToStep
  <2>6. BLKMULT \in Nat /\ Fits(x).skip \in Nat /\ Fits(x).pad \in Nat
    BY <2>1, SceneFacts, Constants
  <2>7. Len(U(x - 1)) <= Len(U(x))
    BY <2>4, <2>5, <2>6
  <2>8. Ok(x)
    <3>1. Len(U(m)) <= Len(U(x))
      BY <2>3, <2>4, <2>5, <2>6
    <3>2. \A i \in 1 .. Len(U(m)) : i \in 1 .. Len(U(x - 1))
      BY <2>3, <2>4
    <3> QED
      BY <3>1, <3>2, <2>3, <2>5
  <2> QED
    BY <2>8, <1>3
<1> QED
  BY <1>4, <1>5

-----------------------------------------------------------------------------
(* Where things are in the archive. *)
A == Archive(sc)

LEMMA ArchiveProp ==
  ASSUME sc \in Scenes
  PROVE  /\ A \in Seq(Cells) /\ Len(A) \in Nat /\ Len(U(N)) \in Nat
         /\ Len(A) = Len(U(N)) + TLen + sc.rest
         /\ \A i \in 1 .. Len(U(N)) : A[i] = U(N)[i]
         /\ \A i \in 1 .. Len(A) : i > Len(U(N)) => A[i] = Zero
<1> DEFINE z == Zeros(TLen + sc.rest)
           u == U(N)
<1>1. TLen + sc.rest \in Nat /\ N \in Nat
  <2>1. TLen \in Nat
    BY Constants
  <2>2. sc.rest \in Nat /\ N \in Nat
    BY SceneFacts
  <2> QED
    BY <2>1, <2>2
<1>2. u \in Seq(Cells) /\ Len(u) \in Nat
  BY <1>1, UpToType
<1>3. Zero \in Cells
  BY DEF Zero, Unit, Cells
<1>4. z \in Seq(Cells) /\ Len(z) = TLen + sc.rest
  <2>1. z \in [1 .. TLen + sc.rest -> Cells]
    BY <1>3 DEF Zeros
  <2> QED
    BY <1>1, <2>1, MadeSeq
<1>5. \A i \in 1 .. TLen + sc.rest : z[i] = Zero
  BY DEF Zeros
<1>6. A = u \o z
  BY DEF A, Archive, U, N
<1> HIDE DEF u, z
<1>7. /\ u \o z \in Seq(Cells) /\ Len(u \o z) = Len(u) + Len(z)
      /\ \A i \in 1 .. Len(u) + Len(z) : (u \o z)[i] = IF i <= Len(u) THEN u[i] ELSE z[i - Len(u)]
  BY ONLY <1>2, <1>4, TwoParts
<1> DEFINE w == A
<1>8. /\ w \in Seq(Cells) /\ Len(w) = Len(u) + Len(z)
      /\ \A i \in 1 .. Len(u) + Len(z) : w[i] = IF i <= Len(u) THEN u[i] ELSE z[i - Len(u)]
  BY <1>6, <1>7
<1> HIDE DEF w
<1>9. Len(w) = Len(u) + TLen + sc.rest /\ Len(w) \in Nat
  BY <1>1, <1>2, <1>4, <1>8, SceneFacts, Constants
<1>10. ASSUME NEW i \in 1 .. Len(u) PROVE w[i] = u[i]
  <2>1. i \in 1 .. Len(u) + Len(z) /\ i <= Len(u)
    BY <1>1, <1>2, <1>4
  <2> QED
    BY <2>1, <1>8
<1>11. ASSUME NEW i \in 1 .. Len(w), i > Len(u) PROVE w[i] = Zero
  <2>1. i \in 1 .. Len(u) + Len(z) /\ ~ i <= Len(u)
    BY <1>2, <1>8, <1>11
  <2>2. i - Len(u) \in 1 .. TLen + sc.rest
    BY <2>1, <1>1, <1>2, <1>4
  <2> QED
    BY <2>1, <2>2, <1>5, <1>8
<1> QED
  BY <1>2, <1>8, <1>9, <1>10, <1>11 DEF w, u

LEMMA UnitsProp ==
  ASSUME sc \in Scenes
  PROVE  /\ Units \in Seq(Cells) /\ Len(Units) = sc.len /\ sc.len \in Nat
         /\ \A i \in 1 .. sc.len :
              i \in 1 .. Len(A) /\ Units[i] = IF i \in sc.dam THEN Unit("X", 0, 0) ELSE A[i]
<1>1. sc.len \in Nat /\ Len(A) \in Nat /\ sc.len <= Len(A)
  BY SceneFacts, ArchiveProp DEF A
<1>2. \A i \in 1 .. sc.len : i \in 1 .. Len(A)
  BY <1>1
<1>3. \A i \in 1 .. Len(A) : A[i] \in Cells
  BY ArchiveProp
<1>4. Unit("X", 0, 0) \in Cells
  BY DEF Unit, Cells
<1>5. Units = [i \in 1 .. sc.len |-> IF i \in sc.dam THEN Unit("X", 0, 0) ELSE A[i]]
  BY DEF Units, A
<1>6. Units \in [1 .. sc.len -> Cells]
  BY <1>2, <1>3, <1>4, <1>5
<1>7. Units \in Seq(Cells) /\ Len(Units) = sc.len
  BY <1>1, <1>6, MadeSeq
<1> QED
  BY <1>1, <1>2, <1>5, <1>7

LEMMA PlaceProp ==
  ASSUME sc \in Scenes
  PROVE  /\ \A m \in 1 .. N + 1 : Place(m) \in Nat \ {0} /\ Place(m) = 1 + Len(U(m - 1))
         /\ Place(1) = 1 /\ Trail = 1 + Len(U(N)) /\ Trail = Place(N + 1)
<1>1. N \in Nat
  BY SceneFacts
<1>2. ASSUME NEW m \in 1 .. N + 1 PROVE Place(m) \in Nat \ {0} /\ Place(m) = 1 + Len(U(m - 1))
  <2>1. m - 1 \in 0 .. N
    BY <1>1
  <2>2. Len(U(m - 1)) \in Nat
    BY <2>1, UpToType
  <2> QED
    BY <2>2 DEF Place, U
<1>3. Place(1) = 1
  <2>1. U(0) = <<>>
    BY <1>1, UpToUnfold DEF U, N
  <2>2. 1 \in 1 .. N + 1 /\ 1 - 1 = 0 /\ Len(<<>>) = 0
    BY <1>1
  <2> QED
    BY <1>2, <2>1, <2>2
<1>4. Trail = Place(N + 1) /\ N + 1 \in 1 .. N + 1 /\ (N + 1) - 1 = N
  BY <1>1 DEF Trail, N
<1> QED
  BY <1>2, <1>3, <1>4

LEMMA MemberUnits ==
  ASSUME sc \in Scenes, NEW m \in 1 .. N
  PROVE  /\ Place(m + 1) = Place(m) + BLKMULT + Fits(m).skip + Fits(m).pad
         /\ \A i \in 1 .. BLKMULT : A[Place(m) - 1 + i] = Unit("H", m, i)
         /\ \A i \in 1 .. Fits(m).skip : A[Place(m) - 1 + BLKMULT + i] = Body(m, Fits(m))[i]
<1>1. N \in Nat /\ m - 1 \in 0 .. N /\ m \in 0 .. N /\ N \in 0 .. N /\ m <= N
      /\ m \in 1 .. N + 1 /\ m + 1 \in 1 .. N + 1 /\ (m + 1) - 1 = m
  BY SceneFacts
<1> DEFINE p == Len(U(m - 1))
<1>2. U(m - 1) \in Seq(Cells) /\ p \in Nat /\ Len(U(m)) \in Nat /\ Len(U(N)) \in Nat
  BY <1>1, UpToType
<1>3. /\ Len(U(m)) = p + BLKMULT + Fits(m).skip + Fits(m).pad
      /\ \A i \in 1 .. BLKMULT : U(m)[p + i] = Unit("H", m, i)
      /\ \A i \in 1 .. Fits(m).skip : U(m)[p + BLKMULT + i] = Body(m, Fits(m))[i]
  BY <1>2, UpToStep
<1>4. Place(m) = 1 + p /\ Place(m + 1) = 1 + Len(U(m))
  BY <1>1, PlaceProp
<1>5. BLKMULT \in Nat /\ Fits(m).skip \in Nat /\ Fits(m).pad \in Nat
  BY SceneFacts, Constants
<1>6. Len(U(m)) <= Len(U(N)) /\ \A i \in 1 .. Len(U(m)) : U(N)[i] = U(m)[i]
  BY <1>1, UpToMore
<1>7. \A i \in 1 .. Len(U(m)) : A[i] = U(m)[i]
  <2>1. \A i \in 1 .. Len(U(m)) : i \in 1 .. Len(U(N))
    BY <1>2, <1>6
  <2> QED
    BY <2>1, <1>6, ArchiveProp
<1> HIDE DEF p
<1>8. ASSUME NEW i \in 1 .. BLKMULT PROVE A[Place(m) - 1 + i] = Unit("H", m, i)
  <2>1. p + i \in 1 .. Len(U(m)) /\ Place(m) - 1 + i = p + i
    BY <1>2, <1>3, <1>4, <1>5
  <2> QED
    BY <2>1, <1>3, <1>7
<1>9. ASSUME NEW i \in 1 .. Fits(m).skip
      PROVE  A[Place(m) - 1 + BLKMULT + i] = Body(m, Fits(m))[i]
  <2>1. p + BLKMULT + i \in 1 .. Len(U(m)) /\ Place(m) - 1 + BLKMULT + i = p + BLKMULT + i
    BY <1>2, <1>3, <1>4, <1>5
  <2> QED
    BY <2>1, <1>3, <1>7
<1>10. Place(m + 1) = Place(m) + BLKMULT + Fits(m).skip + Fits(m).pad
  BY <1>2, <1>3, <1>4, <1>5
<1> QED
  BY <1>8, <1>9, <1>10

(* When no data looks like a header, only headers do. *)
LEMMA BodyNoHead ==
  ASSUME sc \in Scenes, NoneLikeHead, NEW m \in 1 .. N, NEW i \in 1 .. Fits(m).skip
  PROVE  Body(m, Fits(m))[i].t # "H"
<1>1. Fits(m).like # "head"
  BY SceneFacts DEF NoneLikeHead, Fits
<1>2. Body(m, Fits(m))[i] = IF Fits(m).like = "zeros" THEN Zero ELSE Unit("D", m, i)
  BY <1>1 DEF Body
<1> QED
  BY <1>2 DEF Zero, Unit

HeadAt(m, j) == \E q \in 1 .. m : \E n \in 1 .. BLKMULT :
                  U(m)[j] = Unit("H", q, n) /\ j = Len(U(q - 1)) + n
HeadsIn(m) == \A j \in 1 .. Len(U(m)) : U(m)[j].t = "H" => HeadAt(m, j)

LEMMA HeadsStep ==
  ASSUME sc \in Scenes, NoneLikeHead, NEW m \in 1 .. N, HeadsIn(m - 1)
  PROVE  HeadsIn(m)
<1>1. N \in Nat /\ m - 1 \in 0 .. N /\ m \in 0 .. N
  BY SceneFacts
<1> DEFINE p == Len(U(m - 1))
<1>2. U(m - 1) \in Seq(Cells) /\ p \in Nat
  BY <1>1, UpToType
<1>3. /\ Len(U(m)) = p + BLKMULT + Fits(m).skip + Fits(m).pad
      /\ \A i \in 1 .. p : U(m)[i] = U(m - 1)[i]
      /\ \A i \in 1 .. BLKMULT : U(m)[p + i] = Unit("H", m, i)
      /\ \A i \in 1 .. Fits(m).skip : U(m)[p + BLKMULT + i] = Body(m, Fits(m))[i]
      /\ \A i \in 1 .. Fits(m).pad : U(m)[p + BLKMULT + Fits(m).skip + i] = Zero
  BY <1>2, UpToStep
<1>4. BLKMULT \in Nat /\ Fits(m).skip \in Nat /\ Fits(m).pad \in Nat
  BY SceneFacts, Constants
<1>5. SUFFICES ASSUME NEW j \in 1 .. Len(U(m)), U(m)[j].t = "H" PROVE HeadAt(m, j)
  BY DEF HeadsIn
<1> HIDE DEF p
<1>6. CASE j <= p
  <2>1. j \in 1 .. p
    BY <1>2, <1>6
  <2>2. U(m)[j] = U(m - 1)[j] /\ HeadAt(m - 1, j)
    BY <2>1, <1>3, <1>5 DEF HeadsIn, p
  <2>3. \A q \in 1 .. m - 1 : q \in 1 .. m
    BY <1>1
  <2> QED
    BY <2>2, <2>3 DEF HeadAt
<1>7. CASE j > p /\ j <= p + BLKMULT
  <2>1. j - p \in 1 .. BLKMULT /\ p + (j - p) = j /\ m \in 1 .. m
    BY <1>1, <1>2, <1>4, <1>7
  <2>2. U(m)[j] = Unit("H", m, j - p)
    BY <2>1, <1>3
  <2> QED
    BY <2>1, <2>2 DEF HeadAt, p
<1>8. CASE j > p + BLKMULT /\ j <= p + BLKMULT + Fits(m).skip
  <2> DEFINE i == j - (p + BLKMULT)
  <2>1. i \in 1 .. Fits(m).skip /\ p + BLKMULT + i = j
    BY <1>2, <1>4, <1>8
  <2>2. U(m)[j] = Body(m, Fits(m))[i]
    BY <2>1, <1>3
  <2> QED
    BY <2>1, <2>2, <1>5, BodyNoHead
<1>9. CASE j > p + BLKMULT + Fits(m).skip
  <2> DEFINE i == j - (p + BLKMULT + Fits(m).skip)
  <2>1. i \in 1 .. Fits(m).pad /\ p + BLKMULT + Fits(m).skip + i = j
    BY <1>2, <1>3, <1>4, <1>9
  <2>2. U(m)[j] = Zero
    BY <2>1, <1>3
  <2> QED
    BY <2>2, <1>5 DEF Zero, Unit
<1>10. j <= p \/ (j > p /\ j <= p + BLKMULT)
       \/ (j > p + BLKMULT /\ j <= p + BLKMULT + Fits(m).skip) \/ j > p + BLKMULT + Fits(m).skip
  BY <1>2, <1>4
<1> QED
  BY <1>6, <1>7, <1>8, <1>9, <1>10

LEMMA HeadsAll ==
  ASSUME sc \in Scenes, NoneLikeHead
  PROVE  HeadsIn(N)
<1> DEFINE T == {m \in 0 .. N : ~ HeadsIn(m)}
<1>0. N \in Nat /\ N \in 0 .. N
  BY SceneFacts
<1>1. SUFFICES ASSUME T # {} PROVE FALSE
  BY <1>0
<1>2. T \in SUBSET Nat
  BY <1>0
<1>3. PICK m \in T : \A j \in T : m <= j
  BY <1>1, <1>2, LeastNumber
<1>4. CASE m = 0
  <2>1. U(0) = <<>>
    BY <1>0, UpToUnfold DEF U, N
  <2>2. 1 .. Len(<<>>) = {}
    OBVIOUS
  <2> QED
    BY <1>3, <1>4, <2>1, <2>2 DEF HeadsIn
<1>5. CASE m # 0
  <2>1. m \in 1 .. N /\ m - 1 \in 0 .. N /\ m - 1 \notin T
    BY <1>0, <1>3, <1>5
  <2> QED
    BY <2>1, <1>3, HeadsStep
<1> QED
  BY <1>4, <1>5

(* What the reader can tell from a unit of the archive, damaged or not. *)
LEMMA WhatUnitsTell ==
  ASSUME sc \in Scenes, NEW j \in 1 .. sc.len
  PROVE  /\ \A m \in 1 .. N : j = Place(m) =>
              Units[j] # Zero /\ \A x, y : Units[j] = Unit("H", x, y) => x = m
         /\ j >= Trail => Units[j].t # "H"
         /\ NoneLikeHead =>
              \A m, n : Units[j] = Unit("H", m, n) => m \in 1 .. N /\ j = Place(m) - 1 + n
<1>1. j \in 1 .. Len(A) /\ Units[j] = IF j \in sc.dam THEN Unit("X", 0, 0) ELSE A[j]
  BY UnitsProp
<1>0. N \in Nat /\ Len(U(N)) \in Nat /\ N \in 0 .. N
  BY SceneFacts, ArchiveProp
<1>2. ASSUME NEW m \in 1 .. N, j = Place(m)
      PROVE  Units[j] # Zero /\ \A x, y : Units[j] = Unit("H", x, y) => x = m
  <2>1. 1 \in 1 .. BLKMULT
    BY Constants
  <2>2. m \in 1 .. N + 1
    BY <1>0
  <2>3. Place(m) - 1 + 1 = j
    BY <2>2, <1>2, PlaceProp
  <2>4. A[j] = Unit("H", m, 1)
    BY <2>1, <2>3, MemberUnits
  <2> QED
    BY <2>4, <1>1 DEF Zero, Unit
<1>3. ASSUME j >= Trail PROVE Units[j].t # "H"
  <2>1. j > Len(U(N))
    BY <1>0, <1>3, PlaceProp
  <2>2. A[j] = Zero
    BY <2>1, <1>1, ArchiveProp
  <2> QED
    BY <2>2, <1>1 DEF Zero, Unit
<1>4. ASSUME NoneLikeHead, NEW m, NEW n, Units[j] = Unit("H", m, n)
      PROVE  m \in 1 .. N /\ j = Place(m) - 1 + n
  <2>1. A[j] = Unit("H", m, n) /\ A[j].t = "H"
    BY <1>1, <1>4 DEF Unit
  <2>2. j <= Len(U(N))
    <3>1. ~ j > Len(U(N))
      BY <2>1, <1>1, ArchiveProp DEF Zero, Unit
    <3> QED
      BY <3>1, <1>0
  <2>3. j \in 1 .. Len(U(N))
    BY <1>0, <2>2
  <2>4. U(N)[j] = A[j]
    BY <2>3, ArchiveProp
  <2>5. HeadAt(N, j)
    BY <1>4, <2>1, <2>3, <2>4, HeadsAll DEF HeadsIn
  <2>6. PICK q \in 1 .. N, i \in 1 .. BLKMULT : U(N)[j] = Unit("H", q, i) /\ j = Len(U(q - 1)) + i
    BY <2>5 DEF HeadAt
  <2>7. q = m /\ i = n
    BY <2>1, <2>4, <2>6 DEF Unit
  <2>8. q \in 1 .. N + 1 /\ q - 1 \in 0 .. N
    BY <1>0
  <2>9. Place(q) = 1 + Len(U(q - 1)) /\ Len(U(q - 1)) \in Nat
    BY <2>8, PlaceProp, UpToType
  <2>10. BLKMULT \in Nat
    BY Constants
  <2> QED
    BY <2>6, <2>7, <2>9, <2>10
<1> QED
  BY <1>2, <1>3, <1>4

-----------------------------------------------------------------------------
(* What TypeOK leaves out: a header that is being read always lacks what is
   still wanted of it; the buffer is empty where a read has failed, and holds
   no more than one read until the format is known; the device stands in its
   volume as long as it is not stepped over bad media; a file still lacks what
   is still to be copied.                                                   *)
Idle  == {"end", "append", "done"}
Heads == {"open", "id", "idtest", "head", "test"}
Early == {"open", "id", "idtest", "noid"}
Known1 == {"head", "test", "short", "member", "copy", "skipto", "skip", "end"}
Behind == {"member", "copy", "skipto", "skip"}

DevType == [vol : 1 .. 2, pos : Nat, open : BOOLEAN, lstrval : -1 .. 1, done : BOOLEAN]
LocType == [pc : Pcs, want : 0 .. BLKMULT, got : 0 .. BLKMULT, need : Nat, errcnt : Nat,
            fini : BOOLEAN, frmt : BOOLEAN, resync : BOOLEAN, cnt : 0 .. NULLCNT - 1,
            first : BOOLEAN]
DevOK ==
  /\ dev \in DevType /\ dev.vol <= Volumes
  /\ k.pc \notin Idle \cup {"reread"} => dev.pos <= Size
  /\ dev.lstrval = 0 => k.fini \/ k.pc \in Idle
LocOK ==
  /\ k \in LocType /\ k.got + k.want <= BLKMULT /\ exit \in 0 .. 1
  /\ k.pc \in Early => ~ k.frmt
  /\ k.pc \in Known1 => k.frmt
HeadOK ==
  /\ h \in Seq(Cells) /\ Len(h) + k.want <= BLKMULT
  /\ k.pc \in Heads => Len(h) + k.want = BLKMULT
  /\ k.pc = "test" => k.want = 0
  /\ k.pc = "idtest" => h # <<>>
BufOK ==
  /\ b \in Seq(Cells) /\ Len(b) <= ReadSize + BLKMULT
  /\ ~ k.frmt => Len(b) <= ReadSize
  /\ k.pc \in {"sync", "reread", "short", "noid"} => b = <<>>
FoundOK ==
  /\ found \in Seq(1 .. N)
  /\ k.pc \in Behind => found # <<>>
OutOK ==
  /\ out \in [1 .. N -> Seq(Cells)]
  /\ \A m \in 1 .. N : Len(out[m]) <= Fits(m).skip
  /\ k.pc = "copy" => /\ k.need > 0
                      /\ Len(out[Last(found)]) + k.need = Fits(Last(found)).skip
GapsOK == gaps \subseteq 1 .. sc.len
TInv == sc \in Scenes /\ DevOK /\ LocOK /\ HeadOK /\ BufOK /\ FoundOK /\ OutOK /\ GapsOK

(* What is in the buffer, and before it in hdbuf, is what the archive holds
   up to the place the device stands at; Q units of it have left the buffer. *)
Q == Here - Len(b)
BufHolds ==
  k.pc \notin Idle =>
    /\ Q \in Nat
    /\ \A i \in 1 .. Len(b) : Q + i \in 1 .. sc.len /\ b[i] = Units[Q + i]
HeadHolds ==
  k.pc \in Heads =>
    /\ Q - Len(h) \in Nat
    /\ \A i \in 1 .. Len(h) : Q - Len(h) + i \in 1 .. sc.len /\ h[i] = Units[Q - Len(h) + i]
CInv == BufHolds /\ HeadHolds

(* When no data looks like a header, a member is found behind its header, and
   what is still to be copied of it is what is still to be read.            *)
FilesPlaced ==
  NoneLikeHead =>
    /\ k.pc = "member" => Q = Place(Last(found)) - 1 + BLKMULT
    /\ k.pc = "copy" => Q + k.need = Place(Last(found)) - 1 + BLKMULT + Fits(Last(found)).skip
FInv == FilesPlaced /\ FilesBegin

(* Until something was wrong, append() goes from header to header. *)
Lost == {"idtest", "noid", "sync", "short", "end", "done"}
Sofar == \A i \in 1 .. Len(found) : found[i] = i
Spot == Place(Len(found) + 1)            \* of the next header
AppendOn ==
  /\ k.pc \notin {"reread", "copy"} /\ ~ k.resync /\ Sofar /\ Len(found) <= N
  /\ k.fini => /\ k.pc \in Lost /\ (k.pc = "idtest" => Len(h) < BLKMULT)
               /\ k.pc = "end" => ~ dev.open
  /\ ~ k.fini /\ k.pc \notin Idle => dev.lstrval = 1
  /\ k.pc \in {"open", "id", "idtest"} => Q = Len(h) /\ found = <<>> /\ k.cnt = 0
  /\ k.pc \in {"head", "test"} =>
       /\ Q - Len(h) = Spot - 1 + k.cnt * BLKMULT
       /\ k.cnt > 0 => Len(found) = N
  /\ k.pc = "member" => Q = Place(Len(found)) - 1 + BLKMULT
  /\ k.pc \in {"skipto", "skip"} => Q + k.need = Spot - 1
  /\ k.pc = "end" /\ dev.open /\ sc.artyp # "PIPE" => Q - TLen + 1 = Trail
AInv ==
  /\ sc.act = "append" /\ exit = 0 => AppendOn
  /\ AppendsAtTrailer

-----------------------------------------------------------------------------
(* What the invariant gives in every state. *)
LEMMA Volume ==
  ASSUME sc \in Scenes, dev \in DevType, dev.vol <= Volumes
  PROVE  /\ From(dev.vol) \in Nat /\ To(dev.vol) \in Nat /\ Size \in Nat
         /\ From(dev.vol) + Size = To(dev.vol) /\ To(dev.vol) <= sc.len
         /\ Here \in Nat /\ Here = From(dev.vol) + dev.pos
         /\ Volumes \in 1 .. 2
         /\ dev.vol < Volumes => dev.vol = 1 /\ sc.split > 0 /\ To(dev.vol) = sc.split
<1>1. sc.split \in Nat /\ sc.len \in Nat /\ sc.split <= sc.len
  BY SceneFacts
<1>2. dev.vol \in 1 .. 2 /\ dev.pos \in Nat
  BY DEF DevType
<1>3. Volumes = IF sc.split > 0 THEN 2 ELSE 1
  BY DEF Volumes
<1>4. CASE dev.vol = 1
  BY <1>1, <1>2, <1>3, <1>4 DEF From, To, Size, Here
<1>5. CASE dev.vol = 2
  <2>1. sc.split > 0
    BY <1>3, <1>5
  <2> QED
    BY <1>1, <1>2, <1>3, <1>5, <2>1 DEF From, To, Size, Here
<1> QED
  BY <1>2, <1>4, <1>5

LEMMA BlockSizes ==
  ASSUME sc \in Scenes
  PROVE  Rdblksz \in Nat \ {0} /\ ReadSize \in Nat \ {0}
<1> DEFINE fit == {n \in 1 .. MAXBLK : n % BLKMULT = 0 /\ Size % n = 0}
<1>1. fit \subseteq 0 .. MAXBLK /\ MAXBLK \in Nat
  BY Constants
<1>2. ASSUME fit # {} PROVE Max(fit) \in Nat \ {0}
  <2>1. Max(fit) \in fit
    BY <1>1, <1>2, MaxExists
  <2>2. \A n \in fit : n \in Nat \ {0}
    BY <1>1
  <2> HIDE DEF fit
  <2> QED
    BY <2>1, <2>2
<1>3. Rdblksz = IF sc.artyp # "REG" THEN DEVBLK ELSE IF fit # {} THEN Max(fit) ELSE FILEBLK
  BY DEF Rdblksz
<1> HIDE DEF fit
<1>4. Rdblksz \in Nat \ {0}
  BY <1>2, <1>3, Constants
<1>5. Blksz \in Nat \ {0}
  BY Constants DEF Blksz
<1> QED
  BY <1>4, <1>5 DEF ReadSize

LEMMA Facts ==
  ASSUME TInv
  PROVE  /\ dev.vol \in 1 .. 2 /\ dev.pos \in Nat /\ dev.open \in BOOLEAN
         /\ dev.lstrval \in -1 .. 1 /\ dev.done \in BOOLEAN
         /\ k.pc \in Pcs /\ k.want \in 0 .. BLKMULT /\ k.got \in 0 .. BLKMULT /\ k.need \in Nat
         /\ k.errcnt \in Nat /\ k.fini \in BOOLEAN /\ k.frmt \in BOOLEAN /\ k.resync \in BOOLEAN
         /\ k.cnt \in 0 .. NULLCNT - 1 /\ k.first \in BOOLEAN
         /\ Len(b) \in Nat /\ Len(h) \in Nat /\ Len(found) \in Nat
         /\ BLKMULT \in Nat \ {0} /\ NULLCNT \in Nat \ {0} /\ N \in Nat
         /\ Rdblksz \in Nat \ {0} /\ ReadSize \in Nat \ {0}
<1>1. Len(b) \in Nat /\ Len(h) \in Nat /\ Len(found) \in Nat
  BY DEF TInv, BufOK, HeadOK, FoundOK
<1>2. Rdblksz \in Nat \ {0} /\ ReadSize \in Nat \ {0} /\ N \in Nat
  BY BlockSizes, SceneFacts DEF TInv
<1> QED
  BY <1>1, <1>2, Constants DEF TInv, DevOK, DevType, LocOK, LocType

LEMMA SameVolume ==
  ASSUME sc' = sc, dev'.vol = dev.vol
  PROVE  /\ Size' = Size /\ Volumes' = Volumes /\ Rdblksz' = Rdblksz /\ ReadSize' = ReadSize
         /\ From(dev.vol)' = From(dev.vol) /\ To(dev.vol)' = To(dev.vol)
<1>1. Volumes' = Volumes /\ From(dev.vol)' = From(dev.vol) /\ To(dev.vol)' = To(dev.vol)
  BY DEF Volumes, From, To
<1>2. Size' = Size
  BY <1>1 DEF Size
<1>3. Rdblksz' = Rdblksz
  BY <1>2 DEF Rdblksz
<1> QED
  BY <1>1, <1>2, <1>3 DEF ReadSize, Blksz

LEMMA SameScene ==
  ASSUME sc' = sc
  PROVE  /\ Units' = Units /\ N' = N /\ Trail' = Trail /\ NoneLikeHead' = NoneLikeHead
         /\ Volumes' = Volumes
         /\ \A m : Place(m)' = Place(m) /\ Fits(m)' = Fits(m)
  BY DEF Units, N, Trail, NoneLikeHead, Place, Fits, Volumes

(* read(2) gives something only of the volume, and no more than asked for. *)
LEMMA GivesProp ==
  ASSUME TInv, NEW n \in Gives
  PROVE  /\ n \in Nat \ {0} /\ n <= ReadSize /\ n <= Size - dev.pos
         /\ dev.pos < Size /\ dev.lstrval = 1 /\ dev.open
<1>0. /\ Size \in Nat /\ dev.pos \in Nat /\ ReadSize \in Nat \ {0} /\ dev.lstrval \in -1 .. 1
      /\ dev.open \in BOOLEAN
  BY Facts, Volume DEF TInv, DevOK
<1>1. dev.lstrval > 0 /\ dev.open /\ dev.pos < Size
  BY <1>0 DEF Gives
<1>2. n \in 1 .. Clear \/ (n = Clear /\ n # 0)
  BY <1>1 DEF Gives
<1>3. Ask \in Nat /\ Ask <= ReadSize /\ Ask <= Size - dev.pos
  <2>1. ReadSize \in Int /\ Size - dev.pos \in Nat
    BY <1>0, <1>1
  <2> QED
    BY <2>1, <1>0, MinOfTwo DEF Ask
<1>4. Clear \in 0 .. Ask
  <2>1. CASE Flaws = {}
    BY <2>1, <1>3 DEF Clear
  <2>2. CASE Flaws # {}
    <3>1. Flaws \in SUBSET Nat /\ Flaws \subseteq 1 .. Ask
      BY <1>3 DEF Flaws
    <3>2. Min(Flaws) \in 1 .. Ask
      BY <2>2, <3>1, MinExists
    <3> QED
      BY <3>2, <2>2, <1>3 DEF Clear
  <2> QED
    BY <2>1, <2>2
<1> QED
  BY <1>0, <1>1, <1>2, <1>3, <1>4

LEMMA PartProp ==
  ASSUME NEW S, NEW s \in Seq(S), NEW p \in Nat, NEW n \in Nat, p + n <= Len(s)
  PROVE  /\ SubSeq(s, p + 1, p + n) \in Seq(S) /\ Len(SubSeq(s, p + 1, p + n)) = n
         /\ \A i \in 1 .. n : SubSeq(s, p + 1, p + n)[i] = s[p + i]
<1>1. p + 1 \in Nat /\ p + n \in Nat /\ Len(s) \in Nat
  OBVIOUS
<1>2. CASE n = 0
  <2>1. SubSeq(s, p + 1, p + n) = <<>>
    BY <1>1, <1>2
  <2> QED
    BY <1>2, <2>1
<1>3. CASE n # 0
  <2>1. p + 1 <= p + n /\ 1 <= p + 1 /\ (p + n) - (p + 1) + 1 = n
    BY <1>3
  <2>2. \A i \in p + 1 .. p + n : s[i] \in S
    BY <1>1
  <2>3. SubSeq(s, p + 1, p + n) = [i \in 1 .. n |-> s[p + i]]
    BY <1>1, <2>1
  <2>4. \A i \in 1 .. n : s[p + i] \in S
    BY <1>1
  <2> QED
    BY <2>3, <2>4, MadeSeq
<1> QED
  BY <1>2, <1>3

LEMMA LoadedProp ==
  ASSUME TInv, NEW n \in Gives, Loaded(n), sc' = sc
  PROVE  /\ b' \in Seq(Cells) /\ Len(b') = n
         /\ \A i \in 1 .. n : Here + i \in 1 .. sc.len /\ b'[i] = Units[Here + i]
         /\ dev' = [dev EXCEPT !.pos = dev.pos + n] /\ dev' \in DevType /\ dev'.pos <= Size
         /\ Here' = Here + n /\ Q' = Here /\ Here \in Nat
<1>1. /\ n \in Nat \ {0} /\ n <= ReadSize /\ n <= Size - dev.pos
      /\ dev.pos < Size /\ dev.lstrval = 1 /\ dev.open
  BY GivesProp
<1>2. /\ From(dev.vol) \in Nat /\ To(dev.vol) \in Nat /\ Size \in Nat
      /\ From(dev.vol) + Size = To(dev.vol) /\ To(dev.vol) <= sc.len
      /\ Here \in Nat /\ Here = From(dev.vol) + dev.pos /\ dev \in DevType /\ dev.pos \in Nat
  BY Volume, Facts DEF TInv, DevOK
<1>3. Units \in Seq(Cells) /\ Len(Units) = sc.len /\ sc.len \in Nat
  BY UnitsProp DEF TInv
<1>4. Here + n <= sc.len
  BY <1>1, <1>2, <1>3
<1>5. b' = SubSeq(Units, Here + 1, Here + n) /\ dev' = [dev EXCEPT !.pos = dev.pos + n]
  BY DEF Loaded
<1>6. b' \in Seq(Cells) /\ Len(b') = n /\ \A i \in 1 .. n : b'[i] = Units[Here + i]
  <2>1. Here \in Nat /\ n \in Nat /\ Here + n <= Len(Units) /\ Units \in Seq(Cells)
    BY <1>1, <1>2, <1>3, <1>4
  <2> DEFINE u == SubSeq(Units, Here + 1, Here + n)
  <2>2. u \in Seq(Cells) /\ Len(u) = n /\ \A i \in 1 .. n : u[i] = Units[Here + i]
    BY ONLY <2>1, PartProp
  <2> HIDE DEF u
  <2>3. b' = u
    BY <1>5 DEF u
  <2> QED
    BY <2>2, <2>3
<1>7. \A i \in 1 .. n : Here + i \in 1 .. sc.len
  BY <1>1, <1>2, <1>3, <1>4
<1>8. dev' \in DevType /\ dev'.pos = dev.pos + n /\ dev'.vol = dev.vol /\ dev'.pos <= Size
  <2>1. dev.pos + n \in Nat /\ dev.pos + n <= Size
    BY <1>1, <1>2
  <2>2. dev' \in DevType /\ dev'.pos = dev.pos + n /\ dev'.vol = dev.vol
    BY <2>1, <1>2, <1>5 DEF DevType
  <2> QED
    BY <2>1, <2>2
<1>9. Here' = Here + n
  <2>1. From(dev.vol)' = From(dev.vol)
    BY <1>8, SameVolume
  <2>2. Here' = From(dev.vol) + (dev.pos + n)
    BY <1>8, <2>1 DEF Here
  <2> QED
    BY <1>1, <1>2, <2>2
<1>10. Q' = Here
  BY <1>1, <1>2, <1>6, <1>9 DEF Q
<1> QED
  BY <1>2, <1>5, <1>6, <1>7, <1>8, <1>9, <1>10

LEMMA NextReadSize == ReadSize' \in Nat \ {0}
<1> DEFINE fit == {n \in 1 .. MAXBLK : n % BLKMULT = 0 /\ Size' % n = 0}
<1>1. fit \subseteq 0 .. MAXBLK /\ MAXBLK \in Nat
  BY Constants
<1>2. ASSUME fit # {} PROVE Max(fit) \in Nat \ {0}
  <2>1. Max(fit) \in fit
    BY <1>1, <1>2, MaxExists
  <2>2. \A n \in fit : n \in Nat \ {0}
    BY <1>1
  <2> HIDE DEF fit
  <2> QED
    BY <2>1, <2>2
<1>3. Rdblksz' = IF sc'.artyp # "REG" THEN DEVBLK ELSE IF fit # {} THEN Max(fit) ELSE FILEBLK
  BY DEF Rdblksz
<1> HIDE DEF fit
<1>4. Rdblksz' \in Nat \ {0}
  BY <1>2, <1>3, Constants
<1>5. Blksz' \in Nat \ {0}
  BY Constants DEF Blksz
<1> QED
  BY <1>4, <1>5 DEF ReadSize

-----------------------------------------------------------------------------
(* What a step leaves alone keeps its part of the invariant. *)
LEMMA DevKept ==
  ASSUME TInv, sc' = sc, dev' = dev, k.pc \notin Idle \cup {"reread"}, k.fini => k'.fini
  PROVE  DevOK'
<1>1. Size' = Size /\ Volumes' = Volumes
  BY SameVolume
<1> QED
  BY <1>1 DEF TInv, DevOK

LEMMA BufKept ==
  ASSUME TInv, sc' = sc, dev'.vol = dev.vol, b' = b, ~ k'.frmt => ~ k.frmt,
         k'.pc \in {"sync", "reread", "short", "noid"} => b = <<>>
  PROVE  BufOK'
<1>1. ReadSize' = ReadSize
  BY SameVolume
<1> QED
  BY <1>1 DEF TInv, BufOK

LEMMA HeadKept ==
  ASSUME TInv, h' = h, k'.want = k.want, k'.pc \in Heads => k.pc \in Heads,
         k'.pc = "test" => k.pc = "test", k'.pc = "idtest" => h # <<>>
  PROVE  HeadOK'
  BY DEF TInv, HeadOK

LEMMA HeadFresh ==
  ASSUME h' = <<>>, k'.want = BLKMULT, k'.pc \notin {"test", "idtest"}
  PROVE  HeadOK'
<1>1. Len(<<>>) = 0 /\ BLKMULT \in Nat \ {0} /\ <<>> \in Seq(Cells)
  BY Constants
<1> QED
  BY <1>1 DEF HeadOK

LEMMA FoundKept ==
  ASSUME TInv, sc' = sc, found' = found, k'.pc \in Behind => k.pc \in Behind
  PROVE  FoundOK'
<1>1. N' = N
  BY SameScene
<1> QED
  BY <1>1 DEF TInv, FoundOK

LEMMA OutKept ==
  ASSUME TInv, sc' = sc, found' = found, out' = out,
         k'.pc = "copy" => k.pc = "copy" /\ k'.need = k.need
  PROVE  OutOK'
<1>1. N' = N /\ \A m : Fits(m)' = Fits(m)
  BY SameScene
<1>2. \A m \in 1 .. N : Len(out'[m]) <= Fits(m)'.skip
  BY <1>1 DEF TInv, OutOK
<1>3. k'.pc = "copy" => /\ k'.need > 0
                        /\ Len(out'[Last(found)']) + k'.need = Fits(Last(found))'.skip
  BY <1>1 DEF TInv, OutOK, Fits
<1> QED
  BY <1>1, <1>2, <1>3 DEF TInv, OutOK

LEMMA GapsKept ==
  ASSUME TInv, sc' = sc, gaps' = gaps
  PROVE  GapsOK'
  BY DEF TInv, GapsOK

(* Steps that move the program and leave everything else. *)
LEMMA OpenT ==
  ASSUME TInv, Open
  PROVE  TInv'
<1>1. /\ sc' = sc /\ b' = b /\ h' = h /\ found' = found /\ out' = out /\ gaps' = gaps
      /\ k.pc = "open" /\ dev'.vol = dev.vol /\ dev'.pos = dev.pos
  BY DEF Open, TInv, DevOK, DevType
<1>2. \/ k' = [k EXCEPT !.pc = "id"] /\ exit' = exit
      \/ k' = [k EXCEPT !.pc = "done"] /\ exit' = 1
  BY DEF Open, Goto, Fails
<1>3. LocOK'
  BY <1>1, <1>2 DEF TInv, LocOK, LocType, Pcs, Early, Known1
<1>4. k'.want = k.want /\ k'.fini = k.fini /\ k'.frmt = k.frmt /\ k'.pc \in {"id", "done"}
  BY <1>2 DEF TInv, LocOK, LocType
<1>5. DevOK'
  <2>1. dev' \in DevType /\ dev'.lstrval = dev.lstrval
    BY DEF Open, TInv, DevOK, DevType
  <2>2. Size' = Size /\ Volumes' = Volumes
    BY <1>1, SameVolume
  <2> QED
    BY <1>1, <1>4, <2>1, <2>2 DEF TInv, DevOK, Idle
<1>6. BufOK'
  BY <1>1, <1>4, BufKept
<1>7. HeadOK'
  BY <1>1, <1>4, HeadKept DEF Heads
<1>8. FoundOK'
  BY <1>1, <1>4, FoundKept DEF Behind
<1>9. OutOK'
  BY <1>1, <1>4, OutKept
<1>10. GapsOK'
  BY <1>1, GapsKept
<1> QED
  BY <1>1, <1>3, <1>5, <1>6, <1>7, <1>8, <1>9, <1>10 DEF TInv

LEMMA ShortT ==
  ASSUME TInv, Short
  PROVE  TInv'
<1>1. /\ sc' = sc /\ b' = b /\ h' = h /\ found' = found /\ out' = out /\ gaps' = gaps /\ dev' = dev
      /\ exit' = 1 /\ k.pc \in {"short", "noid"}
  BY DEF Short
<1>2. k' = [k EXCEPT !.pc = IF k.pc = "short" THEN "end" ELSE "done"]
  BY DEF Short, Stop
<1>3. LocOK'
  BY <1>1, <1>2 DEF TInv, LocOK, LocType, Pcs, Early, Known1
<1>4. k'.want = k.want /\ k'.fini = k.fini /\ k'.frmt = k.frmt /\ k'.pc \in {"end", "done"}
  BY <1>2 DEF TInv, LocOK, LocType
<1>5. DevOK'
  BY <1>1, <1>4, DevKept DEF Idle
<1>6. BufOK'
  BY <1>1, <1>4, BufKept
<1>7. HeadOK'
  BY <1>1, <1>4, HeadKept DEF Heads
<1>8. FoundOK'
  BY <1>1, <1>4, FoundKept DEF Behind
<1>9. OutOK'
  BY <1>1, <1>4, OutKept
<1>10. GapsOK'
  BY <1>1, GapsKept
<1> QED
  BY <1>1, <1>3, <1>5, <1>6, <1>7, <1>8, <1>9, <1>10 DEF TInv

LEMMA EndT ==
  ASSUME TInv, End
  PROVE  TInv'
<1>1. /\ sc' = sc /\ b' = b /\ h' = h /\ found' = found /\ out' = out /\ gaps' = gaps /\ dev' = dev
      /\ exit' \in {exit, 1} /\ k.pc = "end"
  BY DEF End, Fails
<1>2. k' = [k EXCEPT !.pc = "done"] \/ k' = [k EXCEPT !.pc = "append"]
  BY DEF End, Goto, Fails
<1>3. LocOK'
  BY <1>1, <1>2 DEF TInv, LocOK, LocType, Pcs, Early, Known1
<1>4. k'.want = k.want /\ k'.fini = k.fini /\ k'.frmt = k.frmt /\ k'.pc \in {"append", "done"}
  BY <1>2 DEF TInv, LocOK, LocType
<1>5. DevOK'
  <2>1. Size' = Size /\ Volumes' = Volumes
    BY <1>1, SameVolume
  <2> QED
    BY <1>1, <1>4, <2>1 DEF TInv, DevOK, Idle
<1>6. BufOK'
  BY <1>1, <1>4, BufKept
<1>7. HeadOK'
  BY <1>1, <1>4, HeadKept DEF Heads
<1>8. FoundOK'
  BY <1>1, <1>4, FoundKept DEF Behind
<1>9. OutOK'
  BY <1>1, <1>4, OutKept
<1>10. GapsOK'
  BY <1>1, GapsKept
<1> QED
  BY <1>1, <1>3, <1>5, <1>6, <1>7, <1>8, <1>9, <1>10 DEF TInv

LEMMA SyncRefusedT ==
  ASSUME TInv, SyncRefused
  PROVE  TInv'
<1>1. /\ sc' = sc /\ b' = b /\ h' = h /\ found' = found /\ out' = out /\ gaps' = gaps /\ dev' = dev
      /\ exit' = 1 /\ k.pc = "sync"
  BY DEF SyncRefused, Unsynced
<1>2. k' = [k EXCEPT !.pc = IF k.frmt THEN "end" ELSE "done"]
  BY DEF SyncRefused, Unsynced
<1>3. LocOK'
  BY <1>1, <1>2 DEF TInv, LocOK, LocType, Pcs, Early, Known1
<1>4. k'.want = k.want /\ k'.fini = k.fini /\ k'.frmt = k.frmt /\ k'.pc \in {"end", "done"}
  BY <1>2 DEF TInv, LocOK, LocType
<1>5. DevOK'
  BY <1>1, <1>4, DevKept DEF Idle
<1>6. BufOK'
  BY <1>1, <1>4, BufKept
<1>7. HeadOK'
  BY <1>1, <1>4, HeadKept DEF Heads
<1>8. FoundOK'
  BY <1>1, <1>4, FoundKept DEF Behind
<1>9. OutOK'
  BY <1>1, <1>4, OutKept
<1>10. GapsOK'
  BY <1>1, GapsKept
<1> QED
  BY <1>1, <1>3, <1>5, <1>6, <1>7, <1>8, <1>9, <1>10 DEF TInv

LEMMA TailProp ==
  ASSUME TInv, h # <<>>
  PROVE  Tail(h) \in Seq(Cells) /\ Len(Tail(h)) = Len(h) - 1 /\ Len(h) \in Nat \ {0}
         /\ \A i \in 1 .. Len(h) - 1 : Tail(h)[i] = h[i + 1]
  BY DEF TInv, HeadOK

LEMMA IdSearchT ==
  ASSUME TInv, IdSearch
  PROVE  TInv'
<1>1. /\ sc' = sc /\ b' = b /\ found' = found /\ out' = out /\ gaps' = gaps /\ dev' = dev
      /\ k.pc = "idtest"
  BY DEF IdSearch
<1>2. \/ k' = [k EXCEPT !.pc = "done"] /\ h' = h /\ exit' = exit
      \/ k' = [k EXCEPT !.pc = "id", !.got = 0, !.want = BLKMULT - Len(h')] /\ h' = Tail(h) /\ exit' = 1
  BY DEF IdSearch, Goto
<1>0. h # <<>> /\ Len(h) + k.want = BLKMULT
  BY <1>1 DEF TInv, HeadOK, Heads
<1>3. Tail(h) \in Seq(Cells) /\ Len(Tail(h)) = Len(h) - 1 /\ Len(h) \in Nat \ {0}
  BY <1>0, TailProp
<1>4. BLKMULT - Len(Tail(h)) \in 0 .. BLKMULT
  BY <1>0, <1>3, Facts
<1>5. LocOK'
  <2>1. k \in LocType /\ ~ k.frmt /\ exit \in 0 .. 1 /\ k.got + k.want <= BLKMULT
    BY <1>1 DEF TInv, LocOK, Early
  <2>2. BLKMULT \in Nat
    BY Facts
  <2>3. CASE k' = [k EXCEPT !.pc = "done"] /\ exit' = exit
    BY <2>1, <2>3 DEF LocOK, LocType, Pcs, Early, Known1
  <2>4. CASE k' = [k EXCEPT !.pc = "id", !.got = 0, !.want = BLKMULT - Len(h')] /\ h' = Tail(h) /\ exit' = 1
    <3> DEFINE w == BLKMULT - Len(Tail(h))
    <3>1. "id" \in Pcs /\ 0 \in 0 .. BLKMULT /\ w \in 0 .. BLKMULT
      BY <1>4, <2>2 DEF Pcs
    <3>2. k' = [k EXCEPT !.pc = "id", !.got = 0, !.want = w]
      BY <2>4
    <3> HIDE DEF w
    <3>3. k' \in LocType /\ k'.pc = "id" /\ k'.got = 0 /\ k'.want = w /\ ~ k'.frmt
      BY <2>1, <3>1, <3>2 DEF LocType
    <3> QED
      BY <2>2, <2>4, <3>1, <3>3 DEF LocOK, Early, Known1
  <2> QED
    BY <1>2, <2>3, <2>4
<1>6. k'.fini = k.fini /\ k'.frmt = k.frmt /\ k'.pc \in {"id", "done"}
  BY <1>2 DEF TInv, LocOK, LocType
<1>7. HeadOK'
  <2>1. CASE k' = [k EXCEPT !.pc = "done"] /\ h' = h
    <3>1. k'.pc = "done" /\ k'.want = k.want
      BY <2>1 DEF TInv, LocOK, LocType
    <3> QED
      BY <2>1, <3>1, HeadKept DEF Heads
  <2>2. CASE k' = [k EXCEPT !.pc = "id", !.got = 0, !.want = BLKMULT - Len(h')] /\ h' = Tail(h)
    <3>1. k'.pc = "id" /\ k'.want = BLKMULT - Len(h')
      BY <2>2 DEF TInv, LocOK, LocType
    <3>2. Len(h') \in Nat /\ BLKMULT \in Nat /\ h' \in Seq(Cells)
      BY <2>2, <1>3, Facts
    <3> QED
      BY <3>1, <3>2 DEF HeadOK
  <2> QED
    BY <1>2, <2>1, <2>2
<1>8. DevOK'
  BY <1>1, <1>6, DevKept DEF Idle
<1>9. BufOK'
  BY <1>1, <1>6, BufKept
<1>10. FoundOK'
  BY <1>1, <1>6, FoundKept DEF Behind
<1>11. OutOK'
  BY <1>1, <1>6, OutKept
<1>12. GapsOK'
  BY <1>1, GapsKept
<1> QED
  BY <1>1, <1>5, <1>7, <1>8, <1>9, <1>10, <1>11, <1>12 DEF TInv

LEMMA SearchT ==
  ASSUME TInv, Search
  PROVE  TInv'
<1>1. /\ sc' = sc /\ b' = b /\ found' = found /\ out' = out /\ gaps' = gaps /\ dev' = dev
      /\ k.pc = "test" /\ exit' = 1
  BY DEF Search
<1>2. \/ k' = [k EXCEPT !.pc = "end"] /\ h' = h
      \/ k' = [k EXCEPT !.pc = "head", !.want = 1, !.got = 0, !.resync = TRUE] /\ h' = Tail(h)
  BY DEF Search, Stop
<1>0. Len(h) = BLKMULT /\ k.want = 0 /\ BLKMULT \in Nat \ {0}
  BY <1>1, Facts DEF TInv, HeadOK, Heads
<1>3. Tail(h) \in Seq(Cells) /\ Len(Tail(h)) = BLKMULT - 1
  <2>1. h # <<>>
    BY <1>0
  <2> QED
    BY <1>0, <2>1, TailProp
<1>5. LocOK'
  <2>1. k \in LocType /\ k.frmt /\ k.got + k.want <= BLKMULT
    BY <1>1 DEF TInv, LocOK, Known1
  <2>2. CASE k' = [k EXCEPT !.pc = "end"]
    BY <1>1, <2>1, <2>2 DEF LocOK, LocType, Pcs, Early, Known1
  <2>3. CASE k' = [k EXCEPT !.pc = "head", !.want = 1, !.got = 0, !.resync = TRUE]
    <3>1. "head" \in Pcs /\ 0 \in 0 .. BLKMULT /\ 1 \in 0 .. BLKMULT
      BY <1>0 DEF Pcs
    <3>2. k' \in LocType /\ k'.pc = "head" /\ k'.got = 0 /\ k'.want = 1 /\ k'.frmt
      BY <2>1, <2>3, <3>1 DEF LocType
    <3> QED
      BY <1>0, <1>1, <3>2 DEF LocOK, Early, Known1
  <2> QED
    BY <1>2, <2>2, <2>3
<1>6. k'.fini = k.fini /\ k'.frmt = k.frmt /\ k'.pc \in {"head", "end"}
  BY <1>2 DEF TInv, LocOK, LocType
<1>7. HeadOK'
  <2>1. CASE k' = [k EXCEPT !.pc = "end"] /\ h' = h
    <3>1. k'.pc = "end" /\ k'.want = k.want
      BY <2>1 DEF TInv, LocOK, LocType
    <3> QED
      BY <2>1, <3>1, HeadKept DEF Heads
  <2>2. CASE k' = [k EXCEPT !.pc = "head", !.want = 1, !.got = 0, !.resync = TRUE] /\ h' = Tail(h)
    <3>1. k'.pc = "head" /\ k'.want = 1
      BY <2>2 DEF TInv, LocOK, LocType
    <3>2. Len(h') = BLKMULT - 1 /\ h' \in Seq(Cells)
      BY <2>2, <1>3
    <3> QED
      BY <1>0, <3>1, <3>2 DEF HeadOK
  <2> QED
    BY <1>2, <2>1, <2>2
<1>8. DevOK'
  BY <1>1, <1>6, DevKept DEF Idle
<1>9. BufOK'
  BY <1>1, <1>6, BufKept
<1>10. FoundOK'
  BY <1>1, <1>6, FoundKept DEF Behind
<1>11. OutOK'
  BY <1>1, <1>6, OutKept
<1>12. GapsOK'
  BY <1>1, GapsKept
<1> QED
  BY <1>1, <1>5, <1>7, <1>8, <1>9, <1>10, <1>11, <1>12 DEF TInv

LEMMA ZeroRecordT ==
  ASSUME TInv, ZeroRecord
  PROVE  TInv'
<1>1. /\ sc' = sc /\ b' = b /\ found' = found /\ out' = out /\ gaps' = gaps /\ dev' = dev
      /\ k.pc = "test" /\ exit' = exit /\ h' = <<>> /\ ~ IsTrail(k)
      /\ k' = [k EXCEPT !.pc = "head", !.want = BLKMULT, !.got = 0,
                        !.cnt = IF k.resync THEN k.cnt ELSE k.cnt + 1]
  BY DEF ZeroRecord
<1>2. (IF k.resync THEN k.cnt ELSE k.cnt + 1) \in 0 .. NULLCNT - 1
  BY <1>1, Facts DEF IsTrail
<1>3. LocOK'
  <2>1. k \in LocType /\ k.frmt /\ exit \in 0 .. 1
    BY <1>1 DEF TInv, LocOK, Known1
  <2>2. BLKMULT \in Nat \ {0}
    BY Facts
  <2>3. k' \in LocType /\ k'.pc = "head" /\ k'.got = 0 /\ k'.want = BLKMULT /\ k'.frmt
    <3>1. "head" \in Pcs /\ 0 \in 0 .. BLKMULT /\ BLKMULT \in 0 .. BLKMULT
      BY <2>2 DEF Pcs
    <3> DEFINE c == IF k.resync THEN k.cnt ELSE k.cnt + 1
    <3>2. k' = [k EXCEPT !.pc = "head", !.want = BLKMULT, !.got = 0, !.cnt = c]
          /\ c \in 0 .. NULLCNT - 1
      BY <1>1, <1>2
    <3> HIDE DEF c
    <3> QED
      BY <2>1, <3>1, <3>2 DEF LocType
  <2> QED
    BY <1>1, <2>1, <2>2, <2>3 DEF LocOK, Early, Known1
<1>4. k'.fini = k.fini /\ k'.frmt = k.frmt /\ k'.pc = "head" /\ k'.want = BLKMULT
  BY <1>1 DEF TInv, LocOK, LocType
<1>5. HeadOK'
  BY <1>1, <1>4, HeadFresh
<1>6. DevOK'
  BY <1>1, <1>4, DevKept DEF Idle
<1>7. BufOK'
  BY <1>1, <1>4, BufKept
<1>8. FoundOK'
  BY <1>1, <1>4, FoundKept DEF Behind
<1>9. OutOK'
  BY <1>1, <1>4, OutKept
<1>10. GapsOK'
  BY <1>1, GapsKept
<1> QED
  BY <1>1, <1>3, <1>5, <1>6, <1>7, <1>8, <1>9, <1>10 DEF TInv

-----------------------------------------------------------------------------
(* Headers and members. *)
LEMMA ValidProp ==
  ASSUME TInv, Valid
  PROVE  /\ Len(h) = BLKMULT /\ \E m \in 1 .. N : h = Header(m) /\ h[1].m = m
         /\ h # <<>>
<1>1. PICK m \in 1 .. N : h = Header(m)
  BY SceneFacts DEF Valid, TInv
<1>2. 1 \in 1 .. BLKMULT
  BY Constants
<1>3. h[1].m = m
  BY <1>1, <1>2 DEF Header, Unit
<1>4. Len(h) = BLKMULT /\ BLKMULT # 0
  BY Constants DEF Valid
<1> QED
  BY <1>1, <1>3, <1>4

LEMMA LastOf ==
  ASSUME NEW S, NEW s \in Seq(S), s # <<>>
  PROVE  Last(s) \in S /\ Last(s) = s[Len(s)] /\ Len(s) \in Nat \ {0}
  BY DEF Last

LEMMA LastProp ==
  ASSUME TInv, found # <<>>
  PROVE  /\ Last(found) \in 1 .. N /\ Last(found) = found[Len(found)] /\ Len(found) \in Nat \ {0}
         /\ Fits(Last(found)).skip \in Nat /\ Fits(Last(found)).pad \in Nat
         /\ Fits(Last(found)) = This
<1>1. found \in Seq(1 .. N)
  BY DEF TInv, FoundOK
<1>2. Last(found) \in 1 .. N /\ Last(found) = found[Len(found)] /\ Len(found) \in Nat \ {0}
  BY <1>1, LastOf
<1> QED
  BY <1>2, SceneFacts DEF TInv, Fits, This

LEMMA HeadedT ==
  ASSUME TInv, Headed
  PROVE  TInv'
<1>1. /\ sc' = sc /\ b' = b /\ h' = h /\ out' = out /\ gaps' = gaps /\ dev' = dev
      /\ k.pc = "test" /\ exit' = exit /\ Valid /\ found' = Append(found, h[1].m)
      /\ k' = [k EXCEPT !.pc = "member"]
  BY DEF Headed, Goto
<1>2. h[1].m \in 1 .. N
  BY <1>1, ValidProp
<1>3. LocOK'
  BY <1>1 DEF TInv, LocOK, LocType, Pcs, Early, Known1
<1>4. k'.fini = k.fini /\ k'.frmt = k.frmt /\ k'.pc = "member" /\ k'.want = k.want
  BY <1>1 DEF TInv, LocOK, LocType
<1>5. HeadOK'
  BY <1>1, <1>4, HeadKept DEF Heads
<1>6. DevOK'
  BY <1>1, <1>4, DevKept DEF Idle
<1>7. BufOK'
  BY <1>1, <1>4, BufKept
<1>8. FoundOK'
  <2>1. found \in Seq(1 .. N) /\ N' = N
    BY <1>1, SameScene DEF TInv, FoundOK
  <2>2. found' \in Seq(1 .. N) /\ found' # <<>>
    BY <2>1, <1>1, <1>2
  <2> QED
    BY <2>1, <2>2 DEF FoundOK
<1>9. OutOK'
  <2>1. N' = N /\ \A m : Fits(m)' = Fits(m)
    BY <1>1, SameScene
  <2> QED
    BY <1>1, <1>4, <2>1 DEF TInv, OutOK
<1>10. GapsOK'
  BY <1>1, GapsKept
<1> QED
  BY <1>1, <1>3, <1>5, <1>6, <1>7, <1>8, <1>9, <1>10 DEF TInv

LEMMA TrailerT ==
  ASSUME TInv, Trailer
  PROVE  TInv'
<1>1. /\ sc' = sc /\ b' = b /\ h' = h /\ found' = found /\ out' = out /\ gaps' = gaps
      /\ k.pc = "test" /\ exit' = exit /\ k' = [k EXCEPT !.pc = "end"]
  BY DEF Trailer, Stop
<1>2. Size \in Nat
  BY Volume DEF TInv, DevOK
<1>3. dev' \in DevType /\ dev'.vol = dev.vol
  <2>1. dev \in DevType
    BY DEF TInv, DevOK
  <2>2. PICK r \in {-1, 0} : dev' = [dev EXCEPT !.pos = Size, !.lstrval = r] \/ dev' = dev
    BY DEF Trailer
  <2>3. r \in -1 .. 1
    BY <2>2
  <2> QED
    BY <1>2, <2>1, <2>2, <2>3 DEF DevType
<1>4. LocOK'
  BY <1>1 DEF TInv, LocOK, LocType, Pcs, Early, Known1
<1>5. k'.fini = k.fini /\ k'.frmt = k.frmt /\ k'.pc = "end" /\ k'.want = k.want
  BY <1>1 DEF TInv, LocOK, LocType
<1>6. HeadOK'
  BY <1>1, <1>5, HeadKept DEF Heads
<1>7. DevOK'
  <2>1. Volumes' = Volumes
    BY <1>1, SameScene
  <2> QED
    BY <1>3, <1>5, <2>1 DEF TInv, DevOK, Idle
<1>8. BufOK'
  BY <1>1, <1>3, <1>5, BufKept
<1>9. FoundOK'
  BY <1>1, <1>5, FoundKept DEF Behind
<1>10. OutOK'
  BY <1>1, <1>5, OutKept
<1>11. GapsOK'
  BY <1>1, GapsKept
<1> QED
  BY <1>1, <1>4, <1>6, <1>7, <1>8, <1>9, <1>10, <1>11 DEF TInv

(* Member either skips what is behind the header or starts with the file. *)
LEMMA MemberCases ==
  ASSUME TInv, Member
  PROVE  /\ sc' = sc /\ b' = b /\ h' = h /\ found' = found /\ gaps' = gaps /\ dev' = dev
         /\ k.pc = "member" /\ found # <<>> /\ exit' \in {exit, 1}
         /\ \/ /\ k' = [k EXCEPT !.pc = "skipto",
                                 !.need = Fits(Last(found)).skip + Fits(Last(found)).pad]
               /\ out' = out
            \/ /\ Fits(Last(found)).skip = 0
               /\ k' = [k EXCEPT !.pc = "skipto", !.need = Fits(Last(found)).pad]
               /\ out' = [out EXCEPT ![Last(found)] = <<>>] /\ sc.act = "extract"
            \/ /\ Fits(Last(found)).skip # 0
               /\ k' = [k EXCEPT !.pc = "copy", !.need = Fits(Last(found)).skip]
               /\ out' = [out EXCEPT ![Last(found)] = <<>>] /\ sc.act = "extract"
<1>1. k.pc = "member" /\ found # <<>>
  BY DEF Member, TInv, FoundOK, Behind
<1>2. This = Fits(Last(found))
  BY <1>1, LastProp
<1> QED
  BY <1>1, <1>2 DEF Member, SkipOver, Chosen

LEMMA MemberT ==
  ASSUME TInv, Member
  PROVE  TInv'
<1> DEFINE L == Last(found)
<1>1. /\ sc' = sc /\ b' = b /\ h' = h /\ found' = found /\ gaps' = gaps /\ dev' = dev
      /\ k.pc = "member" /\ found # <<>> /\ exit' \in {exit, 1}
  BY MemberCases
<1>2. \/ /\ k' = [k EXCEPT !.pc = "skipto", !.need = Fits(L).skip + Fits(L).pad]
         /\ out' = out
      \/ /\ Fits(L).skip = 0
         /\ k' = [k EXCEPT !.pc = "skipto", !.need = Fits(L).pad]
         /\ out' = [out EXCEPT ![L] = <<>>]
      \/ /\ Fits(L).skip # 0
         /\ k' = [k EXCEPT !.pc = "copy", !.need = Fits(L).skip]
         /\ out' = [out EXCEPT ![L] = <<>>]
  BY MemberCases
<1>3. L \in 1 .. N /\ Fits(L).skip \in Nat /\ Fits(L).pad \in Nat
  BY <1>1, LastProp
<1>4. \E p \in {"skipto", "copy"} : \E n \in Nat :
        /\ k' = [k EXCEPT !.pc = p, !.need = n]
        /\ p = "copy" => n = Fits(L).skip /\ n # 0 /\ out' = [out EXCEPT ![L] = <<>>]
  <2> HIDE DEF L
  <2>1. Fits(L).skip + Fits(L).pad \in Nat
    BY <1>3
  <2>2. CASE k' = [k EXCEPT !.pc = "skipto", !.need = Fits(L).skip + Fits(L).pad]
    BY <2>1, <2>2
  <2>3. CASE k' = [k EXCEPT !.pc = "skipto", !.need = Fits(L).pad]
    BY <1>3, <2>3
  <2>4. CASE /\ Fits(L).skip # 0
             /\ k' = [k EXCEPT !.pc = "copy", !.need = Fits(L).skip]
             /\ out' = [out EXCEPT ![L] = <<>>]
    BY <1>3, <2>4
  <2> QED
    BY <1>2, <2>2, <2>3, <2>4
<1>5. PICK p \in {"skipto", "copy"}, n \in Nat :
        /\ k' = [k EXCEPT !.pc = p, !.need = n]
        /\ p = "copy" => n = Fits(L).skip /\ n # 0 /\ out' = [out EXCEPT ![L] = <<>>]
  BY <1>4
<1>6. LocOK'
  <2>1. k \in LocType /\ k.frmt /\ exit \in 0 .. 1 /\ k.got + k.want <= BLKMULT
    BY <1>1 DEF TInv, LocOK, Known1
  <2>2. p \in Pcs /\ k' = [k EXCEPT !.pc = p, !.need = n]
    BY <1>5 DEF Pcs
  <2>3. k' \in LocType /\ k'.pc = p /\ k'.frmt = k.frmt /\ k'.got = k.got /\ k'.want = k.want
    BY <2>1, <2>2 DEF LocType
  <2> QED
    BY <1>1, <2>1, <2>3 DEF LocOK, Early, Known1
<1>7. k'.fini = k.fini /\ k'.frmt = k.frmt /\ k'.pc = p /\ k'.want = k.want /\ k'.need = n
  BY <1>5 DEF TInv, LocOK, LocType
<1>8. HeadOK'
  BY <1>1, <1>7, HeadKept DEF Heads
<1>9. DevOK'
  BY <1>1, <1>7, DevKept DEF Idle
<1>10. BufOK'
  BY <1>1, <1>7, BufKept
<1>11. FoundOK'
  BY <1>1, <1>7, FoundKept DEF Behind
<1>12. OutOK'
  <2>1. N' = N /\ \A m : Fits(m)' = Fits(m)
    BY <1>1, SameScene
  <2>2. /\ out \in [1 .. N -> Seq(Cells)] /\ \A m \in 1 .. N : Len(out[m]) <= Fits(m).skip
    BY DEF TInv, OutOK
  <2>3. out' = out \/ out' = [out EXCEPT ![L] = <<>>]
    BY <1>2
  <2>4. out' \in [1 .. N -> Seq(Cells)] /\ \A m \in 1 .. N : Len(out'[m]) <= Fits(m).skip
    <3>1. CASE out' = out
      BY <2>2, <3>1
    <3>2. CASE out' = [out EXCEPT ![L] = <<>>]
      <4>1. <<>> \in Seq(Cells) /\ Len(<<>>) = 0
        OBVIOUS
      <4>2. out' \in [1 .. N -> Seq(Cells)]
        BY <3>2, <4>1, <2>2
      <4>3. \A m \in 1 .. N : out'[m] = IF m = L THEN <<>> ELSE out[m]
        BY <3>2, <2>2
      <4> QED
        BY <4>1, <4>2, <4>3, <2>2, <1>3
    <3> QED
      BY <2>3, <3>1, <3>2
  <2>5. k'.pc = "copy" => k'.need > 0 /\ Len(out'[L]) + k'.need = Fits(L).skip
    <3> SUFFICES ASSUME k'.pc = "copy" PROVE k'.need > 0 /\ Len(out'[L]) + k'.need = Fits(L).skip
      OBVIOUS
    <3>1. out'[L] = <<>> /\ Len(<<>>) = 0
      BY <1>3, <1>5, <1>7, <2>2
    <3>2. k'.need = Fits(L).skip /\ k'.need # 0 /\ k'.need \in Nat
      BY <1>5, <1>7
    <3> QED
      BY <3>1, <3>2
  <2> QED
    BY <1>1, <2>1, <2>4, <2>5 DEF OutOK
<1>13. GapsOK'
  BY <1>1, GapsKept
<1> QED
  BY <1>1, <1>6, <1>8, <1>9, <1>10, <1>11, <1>12, <1>13 DEF TInv

-----------------------------------------------------------------------------
(* Taking from the buffer. *)
LEMMA RestProp ==
  ASSUME NEW S, NEW s \in Seq(S), NEW n \in 0 .. Len(s)
  PROVE  /\ SubSeq(s, n + 1, Len(s)) \in Seq(S)
         /\ Len(SubSeq(s, n + 1, Len(s))) = Len(s) - n
         /\ \A i \in 1 .. Len(s) - n : SubSeq(s, n + 1, Len(s))[i] = s[n + i]
<1> DEFINE w == Len(s) - n
<1>1. n \in Nat /\ w \in Nat /\ n + w <= Len(s) /\ n + w = Len(s)
  OBVIOUS
<1> HIDE DEF w
<1> DEFINE u == SubSeq(s, n + 1, n + w)
<1>2. u \in Seq(S) /\ Len(u) = w /\ \A i \in 1 .. w : u[i] = s[n + i]
  BY <1>1, PartProp
<1> HIDE DEF u
<1>3. u = SubSeq(s, n + 1, Len(s))
  BY <1>1 DEF u
<1> QED
  BY <1>2, <1>3 DEF w

LEMMA FrontProp ==
  ASSUME NEW S, NEW s \in Seq(S), NEW n \in 0 .. Len(s)
  PROVE  /\ SubSeq(s, 1, n) \in Seq(S) /\ Len(SubSeq(s, 1, n)) = n
         /\ \A i \in 1 .. n : SubSeq(s, 1, n)[i] = s[i]
<1> DEFINE u == SubSeq(s, 0 + 1, 0 + n)
<1>1. 0 \in Nat /\ n \in Nat /\ 0 + n <= Len(s) /\ 0 + n = n /\ 0 + 1 = 1
  OBVIOUS
<1>2. u \in Seq(S) /\ Len(u) = n /\ \A i \in 1 .. n : u[i] = s[0 + i]
  BY <1>1, PartProp
<1> HIDE DEF u
<1>3. u = SubSeq(s, 1, n)
  BY <1>1 DEF u
<1>4. \A i \in 1 .. n : 0 + i = i
  OBVIOUS
<1> QED
  BY <1>2, <1>3, <1>4

LEMMA BufTaken ==
  ASSUME TInv, NEW n \in 0 .. Len(b), b' = SubSeq(b, n + 1, Len(b)), sc' = sc,
         dev'.vol = dev.vol, ~ k'.frmt => ~ k.frmt,
         k'.pc \notin {"sync", "reread", "short", "noid"}
  PROVE  /\ BufOK' /\ Len(b') = Len(b) - n
         /\ \A i \in 1 .. Len(b) - n : b'[i] = b[n + i]
<1>1. ReadSize' = ReadSize
  BY SameVolume
<1>2. b \in Seq(Cells) /\ Len(b) \in Nat /\ ReadSize \in Nat /\ BLKMULT \in Nat
  BY Facts DEF TInv, BufOK
<1>3. /\ b' \in Seq(Cells) /\ Len(b') = Len(b) - n
      /\ \A i \in 1 .. Len(b) - n : b'[i] = b[n + i]
  BY <1>2, RestProp
<1>4. Len(b') <= Len(b) /\ Len(b') \in Nat
  BY <1>2, <1>3
<1>5. Len(b) <= ReadSize + BLKMULT /\ (~ k.frmt => Len(b) <= ReadSize)
  BY DEF TInv, BufOK
<1>6. BufOK'
  BY <1>1, <1>2, <1>3, <1>4, <1>5 DEF BufOK
<1> QED
  BY <1>3, <1>6

LEMMA LocNext ==
  ASSUME k' \in LocType, k'.got + k'.want <= BLKMULT, exit' \in 0 .. 1,
         k'.pc \in Early => ~ k'.frmt, k'.pc \in Known1 => k'.frmt
  PROVE  LocOK'
  BY DEF LocOK

LEMMA FreshProp ==
  ASSUME NEW kk \in LocType, NEW kn, kn = Fresh(kk)
  PROVE  /\ kn \in LocType /\ kn.pc = "head" /\ kn.want = BLKMULT /\ kn.got = 0
         /\ kn.got + kn.want <= BLKMULT
         /\ ~ kn.resync /\ kn.cnt = 0 /\ kn.first /\ kn.frmt = kk.frmt /\ kn.fini = kk.fini
<1>1. "head" \in Pcs /\ BLKMULT \in 0 .. BLKMULT /\ 0 \in 0 .. BLKMULT /\ 0 \in 0 .. NULLCNT - 1
  BY Constants DEF Pcs
<1>2. kn = [kk EXCEPT !.pc = "head", !.want = BLKMULT, !.got = 0, !.resync = FALSE,
                      !.cnt = 0, !.first = TRUE]
  BY DEF Fresh
<1>3. kn \in LocType
  BY <1>1, <1>2 DEF LocType
<1>4. /\ kn.pc = "head" /\ kn.want = BLKMULT /\ kn.got = 0
      /\ ~ kn.resync /\ kn.cnt = 0 /\ kn.first /\ kn.frmt = kk.frmt /\ kn.fini = kk.fini
  BY <1>2 DEF LocType
<1>5. 0 + BLKMULT <= BLKMULT
  BY Constants
<1> QED
  BY <1>3, <1>4, <1>5

LEMMA NextHeadT ==
  ASSUME TInv, NextHead, k.frmt, exit' \in 0 .. 1
  PROVE  /\ LocOK' /\ HeadOK' /\ k'.pc = "head" /\ k'.frmt /\ k'.fini = k.fini /\ h' = <<>>
         /\ k'.cnt = 0 /\ ~ k'.resync
<1>1. k \in LocType /\ k' = Fresh(k) /\ h' = <<>>
  BY DEF TInv, LocOK, NextHead
<1>2. /\ k' \in LocType /\ k'.pc = "head" /\ k'.want = BLKMULT /\ k'.got + k'.want <= BLKMULT
      /\ k'.frmt = k.frmt /\ k'.fini = k.fini /\ k'.cnt = 0 /\ ~ k'.resync
  BY <1>1, FreshProp
<1>3. LocOK'
  BY <1>2, LocNext DEF Early, Known1
<1>4. HeadOK'
  BY <1>1, <1>2, HeadFresh
<1> QED
  BY <1>1, <1>2, <1>3, <1>4

LEMMA SmallerOf ==
  ASSUME NEW x \in Nat, NEW y \in Nat
  PROVE  /\ Min({x, y}) \in Nat /\ Min({x, y}) <= x /\ Min({x, y}) <= y
         /\ Min({x, y}) = x \/ Min({x, y}) = y
<1>1. Min({x, y}) = IF x <= y THEN x ELSE y
  BY MinOfTwo
<1> QED
  BY <1>1

LEMMA TakeProp ==
  ASSUME TInv, Take
  PROVE  \E n \in Nat \ {0} :
           /\ n <= Len(b) /\ n <= k.want /\ sc' = sc /\ dev' = dev /\ found' = found
           /\ out' = out /\ gaps' = gaps /\ exit' = exit
           /\ b' = SubSeq(b, n + 1, Len(b))
           /\ h' \in Seq(Cells) /\ Len(h') = Len(h) + n
           /\ \A i \in 1 .. Len(h) : h'[i] = h[i]
           /\ \A i \in 1 .. n : h'[Len(h) + i] = b[i]
           /\ k' \in LocType /\ k'.want = k.want - n /\ k'.got = k.got + n /\ k'.cnt = k.cnt
           /\ k'.frmt = k.frmt /\ k'.fini = k.fini /\ k'.resync = k.resync
           /\ \/ n < k.want /\ k'.pc = k.pc
              \/ n = k.want /\ k.pc = "id" /\ k'.pc = "idtest"
              \/ n = k.want /\ k.pc = "head" /\ k'.pc = "test"
           /\ k.pc \in {"id", "head"}
<1> DEFINE n == Min({k.want, Len(b)})
<1>1. /\ k.pc \in {"id", "head"} /\ b # <<>> /\ k.want > 0
      /\ h' = h \o SubSeq(b, 1, n) /\ b' = SubSeq(b, n + 1, Len(b))
      /\ k' = [k EXCEPT !.want = k.want - n, !.got = k.got + n,
                        !.pc = IF n < k.want THEN k.pc
                               ELSE IF k.pc = "id" THEN "idtest" ELSE "test"]
      /\ sc' = sc /\ dev' = dev /\ found' = found /\ out' = out /\ gaps' = gaps /\ exit' = exit
  BY DEF Take
<1>2. Len(b) \in Nat /\ k.want \in 0 .. BLKMULT /\ k.got \in 0 .. BLKMULT /\ BLKMULT \in Nat
      /\ k \in LocType /\ k.got + k.want <= BLKMULT /\ b \in Seq(Cells) /\ h \in Seq(Cells)
  BY Facts DEF TInv, LocOK, BufOK, HeadOK
<1>3. Len(b) # 0
  BY <1>1, <1>2
<1>4. n \in Nat \ {0} /\ n <= Len(b) /\ n <= k.want
  <2>1. k.want \in Nat /\ k.want # 0 /\ Len(b) \in Nat /\ Len(b) # 0
    BY <1>1, <1>2, <1>3
  <2>2. n \in Nat /\ n <= k.want /\ n <= Len(b) /\ (n = k.want \/ n = Len(b))
    BY <2>1, SmallerOf
  <2> HIDE DEF n
  <2> QED
    BY <2>1, <2>2
<1> HIDE DEF n
<1>5. n \in 0 .. Len(b)
  BY <1>2, <1>4
<1> DEFINE u == SubSeq(b, 1, n)
<1>6. u \in Seq(Cells) /\ Len(u) = n /\ \A i \in 1 .. n : u[i] = b[i]
  BY <1>2, <1>5, FrontProp
<1>7. h' = h \o u
  BY <1>1
<1> HIDE DEF u
<1>8. /\ h \o u \in Seq(Cells) /\ Len(h \o u) = Len(h) + Len(u)
      /\ \A i \in 1 .. Len(h) + Len(u) : (h \o u)[i] = IF i <= Len(h) THEN h[i] ELSE u[i - Len(h)]
  BY <1>2, <1>6, TwoParts
<1>9. Len(h) \in Nat
  BY <1>2
<1>10. h' \in Seq(Cells) /\ Len(h') = Len(h) + n
  BY <1>6, <1>7, <1>8
<1>11. \A i \in 1 .. Len(h) : h'[i] = h[i]
  BY <1>4, <1>6, <1>7, <1>8, <1>9
<1>12. ASSUME NEW i \in 1 .. n PROVE h'[Len(h) + i] = b[i]
  <2>1. Len(h) + i \in 1 .. Len(h) + Len(u) /\ ~ Len(h) + i <= Len(h) /\ Len(h) + i - Len(h) = i
    BY <1>4, <1>6, <1>9
  <2> QED
    BY <2>1, <1>6, <1>7, <1>8
<1>13. k.want - n \in 0 .. BLKMULT /\ k.got + n \in 0 .. BLKMULT
  BY <1>2, <1>4
<1> DEFINE p == IF n < k.want THEN k.pc ELSE IF k.pc = "id" THEN "idtest" ELSE "test"
<1>14. p \in Pcs
  BY <1>1 DEF Pcs
<1>15. \/ n < k.want /\ p = k.pc
       \/ n = k.want /\ k.pc = "id" /\ p = "idtest"
       \/ n = k.want /\ k.pc = "head" /\ p = "test"
  BY <1>1, <1>2, <1>4
<1>16. k' = [k EXCEPT !.want = k.want - n, !.got = k.got + n, !.pc = p]
  BY <1>1
<1> HIDE DEF p
<1>17. k' \in LocType
  BY <1>2, <1>13, <1>14, <1>16 DEF LocType
<1>18. /\ k'.want = k.want - n /\ k'.got = k.got + n /\ k'.cnt = k.cnt /\ k'.pc = p
       /\ k'.frmt = k.frmt /\ k'.fini = k.fini /\ k'.resync = k.resync
  BY <1>2, <1>16 DEF LocType
<1> QED
  BY <1>1, <1>4, <1>10, <1>11, <1>12, <1>15, <1>17, <1>18

LEMMA TakeT ==
  ASSUME TInv, Take
  PROVE  TInv'
<1>1. PICK n \in Nat \ {0} :
        /\ n <= Len(b) /\ n <= k.want /\ sc' = sc /\ dev' = dev /\ found' = found
        /\ out' = out /\ gaps' = gaps /\ exit' = exit
        /\ b' = SubSeq(b, n + 1, Len(b))
        /\ h' \in Seq(Cells) /\ Len(h') = Len(h) + n
        /\ \A i \in 1 .. Len(h) : h'[i] = h[i]
        /\ \A i \in 1 .. n : h'[Len(h) + i] = b[i]
        /\ k' \in LocType /\ k'.want = k.want - n /\ k'.got = k.got + n /\ k'.cnt = k.cnt
        /\ k'.frmt = k.frmt /\ k'.fini = k.fini /\ k'.resync = k.resync
        /\ \/ n < k.want /\ k'.pc = k.pc
           \/ n = k.want /\ k.pc = "id" /\ k'.pc = "idtest"
           \/ n = k.want /\ k.pc = "head" /\ k'.pc = "test"
        /\ k.pc \in {"id", "head"}
  BY TakeProp
<1>2. Len(b) \in Nat /\ k.want \in 0 .. BLKMULT /\ k.got \in 0 .. BLKMULT /\ BLKMULT \in Nat
      /\ Len(h) \in Nat /\ k.got + k.want <= BLKMULT /\ exit \in 0 .. 1
      /\ Len(h) + k.want = BLKMULT
      /\ (k.pc \in Early => ~ k.frmt) /\ (k.pc \in Known1 => k.frmt)
  BY <1>1, Facts DEF TInv, LocOK, HeadOK, Heads
<1>3. LocOK'
  <2>1. k'.got + k'.want <= BLKMULT
    <3>1. k'.got = k.got + n /\ k'.want = k.want - n
      BY <1>1
    <3>3. k.got \in Int /\ k.want \in Int /\ n \in Int
      BY <1>2
    <3>2. (k.got + n) + (k.want - n) = k.got + k.want
      BY <3>3
    <3> QED
      BY <1>2, <3>1, <3>2
  <2>2. (k'.pc \in Early => ~ k'.frmt) /\ (k'.pc \in Known1 => k'.frmt)
    BY <1>1, <1>2 DEF Early, Known1
  <2> QED
    BY <1>1, <1>2, <2>1, <2>2, LocNext
<1>4. HeadOK'
  <2>5. Len(h') = Len(h) + n /\ k'.want = k.want - n
    BY <1>1
  <2>6. Len(h) \in Nat /\ k.want \in Int /\ Len(h) + k.want = BLKMULT
    BY <1>2
  <2>1. Len(h') + k'.want = BLKMULT /\ Len(h') \in Nat \ {0}
    BY <2>5, <2>6
  <2>2. k'.pc = "test" => k'.want = 0
    BY <1>1, <1>2
  <2>3. h' # <<>>
    BY <2>1
  <2>4. Len(h') + k'.want <= BLKMULT
    BY <2>1, <1>2
  <2> QED
    BY <1>1, <2>1, <2>2, <2>3, <2>4 DEF HeadOK
<1>5. k'.pc \in {"id", "idtest", "head", "test"}
  BY <1>1
<1>6. DevOK'
  BY <1>1, DevKept DEF Idle
<1>7. BufOK'
  <2>1. n \in 0 .. Len(b)
    BY <1>1, <1>2
  <2> QED
    BY <1>1, <1>5, <2>1, BufTaken
<1>8. FoundOK'
  BY <1>1, <1>5, FoundKept DEF Behind
<1>9. OutOK'
  BY <1>1, <1>5, OutKept
<1>10. GapsOK'
  BY <1>1, GapsKept
<1> QED
  BY <1>1, <1>3, <1>4, <1>6, <1>7, <1>8, <1>9, <1>10 DEF TInv

LEMMA IdFoundT ==
  ASSUME TInv, IdFound
  PROVE  TInv'
<1>1. /\ sc' = sc /\ found' = found /\ out' = out /\ gaps' = gaps /\ dev' = dev
      /\ exit' = exit /\ k.pc = "idtest" /\ Valid /\ b' = h \o b /\ h' = <<>>
      /\ k' = Fresh([k EXCEPT !.frmt = TRUE])
  BY DEF IdFound
<1>2. k \in LocType /\ ~ k.frmt /\ exit \in 0 .. 1
  BY <1>1 DEF TInv, LocOK, Early
<1> DEFINE kk == [k EXCEPT !.frmt = TRUE]
<1>3. kk \in LocType /\ kk.frmt /\ kk.fini = k.fini
  BY <1>2 DEF LocType
<1>4. k' = Fresh(kk)
  BY <1>1
<1> HIDE DEF kk
<1>5. /\ k' \in LocType /\ k'.pc = "head" /\ k'.want = BLKMULT /\ k'.got + k'.want <= BLKMULT
      /\ k'.frmt /\ k'.fini = k.fini
  BY <1>3, <1>4, FreshProp
<1>6. LocOK'
  BY <1>1, <1>2, <1>5, LocNext DEF Early, Known1
<1>7. HeadOK'
  BY <1>1, <1>5, HeadFresh
<1>8. DevOK'
  BY <1>1, <1>5, DevKept DEF Idle
<1>9. BufOK'
  <2>1. b \in Seq(Cells) /\ h \in Seq(Cells) /\ Len(b) <= ReadSize /\ Len(h) = BLKMULT
    BY <1>1, <1>2, ValidProp DEF TInv, BufOK, HeadOK
  <2>2. b' \in Seq(Cells) /\ Len(b') = BLKMULT + Len(b)
    <3>1. h \o b \in Seq(Cells) /\ Len(h \o b) = Len(h) + Len(b)
      BY <2>1, TwoParts
    <3> QED
      BY <1>1, <2>1, <3>1
  <2>3. ReadSize' = ReadSize
    BY <1>1, SameVolume
  <2>4. Len(b') <= ReadSize + BLKMULT
    BY <2>1, <2>2, Facts
  <2> QED
    BY <1>5, <2>2, <2>3, <2>4 DEF BufOK
<1>10. FoundOK'
  BY <1>1, <1>5, FoundKept DEF Behind
<1>11. OutOK'
  BY <1>1, <1>5, OutKept
<1>12. GapsOK'
  BY <1>1, GapsKept
<1> QED
  BY <1>1, <1>6, <1>7, <1>8, <1>9, <1>10, <1>11, <1>12 DEF TInv

(* Writing a part of the buffer to the file. *)
LEMMA WroteProp ==
  ASSUME TInv, k.pc = "copy", NEW n \in Nat, n <= Len(b), n <= k.need, Wrote(n)
  PROVE  /\ Last(found) \in 1 .. N
         /\ out' \in [1 .. N -> Seq(Cells)]
         /\ \A m \in 1 .. N : m # Last(found) => out'[m] = out[m]
         /\ \A m \in 1 .. N : Len(out'[m]) <= Fits(m).skip
         /\ Len(out[Last(found)]) \in Nat
         /\ Len(out'[Last(found)]) = Len(out[Last(found)]) + n
         /\ Len(out[Last(found)]) + k.need = Fits(Last(found)).skip
         /\ \A i \in 1 .. Len(out[Last(found)]) : out'[Last(found)][i] = out[Last(found)][i]
         /\ \A i \in 1 .. n : out'[Last(found)][Len(out[Last(found)]) + i] = b[i]
<1> DEFINE L == Last(found)
           o == out[L]
           u == SubSeq(b, 1, n)
<1>1. L \in 1 .. N
  BY LastProp DEF TInv, FoundOK, Behind
<1>2. out \in [1 .. N -> Seq(Cells)] /\ (\A m \in 1 .. N : Len(out[m]) <= Fits(m).skip)
      /\ Len(o) + k.need = Fits(L).skip
  BY DEF TInv, OutOK
<1>3. out' = [out EXCEPT ![L] = o \o u]
  BY DEF Wrote
<1>4. o \in Seq(Cells) /\ Len(o) \in Nat
  BY <1>1, <1>2
<1>5. u \in Seq(Cells) /\ Len(u) = n /\ \A i \in 1 .. n : u[i] = b[i]
  <2>1. b \in Seq(Cells) /\ n \in 0 .. Len(b)
    BY Facts DEF TInv, BufOK
  <2> QED
    BY <2>1, FrontProp
<1> HIDE DEF u, o, L
<1>6. /\ o \o u \in Seq(Cells) /\ Len(o \o u) = Len(o) + Len(u)
      /\ \A i \in 1 .. Len(o) + Len(u) : (o \o u)[i] = IF i <= Len(o) THEN o[i] ELSE u[i - Len(o)]
  BY <1>4, <1>5, TwoParts
<1>7. out' \in [1 .. N -> Seq(Cells)] /\ out'[L] = o \o u
      /\ \A m \in 1 .. N : m # L => out'[m] = out[m]
  BY <1>1, <1>2, <1>3, <1>6
<1>8. Len(out'[L]) = Len(o) + n
  BY <1>5, <1>6, <1>7
<1>9. Len(out'[L]) <= Fits(L).skip
  BY <1>2, <1>4, <1>8, Facts
<1>10. \A m \in 1 .. N : Len(out'[m]) <= Fits(m).skip
  BY <1>2, <1>7, <1>9
<1>11. \A i \in 1 .. Len(o) : out'[L][i] = o[i]
  BY <1>4, <1>5, <1>6, <1>7
<1>12. ASSUME NEW i \in 1 .. n PROVE out'[L][Len(o) + i] = b[i]
  <2>1. Len(o) + i \in 1 .. Len(o) + Len(u) /\ ~ Len(o) + i <= Len(o) /\ Len(o) + i - Len(o) = i
    BY <1>4, <1>5
  <2> QED
    BY <2>1, <1>5, <1>6, <1>7
<1> QED
  BY <1>1, <1>2, <1>4, <1>7, <1>8, <1>10, <1>11, <1>12 DEF L, o

LEMMA CopyProp ==
  ASSUME TInv, Copy
  PROVE  \E n \in Nat :
           /\ n <= Len(b) /\ n <= k.need /\ Wrote(n) /\ b' = SubSeq(b, n + 1, Len(b))
           /\ \/ n < k.need /\ k' = [k EXCEPT !.need = k.need - n]
              \/ n = k.need /\ k' = [k EXCEPT !.pc = "skipto", !.need = Fits(Last(found)).pad]
           /\ k.pc = "copy" /\ sc' = sc /\ dev' = dev /\ h' = h /\ found' = found
           /\ gaps' = gaps /\ exit' = exit
<1> DEFINE n == Min({Len(b), k.need})
<1>1. Len(b) \in Nat /\ k.need \in Nat
  BY Facts
<1>2. n \in Nat /\ n <= Len(b) /\ n <= k.need
  BY <1>1, SmallerOf
<1>3. /\ k.pc = "copy" /\ Wrote(n) /\ b' = SubSeq(b, n + 1, Len(b))
      /\ IF n < k.need THEN k' = [k EXCEPT !.need = k.need - n] ELSE SkipOver(This.pad)
      /\ sc' = sc /\ dev' = dev /\ h' = h /\ found' = found /\ gaps' = gaps /\ exit' = exit
  BY DEF Copy
<1> HIDE DEF n
<1>4. Fits(Last(found)) = This
  BY <1>3, LastProp DEF TInv, FoundOK, Behind
<1>5. \/ n < k.need /\ k' = [k EXCEPT !.need = k.need - n]
      \/ n = k.need /\ k' = [k EXCEPT !.pc = "skipto", !.need = Fits(Last(found)).pad]
  BY <1>1, <1>2, <1>3, <1>4 DEF SkipOver
<1> QED
  BY <1>2, <1>3, <1>5

LEMMA CopyT ==
  ASSUME TInv, Copy
  PROVE  TInv'
<1>1. PICK n \in Nat :
        /\ n <= Len(b) /\ n <= k.need /\ Wrote(n) /\ b' = SubSeq(b, n + 1, Len(b))
        /\ \/ n < k.need /\ k' = [k EXCEPT !.need = k.need - n]
           \/ n = k.need /\ k' = [k EXCEPT !.pc = "skipto", !.need = Fits(Last(found)).pad]
        /\ k.pc = "copy" /\ sc' = sc /\ dev' = dev /\ h' = h /\ found' = found
        /\ gaps' = gaps /\ exit' = exit
  BY CopyProp
<1>2. k \in LocType /\ k.got + k.want <= BLKMULT /\ exit \in 0 .. 1 /\ k.frmt
  BY <1>1 DEF TInv, LocOK, Known1
<1>3. k.need \in Nat /\ Len(b) \in Nat /\ Fits(Last(found)).pad \in Nat
  BY <1>1, Facts, LastProp DEF TInv, FoundOK, Behind
<1>4. \E p \in {"copy", "skipto"} : \E d \in Nat :
        k' = [k EXCEPT !.pc = p, !.need = d] /\ (p = "copy" => d = k.need - n /\ n < k.need)
  <2>1. CASE n < k.need /\ k' = [k EXCEPT !.need = k.need - n]
    <3>1. k.need - n \in Nat
      BY <1>3, <2>1
    <3>2. k' = [k EXCEPT !.pc = "copy", !.need = k.need - n]
      BY <1>1, <1>2, <2>1 DEF LocType
    <3> QED
      BY <2>1, <3>1, <3>2
  <2>2. CASE k' = [k EXCEPT !.pc = "skipto", !.need = Fits(Last(found)).pad]
    BY <1>3, <2>2
  <2> QED
    BY <1>1, <2>1, <2>2
<1>5. PICK p \in {"copy", "skipto"}, d \in Nat :
        k' = [k EXCEPT !.pc = p, !.need = d] /\ (p = "copy" => d = k.need - n /\ n < k.need)
  BY <1>4
<1>6. /\ k' \in LocType /\ k'.pc = p /\ k'.need = d /\ k'.want = k.want /\ k'.got = k.got
      /\ k'.frmt = k.frmt /\ k'.fini = k.fini
  <2>1. p \in Pcs
    BY DEF Pcs
  <2> QED
    BY <1>2, <1>5, <2>1 DEF LocType
<1>7. LocOK'
  BY <1>1, <1>2, <1>6, LocNext DEF Early, Known1
<1>8. HeadOK'
  BY <1>1, <1>6, HeadKept DEF Heads
<1>9. DevOK'
  BY <1>1, <1>6, DevKept DEF Idle
<1>10. BufOK'
  <2>1. n \in 0 .. Len(b)
    BY <1>1, <1>3
  <2> QED
    BY <1>1, <1>6, <2>1, BufTaken
<1>11. FoundOK'
  BY <1>1, <1>6, FoundKept DEF Behind
<1>12. OutOK'
  <2>1. N' = N /\ \A m : Fits(m)' = Fits(m)
    BY <1>1, SameScene
  <2>2. /\ Last(found) \in 1 .. N /\ out' \in [1 .. N -> Seq(Cells)]
        /\ \A m \in 1 .. N : Len(out'[m]) <= Fits(m).skip
        /\ Len(out[Last(found)]) \in Nat
        /\ Len(out'[Last(found)]) = Len(out[Last(found)]) + n
        /\ Len(out[Last(found)]) + k.need = Fits(Last(found)).skip
    BY <1>1, WroteProp
  <2>3. k'.pc = "copy" => k'.need > 0 /\ Len(out'[Last(found)]) + k'.need = Fits(Last(found)).skip
    <3> SUFFICES ASSUME k'.pc = "copy"
                 PROVE  k'.need > 0 /\ Len(out'[Last(found)]) + k'.need = Fits(Last(found)).skip
      OBVIOUS
    <3>1. k'.need = k.need - n /\ n < k.need /\ k.need \in Nat
      BY <1>3, <1>5, <1>6
    <3>2. k'.need > 0 /\ k'.need \in Nat
      BY <3>1
    <3>3. (Len(out[Last(found)]) + n) + k'.need = Len(out[Last(found)]) + k.need
      BY <2>2, <3>1
    <3> QED
      BY <2>2, <3>2, <3>3
  <2> QED
    BY <1>1, <2>1, <2>2, <2>3 DEF OutOK
<1>13. GapsOK'
  BY <1>1, GapsKept
<1> QED
  BY <1>1, <1>7, <1>8, <1>9, <1>10, <1>11, <1>12, <1>13 DEF TInv

LEMMA CopyFailsProp ==
  ASSUME TInv, CopyFails
  PROVE  \E n \in Nat :
           /\ n <= Len(b) /\ n <= k.need /\ Wrote(n)
           /\ k' = [k EXCEPT !.pc = "skipto", !.need = k.need + Fits(Last(found)).pad]
           /\ k.pc = "copy" /\ sc' = sc /\ dev' = dev /\ h' = h /\ found' = found
           /\ b' = b /\ gaps' = gaps /\ exit' = 1
<1>1. Len(b) \in Nat /\ k.need \in Nat
  BY Facts
<1>2. PICK n \in 0 .. Min({Len(b), k.need}) - 1 : Wrote(n) /\ SkipOver(LeftAll(k.need, n) + This.pad)
  BY DEF CopyFails
<1>3. n \in Nat /\ n <= Len(b) /\ n <= k.need
  BY <1>1, <1>2, SmallerOf
<1>4. /\ k.pc = "copy" /\ sc' = sc /\ dev' = dev /\ h' = h /\ found' = found
      /\ b' = b /\ gaps' = gaps /\ exit' = 1
  BY DEF CopyFails
<1>5. Fits(Last(found)) = This
  BY <1>4, LastProp DEF TInv, FoundOK, Behind
<1> QED
  BY <1>2, <1>3, <1>4, <1>5 DEF SkipOver, LeftAll

LEMMA CopyFailsT ==
  ASSUME TInv, CopyFails
  PROVE  TInv'
<1>1. PICK n \in Nat :
        /\ n <= Len(b) /\ n <= k.need /\ Wrote(n)
        /\ k' = [k EXCEPT !.pc = "skipto", !.need = k.need + Fits(Last(found)).pad]
        /\ k.pc = "copy" /\ sc' = sc /\ dev' = dev /\ h' = h /\ found' = found
        /\ b' = b /\ gaps' = gaps /\ exit' = 1
  BY CopyFailsProp
<1>2. k \in LocType /\ k.got + k.want <= BLKMULT /\ k.frmt
  BY <1>1 DEF TInv, LocOK, Known1
<1>3. k.need \in Nat /\ Fits(Last(found)).pad \in Nat
  BY <1>1, Facts, LastProp DEF TInv, FoundOK, Behind
<1> DEFINE d == k.need + Fits(Last(found)).pad
<1>4. d \in Nat /\ k' = [k EXCEPT !.pc = "skipto", !.need = d] /\ "skipto" \in Pcs
  BY <1>1, <1>3 DEF Pcs
<1> HIDE DEF d
<1>6. /\ k' \in LocType /\ k'.pc = "skipto" /\ k'.need = d /\ k'.want = k.want /\ k'.got = k.got
      /\ k'.frmt = k.frmt /\ k'.fini = k.fini
  BY <1>2, <1>4 DEF LocType
<1>7. LocOK'
  BY <1>1, <1>2, <1>6, LocNext DEF Early, Known1
<1>8. HeadOK'
  BY <1>1, <1>6, HeadKept DEF Heads
<1>9. DevOK'
  BY <1>1, <1>6, DevKept DEF Idle
<1>10. BufOK'
  BY <1>1, <1>6, BufKept
<1>11. FoundOK'
  BY <1>1, <1>6, FoundKept DEF Behind
<1>12. OutOK'
  <2>1. N' = N /\ \A m : Fits(m)' = Fits(m)
    BY <1>1, SameScene
  <2>2. /\ out' \in [1 .. N -> Seq(Cells)]
        /\ \A m \in 1 .. N : Len(out'[m]) <= Fits(m).skip
    BY <1>1, WroteProp
  <2> QED
    BY <1>6, <2>1, <2>2 DEF OutOK
<1>13. GapsOK'
  BY <1>1, GapsKept
<1> QED
  BY <1>1, <1>7, <1>8, <1>9, <1>10, <1>11, <1>12, <1>13 DEF TInv

(* Skipping: of the buffer, then of the device, and the rest is read. *)
LEMMA SkipProp ==
  ASSUME TInv, Skip
  PROVE  \E n \in Nat :
           /\ n <= Len(b) /\ n <= k.need /\ b' = SubSeq(b, n + 1, Len(b))
           /\ \/ n = k.need /\ NextHead
              \/ k' = [k EXCEPT !.need = k.need - n] /\ h' = h
           /\ k.pc = "skip" /\ sc' = sc /\ dev' = dev /\ found' = found /\ out' = out
           /\ gaps' = gaps /\ exit' = exit
<1> DEFINE n == Min({Len(b), k.need})
<1>1. Len(b) \in Nat /\ k.need \in Nat
  BY Facts
<1>2. n \in Nat /\ n <= Len(b) /\ n <= k.need
  BY <1>1, SmallerOf
<1>3. /\ k.pc = "skip" /\ b' = SubSeq(b, n + 1, Len(b))
      /\ IF n = k.need THEN NextHead ELSE k' = [k EXCEPT !.need = k.need - n] /\ h' = h
      /\ sc' = sc /\ dev' = dev /\ found' = found /\ out' = out /\ gaps' = gaps /\ exit' = exit
  BY DEF Skip
<1> HIDE DEF n
<1> QED
  BY <1>2, <1>3

LEMMA SkipT ==
  ASSUME TInv, Skip
  PROVE  TInv'
<1>1. PICK n \in Nat :
        /\ n <= Len(b) /\ n <= k.need /\ b' = SubSeq(b, n + 1, Len(b))
        /\ \/ n = k.need /\ NextHead
           \/ k' = [k EXCEPT !.need = k.need - n] /\ h' = h
        /\ k.pc = "skip" /\ sc' = sc /\ dev' = dev /\ found' = found /\ out' = out
        /\ gaps' = gaps /\ exit' = exit
  BY SkipProp
<1>2. k \in LocType /\ k.got + k.want <= BLKMULT /\ exit \in 0 .. 1 /\ k.frmt
      /\ k.need \in Nat /\ Len(b) \in Nat
  BY <1>1, Facts DEF TInv, LocOK, Known1
<1>3. /\ LocOK' /\ HeadOK' /\ k'.pc \in {"head", "skip"} /\ k'.fini = k.fini /\ k'.frmt
  <2>1. CASE NextHead
    BY <1>1, <1>2, <2>1, NextHeadT
  <2>2. CASE k' = [k EXCEPT !.need = k.need - n] /\ h' = h
    <3>1. k.need - n \in Nat
      BY <1>1, <1>2
    <3>2. /\ k' \in LocType /\ k'.pc = "skip" /\ k'.want = k.want /\ k'.got = k.got
          /\ k'.frmt = k.frmt /\ k'.fini = k.fini
      BY <1>1, <1>2, <2>2, <3>1 DEF LocType
    <3>3. LocOK'
      BY <1>1, <1>2, <3>2, LocNext DEF Early, Known1
    <3>4. HeadOK'
      BY <2>2, <3>2, HeadKept DEF Heads
    <3> QED
      BY <1>2, <3>2, <3>3, <3>4
  <2> QED
    BY <1>1, <2>1, <2>2
<1>4. DevOK'
  BY <1>1, <1>3, DevKept DEF Idle
<1>5. BufOK'
  <2>1. n \in 0 .. Len(b)
    BY <1>1, <1>2
  <2> QED
    BY <1>1, <1>2, <1>3, <2>1, BufTaken
<1>6. FoundOK'
  BY <1>1, <1>3, FoundKept DEF Behind
<1>7. OutOK'
  BY <1>1, <1>3, OutKept
<1>8. GapsOK'
  BY <1>1, GapsKept
<1> QED
  BY <1>1, <1>3, <1>4, <1>5, <1>6, <1>7, <1>8 DEF TInv

LEMMA WholeBlocks ==
  ASSUME NEW x \in Nat, NEW y \in Nat \ {0}
  PROVE  (x \div y) * y \in Nat /\ (x \div y) * y <= x
<1>1. (x \div y) \in Nat
  BY SMT
<1>2. (x \div y) * y <= x
  BY SMT
<1> QED
  BY <1>1, <1>2

LEMMA SkipStartProp ==
  ASSUME TInv, SkipStart
  PROVE  \E n \in Nat, mv \in Nat :
           /\ n <= Len(b) /\ n <= k.need /\ b' = SubSeq(b, n + 1, Len(b))
           /\ mv <= k.need - n /\ dev.pos + mv <= Size
           /\ mv > 0 => n = Len(b)
           /\ dev' = [dev EXCEPT !.pos = dev.pos + mv]
           /\ \/ n + mv = k.need /\ NextHead
              \/ dev.lstrval < 0 /\ NextHead
              \/ k' = [k EXCEPT !.pc = "skip", !.need = k.need - n - mv] /\ h' = h
           /\ k.pc = "skipto" /\ sc' = sc /\ found' = found /\ out' = out
           /\ gaps' = gaps /\ exit' = exit
<1> DEFINE n == Min({Len(b), k.need})
           left == k.need - n
           mv == Moves(left)
<1>1. Len(b) \in Nat /\ k.need \in Nat /\ Rdblksz \in Nat \ {0} /\ dev.pos \in Nat
  BY Facts
<1>2. n \in Nat /\ n <= Len(b) /\ n <= k.need /\ (n = Len(b) \/ n = k.need)
  BY <1>1, SmallerOf
<1>3. /\ k.pc = "skipto" /\ b' = SubSeq(b, n + 1, Len(b))
      /\ dev' = [dev EXCEPT !.pos = dev.pos + mv]
      /\ IF left = mv \/ (left >= Rdblksz /\ dev.lstrval < 0) THEN NextHead
         ELSE k' = [k EXCEPT !.pc = "skip", !.need = left - mv] /\ h' = h
      /\ sc' = sc /\ found' = found /\ out' = out /\ gaps' = gaps /\ exit' = exit
  BY DEF SkipStart
<1>4. Size \in Nat /\ dev.pos <= Size
  BY <1>3, Volume DEF TInv, DevOK, Idle
<1> HIDE DEF n
<1>5. left \in Nat /\ (left > 0 => n = Len(b))
  BY <1>1, <1>2
<1>6. mv \in Nat /\ mv <= left /\ dev.pos + mv <= Size
  <2> DEFINE w == (left \div Rdblksz) * Rdblksz
  <2>1. w \in Nat /\ w <= left
    BY <1>1, <1>5, WholeBlocks
  <2>2. Size - dev.pos \in Nat
    BY <1>1, <1>4
  <2>3. mv = IF sc.artyp = "REG" /\ dev.lstrval > 0 THEN Min({w, Size - dev.pos}) ELSE 0
    BY DEF Moves
  <2> HIDE DEF w, mv
  <2>4. Min({w, Size - dev.pos}) \in Nat /\ Min({w, Size - dev.pos}) <= w
        /\ Min({w, Size - dev.pos}) <= Size - dev.pos
    BY <2>1, <2>2, SmallerOf
  <2> HIDE DEF left
  <2> QED
    BY <1>1, <1>4, <1>5, <2>1, <2>2, <2>3, <2>4
<1> HIDE DEF mv
<1>7. mv <= k.need - n /\ (mv > 0 => n = Len(b)) /\ (left = mv => n + mv = k.need)
      /\ left - mv = k.need - n - mv
  BY <1>1, <1>2, <1>5, <1>6
<1> QED
  BY <1>2, <1>3, <1>6, <1>7

LEMMA SkipStartT ==
  ASSUME TInv, SkipStart
  PROVE  TInv'
<1>1. PICK n \in Nat, mv \in Nat :
        /\ n <= Len(b) /\ n <= k.need /\ b' = SubSeq(b, n + 1, Len(b))
        /\ mv <= k.need - n /\ dev.pos + mv <= Size
        /\ mv > 0 => n = Len(b)
        /\ dev' = [dev EXCEPT !.pos = dev.pos + mv]
        /\ \/ n + mv = k.need /\ NextHead
           \/ dev.lstrval < 0 /\ NextHead
           \/ k' = [k EXCEPT !.pc = "skip", !.need = k.need - n - mv] /\ h' = h
        /\ k.pc = "skipto" /\ sc' = sc /\ found' = found /\ out' = out
        /\ gaps' = gaps /\ exit' = exit
  BY SkipStartProp
<1>2. k \in LocType /\ k.got + k.want <= BLKMULT /\ exit \in 0 .. 1 /\ k.frmt
      /\ k.need \in Nat /\ Len(b) \in Nat /\ dev \in DevType
  BY <1>1, Facts DEF TInv, LocOK, Known1, DevOK
<1>3. /\ LocOK' /\ HeadOK' /\ k'.pc \in {"head", "skip"} /\ k'.fini = k.fini /\ k'.frmt
  <2>1. CASE NextHead
    BY <1>1, <1>2, <2>1, NextHeadT
  <2>2. CASE k' = [k EXCEPT !.pc = "skip", !.need = k.need - n - mv] /\ h' = h
    <3>1. k.need - n - mv \in Nat /\ "skip" \in Pcs
      BY <1>1, <1>2 DEF Pcs
    <3>2. /\ k' \in LocType /\ k'.pc = "skip" /\ k'.want = k.want /\ k'.got = k.got
          /\ k'.frmt = k.frmt /\ k'.fini = k.fini
      BY <1>2, <2>2, <3>1 DEF LocType
    <3>3. LocOK'
      BY <1>1, <1>2, <3>2, LocNext DEF Early, Known1
    <3>4. HeadOK'
      BY <2>2, <3>2, HeadKept DEF Heads
    <3> QED
      BY <1>2, <3>2, <3>3, <3>4
  <2> QED
    BY <1>1, <2>1, <2>2
<1>4. dev' \in DevType /\ dev'.vol = dev.vol /\ dev'.pos = dev.pos + mv /\ dev'.lstrval = dev.lstrval
  <2>1. dev.pos \in Nat
    BY <1>2 DEF DevType
  <2>2. dev.pos + mv \in Nat
    BY <2>1
  <2> QED
    BY <1>1, <1>2, <2>2 DEF DevType
<1>5. DevOK'
  <2>1. Size' = Size /\ Volumes' = Volumes
    BY <1>1, <1>4, SameVolume
  <2> QED
    BY <1>1, <1>3, <1>4, <2>1 DEF TInv, DevOK, Idle
<1>6. BufOK'
  <2>1. n \in 0 .. Len(b)
    BY <1>1, <1>2
  <2> QED
    BY <1>1, <1>2, <1>3, <1>4, <2>1, BufTaken
<1>7. FoundOK'
  BY <1>1, <1>3, FoundKept DEF Behind
<1>8. OutOK'
  BY <1>1, <1>3, OutKept
<1>9. GapsOK'
  BY <1>1, GapsKept
<1> QED
  BY <1>1, <1>3, <1>5, <1>6, <1>7, <1>8, <1>9 DEF TInv

-----------------------------------------------------------------------------
(* Reading, the end of a volume, and of the archive. *)
LEMMA FailedProp ==
  ASSUME TInv, NEW r \in {-1, 0}
  PROVE  /\ Failed(r) \in DevType /\ Failed(r).vol = dev.vol /\ Failed(r).pos = dev.pos
         /\ Failed(r).lstrval = r /\ Failed(r).open = dev.open /\ Failed(r).done = dev.done
<1>1. r \in -1 .. 1 /\ dev \in DevType
  BY DEF TInv, DevOK
<1> QED
  BY <1>1 DEF Failed, DevType

LEMMA AnotherProp ==
  ASSUME TInv, NEW d \in DevType, d.vol = dev.vol, Another(d), sc' = sc
  PROVE  /\ dev' \in DevType /\ dev'.vol <= Volumes' /\ dev'.pos = 0 /\ Size' \in Nat
         /\ dev'.lstrval = 1 /\ dev'.open /\ dev'.done = d.done
         /\ Here' = To(dev.vol) /\ ~ OneVolume(d)
<1>1. /\ ~ OneVolume(d) /\ dev.vol < Volumes
      /\ dev' = [d EXCEPT !.vol = d.vol + 1, !.pos = 0, !.lstrval = 1, !.open = TRUE]
  BY DEF Another
<1>2. dev \in DevType /\ dev.vol <= Volumes /\ sc \in Scenes
  BY DEF TInv, DevOK
<1>3. dev.vol = 1 /\ sc.split > 0 /\ To(dev.vol) = sc.split
  BY <1>1, <1>2, Volume
<1>4. d.vol + 1 = 2 /\ 2 \in 1 .. 2 /\ 0 \in Nat /\ 1 \in -1 .. 1
  BY <1>3
<1>5. dev' = [d EXCEPT !.vol = 2, !.pos = 0, !.lstrval = 1, !.open = TRUE]
  BY <1>1, <1>4
<1>6. /\ dev' \in DevType /\ dev'.vol = 2 /\ dev'.pos = 0 /\ dev'.lstrval = 1 /\ dev'.open
      /\ dev'.done = d.done
  BY <1>4, <1>5 DEF DevType
<1>7. Volumes' = Volumes /\ Volumes = 2
  BY <1>3, SameScene DEF Volumes
<1>8. sc' \in Scenes /\ dev'.vol <= Volumes'
  BY <1>2, <1>6, <1>7
<1>9. sc.split \in Nat /\ sc.len \in Nat /\ sc.split <= sc.len
  BY <1>2, SceneFacts
<1>10. From(dev.vol)' = sc.split /\ To(dev.vol)' = sc.len
  BY <1>6 DEF From, To
<1>11. Size' = sc.len - sc.split
  BY <1>10 DEF Size
<1>12. Here' = sc.split
  BY <1>6, <1>9, <1>10 DEF Here
<1>13. Size' \in Nat
  BY <1>9, <1>11
<1> QED
  BY <1>1, <1>3, <1>6, <1>8, <1>12, <1>13

LEMMA NoOtherProp ==
  ASSUME NEW d \in DevType, NoOther(d)
  PROVE  /\ dev' \in DevType /\ dev'.vol = d.vol /\ dev'.pos = d.pos /\ ~ dev'.open
         /\ dev'.lstrval \in {d.lstrval, -1}
<1>1. dev' = [d EXCEPT !.open = FALSE]
      \/ dev' = [d EXCEPT !.open = FALSE, !.done = TRUE, !.lstrval = -1]
  BY DEF NoOther
<1>2. -1 \in -1 .. 1
  OBVIOUS
<1> QED
  BY <1>1, <1>2 DEF DevType

LEMMA FillingProp ==
  ASSUME TInv, Filling
  PROVE  /\ b = <<>> /\ Len(b) = 0
         /\ \/ k.pc \in {"id", "head"} /\ k.want > 0
            \/ k.pc \in {"skip", "copy"} /\ k.need > 0
  BY DEF Filling

LEMMA FillDataT ==
  ASSUME TInv, FillData
  PROVE  TInv'
<1>1. /\ sc' = sc /\ k' = k /\ h' = h /\ found' = found /\ out' = out /\ gaps' = gaps
      /\ exit' = exit
  BY DEF FillData
<1>2. PICK n \in Gives : Loaded(n)
  BY DEF FillData
<1>3. /\ n \in Nat \ {0} /\ n <= ReadSize /\ dev.lstrval = 1 /\ b' \in Seq(Cells) /\ Len(b') = n
      /\ dev' = [dev EXCEPT !.pos = dev.pos + n] /\ dev' \in DevType /\ dev'.pos <= Size
  BY <1>1, <1>2, GivesProp, LoadedProp
<1>4. dev'.vol = dev.vol /\ dev'.lstrval = 1
  BY <1>3 DEF TInv, DevOK, DevType
<1>5. Size' = Size /\ Volumes' = Volumes /\ ReadSize' = ReadSize
  BY <1>1, <1>4, SameVolume
<1>6. k.pc \in {"id", "head", "skip", "copy"}
  BY FillingProp DEF FillData
<1>7. DevOK'
  BY <1>1, <1>3, <1>4, <1>5 DEF TInv, DevOK
<1>8. LocOK'
  BY <1>1 DEF TInv, LocOK
<1>9. HeadOK'
  BY <1>1, HeadKept DEF TInv, HeadOK
<1>10. BufOK'
  <2>1. n <= ReadSize + BLKMULT
    BY <1>3, Facts
  <2> QED
    BY <1>1, <1>3, <1>5, <1>6, <2>1 DEF BufOK
<1>11. FoundOK'
  BY <1>1, FoundKept
<1>12. OutOK'
  BY <1>1, OutKept
<1>13. GapsOK'
  BY <1>1, GapsKept
<1> QED
  BY <1>1, <1>7, <1>8, <1>9, <1>10, <1>11, <1>12, <1>13 DEF TInv

LEMMA FillNextT ==
  ASSUME TInv, FillNext
  PROVE  TInv'
<1>1. /\ sc' = sc /\ b' = b /\ k' = k /\ h' = h /\ found' = found /\ out' = out /\ gaps' = gaps
      /\ exit' = exit /\ Another(Failed(0)) /\ b = <<>>
      /\ k.pc \in {"id", "head", "skip", "copy"}
  BY FillingProp DEF FillNext
<1>2. Failed(0) \in DevType /\ Failed(0).vol = dev.vol
  BY FailedProp
<1>3. /\ dev' \in DevType /\ dev'.vol <= Volumes' /\ dev'.pos = 0 /\ Size' \in Nat
      /\ dev'.lstrval = 1 /\ dev'.open
  BY <1>1, <1>2, AnotherProp
<1>4. DevOK'
  BY <1>3 DEF DevOK
<1>5. LocOK'
  BY <1>1 DEF TInv, LocOK
<1>6. HeadOK'
  BY <1>1, HeadKept DEF TInv, HeadOK
<1>7. BufOK'
  <2>1. ReadSize' \in Nat \ {0} /\ BLKMULT \in Nat /\ Len(<<>>) = 0 /\ <<>> \in Seq(Cells)
    BY NextReadSize, Facts
  <2>2. b' = <<>> /\ b' \in Seq(Cells) /\ Len(b') = 0
    BY <1>1, <2>1
  <2>3. 0 <= ReadSize' + BLKMULT /\ 0 <= ReadSize'
    <3> DEFINE x == ReadSize'
    <3>1. x \in Nat /\ BLKMULT \in Nat
      BY <2>1
    <3> HIDE DEF x
    <3>2. 0 <= x + BLKMULT /\ 0 <= x
      BY <3>1
    <3> QED
      BY <3>2 DEF x
  <2> QED
    BY <2>2, <2>3 DEF BufOK
<1>8. FoundOK'
  BY <1>1, FoundKept
<1>9. OutOK'
  BY <1>1, OutKept
<1>10. GapsOK'
  BY <1>1, GapsKept
<1> QED
  BY <1>1, <1>4, <1>5, <1>6, <1>7, <1>8, <1>9, <1>10 DEF TInv

(* What the callers make of the end of the archive or of a read error. *)
LEMMA CameCases ==
  ASSUME TInv, NEW kk \in LocType, NEW r \in {-1, 0}, NEW kn, kn = Came(kk, r),
         kk.pc \in {"id", "head", "skip", "copy"}, kk.got + kk.want <= BLKMULT
  PROVE  /\ kn \in LocType /\ kn.fini = kk.fini /\ kn.frmt = kk.frmt
         /\ kn.got + kn.want <= BLKMULT
         /\ \/ /\ kk.pc \in {"copy", "skip"} /\ kn.pc = "head" /\ kn.want = BLKMULT
               /\ kn.cnt = 0 /\ ~ kn.resync
            \/ /\ kn.want = kk.want /\ kn.cnt = kk.cnt /\ kn.resync = kk.resync
               /\ \/ kk.pc = "skip" /\ kn.pc = "end"
                  \/ kk.pc = "head" /\ kn.pc \in {"sync", "end", "short"}
                  \/ kk.pc = "id" /\ kn.pc \in {"sync", "idtest", "noid"}
                     /\ (kn.pc = "idtest" => h # <<>>)
<1> DEFINE f == Fresh(kk)
<1>1. /\ f \in LocType /\ f.pc = "head" /\ f.want = BLKMULT /\ f.got + f.want <= BLKMULT
      /\ f.cnt = 0 /\ ~ f.resync /\ f.frmt = kk.frmt /\ f.fini = kk.fini
  BY FreshProp
<1>2. {"end", "sync", "short", "idtest", "noid"} \subseteq Pcs
  BY DEF Pcs
<1>3. ASSUME NEW p \in {"end", "sync", "short", "idtest", "noid"},
             kn = [kk EXCEPT !.pc = p] \/ kn = [kk EXCEPT !.pc = p, !.first = FALSE]
      PROVE  /\ kn \in LocType /\ kn.fini = kk.fini /\ kn.frmt = kk.frmt /\ kn.pc = p
             /\ kn.got = kk.got /\ kn.want = kk.want /\ kn.cnt = kk.cnt /\ kn.resync = kk.resync
  BY <1>2, <1>3 DEF LocType
<1>4. CASE kk.pc = "copy"
  <2>1. kn = f
    BY <1>4 DEF Came
  <2> QED
    BY <1>1, <1>4, <2>1
<1>5. CASE kk.pc = "skip"
  <2>1. kn = f \/ kn = [kk EXCEPT !.pc = "end"]
    BY <1>5 DEF Came, Stop
  <2>2. CASE kn = f
    BY <1>1, <1>5, <2>2
  <2>3. CASE kn = [kk EXCEPT !.pc = "end"]
    BY <1>3, <1>5, <2>3
  <2> QED
    BY <2>1, <2>2, <2>3
<1>6. CASE kk.pc = "head"
  <2>1. \E p \in {"sync", "end", "short"} :
          kn = [kk EXCEPT !.pc = p] \/ kn = [kk EXCEPT !.pc = p, !.first = FALSE]
    BY <1>6 DEF Came, Stop
  <2> QED
    BY <1>3, <1>6, <2>1
<1>7. CASE kk.pc = "id"
  <2>1. \E p \in {"sync", "idtest", "noid"} :
          kn = [kk EXCEPT !.pc = p] /\ (p = "idtest" => h # <<>>)
    BY <1>7 DEF Came
  <2> QED
    BY <1>3, <1>7, <2>1
<1> QED
  BY <1>4, <1>5, <1>6, <1>7

LEMMA CameT ==
  ASSUME TInv, NEW kk \in LocType, NEW r \in {-1, 0}, k' = Came(kk, r), Emptied,
         k.pc \in {"id", "head", "skip", "copy"}, b = <<>>,
         kk.pc = k.pc, kk.got = k.got, kk.want = k.want, kk.frmt = k.frmt,
         sc' = sc, b' = b, found' = found, out' = out, gaps' = gaps, exit' \in 0 .. 1,
         dev'.vol = dev.vol
  PROVE  /\ LocOK' /\ HeadOK' /\ BufOK' /\ FoundOK' /\ OutOK' /\ GapsOK'
         /\ k'.fini = kk.fini /\ k'.frmt = k.frmt /\ k'.pc # "reread"
<1>1. kk.pc \in {"id", "head", "skip", "copy"} /\ kk.got + kk.want <= BLKMULT
      /\ (k.pc \in Early => ~ k.frmt) /\ (k.pc \in Known1 => k.frmt)
  BY DEF TInv, LocOK
<1>2. /\ k' \in LocType /\ k'.fini = kk.fini /\ k'.frmt = kk.frmt
      /\ k'.got + k'.want <= BLKMULT
      /\ \/ kk.pc \in {"copy", "skip"} /\ k'.pc = "head" /\ k'.want = BLKMULT
         \/ /\ k'.want = kk.want
            /\ \/ kk.pc = "skip" /\ k'.pc = "end"
               \/ kk.pc = "head" /\ k'.pc \in {"sync", "end", "short"}
               \/ kk.pc = "id" /\ k'.pc \in {"sync", "idtest", "noid"}
                  /\ (k'.pc = "idtest" => h # <<>>)
  <2> DEFINE kn == k'
  <2>1. kn = Came(kk, r)
    OBVIOUS
  <2> HIDE DEF kn
  <2>2. /\ kn \in LocType /\ kn.fini = kk.fini /\ kn.frmt = kk.frmt
        /\ kn.got + kn.want <= BLKMULT
        /\ \/ kk.pc \in {"copy", "skip"} /\ kn.pc = "head" /\ kn.want = BLKMULT
           \/ /\ kn.want = kk.want
              /\ \/ kk.pc = "skip" /\ kn.pc = "end"
                 \/ kk.pc = "head" /\ kn.pc \in {"sync", "end", "short"}
                 \/ kk.pc = "id" /\ kn.pc \in {"sync", "idtest", "noid"}
                    /\ (kn.pc = "idtest" => h # <<>>)
    BY <1>1, <2>1, CameCases
  <2> QED
    BY <2>2 DEF kn
<1>3. LocOK'
  BY <1>1, <1>2, LocNext DEF Early, Known1
<1>4. HeadOK'
  <2>1. CASE k'.pc = "head"
    <3>1. k'.want = BLKMULT /\ h' = <<>>
      BY <1>2, <2>1 DEF Emptied
    <3> QED
      BY <2>1, <3>1, HeadFresh
  <2>2. CASE k'.pc # "head"
    <3>1. h' = h /\ k'.want = k.want /\ (k'.pc \in Heads => k.pc \in Heads) /\ k'.pc # "test"
          /\ (k'.pc = "idtest" => h # <<>>)
      BY <1>1, <1>2, <2>2 DEF Emptied, Heads
    <3> QED
      BY <3>1, HeadKept
  <2> QED
    BY <2>1, <2>2
<1>5. BufOK'
  BY <1>2, BufKept
<1>6. FoundOK'
  <2>1. k'.pc \notin Behind
    BY <1>2 DEF Behind
  <2> QED
    BY <2>1, FoundKept
<1>7. OutOK'
  <2>1. k'.pc # "copy"
    BY <1>2
  <2> QED
    BY <2>1, OutKept
<1>8. GapsOK'
  BY GapsKept
<1> QED
  BY <1>2, <1>3, <1>4, <1>5, <1>6, <1>7, <1>8

LEMMA FillErrorT ==
  ASSUME TInv, FillError
  PROVE  TInv'
<1>1. /\ sc' = sc /\ b' = b /\ found' = found /\ out' = out /\ gaps' = gaps /\ exit' = 1
      /\ b = <<>> /\ k.pc \in {"id", "head", "skip", "copy"}
      /\ dev' = Failed(-1) /\ k' = Came(k, -1) /\ Emptied
  BY FillingProp DEF FillError
<1>2. /\ dev' \in DevType /\ dev'.vol = dev.vol /\ dev'.pos = dev.pos /\ dev'.lstrval = -1
  BY <1>1, FailedProp
<1>3. k \in LocType /\ -1 \in {-1, 0} /\ exit' \in 0 .. 1
  BY <1>1 DEF TInv, LocOK
<1>4. /\ LocOK' /\ HeadOK' /\ BufOK' /\ FoundOK' /\ OutOK' /\ GapsOK' /\ k'.pc # "reread"
  <2> DEFINE r == -1
  <2>1. k' = Came(k, r) /\ r \in {-1, 0}
    BY <1>1
  <2> HIDE DEF r
  <2> QED
    BY <1>1, <1>2, <1>3, <2>1, CameT
<1>5. DevOK'
  <2>1. Size' = Size /\ Volumes' = Volumes
    BY <1>1, <1>2, SameVolume
  <2> QED
    BY <1>1, <1>2, <2>1 DEF TInv, DevOK, Idle
<1> QED
  BY <1>1, <1>4, <1>5 DEF TInv

(* At the end the device may be closed. *)
LEMMA FillEndDev ==
  ASSUME TInv, FillEnd
  PROVE  /\ dev' \in DevType /\ dev'.vol = dev.vol /\ dev'.pos = dev.pos
         /\ k.frmt /\ ~ k.fini => ~ dev'.open
<1>1. \/ ~ k.fini /\ k.frmt /\ NoOther(Failed(0))
      \/ ~ k.fini /\ ~ k.frmt /\ dev' = Failed(0)
      \/ k.fini /\ dev' = dev
  BY Facts DEF FillEnd
<1>2. Failed(0) \in DevType /\ Failed(0).vol = dev.vol /\ Failed(0).pos = dev.pos
  BY FailedProp
<1>3. dev \in DevType
  BY DEF TInv, DevOK
<1>4. CASE NoOther(Failed(0))
  BY <1>2, <1>4, NoOtherProp
<1> QED
  BY <1>1, <1>2, <1>3, <1>4

LEMMA FillEndT ==
  ASSUME TInv, FillEnd
  PROVE  TInv'
<1>1. /\ sc' = sc /\ b' = b /\ found' = found /\ out' = out /\ gaps' = gaps /\ exit' = exit
      /\ b = <<>> /\ k.pc \in {"id", "head", "skip", "copy"}
      /\ k' = Came([k EXCEPT !.fini = TRUE], 0) /\ Emptied
  BY FillingProp DEF FillEnd
<1>2. /\ dev' \in DevType /\ dev'.vol = dev.vol /\ dev'.pos = dev.pos
  BY FillEndDev
<1> DEFINE kk == [k EXCEPT !.fini = TRUE]
<1>3. /\ kk \in LocType /\ kk.fini /\ kk.pc = k.pc /\ kk.got = k.got /\ kk.want = k.want
      /\ kk.frmt = k.frmt /\ exit' \in 0 .. 1
  BY <1>1 DEF TInv, LocOK, LocType
<1>4. k' = Came(kk, 0)
  BY <1>1
<1> HIDE DEF kk
<1>5. /\ LocOK' /\ HeadOK' /\ BufOK' /\ FoundOK' /\ OutOK' /\ GapsOK'
      /\ k'.fini = kk.fini /\ k'.pc # "reread"
  BY <1>1, <1>2, <1>3, <1>4, CameT
<1>6. DevOK'
  <2>1. Size' = Size /\ Volumes' = Volumes
    BY <1>1, <1>2, SameVolume
  <2> QED
    BY <1>1, <1>2, <1>3, <1>5, <2>1 DEF TInv, DevOK, Idle
<1> QED
  BY <1>1, <1>5, <1>6 DEF TInv

-----------------------------------------------------------------------------
(* rd_sync: stepping over bad media, or to the next volume. *)
LEMMA StepOverProp ==
  ASSUME NEW p \in Nat, NEW f \in Nat \ {0}
  PROVE  StepOver(p, f) \in Nat
<1>1. p % f \in 0 .. f - 1
  BY SMT
<1>2. \A x \in 0 .. f - 1 : p + f - x \in Nat
  OBVIOUS
<1> QED
  BY <1>1, <1>2 DEF StepOver

LEMMA SteppedProp ==
  ASSUME TInv, NEW d \in DevType, d.vol = dev.vol, d.pos = dev.pos, Stepped(d), sc' = sc
  PROVE  /\ dev' \in DevType /\ dev'.vol = dev.vol /\ dev'.lstrval = 1 /\ dev'.open = d.open
         /\ gaps' \subseteq 1 .. sc.len
<1> DEFINE f == IF sc.artyp = "REG" THEN FSBLK ELSE BLKMULT
           to == StepOver(d.pos, f)
<1>1. f \in Nat \ {0} /\ d.pos \in Nat
  BY Constants DEF DevType
<1> HIDE DEF f
<1>2. to \in Nat
  BY <1>1, StepOverProp
<1>3. /\ dev' = [d EXCEPT !.pos = to, !.lstrval = 1]
      /\ gaps' = gaps \cup (Here + 1) .. (From(d.vol) + Min({to, Size}))
  BY DEF Stepped, f
<1> HIDE DEF to
<1>4. /\ From(dev.vol) \in Nat /\ Size \in Nat /\ Here \in Nat /\ To(dev.vol) <= sc.len
      /\ From(dev.vol) + Size = To(dev.vol) /\ sc.len \in Nat
  BY Volume, SceneFacts DEF TInv, DevOK
<1>5. Min({to, Size}) \in Nat /\ Min({to, Size}) <= Size
  BY <1>2, <1>4, SmallerOf
<1> DEFINE mm == Min({to, Size})
<1>6. From(dev.vol) + mm \in Nat /\ From(dev.vol) + mm <= sc.len
  <2>1. mm \in Nat /\ mm <= Size
    BY <1>5
  <2> HIDE DEF mm
  <2> QED
    BY <1>4, <2>1
<1> HIDE DEF mm
<1>7. gaps' = gaps \cup (Here + 1) .. (From(dev.vol) + mm)
  BY <1>3 DEF mm
<1>8. (Here + 1) .. (From(dev.vol) + mm) \subseteq 1 .. sc.len
  BY <1>4, <1>6
<1>9. gaps' \subseteq 1 .. sc.len
  BY <1>7, <1>8 DEF TInv, GapsOK
<1>10. 1 \in -1 .. 1
  OBVIOUS
<1> QED
  BY <1>2, <1>3, <1>9, <1>10 DEF DevType

LEMMA LeftProp ==
  ASSUME TInv, NEW d \in DevType, d.vol = dev.vol, d.pos = dev.pos, Left(d)
  PROVE  gaps' \subseteq 1 .. sc.len
<1>1. gaps' = gaps \cup (From(dev.vol) + d.pos + 1) .. To(dev.vol)
  BY DEF Left
<1>2. From(dev.vol) \in Nat /\ d.pos \in Nat /\ To(dev.vol) \in Nat /\ To(dev.vol) <= sc.len
      /\ sc.len \in Nat
  BY Volume, SceneFacts DEF TInv, DevOK, DevType
<1>3. (From(dev.vol) + d.pos + 1) .. To(dev.vol) \subseteq 1 .. sc.len
  BY <1>2
<1> QED
  BY <1>1, <1>3 DEF TInv, GapsOK

LEMMA PokeProp ==
  ASSUME TInv, NEW d \in DevType, d.vol = dev.vol, d.pos = dev.pos, NEW may \in BOOLEAN,
         NEW e \in Nat, Poke(d, may, e), sc' = sc
  PROVE  /\ gaps' \subseteq 1 .. sc.len
         /\ dev' \in DevType /\ dev'.vol <= Volumes'
         /\ exit' \in {exit, 1}
         /\ \E p \in {"reread", "end", "done"}, c \in Nat :
              /\ k' = [k EXCEPT !.pc = p, !.errcnt = c]
              /\ p = "end" => k.frmt
              /\ p = "reread" => dev'.lstrval = 1 /\ exit' = exit
              /\ p # "reread" => exit' = 1
<1>0. dev.vol <= Volumes /\ k \in LocType
  BY DEF TInv, DevOK, LocOK
<1>1. \/ Stepped(d) /\ k' = [k EXCEPT !.pc = "reread", !.errcnt = e] /\ exit' = exit
      \/ Left(d) /\ Another(d) /\ k' = [k EXCEPT !.pc = "reread", !.errcnt = 0] /\ exit' = exit
      \/ Left(d) /\ NoOther(d) /\ Unsynced
  BY DEF Poke
<1>2. CASE Stepped(d) /\ k' = [k EXCEPT !.pc = "reread", !.errcnt = e] /\ exit' = exit
  <2>1. /\ dev' \in DevType /\ dev'.vol = dev.vol /\ dev'.lstrval = 1
        /\ gaps' \subseteq 1 .. sc.len
    BY <1>2, SteppedProp
  <2>2. Volumes' = Volumes
    BY SameScene
  <2> QED
    BY <1>0, <1>2, <2>1, <2>2
<1>3. CASE Left(d) /\ Another(d) /\ k' = [k EXCEPT !.pc = "reread", !.errcnt = 0] /\ exit' = exit
  <2>1. dev' \in DevType /\ dev'.vol <= Volumes' /\ dev'.lstrval = 1
    BY <1>3, AnotherProp
  <2>2. gaps' \subseteq 1 .. sc.len
    BY <1>3, LeftProp
  <2> QED
    BY <1>3, <2>1, <2>2
<1>4. CASE Left(d) /\ NoOther(d) /\ Unsynced
  <2>1. dev' \in DevType /\ dev'.vol = dev.vol
    BY <1>4, NoOtherProp
  <2>2. gaps' \subseteq 1 .. sc.len
    BY <1>4, LeftProp
  <2>3. Volumes' = Volumes
    BY SameScene
  <2>4. exit' = 1 /\ k' = [k EXCEPT !.pc = IF k.frmt THEN "end" ELSE "done"]
    BY <1>4 DEF Unsynced
  <2>5. k.errcnt \in Nat /\ k' = [k EXCEPT !.pc = IF k.frmt THEN "end" ELSE "done",
                                           !.errcnt = k.errcnt]
    BY <1>0, <2>4 DEF LocType
  <2>6. \E p \in {"end", "done"} : k' = [k EXCEPT !.pc = p, !.errcnt = k.errcnt]
                                    /\ (p = "end" => k.frmt)
    <3>1. CASE k.frmt
      BY <2>5, <3>1
    <3>2. CASE ~ k.frmt
      BY <2>5, <3>2
    <3> QED
      BY <3>1, <3>2
  <2> QED
    BY <1>0, <2>1, <2>2, <2>3, <2>4, <2>5, <2>6
<1> QED
  BY <1>1, <1>2, <1>3, <1>4

LEMMA PokeT ==
  ASSUME TInv, NEW d \in DevType, d.vol = dev.vol, d.pos = dev.pos, NEW may \in BOOLEAN,
         NEW e \in Nat, Poke(d, may, e), sc' = sc, b' = b, h' = h, found' = found, out' = out,
         k.pc \in {"sync", "reread"}
  PROVE  TInv'
<1>1. /\ gaps' \subseteq 1 .. sc.len /\ dev' \in DevType /\ dev'.vol <= Volumes'
      /\ exit' \in {exit, 1}
  BY PokeProp
<1>2. PICK p \in {"reread", "end", "done"}, c \in Nat :
        /\ k' = [k EXCEPT !.pc = p, !.errcnt = c]
        /\ p = "end" => k.frmt
        /\ p = "reread" => dev'.lstrval = 1 /\ exit' = exit
        /\ p # "reread" => exit' = 1
  BY PokeProp
<1>3. k \in LocType /\ k.got + k.want <= BLKMULT /\ exit \in 0 .. 1 /\ b = <<>>
  BY DEF TInv, LocOK, BufOK
<1>4. /\ k' \in LocType /\ k'.pc = p /\ k'.want = k.want /\ k'.got = k.got /\ k'.need = k.need
      /\ k'.frmt = k.frmt /\ k'.fini = k.fini
  <2>1. p \in Pcs
    BY <1>2 DEF Pcs
  <2> QED
    BY <1>2, <1>3, <2>1 DEF LocType
<1>5. LocOK'
  <2>1. (k'.pc \in Early => ~ k'.frmt) /\ (k'.pc \in Known1 => k'.frmt)
    BY <1>2, <1>4 DEF Early, Known1
  <2>2. exit' \in 0 .. 1 /\ k'.got + k'.want <= BLKMULT
    BY <1>1, <1>3, <1>4
  <2> QED
    BY <1>4, <2>1, <2>2, LocNext
<1>6. DevOK'
  <2>1. k'.pc \in Idle \cup {"reread"} /\ (dev'.lstrval = 0 => k'.pc \in Idle)
    BY <1>2, <1>4 DEF Idle
  <2> QED
    BY <1>1, <2>1 DEF DevOK
<1>7. HeadOK'
  <2>1. k'.pc \notin Heads
    BY <1>4 DEF Heads
  <2> QED
    BY <1>4, <2>1, HeadKept DEF Heads
<1>8. BufOK'
  <2>1. ReadSize' \in Nat \ {0} /\ BLKMULT \in Nat
    BY NextReadSize, Facts
  <2> DEFINE x == ReadSize'
  <2>2. x \in Nat
    BY <2>1
  <2> HIDE DEF x
  <2>3. 0 <= x + BLKMULT /\ 0 <= x
    BY <2>1, <2>2
  <2>4. b' = <<>> /\ b' \in Seq(Cells) /\ Len(b') = 0
    BY <1>3
  <2> QED
    BY <2>3, <2>4 DEF BufOK, x
<1>9. FoundOK'
  <2>1. k'.pc \notin Behind
    BY <1>4 DEF Behind
  <2> QED
    BY <2>1, FoundKept
<1>10. OutOK'
  <2>1. k'.pc # "copy"
    BY <1>4
  <2> QED
    BY <2>1, OutKept
<1>11. GapsOK'
  BY <1>1 DEF GapsOK
<1> QED
  BY <1>5, <1>6, <1>7, <1>8, <1>9, <1>10, <1>11 DEF TInv

LEMMA SyncT ==
  ASSUME TInv, Sync
  PROVE  TInv'
<1>1. /\ k.pc = "sync" /\ Poke(dev, TRUE, 0)
      /\ sc' = sc /\ b' = b /\ h' = h /\ found' = found /\ out' = out
  BY DEF Sync
<1>2. dev \in DevType /\ 0 \in Nat /\ TRUE \in BOOLEAN
  BY DEF TInv, DevOK
<1> QED
  BY <1>1, <1>2, PokeT

LEMMA RereadFailsProp ==
  ASSUME TInv, RereadFails
  PROVE  /\ k.pc = "reread" /\ sc' = sc /\ b' = b /\ h' = h /\ found' = found /\ out' = out
         /\ \E r \in {-1, 0}, may \in BOOLEAN, e \in Nat : Poke(Failed(r), may, e)
<1>1. /\ k.pc = "reread" /\ sc' = sc /\ b' = b /\ h' = h /\ found' = found /\ out' = out
  BY DEF RereadFails
<1>2. PICK r \in {-1, 0} :
        Poke(Failed(r), sc.maxflt < 0 \/ k.errcnt < sc.maxflt,
             IF sc.maxflt > 0 THEN k.errcnt + 1 ELSE 0)
  BY DEF RereadFails
<1> DEFINE may == sc.maxflt < 0 \/ k.errcnt < sc.maxflt
           e == IF sc.maxflt > 0 THEN k.errcnt + 1 ELSE 0
<1>3. may \in BOOLEAN
  OBVIOUS
<1>4. e \in Nat
  BY Facts
<1>5. Poke(Failed(r), may, e)
  BY <1>2
<1> HIDE DEF may, e
<1> QED
  BY <1>1, <1>3, <1>4, <1>5

LEMMA RereadFailsT ==
  ASSUME TInv, RereadFails
  PROVE  TInv'
<1>1. /\ k.pc = "reread" /\ sc' = sc /\ b' = b /\ h' = h /\ found' = found /\ out' = out
  BY RereadFailsProp
<1>2. PICK r \in {-1, 0}, may \in BOOLEAN, e \in Nat : Poke(Failed(r), may, e)
  BY RereadFailsProp
<1>3. Failed(r) \in DevType /\ Failed(r).vol = dev.vol /\ Failed(r).pos = dev.pos
  BY FailedProp
<1> QED
  BY <1>1, <1>2, <1>3, PokeT

LEMMA RereadProp ==
  ASSUME TInv, Reread
  PROVE  /\ k.pc = "reread" /\ sc' = sc /\ found' = found /\ out' = out /\ gaps' = gaps
         /\ exit' = 1 /\ h' = <<>>
         /\ k' \in LocType /\ k'.want = BLKMULT /\ k'.got = 0 /\ k'.resync
         /\ k'.fini = k.fini /\ k'.frmt = k.frmt
         /\ k'.pc = IF k.frmt THEN "head" ELSE "id"
<1>1. /\ k.pc = "reread" /\ sc' = sc /\ found' = found /\ out' = out /\ gaps' = gaps
      /\ exit' = 1 /\ h' = <<>>
      /\ k' = [k EXCEPT !.pc = IF k.frmt THEN "head" ELSE "id", !.want = BLKMULT,
                        !.got = 0, !.resync = TRUE]
  BY DEF Reread, ThrownOut
<1> DEFINE p == IF k.frmt THEN "head" ELSE "id"
<1>2. p \in Pcs /\ BLKMULT \in 0 .. BLKMULT /\ 0 \in 0 .. BLKMULT
  BY Constants DEF Pcs
<1>3. k' = [k EXCEPT !.pc = p, !.want = BLKMULT, !.got = 0, !.resync = TRUE] /\ k \in LocType
  BY <1>1 DEF TInv, LocOK
<1> HIDE DEF p
<1>4. /\ k' \in LocType /\ k'.want = BLKMULT /\ k'.got = 0 /\ k'.resync
      /\ k'.fini = k.fini /\ k'.frmt = k.frmt /\ k'.pc = p
  BY <1>2, <1>3 DEF LocType
<1> QED
  BY <1>1, <1>4 DEF p

LEMMA RereadT ==
  ASSUME TInv, Reread
  PROVE  TInv'
<1>1. /\ k.pc = "reread" /\ sc' = sc /\ found' = found /\ out' = out /\ gaps' = gaps
      /\ exit' = 1 /\ h' = <<>>
      /\ k' \in LocType /\ k'.want = BLKMULT /\ k'.got = 0
      /\ k'.fini = k.fini /\ k'.frmt = k.frmt
      /\ k'.pc = IF k.frmt THEN "head" ELSE "id"
  BY RereadProp
<1>2. PICK n \in Gives : Loaded(n)
  BY DEF Reread
<1>3. /\ n \in Nat \ {0} /\ n <= ReadSize /\ dev.lstrval = 1 /\ b' \in Seq(Cells) /\ Len(b') = n
      /\ dev' = [dev EXCEPT !.pos = dev.pos + n] /\ dev' \in DevType /\ dev'.pos <= Size
  BY <1>1, <1>2, GivesProp, LoadedProp
<1>4. dev'.vol = dev.vol /\ dev'.lstrval = 1
  BY <1>3 DEF TInv, DevOK, DevType
<1>5. Size' = Size /\ Volumes' = Volumes /\ ReadSize' = ReadSize
  BY <1>1, <1>4, SameVolume
<1>6. k'.pc \in {"id", "head"}
  BY <1>1
<1>7. DevOK'
  BY <1>3, <1>4, <1>5 DEF TInv, DevOK
<1>8. LocOK'
  <2>1. (k'.pc \in Early => ~ k'.frmt) /\ (k'.pc \in Known1 => k'.frmt)
    BY <1>1 DEF Early, Known1
  <2>2. k'.got + k'.want <= BLKMULT
    BY <1>1, Constants
  <2> QED
    BY <1>1, <2>1, <2>2, LocNext
<1>9. HeadOK'
  BY <1>1, <1>6, HeadFresh
<1>10. BufOK'
  <2>1. n <= ReadSize + BLKMULT
    BY <1>3, Facts
  <2> QED
    BY <1>3, <1>5, <1>6, <2>1 DEF BufOK
<1>11. FoundOK'
  <2>1. k'.pc \notin Behind
    BY <1>6 DEF Behind
  <2> QED
    BY <1>1, <2>1, FoundKept
<1>12. OutOK'
  BY <1>1, <1>6, OutKept
<1>13. GapsOK'
  BY <1>1, GapsKept
<1> QED
  BY <1>1, <1>7, <1>8, <1>9, <1>10, <1>11, <1>12, <1>13 DEF TInv

-----------------------------------------------------------------------------
LEMMA InitT ==
  ASSUME Init
  PROVE  TInv
<1>1. /\ sc \in Scenes
      /\ dev = [vol |-> 1, pos |-> 0, open |-> FALSE, lstrval |-> 1, done |-> FALSE]
      /\ b = <<>> /\ h = <<>> /\ found = <<>> /\ gaps = {} /\ exit = 0
      /\ out = [m \in DOMAIN sc.members |-> <<>>]
      /\ k = [pc |-> "open", want |-> BLKMULT, got |-> 0, need |-> 0, errcnt |-> 0,
              fini |-> FALSE, frmt |-> FALSE, resync |-> FALSE, cnt |-> 0, first |-> TRUE]
  BY DEF Init
<1>2. BLKMULT \in Nat \ {0} /\ NULLCNT \in Nat \ {0}
  BY Constants
<1>3. /\ Volumes \in 1 .. 2 /\ Size \in Nat /\ DOMAIN sc.members = 1 .. N /\ N \in Nat
      /\ \A m \in 1 .. N : Fits(m).skip \in Nat
  <2>1. dev \in DevType /\ dev.vol = 1
    BY <1>1 DEF DevType
  <2>2. Volumes \in 1 .. 2 /\ 1 <= Volumes
    BY <1>1, SceneFacts DEF Volumes
  <2> QED
    BY <1>1, <2>1, <2>2, Volume, SceneFacts
<1>4. DevOK
  BY <1>1, <1>3 DEF DevOK, DevType, Idle
<1>5. LocOK
  <2>1. "open" \in Pcs /\ BLKMULT \in 0 .. BLKMULT /\ 0 \in 0 .. BLKMULT /\ 0 \in 0 .. NULLCNT - 1
    BY <1>2 DEF Pcs
  <2>2. k \in LocType
    BY <1>1, <2>1 DEF LocType
  <2> QED
    BY <1>1, <1>2, <2>2 DEF LocOK, Early, Known1
<1>6. Len(<<>>) = 0 /\ <<>> \in Seq(Cells) /\ <<>> \in Seq(1 .. N)
  OBVIOUS
<1>7. HeadOK
  BY <1>1, <1>2, <1>6 DEF HeadOK
<1>8. BufOK
  <2>1. ReadSize \in Nat \ {0}
    BY <1>1, BlockSizes
  <2> QED
    BY <1>1, <1>2, <1>6, <2>1 DEF BufOK
<1>9. FoundOK
  BY <1>1, <1>6 DEF FoundOK, Behind
<1>10. OutOK
  BY <1>1, <1>3, <1>6 DEF OutOK
<1>11. GapsOK
  BY <1>1 DEF GapsOK
<1> QED
  BY <1>1, <1>4, <1>5, <1>7, <1>8, <1>9, <1>10, <1>11 DEF TInv

LEMMA Same ==
  ASSUME UNCHANGED vars
  PROVE  /\ sc' = sc /\ dev' = dev /\ b' = b /\ k' = k /\ h' = h /\ found' = found /\ out' = out
         /\ gaps' = gaps /\ exit' = exit
         /\ Size' = Size /\ Volumes' = Volumes /\ ReadSize' = ReadSize /\ Here' = Here
         /\ Q' = Q /\ Units' = Units /\ N' = N /\ Trail' = Trail /\ NoneLikeHead' = NoneLikeHead
         /\ \A m : Place(m)' = Place(m) /\ Fits(m)' = Fits(m)
<1>1. /\ sc' = sc /\ dev' = dev /\ b' = b /\ k' = k /\ h' = h /\ found' = found /\ out' = out
      /\ gaps' = gaps /\ exit' = exit
  BY DEF vars
<1>2. /\ Size' = Size /\ Volumes' = Volumes /\ ReadSize' = ReadSize
      /\ From(dev.vol)' = From(dev.vol)
  BY <1>1, SameVolume
<1>3. Here' = Here
  BY <1>1, <1>2 DEF Here
<1>4. Q' = Q
  BY <1>1, <1>3 DEF Q
<1> QED
  BY <1>1, <1>2, <1>3, <1>4, SameScene

LEMMA TypedStep ==
  ASSUME TInv, [Next]_vars
  PROVE  TInv'
<1>1. CASE Next
  <2>1. CASE Open \/ Short \/ End \/ SyncRefused \/ IdSearch \/ Search
    BY <2>1, OpenT, ShortT, EndT, SyncRefusedT, IdSearchT, SearchT
  <2>2. CASE ZeroRecord \/ Headed \/ Trailer \/ Member \/ Take \/ IdFound
    BY <2>2, ZeroRecordT, HeadedT, TrailerT, MemberT, TakeT, IdFoundT
  <2>3. CASE Copy \/ CopyFails \/ Skip \/ SkipStart
    BY <2>3, CopyT, CopyFailsT, SkipT, SkipStartT
  <2>4. CASE FillData \/ FillNext \/ FillError \/ FillEnd
    BY <2>4, FillDataT, FillNextT, FillErrorT, FillEndT
  <2>5. CASE Sync \/ Reread \/ RereadFails
    BY <2>5, SyncT, RereadT, RereadFailsT
  <2> QED
    BY <1>1, <2>1, <2>2, <2>3, <2>4, <2>5 DEF Next
<1>2. CASE UNCHANGED vars
  <2>1. DevOK' /\ LocOK' /\ HeadOK' /\ BufOK'
    BY <1>2, Same DEF TInv, DevOK, LocOK, HeadOK, BufOK
  <2>2. FoundOK' /\ GapsOK'
    BY <1>2, Same DEF TInv, FoundOK, GapsOK
  <2>3. OutOK'
    BY <1>2, Same, OutKept
  <2> QED
    BY <1>2, Same, <2>1, <2>2, <2>3 DEF TInv
<1> QED
  BY <1>1, <1>2

(* Whatever the archive, its flaws and its volumes, and whatever reads give,
   the buffer never holds more than what a read and the header pushed back
   fill, hdbuf no more than a record, and no file gets more than its size.  *)
THEOREM TypeCorrect == Spec => []TypeOK
<1>1. ASSUME TInv PROVE TypeOK
  <2>1. dev.vol \in 1 .. Volumes
    <3>1. sc \in Scenes /\ dev \in DevType /\ dev.vol <= Volumes /\ dev.vol \in 1 .. 2
      BY <1>1, Facts DEF TInv, DevOK
    <3>2. Volumes \in 1 .. 2
      BY <3>1, Volume
    <3> QED
      BY <3>1, <3>2
  <2>2. Len(h) + k.want <= BLKMULT + k.got
    BY <1>1, Facts DEF TInv, HeadOK
  <2>3. \A m \in DOMAIN out : Len(out[m]) <= sc.members[m].skip
    BY <1>1 DEF TInv, OutOK, Fits
  <2>4. k.cnt \in 0 .. NULLCNT
    BY <1>1, Facts
  <2>5. Len(b) <= ReadSize + BLKMULT /\ gaps \subseteq 1 .. sc.len /\ exit \in 0 .. 1
    BY <1>1 DEF TInv, BufOK, GapsOK, LocOK
  <2> QED
    BY <1>1, <2>1, <2>2, <2>3, <2>4, <2>5, Facts DEF TypeOK
<1>2. Init => TInv
  BY InitT
<1>3. TInv /\ [Next]_vars => TInv'
  BY TypedStep
<1> QED
  BY <1>1, <1>2, <1>3, PTL DEF Spec

-----------------------------------------------------------------------------
(* CInv, step by step: Q' says how much has left the buffer. *)
LEMMA HereProp ==
  ASSUME TInv
  PROVE  /\ Here \in Nat /\ Q = Here - Len(b) /\ Q \in Int
         /\ Here = From(dev.vol) + dev.pos /\ From(dev.vol) + Size = To(dev.vol)
         /\ From(dev.vol) \in Nat /\ Size \in Nat /\ To(dev.vol) <= sc.len
<1>1. Here \in Nat /\ Len(b) \in Nat
  BY Volume, Facts DEF TInv, DevOK
<1> QED
  BY <1>1, Volume DEF Q, TInv, DevOK

LEMMA SameHere ==
  ASSUME sc' = sc, dev'.vol = dev.vol, dev'.pos = dev.pos
  PROVE  Here' = Here
<1>1. From(dev.vol)' = From(dev.vol)
  BY SameVolume
<1> QED
  BY <1>1 DEF Here

LEMMA NextHere ==
  ASSUME TInv, sc' = sc, dev' \in DevType
  PROVE  Here' \in Nat
<1>1. sc.split \in Nat /\ dev'.pos \in Nat
  BY SceneFacts DEF TInv, DevType
<1> DEFINE x == IF dev'.vol = 1 THEN 0 ELSE sc.split
<1>2. x \in Nat
  BY <1>1
<1>3. Here' = x + dev'.pos
  BY DEF Here, From
<1> HIDE DEF x
<1> QED
  BY <1>1, <1>2, <1>3

LEMMA BufSame ==
  ASSUME CInv, b' = b, Here' = Here, sc' = sc, k'.pc \notin Idle => k.pc \notin Idle
  PROVE  BufHolds' /\ Q' = Q
<1>1. Q' = Q /\ Units' = Units
  BY SameScene DEF Q
<1> QED
  BY <1>1 DEF CInv, BufHolds

LEMMA BufEmpty ==
  ASSUME b' = <<>>, Here' \in Nat
  PROVE  BufHolds' /\ Q' = Here'
<1>1. Len(b') = 0
  OBVIOUS
<1>2. Q' = Here' - Len(b')
  BY DEF Q
<1> DEFINE x == Here'
<1>3. x \in Nat /\ Q' = x - 0
  BY <1>1, <1>2
<1> HIDE DEF x
<1>4. Q' = x
  BY <1>3
<1>5. BufHolds'
  BY <1>1, <1>3, <1>4 DEF BufHolds
<1> QED
  BY <1>4, <1>5 DEF x

LEMMA BufShift ==
  ASSUME TInv, CInv, k.pc \notin Idle, NEW n \in 0 .. Len(b), b' = SubSeq(b, n + 1, Len(b)),
         Here' = Here, sc' = sc
  PROVE  BufHolds' /\ Q' = Q + n /\ Len(b') = Len(b) - n
<1>1. b \in Seq(Cells) /\ Len(b) \in Nat /\ Here \in Nat /\ Q = Here - Len(b)
  BY Facts, HereProp DEF TInv, BufOK
<1>2. Len(b') = Len(b) - n /\ \A i \in 1 .. Len(b) - n : b'[i] = b[n + i]
  BY <1>1, RestProp
<1>3. Q' = Here - (Len(b) - n)
  BY <1>2 DEF Q
<1>4. Q' = Q + n
  BY <1>1, <1>3
<1>5. Q \in Nat /\ \A i \in 1 .. Len(b) : Q + i \in 1 .. sc.len /\ b[i] = Units[Q + i]
  BY DEF CInv, BufHolds
<1>6. Q' \in Nat
  BY <1>4, <1>5
<1>7. ASSUME NEW i \in 1 .. Len(b') PROVE Q' + i \in 1 .. sc'.len /\ b'[i] = Units'[Q' + i]
  <2>1. n + i \in 1 .. Len(b) /\ i \in 1 .. Len(b) - n /\ Q' + i = Q + (n + i)
    BY <1>1, <1>2, <1>4, <1>5
  <2>2. Units' = Units
    BY SameScene
  <2> QED
    BY <2>1, <2>2, <1>2, <1>5
<1> QED
  BY <1>2, <1>4, <1>6, <1>7 DEF BufHolds

LEMMA HeadSame ==
  ASSUME CInv, h' = h, Q' = Q, sc' = sc, k'.pc \in Heads => k.pc \in Heads
  PROVE  HeadHolds'
<1>1. Units' = Units
  BY SameScene
<1> QED
  BY <1>1 DEF CInv, HeadHolds

LEMMA HeadEmpty ==
  ASSUME h' = <<>>, Q' \in Nat
  PROVE  HeadHolds'
<1>1. Len(h') = 0
  OBVIOUS
<1> DEFINE x == Q'
<1>2. x \in Nat
  OBVIOUS
<1> HIDE DEF x
<1>3. x - Len(h') \in Nat
  BY <1>1, <1>2
<1>4. \A i \in 1 .. Len(h') : FALSE
  BY <1>1
<1> QED
  BY <1>3, <1>4 DEF HeadHolds, x

LEMMA HeadTail ==
  ASSUME TInv, CInv, h # <<>>, h' = Tail(h), Q' = Q, sc' = sc, k.pc \in Heads
  PROVE  HeadHolds' /\ Len(h') = Len(h) - 1
<1>1. Len(h) \in Nat \ {0} /\ Len(h') = Len(h) - 1 /\ \A i \in 1 .. Len(h) - 1 : h'[i] = h[i + 1]
  BY TailProp
<1>2. /\ Q - Len(h) \in Nat
      /\ \A i \in 1 .. Len(h) : Q - Len(h) + i \in 1 .. sc.len /\ h[i] = Units[Q - Len(h) + i]
  BY DEF CInv, HeadHolds
<1>3. Units' = Units /\ Q \in Int
  BY SameScene, HereProp
<1>4. Q' - Len(h') \in Nat
  <2>1. Q' - Len(h') = (Q - Len(h)) + 1
    BY <1>1, <1>3
  <2> QED
    BY <1>2, <2>1
<1>5. ASSUME NEW i \in 1 .. Len(h')
      PROVE  Q' - Len(h') + i \in 1 .. sc'.len /\ h'[i] = Units'[Q' - Len(h') + i]
  <2>1. i + 1 \in 1 .. Len(h) /\ i \in 1 .. Len(h) - 1 /\ Q' - Len(h') + i = Q - Len(h) + (i + 1)
    BY <1>1, <1>3
  <2> QED
    BY <2>1, <1>1, <1>2, <1>3
<1> QED
  BY <1>1, <1>4, <1>5 DEF HeadHolds

(* Steps that leave the device, the buffer and hdbuf. *)
LEMMA StillC ==
  ASSUME TInv, CInv, Open \/ Short \/ End \/ SyncRefused \/ Headed \/ Member \/ CopyFails
  PROVE  CInv' /\ Q' = Q
<1>1. /\ sc' = sc /\ b' = b /\ h' = h /\ dev'.vol = dev.vol /\ dev'.pos = dev.pos
  BY DEF Open, Short, End, SyncRefused, Headed, Member, CopyFails, TInv, DevOK, DevType
<1>2. Here' = Here
  BY <1>1, SameHere
<1>3. k \in LocType
  BY DEF TInv, LocOK
<1>4. (k'.pc \notin Idle => k.pc \notin Idle) /\ (k'.pc \in Heads => k.pc \in Heads)
  <2>1. CASE Open
    BY <1>3, <2>1 DEF Open, Fails, Goto, LocType, Idle, Heads
  <2>2. CASE Short
    BY <1>3, <2>2 DEF Short, Stop, LocType, Idle, Heads
  <2>3. CASE End
    BY <1>3, <2>3 DEF End, Fails, Goto, LocType, Idle, Heads
  <2>4. CASE SyncRefused
    BY <1>3, <2>4 DEF SyncRefused, Unsynced, LocType, Idle, Heads
  <2>5. CASE Headed
    BY <1>3, <2>5 DEF Headed, Goto, LocType, Idle, Heads
  <2>6. CASE Member
    <3>1. \E p \in {"skipto", "copy"} : \E n : k' = [k EXCEPT !.pc = p, !.need = n]
      BY <2>6, MemberCases
    <3> QED
      BY <1>3, <2>6, <3>1 DEF Member, LocType, Idle, Heads
  <2>7. CASE CopyFails
    BY <1>3, <2>7 DEF CopyFails, SkipOver, LocType, Idle, Heads
  <2> QED
    BY <2>1, <2>2, <2>3, <2>4, <2>5, <2>6, <2>7
<1>5. BufHolds' /\ Q' = Q
  BY <1>1, <1>2, <1>4, BufSame
<1>6. HeadHolds'
  BY <1>1, <1>4, <1>5, HeadSame
<1> QED
  BY <1>5, <1>6 DEF CInv

LEMMA TrailerC ==
  ASSUME TInv, CInv, Trailer
  PROVE  CInv'
<1>1. k'.pc = "end"
  BY DEF Trailer, Stop, TInv, LocOK, LocType
<1> QED
  BY <1>1 DEF CInv, BufHolds, HeadHolds, Idle, Heads

LEMMA SearchC ==
  ASSUME TInv, CInv, IdSearch \/ Search
  PROVE  CInv' /\ Q' = Q
<1>1. sc' = sc /\ b' = b /\ dev' = dev /\ k.pc \in {"idtest", "test"} /\ k \in LocType
  BY DEF IdSearch, Search, TInv, LocOK
<1>2. Here' = Here
  BY <1>1, SameHere
<1>3. BufHolds' /\ Q' = Q
  BY <1>1, <1>2, BufSame DEF Idle
<1>4. h # <<>>
  <2>1. CASE k.pc = "idtest"
    BY <2>1 DEF TInv, HeadOK
  <2>2. CASE k.pc = "test"
    BY <2>2, Constants DEF TInv, HeadOK, Heads
  <2> QED
    BY <1>1, <2>1, <2>2
<1>5. k'.pc \in Idle \/ h' = Tail(h)
  BY <1>1 DEF IdSearch, Search, Goto, Stop, LocType, Idle
<1>6. HeadHolds'
  <2>1. CASE k'.pc \in Idle
    BY <2>1 DEF HeadHolds, Heads, Idle
  <2>2. CASE h' = Tail(h)
    BY <1>1, <1>3, <1>4, <2>2, HeadTail DEF Heads
  <2> QED
    BY <1>5, <2>1, <2>2
<1> QED
  BY <1>3, <1>6 DEF CInv

LEMMA ZeroRecordC ==
  ASSUME TInv, CInv, ZeroRecord
  PROVE  CInv' /\ Q' = Q
<1>1. sc' = sc /\ b' = b /\ dev' = dev /\ k.pc = "test" /\ h' = <<>>
  BY DEF ZeroRecord
<1>2. Here' = Here
  BY <1>1, SameHere
<1>3. BufHolds' /\ Q' = Q
  BY <1>1, <1>2, BufSame DEF Idle
<1>4. Q \in Nat
  BY <1>1 DEF CInv, BufHolds, Idle
<1>5. HeadHolds'
  BY <1>1, <1>3, <1>4, HeadEmpty
<1> QED
  BY <1>3, <1>5 DEF CInv

LEMMA TakeC ==
  ASSUME TInv, CInv, Take
  PROVE  CInv' /\ Q' - Len(h') = Q - Len(h)
<1>1. PICK n \in Nat \ {0} :
        /\ n <= Len(b) /\ sc' = sc /\ dev' = dev
        /\ b' = SubSeq(b, n + 1, Len(b))
        /\ h' \in Seq(Cells) /\ Len(h') = Len(h) + n
        /\ \A i \in 1 .. Len(h) : h'[i] = h[i]
        /\ \A i \in 1 .. n : h'[Len(h) + i] = b[i]
        /\ k.pc \in {"id", "head"}
  BY TakeProp
<1>2. Len(b) \in Nat /\ Len(h) \in Nat /\ Q \in Int
  BY Facts, HereProp
<1>3. n \in 0 .. Len(b)
  BY <1>1, <1>2
<1>4. Here' = Here
  BY <1>1, SameHere
<1>5. BufHolds' /\ Q' = Q + n
  BY <1>1, <1>3, <1>4, BufShift DEF Idle
<1>6. Q' - Len(h') = Q - Len(h)
  BY <1>1, <1>2, <1>5
<1>7. /\ Q - Len(h) \in Nat
      /\ \A i \in 1 .. Len(h) : Q - Len(h) + i \in 1 .. sc.len /\ h[i] = Units[Q - Len(h) + i]
      /\ \A i \in 1 .. Len(b) : Q + i \in 1 .. sc.len /\ b[i] = Units[Q + i]
  BY <1>1 DEF CInv, BufHolds, HeadHolds, Heads, Idle
<1>8. Units' = Units
  BY <1>1, SameScene
<1>9. ASSUME NEW i \in 1 .. Len(h')
      PROVE  Q' - Len(h') + i \in 1 .. sc'.len /\ h'[i] = Units'[Q' - Len(h') + i]
  <2>0. i \in Nat \ {0} /\ i <= Len(h) + n
    BY <1>1, <1>2
  <2>1. CASE i <= Len(h)
    <3>1. i \in 1 .. Len(h)
      BY <1>2, <2>0, <2>1
    <3> QED
      BY <3>1, <1>1, <1>6, <1>7, <1>8
  <2>2. CASE i > Len(h)
    <3> DEFINE j == i - Len(h)
    <3>1. j \in 1 .. n /\ j \in 1 .. Len(b) /\ i = Len(h) + j
      BY <1>1, <1>2, <2>0, <2>2
    <3>2. Q - Len(h) + i = Q + j
      BY <1>2, <2>0, <3>1
    <3> HIDE DEF j
    <3>3. h'[i] = b[j]
      BY <1>1, <3>1
    <3> QED
      BY <1>1, <1>6, <1>7, <1>8, <3>1, <3>2, <3>3
  <2> QED
    BY <1>2, <2>0, <2>1, <2>2
<1>10. HeadHolds'
  BY <1>6, <1>7, <1>9 DEF HeadHolds
<1> QED
  BY <1>5, <1>6, <1>10 DEF CInv

LEMMA IdFoundC ==
  ASSUME TInv, CInv, IdFound
  PROVE  CInv' /\ Q' = Q - Len(h)
<1>1. /\ sc' = sc /\ dev' = dev /\ k.pc = "idtest" /\ b' = h \o b /\ h' = <<>>
  BY DEF IdFound
<1>2. h \in Seq(Cells) /\ b \in Seq(Cells) /\ Len(h) \in Nat /\ Len(b) \in Nat /\ Here \in Nat
      /\ Q = Here - Len(b)
  BY Facts, HereProp DEF TInv, HeadOK, BufOK
<1> DEFINE w == h \o b
<1>3. /\ Len(w) = Len(h) + Len(b)
      /\ \A i \in 1 .. Len(h) + Len(b) : w[i] = IF i <= Len(h) THEN h[i] ELSE b[i - Len(h)]
  BY <1>2, TwoParts
<1> HIDE DEF w
<1>4. b' = w
  BY <1>1 DEF w
<1>5. Here' = Here
  BY <1>1, SameHere
<1>6. Q' = Here - (Len(h) + Len(b))
  BY <1>3, <1>4, <1>5 DEF Q
<1>7. Q' = Q - Len(h)
  BY <1>2, <1>6
<1>8. /\ Q - Len(h) \in Nat
      /\ \A i \in 1 .. Len(h) : Q - Len(h) + i \in 1 .. sc.len /\ h[i] = Units[Q - Len(h) + i]
      /\ \A i \in 1 .. Len(b) : Q + i \in 1 .. sc.len /\ b[i] = Units[Q + i]
  BY <1>1 DEF CInv, BufHolds, HeadHolds, Heads, Idle
<1>9. Units' = Units /\ Q' \in Nat
  BY <1>1, <1>7, <1>8, SameScene
<1>10. ASSUME NEW i \in 1 .. Len(w) PROVE Q - Len(h) + i \in 1 .. sc.len /\ w[i] = Units[Q - Len(h) + i]
  <2>1. CASE i <= Len(h)
    <3>1. i \in 1 .. Len(h) /\ i \in 1 .. Len(h) + Len(b)
      BY <1>2, <1>3, <2>1
    <3> QED
      BY <3>1, <2>1, <1>3, <1>8
  <2>2. CASE ~ i <= Len(h)
    <3> DEFINE j == i - Len(h)
    <3>1. j \in 1 .. Len(b) /\ i \in 1 .. Len(h) + Len(b)
      BY <1>2, <1>3, <2>2
    <3>2. Q - Len(h) + i = Q + j
      BY <1>2
    <3>3. w[i] = b[j]
      BY <1>3, <2>2, <3>1
    <3> HIDE DEF j
    <3> QED
      BY <1>8, <3>1, <3>2, <3>3
  <2> QED
    BY <2>1, <2>2
<1>11. BufHolds'
  <2>1. ASSUME NEW i \in 1 .. Len(b') PROVE Q' + i \in 1 .. sc'.len /\ b'[i] = Units'[Q' + i]
    BY <1>1, <1>4, <1>7, <1>9, <1>10
  <2> QED
    BY <1>9, <2>1 DEF BufHolds
<1>12. HeadHolds'
  BY <1>1, <1>9, HeadEmpty
<1> QED
  BY <1>7, <1>11, <1>12 DEF CInv

LEMMA CopyC ==
  ASSUME TInv, CInv, Copy
  PROVE  CInv' /\ \E n \in Nat : /\ n <= Len(b) /\ n <= k.need /\ Wrote(n) /\ Q' = Q + n
                                 /\ \/ n < k.need /\ k' = [k EXCEPT !.need = k.need - n]
                                    \/ n = k.need /\ k' = [k EXCEPT !.pc = "skipto",
                                                              !.need = Fits(Last(found)).pad]
<1>1. PICK n \in Nat :
        /\ n <= Len(b) /\ n <= k.need /\ Wrote(n) /\ b' = SubSeq(b, n + 1, Len(b))
        /\ \/ n < k.need /\ k' = [k EXCEPT !.need = k.need - n]
           \/ n = k.need /\ k' = [k EXCEPT !.pc = "skipto", !.need = Fits(Last(found)).pad]
        /\ k.pc = "copy" /\ sc' = sc /\ dev' = dev /\ h' = h
  BY CopyProp
<1>2. Here' = Here /\ n \in 0 .. Len(b) /\ k \in LocType
  BY <1>1, SameHere, Facts DEF TInv, LocOK
<1>3. BufHolds' /\ Q' = Q + n
  BY <1>1, <1>2, BufShift DEF Idle
<1>4. k'.pc \notin Heads
  BY <1>1, <1>2 DEF LocType, Heads
<1>5. HeadHolds'
  BY <1>4 DEF HeadHolds
<1> QED
  BY <1>1, <1>3, <1>5 DEF CInv

LEMMA SkipC ==
  ASSUME TInv, CInv, Skip
  PROVE  CInv' /\ \E n \in Nat : /\ n <= k.need /\ Q' = Q + n
                                 /\ \/ n = k.need /\ NextHead
                                    \/ k' = [k EXCEPT !.need = k.need - n]
<1>1. PICK n \in Nat :
        /\ n <= Len(b) /\ n <= k.need /\ b' = SubSeq(b, n + 1, Len(b))
        /\ \/ n = k.need /\ NextHead
           \/ k' = [k EXCEPT !.need = k.need - n] /\ h' = h
        /\ k.pc = "skip" /\ sc' = sc /\ dev' = dev
  BY SkipProp
<1>2. Here' = Here /\ n \in 0 .. Len(b) /\ k \in LocType
  BY <1>1, SameHere, Facts DEF TInv, LocOK
<1>3. BufHolds' /\ Q' = Q + n
  BY <1>1, <1>2, BufShift DEF Idle
<1>4. Q' \in Nat
  <2>1. Q \in Nat
    BY <1>1 DEF CInv, BufHolds, Idle
  <2> QED
    BY <1>3, <2>1
<1>5. HeadHolds'
  <2>1. CASE NextHead
    BY <1>4, <2>1, HeadEmpty DEF NextHead
  <2>2. CASE k' = [k EXCEPT !.need = k.need - n]
    <3>1. k'.pc \notin Heads
      BY <1>1, <1>2, <2>2 DEF LocType, Heads
    <3> QED
      BY <3>1 DEF HeadHolds
  <2> QED
    BY <1>1, <2>1, <2>2
<1> QED
  BY <1>1, <1>3, <1>5 DEF CInv

LEMMA SkipStartC ==
  ASSUME TInv, CInv, SkipStart
  PROVE  CInv' /\ \E n \in Nat : /\ n <= k.need /\ Q' = Q + n
                                 /\ \/ n = k.need /\ NextHead
                                    \/ dev.lstrval < 0 /\ NextHead
                                    \/ k' = [k EXCEPT !.pc = "skip", !.need = k.need - n]
<1>1. PICK n \in Nat, mv \in Nat :
        /\ n <= Len(b) /\ n <= k.need /\ b' = SubSeq(b, n + 1, Len(b))
        /\ mv <= k.need - n /\ dev.pos + mv <= Size
        /\ mv > 0 => n = Len(b)
        /\ dev' = [dev EXCEPT !.pos = dev.pos + mv]
        /\ \/ n + mv = k.need /\ NextHead
           \/ dev.lstrval < 0 /\ NextHead
           \/ k' = [k EXCEPT !.pc = "skip", !.need = k.need - n - mv] /\ h' = h
        /\ k.pc = "skipto" /\ sc' = sc
  BY SkipStartProp
<1>2. n \in 0 .. Len(b) /\ k \in LocType /\ Len(b) \in Nat /\ k.need \in Nat /\ Here \in Nat
      /\ Here = From(dev.vol) + dev.pos /\ From(dev.vol) \in Nat /\ dev.pos \in Nat
      /\ Q = Here - Len(b) /\ dev \in DevType /\ b \in Seq(Cells)
  BY <1>1, Facts, HereProp DEF TInv, LocOK, DevOK, BufOK
<1>3. Here' = Here + mv
  <2>1. dev'.vol = dev.vol /\ dev'.pos = dev.pos + mv
    BY <1>1, <1>2 DEF DevType
  <2>2. From(dev.vol)' = From(dev.vol)
    BY <1>1, <2>1, SameVolume
  <2>3. Here' = From(dev.vol) + (dev.pos + mv)
    BY <2>1, <2>2 DEF Here
  <2> QED
    BY <1>2, <2>3
<1>4. Len(b') = Len(b) - n /\ b' \in Seq(Cells)
  BY <1>1, <1>2, RestProp
<1>5. Q' = Q + (n + mv)
  <2>1. Q' = (Here + mv) - (Len(b) - n)
    BY <1>3, <1>4 DEF Q
  <2> QED
    BY <1>2, <2>1
<1>6. Q \in Nat
  BY <1>1 DEF CInv, BufHolds, Idle
<1>7. Q' \in Nat
  BY <1>5, <1>6
<1>8. BufHolds'
  <2>1. CASE mv = 0
    <3>1. Here' = Here
      BY <1>2, <1>3, <2>1
    <3> QED
      BY <1>1, <1>2, <3>1, BufShift DEF Idle
  <2>2. CASE mv # 0
    <3>1. Len(b') = 0
      BY <1>1, <1>2, <1>4, <2>2
    <3>2. b' = <<>>
      BY <1>4, <3>1
    <3>3. Here' \in Nat
      BY <1>2, <1>3
    <3> QED
      BY <3>2, <3>3, BufEmpty
  <2> QED
    BY <2>1, <2>2
<1>9. HeadHolds'
  <2>1. CASE NextHead
    BY <1>7, <2>1, HeadEmpty DEF NextHead
  <2>2. CASE k' = [k EXCEPT !.pc = "skip", !.need = k.need - n - mv]
    <3>1. k'.pc \notin Heads
      BY <1>1, <1>2, <2>2 DEF LocType, Heads
    <3> QED
      BY <3>1 DEF HeadHolds
  <2> QED
    BY <1>1, <2>1, <2>2
<1>10. n + mv \in Nat /\ n + mv <= k.need /\ k.need - n - mv = k.need - (n + mv)
  BY <1>1, <1>2
<1> QED
  BY <1>1, <1>5, <1>8, <1>9, <1>10 DEF CInv

LEMMA FillDataC ==
  ASSUME TInv, CInv, FillData
  PROVE  CInv' /\ Q' = Q
<1>1. sc' = sc /\ k' = k /\ h' = h
  BY DEF FillData
<1>2. PICK n \in Gives : Loaded(n)
  BY DEF FillData
<1>3. /\ Len(b') = n /\ Q' = Here /\ Here \in Nat
      /\ \A i \in 1 .. n : Here + i \in 1 .. sc.len /\ b'[i] = Units[Here + i]
  BY <1>1, <1>2, LoadedProp
<1>4. Q = Here
  BY HereProp, FillingProp DEF FillData
<1>5. Units' = Units
  BY <1>1, SameScene
<1>6. BufHolds'
  BY <1>1, <1>3, <1>5 DEF BufHolds
<1>7. HeadHolds'
  BY <1>1, <1>3, <1>4, HeadSame
<1> QED
  BY <1>3, <1>4, <1>6, <1>7 DEF CInv

LEMMA FillNextC ==
  ASSUME TInv, CInv, FillNext
  PROVE  CInv' /\ Q' = Q
<1>1. /\ sc' = sc /\ b' = b /\ k' = k /\ h' = h /\ Another(Failed(0)) /\ b = <<>>
      /\ k.pc \in {"id", "head", "skip", "copy"} /\ ~ k.fini /\ ReadEnd
  BY FillingProp DEF FillNext
<1>2. Failed(0) \in DevType /\ Failed(0).vol = dev.vol
  BY FailedProp
<1>3. Here' = To(dev.vol)
  BY <1>1, <1>2, AnotherProp
<1>4. dev.pos \in Nat /\ Size \in Nat /\ dev.pos <= Size /\ From(dev.vol) \in Nat
      /\ Here = From(dev.vol) + dev.pos /\ From(dev.vol) + Size = To(dev.vol)
  BY <1>1, Facts, HereProp DEF TInv, DevOK, Idle
<1>5. dev.pos >= Size
  BY <1>1 DEF TInv, DevOK, Idle, ReadEnd
<1>6. Here' = Here
  BY <1>3, <1>4, <1>5
<1>7. BufHolds' /\ Q' = Q
  BY <1>1, <1>6, BufSame
<1>8. HeadHolds'
  BY <1>1, <1>7, HeadSame
<1> QED
  BY <1>7, <1>8 DEF CInv

(* What a read that gives nothing leads to. *)
LEMMA CameProp ==
  ASSUME TInv, FillError \/ FillEnd
  PROVE  /\ sc' = sc /\ b' = b /\ found' = found /\ out' = out /\ b = <<>>
         /\ dev'.vol = dev.vol /\ dev'.pos = dev.pos
         /\ h' = IF k'.pc = "head" THEN <<>> ELSE h
         /\ FillError => exit' = 1
         /\ FillEnd => k'.fini /\ exit' = exit
         /\ k' \in LocType /\ k'.frmt = k.frmt
         /\ \/ k.pc \in {"copy", "skip"} /\ k'.pc = "head"
            \/ /\ k'.want = k.want /\ k'.cnt = k.cnt /\ k'.resync = k.resync
               /\ \/ k.pc = "skip" /\ k'.pc = "end"
                  \/ k.pc = "head" /\ k'.pc \in {"sync", "end", "short"}
                  \/ k.pc = "id" /\ k'.pc \in {"sync", "idtest", "noid"}
<1>1. /\ sc' = sc /\ b' = b /\ found' = found /\ out' = out /\ b = <<>>
      /\ h' = IF k'.pc = "head" THEN <<>> ELSE h
      /\ FillError => exit' = 1
      /\ FillEnd => exit' = exit
      /\ k.pc \in {"id", "head", "skip", "copy"}
  BY FillingProp DEF FillError, FillEnd, Emptied
<1>2. dev'.vol = dev.vol /\ dev'.pos = dev.pos
  <2>1. CASE FillError
    <3>1. dev' = Failed(-1) /\ -1 \in {-1, 0}
      BY <2>1 DEF FillError
    <3> QED
      BY <3>1, FailedProp
  <2>2. CASE FillEnd
    BY <2>2, FillEndDev
  <2> QED
    BY <2>1, <2>2
<1>3. k \in LocType /\ k.got + k.want <= BLKMULT
  BY DEF TInv, LocOK
<1>4. \E kk \in LocType, r \in {-1, 0} :
        /\ k' = Came(kk, r) /\ kk.pc = k.pc /\ kk.got = k.got /\ kk.want = k.want
        /\ kk.cnt = k.cnt /\ kk.resync = k.resync /\ kk.frmt = k.frmt
        /\ FillEnd => kk.fini
  <2>1. CASE FillError /\ ~ FillEnd
    <3>1. k' = Came(k, -1) /\ -1 \in {-1, 0}
      BY <2>1 DEF FillError
    <3> QED
      BY <1>3, <2>1, <3>1
  <2>2. CASE FillEnd
    <3> DEFINE kk == [k EXCEPT !.fini = TRUE]
    <3>1. k' = Came(kk, 0) /\ 0 \in {-1, 0}
      BY <2>2 DEF FillEnd
    <3>2. /\ kk \in LocType /\ kk.pc = k.pc /\ kk.got = k.got /\ kk.want = k.want
          /\ kk.cnt = k.cnt /\ kk.resync = k.resync /\ kk.frmt = k.frmt /\ kk.fini
      BY <1>3 DEF LocType
    <3> HIDE DEF kk
    <3> QED
      BY <3>1, <3>2
  <2> QED
    BY <2>1, <2>2
<1>5. PICK kk \in LocType, r \in {-1, 0} :
        /\ k' = Came(kk, r) /\ kk.pc = k.pc /\ kk.got = k.got /\ kk.want = k.want
        /\ kk.cnt = k.cnt /\ kk.resync = k.resync /\ kk.frmt = k.frmt
        /\ FillEnd => kk.fini
  BY <1>4
<1>6. /\ k' \in LocType /\ k'.fini = kk.fini /\ k'.frmt = kk.frmt
      /\ \/ kk.pc \in {"copy", "skip"} /\ k'.pc = "head"
         \/ /\ k'.want = kk.want /\ k'.cnt = kk.cnt /\ k'.resync = kk.resync
            /\ \/ kk.pc = "skip" /\ k'.pc = "end"
               \/ kk.pc = "head" /\ k'.pc \in {"sync", "end", "short"}
               \/ kk.pc = "id" /\ k'.pc \in {"sync", "idtest", "noid"}
  <2> DEFINE kn == k'
  <2>1. kn = Came(kk, r) /\ kk.pc \in {"id", "head", "skip", "copy"} /\ kk.got + kk.want <= BLKMULT
    BY <1>1, <1>3, <1>5
  <2> HIDE DEF kn
  <2>2. /\ kn \in LocType /\ kn.fini = kk.fini /\ kn.frmt = kk.frmt
        /\ \/ kk.pc \in {"copy", "skip"} /\ kn.pc = "head"
           \/ /\ kn.want = kk.want /\ kn.cnt = kk.cnt /\ kn.resync = kk.resync
              /\ \/ kk.pc = "skip" /\ kn.pc = "end"
                 \/ kk.pc = "head" /\ kn.pc \in {"sync", "end", "short"}
                 \/ kk.pc = "id" /\ kn.pc \in {"sync", "idtest", "noid"}
    BY <2>1, CameCases
  <2> QED
    BY <2>2 DEF kn
<1>7. (FillEnd => k'.fini) /\ k'.frmt = k.frmt
  BY <1>5, <1>6
<1>8. \/ k.pc \in {"copy", "skip"} /\ k'.pc = "head"
      \/ /\ k'.want = k.want /\ k'.cnt = k.cnt /\ k'.resync = k.resync
         /\ \/ k.pc = "skip" /\ k'.pc = "end"
            \/ k.pc = "head" /\ k'.pc \in {"sync", "end", "short"}
            \/ k.pc = "id" /\ k'.pc \in {"sync", "idtest", "noid"}
  BY <1>5, <1>6
<1> QED
  BY <1>1, <1>2, <1>6, <1>7, <1>8

LEMMA CameC ==
  ASSUME TInv, CInv, FillError \/ FillEnd
  PROVE  CInv' /\ Q' = Q
<1>1. /\ sc' = sc /\ b' = b /\ dev'.vol = dev.vol /\ dev'.pos = dev.pos /\ b = <<>>
      /\ h' = IF k'.pc = "head" THEN <<>> ELSE h
      /\ k'.pc \in Heads => k'.pc = "head" \/ k.pc \in Heads
      /\ k.pc \notin Idle
  BY CameProp DEF Heads, Idle
<1>2. Here' = Here
  BY <1>1, SameHere
<1>3. BufHolds' /\ Q' = Q /\ Q \in Nat
  BY <1>1, <1>2, BufSame DEF CInv, BufHolds
<1>4. HeadHolds'
  <2>1. CASE k'.pc = "head"
    BY <1>1, <1>3, <2>1, HeadEmpty
  <2>2. CASE k'.pc # "head"
    BY <1>1, <1>3, <2>2, HeadSame
  <2> QED
    BY <2>1, <2>2
<1> QED
  BY <1>3, <1>4 DEF CInv

LEMMA PokeC ==
  ASSUME TInv, CInv, Sync \/ RereadFails
  PROVE  CInv' /\ k'.pc \in {"reread", "end", "done"} /\ found' = found /\ out' = out
         /\ sc' = sc /\ (exit' = 1 \/ k'.pc = "reread")
<1>1. /\ k.pc \in {"sync", "reread"} /\ sc' = sc /\ b' = b /\ found' = found /\ out' = out
  BY RereadFailsProp DEF Sync
<1>2. dev' \in DevType /\ k'.pc \in {"reread", "end", "done"} /\ (exit' = 1 \/ k'.pc = "reread")
  <2>0. k \in LocType
    BY DEF TInv, LocOK
  <2>1. \E d \in DevType, may \in BOOLEAN, e \in Nat :
          d.vol = dev.vol /\ d.pos = dev.pos /\ Poke(d, may, e)
    <3>1. CASE Sync
      <4>1. dev \in DevType /\ 0 \in Nat /\ TRUE \in BOOLEAN
        BY DEF TInv, DevOK
      <4> QED
        BY <3>1, <4>1 DEF Sync
    <3>2. CASE RereadFails
      <4>1. PICK r \in {-1, 0}, may \in BOOLEAN, e \in Nat : Poke(Failed(r), may, e)
        BY <3>2, RereadFailsProp
      <4>2. Failed(r) \in DevType /\ Failed(r).vol = dev.vol /\ Failed(r).pos = dev.pos
        BY FailedProp
      <4> QED
        BY <4>1, <4>2
    <3> QED
      BY <3>1, <3>2
  <2>2. PICK d \in DevType, may \in BOOLEAN, e \in Nat :
          d.vol = dev.vol /\ d.pos = dev.pos /\ Poke(d, may, e)
    BY <2>1
  <2>3. dev' \in DevType
    BY <1>1, <2>2, PokeProp
  <2>4. \E p \in {"reread", "end", "done"}, c \in Nat :
          /\ k' = [k EXCEPT !.pc = p, !.errcnt = c]
          /\ p # "reread" => exit' = 1
    BY <1>1, <2>2, PokeProp
  <2> QED
    BY <2>0, <2>3, <2>4 DEF LocType
<1>3. Here' \in Nat
  BY <1>1, <1>2, NextHere
<1>4. b' = <<>>
  BY <1>1 DEF TInv, BufOK
<1>5. BufHolds'
  BY <1>3, <1>4, BufEmpty
<1>6. HeadHolds'
  BY <1>2 DEF HeadHolds, Heads
<1> QED
  BY <1>1, <1>2, <1>5, <1>6 DEF CInv

LEMMA RereadC ==
  ASSUME TInv, CInv, Reread
  PROVE  CInv'
<1>1. /\ sc' = sc /\ h' = <<>> /\ k'.pc \in {"id", "head"}
  BY RereadProp
<1>2. PICK n \in Gives : Loaded(n)
  BY DEF Reread
<1>3. /\ Len(b') = n /\ Q' = Here /\ Here \in Nat
      /\ \A i \in 1 .. n : Here + i \in 1 .. sc.len /\ b'[i] = Units[Here + i]
  BY <1>1, <1>2, LoadedProp
<1>4. Units' = Units
  BY <1>1, SameScene
<1>5. BufHolds'
  BY <1>1, <1>3, <1>4 DEF BufHolds
<1>6. HeadHolds'
  BY <1>1, <1>3, HeadEmpty
<1> QED
  BY <1>5, <1>6 DEF CInv

LEMMA InitC ==
  ASSUME Init
  PROVE  CInv /\ Q = 0
<1>1. dev.vol = 1 /\ dev.pos = 0 /\ b = <<>> /\ h = <<>>
  BY DEF Init
<1>2. Here = 0
  BY <1>1 DEF Here, From
<1>3. Len(<<>>) = 0 /\ Len(b) = 0
  BY <1>1
<1>4. Q = 0
  <2>1. Q = Here - Len(b)
    BY DEF Q
  <2> QED
    BY <1>2, <1>3, <2>1
<1> QED
  BY <1>1, <1>3, <1>4 DEF CInv, BufHolds, HeadHolds

LEMMA ContentStep ==
  ASSUME TInv, CInv, [Next]_vars
  PROVE  CInv'
<1>1. CASE Next
  <2>1. CASE Open \/ Short \/ End \/ SyncRefused \/ Headed \/ Member \/ CopyFails
    BY <2>1, StillC
  <2>2. CASE Trailer \/ IdSearch \/ Search \/ ZeroRecord \/ Take \/ IdFound
    BY <2>2, TrailerC, SearchC, ZeroRecordC, TakeC, IdFoundC
  <2>3. CASE Copy \/ Skip \/ SkipStart
    BY <2>3, CopyC, SkipC, SkipStartC
  <2>4. CASE FillData \/ FillNext \/ FillError \/ FillEnd
    BY <2>4, FillDataC, FillNextC, CameC
  <2>5. CASE Sync \/ Reread \/ RereadFails
    BY <2>5, PokeC, RereadC
  <2> QED
    BY <1>1, <2>1, <2>2, <2>3, <2>4, <2>5 DEF Next
<1>2. CASE UNCHANGED vars
  <2>1. BufHolds'
    BY <1>2, Same, BufSame
  <2>2. HeadHolds'
    BY <1>2, Same, HeadSame
  <2> QED
    BY <2>1, <2>2 DEF CInv
<1> QED
  BY <1>1, <1>2

-----------------------------------------------------------------------------
(* FInv: where the members are found, and what is written of them. *)
LEMMA SameFiles ==
  ASSUME FInv, sc' = sc, out' = out
  PROVE  FilesBegin'
<1>1. NoneLikeHead' = NoneLikeHead /\ \A m : Place(m)' = Place(m)
  BY SameScene
<1>2. \A m : Body(m, sc.members[m])' = Body(m, sc.members[m])
  BY DEF Body, Header
<1>3. FilesBegin
  BY DEF FInv
<1> QED
  BY <1>1, <1>2, <1>3 DEF FilesBegin

LEMMA AwayF ==
  ASSUME FInv, sc' = sc, out' = out, k'.pc \notin {"member", "copy"}
  PROVE  FInv'
<1>1. FilesBegin'
  BY SameFiles
<1>2. FilesPlaced'
  BY DEF FilesPlaced
<1> QED
  BY <1>1, <1>2 DEF FInv

LEMMA HeadPlace ==
  ASSUME TInv, CInv, k.pc = "test", Valid
  PROVE  /\ h[1].m \in 1 .. N /\ Q - BLKMULT \in Nat /\ Q - BLKMULT + 1 \in 1 .. sc.len
         /\ Units[Q - BLKMULT + 1] = Unit("H", h[1].m, 1)
         /\ NoneLikeHead => Q = Place(h[1].m) - 1 + BLKMULT
<1>1. Len(h) = BLKMULT /\ BLKMULT \in Nat \ {0} /\ Q \in Int
  BY Constants, HereProp DEF Valid
<1>2. PICK m \in 1 .. N : h = Header(m) /\ h[1].m = m
  BY ValidProp
<1>3. /\ Q - Len(h) \in Nat
      /\ \A i \in 1 .. Len(h) : Q - Len(h) + i \in 1 .. sc.len /\ h[i] = Units[Q - Len(h) + i]
  BY DEF CInv, HeadHolds, Heads
<1>4. 1 \in 1 .. BLKMULT
  BY <1>1
<1>5. h[1] = Unit("H", m, 1)
  BY <1>2, <1>4 DEF Header
<1> DEFINE j == Q - BLKMULT + 1
<1>6. j \in 1 .. sc.len /\ Units[j] = Unit("H", m, 1)
  BY <1>1, <1>3, <1>4, <1>5
<1>7. NoneLikeHead => j = Place(m) - 1 + 1
  <2> HIDE DEF j
  <2> QED
    BY <1>6, WhatUnitsTell DEF TInv
<1>8. Place(m) \in Nat
  <2>1. m \in 1 .. N + 1
    BY Facts
  <2> QED
    BY <2>1, PlaceProp DEF TInv
<1>9. NoneLikeHead => Q = Place(m) - 1 + BLKMULT
  BY <1>1, <1>7, <1>8
<1> QED
  BY <1>1, <1>2, <1>3, <1>6, <1>9

LEMMA LastAppended ==
  ASSUME NEW S, NEW s \in Seq(S), NEW e \in S
  PROVE  Last(Append(s, e)) = e /\ Len(Append(s, e)) = Len(s) + 1 /\ Append(s, e) \in Seq(S)
         /\ \A i \in 1 .. Len(s) : Append(s, e)[i] = s[i]
  BY DEF Last

LEMMA HeadedProp ==
  ASSUME TInv, Headed
  PROVE  /\ h[1].m \in 1 .. N /\ Last(found') = h[1].m /\ Len(found') = Len(found) + 1
         /\ \A i \in 1 .. Len(found) : found'[i] = found[i]
         /\ found'[Len(found) + 1] = h[1].m
<1>1. h[1].m \in 1 .. N /\ found \in Seq(1 .. N) /\ found' = Append(found, h[1].m)
  BY ValidProp DEF Headed, TInv, FoundOK
<1> DEFINE m == h[1].m
<1> HIDE DEF m
<1>2. m \in 1 .. N /\ found' = Append(found, m)
  BY <1>1 DEF m
<1>3. Last(found') = m /\ Len(found') = Len(found) + 1
      /\ \A i \in 1 .. Len(found) : found'[i] = found[i]
  <2> DEFINE S == 1 .. N
             w == Append(found, m)
  <2>1. found \in Seq(S) /\ m \in S
    BY <1>1, <1>2
  <2> HIDE DEF S
  <2>2. Last(w) = m /\ Len(w) = Len(found) + 1 /\ \A i \in 1 .. Len(found) : w[i] = found[i]
    BY ONLY <2>1, LastAppended
  <2> HIDE DEF w
  <2>3. found' = w
    BY <1>2 DEF w
  <2> QED
    BY <2>2, <2>3
<1>4. found'[Len(found) + 1] = m
  BY <1>1, <1>2
<1> QED
  BY <1>2, <1>3, <1>4 DEF m

LEMMA HeadedF ==
  ASSUME TInv, CInv, FInv, Headed
  PROVE  FInv'
<1>1. sc' = sc /\ out' = out /\ k.pc = "test" /\ Valid /\ k'.pc = "member"
  BY DEF Headed, Goto, TInv, LocOK, LocType
<1>2. Q' = Q
  BY StillC
<1>3. NoneLikeHead => Q = Place(h[1].m) - 1 + BLKMULT
  BY <1>1, HeadPlace
<1>4. Last(found') = h[1].m
  BY HeadedProp
<1>5. NoneLikeHead' = NoneLikeHead /\ \A m : Place(m)' = Place(m)
  BY <1>1, SameScene
<1>6. Place(Last(found))' = Place(h[1].m)
  BY <1>1, <1>4 DEF Place
<1>7. FilesPlaced'
  BY <1>1, <1>2, <1>3, <1>5, <1>6 DEF FilesPlaced
<1>8. FilesBegin'
  BY <1>1, SameFiles
<1> QED
  BY <1>7, <1>8 DEF FInv

LEMMA MemberF ==
  ASSUME TInv, CInv, FInv, Member
  PROVE  FInv'
<1> DEFINE L == Last(found)
<1>1. sc' = sc /\ found' = found /\ k.pc = "member" /\ found # <<>> /\ k \in LocType
  BY MemberCases DEF TInv, LocOK
<1>2. \/ /\ k' = [k EXCEPT !.pc = "skipto", !.need = Fits(L).skip + Fits(L).pad]
         /\ out' = out
      \/ /\ k' = [k EXCEPT !.pc = "skipto", !.need = Fits(L).pad]
         /\ out' = [out EXCEPT ![L] = <<>>]
      \/ /\ k' = [k EXCEPT !.pc = "copy", !.need = Fits(L).skip]
         /\ out' = [out EXCEPT ![L] = <<>>]
  BY MemberCases
<1>3. L \in 1 .. N /\ Fits(L).skip \in Nat /\ Place(L) \in Nat /\ BLKMULT \in Nat
  <2>1. L \in 1 .. N /\ Fits(L).skip \in Nat
    BY <1>1, LastProp
  <2>2. L \in 1 .. N + 1
    BY <2>1, Facts
  <2> QED
    BY <2>1, <2>2, PlaceProp, Constants DEF TInv
<1>4. Q' = Q
  BY StillC
<1>5. NoneLikeHead' = NoneLikeHead /\ Place(Last(found))' = Place(L) /\ Fits(Last(found))' = Fits(L)
  BY <1>1, SameScene DEF Place, Fits
<1>6. k'.pc # "member" /\ (k'.pc = "copy" => k'.need = Fits(L).skip)
  BY <1>1, <1>2 DEF LocType
<1>7. FilesPlaced'
  <2>1. NoneLikeHead => Q = Place(L) - 1 + BLKMULT
    BY <1>1 DEF FInv, FilesPlaced
  <2> SUFFICES ASSUME NoneLikeHead', k'.pc = "copy"
               PROVE  (Q + k.need = Place(Last(found)) - 1 + BLKMULT + Fits(Last(found)).skip)'
    BY <1>6 DEF FilesPlaced
  <2> DEFINE s == Fits(L).skip
             p == Place(L)
  <2>2. Q' = p - 1 + BLKMULT /\ k'.need = s
    BY <1>4, <1>5, <1>6, <2>1
  <2>3. p \in Nat /\ s \in Nat
    BY <1>3
  <2>4. Fits(Last(found))'.skip = s /\ Place(Last(found))' = p
    BY <1>5
  <2> HIDE DEF s, p
  <2>5. (p - 1 + BLKMULT) + s = p - 1 + BLKMULT + s
    OBVIOUS
  <2> QED
    BY <2>2, <2>4, <2>5
<1>8. FilesBegin'
  <2>1. CASE out' = out
    BY <1>1, <2>1, SameFiles
  <2>2. CASE out' = [out EXCEPT ![L] = <<>>]
    <3>1. DOMAIN out = 1 .. N
      BY DEF TInv, OutOK
    <3>2. /\ DOMAIN out' = DOMAIN out /\ out'[L] = <<>>
          /\ \A m \in DOMAIN out : m # L => out'[m] = out[m]
      BY <1>3, <2>2, <3>1
    <3>3. NoneLikeHead' = NoneLikeHead /\ \A m : Place(m)' = Place(m)
      BY <1>1, SameScene
    <3>4. \A m : Body(m, sc.members[m])' = Body(m, sc.members[m])
      BY <1>1 DEF Body, Header
    <3>5. \A i \in DOMAIN <<>> : FALSE
      OBVIOUS
    <3>6. FilesBegin
      BY DEF FInv
    <3> HIDE DEF L
    <3> SUFFICES ASSUME NoneLikeHead, NEW m \in DOMAIN out, NEW i \in DOMAIN out'[m]
                 PROVE  /\ i <= sc.members[m].skip
                        /\ out'[m][i] = IF Place(m) + BLKMULT - 1 + i \in sc.dam THEN Unit("X", 0, 0)
                                        ELSE Body(m, sc.members[m])[i]
      BY <1>1, <3>2, <3>3, <3>4 DEF FilesBegin
    <3>7. m # L
      BY <3>2, <3>5
    <3>8. out'[m] = out[m]
      BY <3>2, <3>7
    <3> QED
      BY <3>6, <3>8 DEF FilesBegin
  <2> QED
    BY <1>2, <2>1, <2>2
<1> QED
  BY <1>7, <1>8 DEF FInv

(* What is written of a member is what the archive holds there. *)
LEMMA WroteF ==
  ASSUME TInv, CInv, FInv, k.pc = "copy", NEW n \in Nat, n <= Len(b), n <= k.need, Wrote(n),
         sc' = sc
  PROVE  FilesBegin'
<1> DEFINE L == Last(found)
           o == Len(out[L])
<1>1. /\ L \in 1 .. N /\ out' \in [1 .. N -> Seq(Cells)] /\ o \in Nat
      /\ \A m \in 1 .. N : m # L => out'[m] = out[m]
      /\ Len(out'[L]) = o + n /\ o + k.need = Fits(L).skip
      /\ \A i \in 1 .. o : out'[L][i] = out[L][i]
      /\ \A i \in 1 .. n : out'[L][o + i] = b[i]
  BY WroteProp
<1>2. out \in [1 .. N -> Seq(Cells)]
  BY DEF TInv, OutOK
<1>3. NoneLikeHead' = NoneLikeHead /\ \A m : Place(m)' = Place(m)
  BY SameScene
<1>4. \A m : Body(m, sc.members[m])' = Body(m, sc.members[m])
  BY DEF Body, Header
<1>5. FilesBegin
  BY DEF FInv
<1>6. DOMAIN out = 1 .. N /\ DOMAIN out' = 1 .. N
  BY <1>1, <1>2
<1> HIDE DEF L, o
<1> SUFFICES ASSUME NoneLikeHead, NEW m \in 1 .. N, NEW i \in DOMAIN out'[m]
             PROVE  /\ i <= sc.members[m].skip
                    /\ out'[m][i] = IF Place(m) + BLKMULT - 1 + i \in sc.dam THEN Unit("X", 0, 0)
                                    ELSE Body(m, sc.members[m])[i]
  BY <1>3, <1>4, <1>6 DEF FilesBegin
<1>7. CASE m # L
  <2>1. out'[m] = out[m] /\ m \in DOMAIN out
    BY <1>1, <1>6, <1>7
  <2> QED
    BY <2>1, <1>5 DEF FilesBegin
<1>8. CASE m = L
  <2>1. out'[L] \in Seq(Cells) /\ out[L] \in Seq(Cells) /\ Len(out[L]) = o
    BY <1>1, <1>2 DEF o
  <2>2. i \in 1 .. o + n
    BY <1>1, <1>8, <2>1
  <2>3. CASE i <= o
    <3>1. i \in 1 .. o /\ i \in DOMAIN out[L] /\ L \in DOMAIN out
      BY <1>1, <1>6, <2>1, <2>2, <2>3
    <3>2. out'[m][i] = out[L][i]
      BY <1>1, <1>8, <3>1
    <3> QED
      BY <1>5, <1>8, <3>1, <3>2 DEF FilesBegin
  <2>4. CASE ~ i <= o
    <3> DEFINE j == i - o
               s == Fits(L).skip
               p == Place(L)
               d == k.need
    <3>1. j \in 1 .. n /\ i = o + j /\ i \in Nat /\ j \in Nat
      BY <1>1, <2>2, <2>4
    <3>2. d \in Nat /\ s \in Nat /\ p \in Nat /\ Q \in Int /\ BLKMULT \in Nat /\ Len(b) \in Nat
      <4>1. L \in 1 .. N + 1
        BY <1>1, Facts
      <4> QED
        BY <1>1, <4>1, Facts, HereProp, SceneFacts, PlaceProp DEF TInv
    <3>3. Q + d = p - 1 + BLKMULT + s
      BY DEF FInv, FilesPlaced, L
    <3>4. o + d = s /\ n <= d
      BY <1>1
    <3> HIDE DEF s, p, d, j
    <3>5. Q + j = p - 1 + BLKMULT + i /\ i \in 1 .. s /\ j \in 1 .. Len(b)
          /\ Q + j = p + BLKMULT - 1 + i
      BY <1>1, <3>1, <3>2, <3>3, <3>4
    <3>6. out'[m][i] = b[j]
      BY <1>1, <1>8, <3>1
    <3>7. Q + j \in 1 .. sc.len /\ b[j] = Units[Q + j]
      BY <3>5 DEF CInv, BufHolds, Idle
    <3> DEFINE x == Q + j
    <3>8. Units[x] = IF x \in sc.dam THEN Unit("X", 0, 0) ELSE A[x]
      BY <3>7, UnitsProp DEF TInv
    <3>9. A[x] = Body(L, Fits(L))[i]
      <4>1. \A y \in 1 .. Fits(L).skip : A[Place(L) - 1 + BLKMULT + y] = Body(L, Fits(L))[y]
        BY <1>1, MemberUnits DEF TInv
      <4> QED
        BY <3>5, <4>1 DEF s, p
    <3>10. Fits(L) = sc.members[m] /\ i <= s /\ x = Place(m) + BLKMULT - 1 + i
      BY <1>8, <3>2, <3>5 DEF Fits, p
    <3> HIDE DEF x
    <3> QED
      BY <1>8, <3>6, <3>7, <3>8, <3>9, <3>10 DEF s, x
  <2> QED
    BY <2>3, <2>4
<1> QED
  BY <1>7, <1>8

LEMMA CopyF ==
  ASSUME TInv, CInv, FInv, Copy
  PROVE  FInv'
<1>1. k.pc = "copy" /\ sc' = sc /\ found' = found /\ k \in LocType
  BY DEF Copy, TInv, LocOK
<1>2. PICK n \in Nat : /\ n <= Len(b) /\ n <= k.need /\ Wrote(n) /\ Q' = Q + n
                       /\ \/ n < k.need /\ k' = [k EXCEPT !.need = k.need - n]
                          \/ n = k.need /\ k' = [k EXCEPT !.pc = "skipto",
                                                    !.need = Fits(Last(found)).pad]
  BY CopyC
<1>3. FilesBegin'
  BY <1>1, <1>2, WroteF
<1>4. FilesPlaced'
  <2>1. CASE k' = [k EXCEPT !.need = k.need - n]
    <3>1. k'.pc = "copy" /\ k'.need = k.need - n /\ k.need \in Nat /\ Q \in Int
      BY <1>1, <2>1, HereProp DEF LocType
    <3>2. Q' + k'.need = Q + k.need
      <4>1. (Q + n) + (k.need - n) = Q + k.need
        BY <3>1
      <4> QED
        BY <1>2, <3>1, <4>1
    <3>3. NoneLikeHead' = NoneLikeHead /\ Place(Last(found))' = Place(Last(found))
          /\ Fits(Last(found))' = Fits(Last(found))
      BY <1>1, SameScene DEF Place, Fits
    <3> QED
      BY <1>1, <3>1, <3>2, <3>3 DEF FInv, FilesPlaced
  <2>2. CASE k' = [k EXCEPT !.pc = "skipto", !.need = Fits(Last(found)).pad]
    <3>1. k'.pc = "skipto"
      BY <1>1, <2>2 DEF LocType
    <3> QED
      BY <3>1 DEF FilesPlaced
  <2> QED
    BY <1>2, <2>1, <2>2
<1> QED
  BY <1>3, <1>4 DEF FInv

LEMMA CopyFailsF ==
  ASSUME TInv, CInv, FInv, CopyFails
  PROVE  FInv'
<1>1. PICK n \in Nat :
        /\ n <= Len(b) /\ n <= k.need /\ Wrote(n)
        /\ k' = [k EXCEPT !.pc = "skipto", !.need = k.need + Fits(Last(found)).pad]
        /\ k.pc = "copy" /\ sc' = sc
  BY CopyFailsProp
<1>2. FilesBegin'
  BY <1>1, WroteF
<1>3. k'.pc = "skipto"
  BY <1>1 DEF TInv, LocOK, LocType
<1> QED
  BY <1>2, <1>3 DEF FInv, FilesPlaced

LEMMA FillF ==
  ASSUME TInv, CInv, FInv, FillData \/ FillNext
  PROVE  FInv'
<1>1. sc' = sc /\ out' = out /\ k' = k /\ found' = found
  BY DEF FillData, FillNext
<1>2. Q' = Q
  BY FillDataC, FillNextC
<1>3. FilesBegin'
  BY <1>1, SameFiles
<1>4. NoneLikeHead' = NoneLikeHead /\ Place(Last(found))' = Place(Last(found))
      /\ Fits(Last(found))' = Fits(Last(found))
  BY <1>1, SameScene DEF Place, Fits
<1>5. FilesPlaced'
  BY <1>1, <1>2, <1>4 DEF FInv, FilesPlaced
<1> QED
  BY <1>3, <1>5 DEF FInv

(* The other steps touch no file, and do not come to one. *)
LEMMA OtherF ==
  ASSUME TInv, CInv,
         Open \/ Short \/ End \/ SyncRefused \/ Trailer \/ IdSearch \/ Search \/ ZeroRecord
           \/ Take \/ IdFound \/ Skip \/ SkipStart \/ FillError \/ FillEnd
           \/ Sync \/ RereadFails \/ Reread
  PROVE  sc' = sc /\ out' = out /\ k'.pc \notin {"member", "copy"}
<1>1. k \in LocType
  BY DEF TInv, LocOK
<1>2. CASE Open
  BY <1>1, <1>2 DEF Open, Goto, Fails, LocType
<1>3. CASE Short \/ End \/ SyncRefused \/ Trailer
  BY <1>1, <1>3 DEF Short, End, SyncRefused, Unsynced, Trailer, Goto, Fails, Stop, LocType
<1>4. CASE IdSearch \/ Search \/ ZeroRecord
  BY <1>1, <1>4 DEF IdSearch, Search, ZeroRecord, Goto, Stop, LocType
<1>5. CASE Take
  BY <1>5, TakeProp
<1>6. CASE IdFound
  BY <1>1, <1>6 DEF IdFound, Fresh, LocType
<1>7. CASE Skip
  <2>1. \/ NextHead
        \/ \E n : k' = [k EXCEPT !.need = k.need - n]
    BY <1>7, SkipProp
  <2> QED
    BY <1>1, <1>7, <2>1 DEF Skip, NextHead, Fresh, LocType
<1>8. CASE SkipStart
  BY <1>1, <1>8 DEF SkipStart, NextHead, Fresh, LocType
<1>9. CASE FillError \/ FillEnd
  BY <1>9, CameProp
<1>10. CASE Sync \/ RereadFails
  BY <1>10, PokeC
<1>11. CASE Reread
  BY <1>11, RereadProp
<1> QED
  BY <1>2, <1>3, <1>4, <1>5, <1>6, <1>7, <1>8, <1>9, <1>10, <1>11

LEMMA FilesStep ==
  ASSUME TInv, CInv, FInv, [Next]_vars
  PROVE  FInv'
<1>1. CASE Next
  <2>1. CASE Headed \/ Member
    BY <2>1, HeadedF, MemberF
  <2>2. CASE Copy \/ CopyFails
    BY <2>2, CopyF, CopyFailsF
  <2>3. CASE FillData \/ FillNext
    BY <2>3, FillF
  <2>4. CASE Open \/ Short \/ End \/ SyncRefused \/ Trailer \/ IdSearch \/ Search \/ ZeroRecord
               \/ Take \/ IdFound \/ Skip \/ SkipStart \/ FillError \/ FillEnd
               \/ Sync \/ RereadFails \/ Reread
    BY <2>4, OtherF, AwayF
  <2> QED
    BY <1>1, <2>1, <2>2, <2>3, <2>4 DEF Next
<1>2. CASE UNCHANGED vars
  <2>1. FilesBegin'
    BY <1>2, Same, SameFiles
  <2>2. Place(Last(found))' = Place(Last(found)) /\ Fits(Last(found))' = Fits(Last(found))
    BY <1>2, Same DEF Place, Fits
  <2>3. FilesPlaced'
    BY <1>2, <2>2, Same DEF FInv, FilesPlaced
  <2> QED
    BY <2>1, <2>3 DEF FInv
<1> QED
  BY <1>1, <1>2

LEMMA InitF ==
  ASSUME Init
  PROVE  FInv
<1>1. k.pc = "open" /\ out = [m \in DOMAIN sc.members |-> <<>>]
  BY DEF Init
<1>2. \A i \in DOMAIN <<>> : FALSE
  OBVIOUS
<1> QED
  BY <1>1, <1>2 DEF FInv, FilesPlaced, FilesBegin

(* In no archive without data that looks like a header, and whatever is damaged
   or cannot be read, cannot be written or is in another volume, does a file
   that is extracted hold anything but the beginning of its data.            *)
THEOREM FilesBeginRight == Spec => []FilesBegin
<1> DEFINE I == TInv /\ CInv /\ FInv
<1>1. Init => I
  BY InitT, InitC, InitF
<1>2. I /\ [Next]_vars => I'
  BY TypedStep, ContentStep, FilesStep
<1>3. I => FilesBegin
  BY DEF FInv
<1> QED
  BY <1>1, <1>2, <1>3, PTL DEF Spec

-----------------------------------------------------------------------------
(* AInv: append() goes from header to header up to the trailer. *)
Going == sc.act = "append" /\ exit = 0 /\ exit' = 0

LEMMA SameSofar ==
  ASSUME Sofar, Len(found) <= N, sc' = sc, found' = found
  PROVE  Sofar' /\ Len(found') <= N' /\ N' = N /\ Spot' = Spot
<1>1. N' = N
  BY SameScene
<1>2. Spot' = Spot
  BY DEF Spot, Place
<1> QED
  BY <1>1, <1>2 DEF Sofar

LEMMA OpenA ==
  ASSUME TInv, CInv, AppendOn, Going, Open
  PROVE  AppendOn'
<1>1. /\ sc' = sc /\ h' = h /\ found' = found /\ k.pc = "open"
      /\ k' = [k EXCEPT !.pc = "id"] /\ dev' = [dev EXCEPT !.open = TRUE]
  BY DEF Open, Fails, Goto, Going
<1>2. Q' = Q
  BY StillC
<1>3. /\ k'.pc = "id" /\ k'.resync = k.resync /\ k'.fini = k.fini /\ k'.cnt = k.cnt
      /\ dev'.lstrval = dev.lstrval
  BY <1>1 DEF TInv, LocOK, LocType, DevOK, DevType
<1>4. ~ k.fini /\ dev.lstrval = 1 /\ ~ k.resync /\ Q = Len(h) /\ found = <<>> /\ k.cnt = 0
      /\ Sofar /\ Len(found) <= N
  BY <1>1 DEF AppendOn, Lost, Idle
<1>5. Sofar' /\ Len(found') <= N'
  BY <1>1, <1>4, SameSofar
<1> QED
  BY <1>1, <1>2, <1>3, <1>4, <1>5 DEF AppendOn

LEMMA FillA ==
  ASSUME TInv, CInv, AppendOn, Going, FillData \/ FillNext
  PROVE  AppendOn'
<1>1. /\ sc' = sc /\ h' = h /\ found' = found /\ k' = k /\ k.pc \in {"id", "head", "skip", "copy"}
  BY FillingProp DEF FillData, FillNext
<1>2. Q' = Q
  BY FillDataC, FillNextC
<1>3. dev'.lstrval = 1
  <2>1. CASE FillData
    <3>1. PICK n \in Gives : Loaded(n)
      BY <2>1 DEF FillData
    <3>2. dev.lstrval = 1 /\ dev' = [dev EXCEPT !.pos = dev.pos + n] /\ dev \in DevType
      BY <1>1, <3>1, GivesProp, LoadedProp DEF TInv, DevOK
    <3> QED
      BY <3>2 DEF DevType
  <2>2. CASE FillNext
    <3>1. Failed(0) \in DevType /\ Failed(0).vol = dev.vol
      BY FailedProp
    <3> QED
      BY <1>1, <2>2, <3>1, AnotherProp DEF FillNext
  <2> QED
    BY <2>1, <2>2
<1>4. k.pc \in {"id", "head", "skip"} /\ ~ k.resync /\ ~ k.fini /\ Sofar /\ Len(found) <= N
  BY <1>1 DEF AppendOn, Lost
<1>5. Sofar' /\ Len(found') <= N' /\ N' = N /\ Spot' = Spot
  BY <1>1, <1>4, SameSofar
<1>6. /\ k.pc = "id" => Q = Len(h) /\ found = <<>> /\ k.cnt = 0
      /\ k.pc = "head" => /\ Q - Len(h) = Spot - 1 + k.cnt * BLKMULT
                          /\ k.cnt > 0 => Len(found) = N
      /\ k.pc = "skip" => Q + k.need = Spot - 1
  BY DEF AppendOn
<1> QED
  BY <1>1, <1>2, <1>3, <1>4, <1>5, <1>6 DEF AppendOn

LEMMA FillEndA ==
  ASSUME TInv, CInv, AppendOn, Going, FillEnd
  PROVE  AppendOn'
<1>1. /\ sc' = sc /\ found' = found /\ k'.fini
      /\ h' = IF k'.pc = "head" THEN <<>> ELSE h
      /\ \/ k.pc \in {"copy", "skip"} /\ k'.pc = "head"
         \/ /\ k'.want = k.want /\ k'.cnt = k.cnt /\ k'.resync = k.resync
            /\ \/ k.pc = "skip" /\ k'.pc = "end"
               \/ k.pc = "head" /\ k'.pc \in {"sync", "end", "short"}
               \/ k.pc = "id" /\ k'.pc \in {"sync", "idtest", "noid"}
  BY CameProp
<1>2. k \in LocType /\ sc.act = "append"
  BY DEF TInv, LocOK, Going
<1>3. k.pc # "copy" /\ ~ k.resync /\ Sofar /\ Len(found) <= N
  BY DEF AppendOn
<1>4. ~ (k.pc = "skip" /\ k'.pc = "head")
  <2> SUFFICES ASSUME k.pc = "skip" PROVE k'.pc # "head"
    OBVIOUS
  <2> DEFINE kk == [k EXCEPT !.fini = TRUE]
  <2>1. kk \in LocType /\ kk.pc = "skip" /\ k' = Came(kk, 0)
    BY <1>2 DEF FillEnd, LocType
  <2> HIDE DEF kk
  <2>2. k' = [kk EXCEPT !.pc = "end"]
    BY <1>2, <2>1 DEF Came, Stop
  <2> QED
    BY <2>1, <2>2 DEF LocType
<1>5. ~ k'.resync /\ k'.cnt = k.cnt /\ h' = h
      /\ \/ k.pc = "skip" /\ k'.pc = "end"
         \/ k.pc = "head" /\ k'.pc \in {"sync", "end", "short"}
         \/ k.pc = "id" /\ k'.pc \in {"sync", "idtest", "noid"}
  BY <1>1, <1>3, <1>4
<1>6. Sofar' /\ Len(found') <= N'
  BY <1>1, <1>3, SameSofar
<1>7. k.fini => k.pc \in Lost
  BY DEF AppendOn
<1>8. k'.pc = "end" => ~ dev'.open
  <2>1. k'.pc = "end" => k.frmt
    BY <1>5 DEF TInv, LocOK, Known1
  <2>2. ~ k.fini
    BY <1>5, <1>7 DEF Lost
  <2> QED
    BY <2>1, <2>2, FillEndDev
<1>9. k'.pc = "idtest" => Len(h) < BLKMULT /\ Q' = Len(h) /\ found = <<>> /\ k.cnt = 0
  <2> SUFFICES ASSUME k'.pc = "idtest"
               PROVE  Len(h) < BLKMULT /\ Q' = Len(h) /\ found = <<>> /\ k.cnt = 0
    OBVIOUS
  <2>1. k.pc = "id"
    BY <1>5
  <2>2. k.want > 0 /\ Len(h) + k.want = BLKMULT /\ Len(h) \in Nat /\ k.want \in Nat
    BY <2>1, FillingProp, Facts DEF FillEnd, TInv, HeadOK, Heads
  <2>3. Q' = Q
    BY CameC
  <2>4. Q = Len(h) /\ found = <<>> /\ k.cnt = 0
    BY <2>1 DEF AppendOn
  <2> QED
    BY <2>2, <2>3, <2>4
<1>10. k'.pc \in Lost
  BY <1>5 DEF Lost
<1>11. k'.pc \in {"sync", "end", "short", "idtest", "noid"}
  BY <1>5
<1> QED
  BY <1>1, <1>5, <1>6, <1>8, <1>9, <1>10, <1>11 DEF AppendOn, Idle

LEMMA TakeA ==
  ASSUME TInv, CInv, AppendOn, Going, Take
  PROVE  AppendOn'
<1>1. PICK n \in Nat \ {0} :
        /\ sc' = sc /\ dev' = dev /\ found' = found /\ Len(h') = Len(h) + n
        /\ k'.cnt = k.cnt /\ k'.fini = k.fini /\ k'.resync = k.resync
        /\ \/ n < k.want /\ k'.pc = k.pc
           \/ n = k.want /\ k.pc = "id" /\ k'.pc = "idtest"
           \/ n = k.want /\ k.pc = "head" /\ k'.pc = "test"
        /\ k.pc \in {"id", "head"}
  BY TakeProp
<1>2. Q' - Len(h') = Q - Len(h)
  BY TakeC
<1>3. Q \in Int /\ Len(h) \in Nat /\ Len(h') \in Nat /\ Q' \in Int
  <2>1. TInv'
    BY TakeT
  <2>2. CInv' /\ k'.pc \notin Idle
    BY <1>1, TakeC DEF Idle
  <2>3. Q' \in Nat
    BY <2>2 DEF CInv, BufHolds
  <2> QED
    BY <1>1, <2>3, Facts, HereProp
<1>4. ~ k.resync /\ ~ k.fini /\ dev.lstrval = 1 /\ Sofar /\ Len(found) <= N
  BY <1>1 DEF AppendOn, Lost, Idle
<1>5. Sofar' /\ Len(found') <= N' /\ N' = N /\ Spot' = Spot
  BY <1>1, <1>4, SameSofar
<1>7. CASE k.pc = "id"
  <2>1. k'.pc \in {"id", "idtest"} /\ Q = Len(h) /\ found = <<>> /\ k.cnt = 0
    BY <1>1, <1>7 DEF AppendOn
  <2>2. Q' = Len(h')
    <3> DEFINE x == Q'
               y == Len(h')
    <3>1. x \in Int /\ y \in Int /\ x - y = Q - Len(h) /\ Q = Len(h) /\ Q \in Int
      BY <1>2, <1>3, <2>1
    <3> HIDE DEF x, y
    <3>2. x = y
      BY <3>1
    <3> QED
      BY <3>2 DEF x, y
  <2> QED
    BY <1>1, <1>4, <1>5, <2>1, <2>2 DEF AppendOn
<1>8. CASE k.pc = "head"
  <2>1. k'.pc \in {"head", "test"} /\ Q - Len(h) = Spot - 1 + k.cnt * BLKMULT
        /\ (k.cnt > 0 => Len(found) = N)
    BY <1>1, <1>8 DEF AppendOn
  <2>2. Q' - Len(h') = Spot' - 1 + k'.cnt * BLKMULT
    BY <1>1, <1>2, <1>5, <2>1
  <2> QED
    BY <1>1, <1>4, <1>5, <2>1, <2>2 DEF AppendOn
<1> QED
  BY <1>1, <1>7, <1>8

LEMMA IdFoundA ==
  ASSUME TInv, CInv, AppendOn, Going, IdFound
  PROVE  AppendOn'
<1>1. /\ sc' = sc /\ found' = found /\ dev' = dev /\ k.pc = "idtest" /\ Valid /\ h' = <<>>
      /\ k' = Fresh([k EXCEPT !.frmt = TRUE])
  BY DEF IdFound
<1> DEFINE kk == [k EXCEPT !.frmt = TRUE]
<1>2. kk \in LocType /\ kk.fini = k.fini
  BY DEF TInv, LocOK, LocType
<1>3. k' = Fresh(kk)
  BY <1>1
<1> HIDE DEF kk
<1>4. k'.pc = "head" /\ ~ k'.resync /\ k'.cnt = 0 /\ k'.fini = k.fini
  BY <1>2, <1>3, FreshProp
<1>5. Len(h) = BLKMULT /\ BLKMULT \in Nat /\ Len(<<>>) = 0
  BY <1>1, Constants DEF Valid
<1>6. ~ k.fini /\ dev.lstrval = 1 /\ Q = Len(h) /\ found = <<>> /\ Sofar /\ Len(found) <= N
  BY <1>1, <1>5 DEF AppendOn, Idle
<1>7. Q' = 0 /\ Len(h') = 0 /\ Len(found') = 0
  <2>1. Q' = Q - Len(h)
    BY IdFoundC
  <2> QED
    BY <1>1, <1>5, <1>6, <2>1
<1>8. Spot = 1
  <2>1. Len(found) + 1 = 1
    BY <1>1, <1>7
  <2>2. Place(1) = 1
    BY PlaceProp DEF TInv
  <2> QED
    BY <2>1, <2>2 DEF Spot
<1>9. Sofar' /\ Len(found') <= N' /\ Spot' = Spot
  BY <1>1, <1>6, SameSofar
<1>10. Q' - Len(h') = Spot' - 1 + k'.cnt * BLKMULT
  <2>1. k'.cnt * BLKMULT = 0
    BY <1>4, <1>5
  <2>2. Spot' = 1
    BY <1>8, <1>9
  <2> QED
    BY <1>7, <2>1, <2>2
<1> QED
  BY <1>1, <1>4, <1>6, <1>9, <1>10 DEF AppendOn

(* Where the next header is due there is none but that of the next member, and
   no zeros before the trailer.                                              *)
LEMMA SpotProp ==
  ASSUME TInv, CInv, AppendOn, k.pc = "test"
  PROVE  /\ Len(h) = BLKMULT /\ BLKMULT \in Nat \ {0} /\ Q \in Int /\ Spot \in Nat \ {0}
         /\ Q - BLKMULT = Spot - 1 + k.cnt * BLKMULT /\ k.cnt \in Nat
         /\ Q - BLKMULT + 1 \in 1 .. sc.len /\ h[1] = Units[Q - BLKMULT + 1]
         /\ Len(found) \in Nat /\ N \in Nat /\ Len(found) <= N
         /\ k.cnt > 0 => Len(found) = N
         /\ Len(found) = N => Spot = Trail
         /\ ~ k.resync /\ ~ k.fini /\ Sofar
<1>1. BLKMULT \in Nat \ {0} /\ Q \in Int /\ k.cnt \in Nat /\ Len(found) \in Nat /\ N \in Nat
  BY Constants, HereProp, Facts
<1>2. Len(h) = BLKMULT
  <2>1. Len(h) + k.want = BLKMULT /\ k.want = 0 /\ Len(h) \in Nat
    BY Facts DEF TInv, HeadOK, Heads
  <2> QED
    BY <2>1
<1>3. \A i \in 1 .. BLKMULT : Q - BLKMULT + i \in 1 .. sc.len /\ h[i] = Units[Q - BLKMULT + i]
  BY <1>2 DEF CInv, HeadHolds, Heads
<1>4. 1 \in 1 .. BLKMULT
  BY <1>1
<1>5. /\ Q - BLKMULT = Spot - 1 + k.cnt * BLKMULT
      /\ k.cnt > 0 => Len(found) = N
      /\ Len(found) <= N /\ ~ k.resync /\ ~ k.fini /\ Sofar
  BY <1>2 DEF AppendOn, Lost
<1>6. Len(found) + 1 \in 1 .. N + 1
  BY <1>1, <1>5
<1>7. Spot \in Nat \ {0} /\ (Len(found) = N => Spot = Trail)
  BY <1>6, PlaceProp DEF Spot, TInv
<1> QED
  BY <1>1, <1>2, <1>3, <1>4, <1>5, <1>7

LEMMA Times ==
  ASSUME NEW x \in Nat, NEW y \in Nat
  PROVE  x * y \in Nat /\ (x = 0 => x * y = 0)
  OBVIOUS

LEMMA HeadedA ==
  ASSUME TInv, CInv, AppendOn, Going, Headed
  PROVE  AppendOn'
<1>1. sc' = sc /\ dev' = dev /\ k.pc = "test" /\ Valid
      /\ k'.pc = "member" /\ k'.resync = k.resync /\ k'.fini = k.fini
  BY DEF Headed, Goto, TInv, LocOK, LocType
<1>2. /\ BLKMULT \in Nat \ {0} /\ Q \in Int /\ Spot \in Nat \ {0}
      /\ Q - BLKMULT = Spot - 1 + k.cnt * BLKMULT /\ k.cnt \in Nat
      /\ Q - BLKMULT + 1 \in 1 .. sc.len /\ h[1] = Units[Q - BLKMULT + 1]
      /\ Len(found) \in Nat /\ N \in Nat /\ Len(found) <= N
      /\ k.cnt > 0 => Len(found) = N
      /\ Len(found) = N => Spot = Trail
      /\ ~ k.resync /\ ~ k.fini /\ Sofar
  BY <1>1, SpotProp
<1>3. dev.lstrval = 1
  BY <1>1, <1>2 DEF AppendOn, Idle
<1> DEFINE j == Q - BLKMULT + 1
           m == Len(found) + 1
<1>4. Units[j] = Unit("H", h[1].m, 1) /\ j \in 1 .. sc.len
  BY <1>1, <1>2, HeadPlace
<1>5. Len(found) # N
  <2> SUFFICES ASSUME Len(found) = N PROVE FALSE
    OBVIOUS
  <2>1. k.cnt * BLKMULT \in Nat
    BY <1>2, Times
  <2> DEFINE x == k.cnt * BLKMULT
  <2>2. x \in Nat /\ Q - BLKMULT = Trail - 1 + x /\ Trail \in Nat
    BY <1>2, <2>1
  <2> HIDE DEF x
  <2>3. j >= Trail
    BY <1>2, <2>2
  <2> HIDE DEF j
  <2>4. Units[j].t # "H"
    BY <1>4, <2>3, WhatUnitsTell DEF TInv
  <2> QED
    BY <1>4, <2>4 DEF Unit
<1>6. m \in 1 .. N /\ m \in 1 .. N + 1 /\ k.cnt = 0
  <2>1. Len(found) \in Nat /\ N \in Nat /\ Len(found) <= N /\ Len(found) # N /\ k.cnt \in Nat
        /\ ~ k.cnt > 0
    BY <1>2, <1>5
  <2>2. m \in 1 .. N /\ m \in 1 .. N + 1
    BY <2>1
  <2>3. k.cnt = 0
    BY <2>1
  <2> QED
    BY <2>2, <2>3
<1>7. j = Place(m)
  <2>1. k.cnt * BLKMULT = 0
    BY <1>2, <1>6, Times
  <2> QED
    BY <1>2, <2>1 DEF Spot
<1>8. h[1].m = m
  <2> HIDE DEF j, m
  <2> QED
    BY <1>4, <1>6, <1>7, WhatUnitsTell DEF TInv
<1>9. /\ Len(found') = Len(found) + 1
      /\ \A i \in 1 .. Len(found) : found'[i] = found[i]
      /\ found'[Len(found) + 1] = h[1].m
  BY HeadedProp
<1>10. Sofar'
  <2> SUFFICES ASSUME NEW i \in 1 .. Len(found') PROVE found'[i] = i
    BY DEF Sofar
  <2>1. i \in 1 .. Len(found) \/ i = Len(found) + 1
    BY <1>2, <1>9
  <2> QED
    BY <1>2, <1>8, <1>9, <2>1 DEF Sofar
<1>11. N' = N /\ Len(found') <= N'
  BY <1>1, <1>2, <1>6, <1>9, SameScene
<1>12. Q' = Q
  BY StillC
<1>13. (Q = Place(Len(found)) - 1 + BLKMULT)'
  <2> HIDE DEF j
  <2>1. Place(Len(found))' = Place(m)
    BY <1>1, <1>9 DEF Place
  <2>2. Place(m) \in Nat
    BY <1>6, PlaceProp DEF TInv
  <2> HIDE DEF m
  <2>3. Q = Place(m) - 1 + BLKMULT
    BY <1>2, <1>7, <2>2 DEF j
  <2> QED
    BY <1>12, <2>1, <2>3
<1> QED
  BY <1>1, <1>2, <1>3, <1>10, <1>11, <1>13 DEF AppendOn

(* A record of zeros is one of the trailer. *)
LEMMA ZerosProp ==
  ASSUME TInv, CInv, AppendOn, k.pc = "test", AllZero
  PROVE  Len(found) = N /\ Spot = Trail
<1>2. /\ Len(h) = BLKMULT /\ BLKMULT \in Nat \ {0} /\ Q \in Int /\ Spot \in Nat \ {0}
      /\ Q - BLKMULT = Spot - 1 + k.cnt * BLKMULT /\ k.cnt \in Nat
      /\ Q - BLKMULT + 1 \in 1 .. sc.len /\ h[1] = Units[Q - BLKMULT + 1]
      /\ Len(found) \in Nat /\ N \in Nat /\ Len(found) <= N
      /\ k.cnt > 0 => Len(found) = N
      /\ Len(found) = N => Spot = Trail
  BY SpotProp
<1> DEFINE j == Q - BLKMULT + 1
           m == Len(found) + 1
<1>3. h[1] = Zero
  <2>1. h \in Seq(Cells) /\ 1 \in 1 .. Len(h)
    BY <1>2 DEF TInv, HeadOK
  <2>2. 1 \in DOMAIN h
    BY <2>1
  <2> QED
    BY <2>2 DEF AllZero
<1>4. Len(found) = N
  <2> SUFFICES ASSUME Len(found) # N PROVE FALSE
    OBVIOUS
  <2>0. Len(found) \in Nat /\ N \in Nat /\ Len(found) <= N /\ Len(found) # N /\ k.cnt \in Nat
        /\ ~ k.cnt > 0
    BY <1>2
  <2>1. m \in 1 .. N /\ k.cnt = 0
    BY <2>0
  <2>2. k.cnt * BLKMULT = 0
    BY <1>2, <2>1, Times
  <2>3. j = Place(m)
    <3>1. Q - BLKMULT = Spot - 1 /\ Q \in Int /\ BLKMULT \in Nat /\ Spot \in Nat
      BY <1>2, <2>2
    <3>2. j = Spot
      BY <3>1
    <3> QED
      BY <3>2 DEF Spot
  <2>4. Units[j] = Zero /\ j \in 1 .. sc.len
    BY <1>2, <1>3
  <2> HIDE DEF j, m
  <2> QED
    BY <2>1, <2>3, <2>4, WhatUnitsTell DEF TInv
<1> QED
  BY <1>2, <1>4

LEMMA TrailerA ==
  ASSUME TInv, CInv, AppendOn, Going, Trailer
  PROVE  AppendOn'
<1>1. sc' = sc /\ found' = found /\ b' = b /\ k.pc = "test" /\ AllZero /\ IsTrail(k)
      /\ k'.pc = "end" /\ k'.resync = k.resync /\ k'.fini = k.fini
      /\ (sc.artyp # "PIPE" => dev' = dev)
  BY DEF Trailer, Stop, TInv, LocOK, LocType
<1>2. /\ BLKMULT \in Nat \ {0} /\ Q \in Int /\ Spot \in Nat \ {0}
      /\ Q - BLKMULT = Spot - 1 + k.cnt * BLKMULT
      /\ Len(found) <= N /\ ~ k.resync /\ ~ k.fini /\ Sofar
  BY <1>1, SpotProp
<1>3. Spot = Trail
  BY <1>1, ZerosProp
<1>4. k.cnt + 1 = NULLCNT /\ NULLCNT \in Nat /\ k.cnt \in Nat
  BY <1>1, Facts DEF IsTrail
<1>5. Q - TLen + 1 = Trail
  <2>1. TLen = NULLCNT * BLKMULT
    BY Constants
  <2>2. (k.cnt + 1) * BLKMULT = k.cnt * BLKMULT + BLKMULT /\ k.cnt * BLKMULT \in Nat
    BY <1>2, <1>4
  <2> DEFINE x == k.cnt * BLKMULT
  <2>3. TLen = x + BLKMULT /\ x \in Nat /\ Q - BLKMULT = Trail - 1 + x /\ Trail \in Nat
    BY <1>2, <1>3, <1>4, <2>1, <2>2
  <2> HIDE DEF x
  <2> QED
    BY <1>2, <2>3
<1>6. sc.artyp # "PIPE" => (Q - TLen + 1 = Trail)'
  <2> SUFFICES ASSUME sc.artyp # "PIPE" PROVE (Q - TLen + 1 = Trail)'
    OBVIOUS
  <2>1. dev' = dev
    BY <1>1
  <2>2. Here' = Here
    BY <1>1, <2>1, SameHere
  <2>3. Q' = Q
    BY <1>1, <2>2 DEF Q
  <2>4. Trail' = Trail
    BY <1>1, SameScene
  <2> QED
    BY <1>5, <2>3, <2>4 DEF TLen
<1>7. Sofar' /\ Len(found') <= N'
  BY <1>1, <1>2, SameSofar
<1> QED
  BY <1>1, <1>2, <1>6, <1>7 DEF AppendOn, Idle

LEMMA ZeroRecordA ==
  ASSUME TInv, CInv, AppendOn, Going, ZeroRecord
  PROVE  AppendOn'
<1>1. sc' = sc /\ found' = found /\ dev' = dev /\ k.pc = "test" /\ AllZero /\ h' = <<>>
      /\ k' = [k EXCEPT !.pc = "head", !.want = BLKMULT, !.got = 0,
                        !.cnt = IF k.resync THEN k.cnt ELSE k.cnt + 1]
  BY DEF ZeroRecord
<1>2. /\ BLKMULT \in Nat \ {0} /\ Q \in Int /\ Spot \in Nat \ {0}
      /\ Q - BLKMULT = Spot - 1 + k.cnt * BLKMULT /\ k.cnt \in Nat
      /\ Len(found) <= N /\ ~ k.resync /\ ~ k.fini /\ Sofar
  BY <1>1, SpotProp
<1>3. dev.lstrval = 1
  BY <1>1, <1>2 DEF AppendOn, Idle
<1>4. k'.pc = "head" /\ k'.resync = k.resync /\ k'.fini = k.fini /\ k'.cnt = k.cnt + 1
  BY <1>1, <1>2 DEF TInv, LocOK, LocType
<1>5. Len(found) = N
  BY <1>1, ZerosProp
<1>6. Q' = Q
  BY ZeroRecordC
<1>7. Sofar' /\ Len(found') <= N' /\ N' = N /\ Spot' = Spot
  BY <1>1, <1>2, SameSofar
<1>8. Q = Spot - 1 + (k.cnt + 1) * BLKMULT
  <2>1. (k.cnt + 1) * BLKMULT = k.cnt * BLKMULT + BLKMULT /\ k.cnt * BLKMULT \in Nat
    BY <1>2
  <2> DEFINE x == k.cnt * BLKMULT
  <2>2. (k.cnt + 1) * BLKMULT = x + BLKMULT /\ x \in Nat /\ Q - BLKMULT = Spot - 1 + x
    BY <1>2, <2>1
  <2> HIDE DEF x
  <2>3. Q = Spot - 1 + (x + BLKMULT)
    BY <1>2, <2>2
  <2> QED
    BY <2>2, <2>3
<1>9. Q' - Len(h') = Spot' - 1 + k'.cnt * BLKMULT
  <2>1. Len(h') = 0
    BY <1>1
  <2>2. Q' - Len(h') = Q
    BY <1>2, <1>6, <2>1
  <2>3. Spot' - 1 + k'.cnt * BLKMULT = Spot - 1 + (k.cnt + 1) * BLKMULT
    BY <1>4, <1>7
  <2> QED
    BY <1>8, <2>2, <2>3
<1> QED
  BY <1>1, <1>2, <1>3, <1>4, <1>5, <1>7, <1>9 DEF AppendOn

LEMMA MemberA ==
  ASSUME TInv, CInv, AppendOn, Going, Member
  PROVE  AppendOn'
<1> DEFINE L == Last(found)
<1>1. /\ sc' = sc /\ found' = found /\ dev' = dev /\ k.pc = "member" /\ found # <<>>
      /\ k' = [k EXCEPT !.pc = "skipto", !.need = Fits(L).skip + Fits(L).pad]
  BY MemberCases DEF Going
<1>2. k'.pc = "skipto" /\ k'.resync = k.resync /\ k'.fini = k.fini
      /\ k'.need = Fits(L).skip + Fits(L).pad
  BY <1>1 DEF TInv, LocOK, LocType
<1>3. L \in 1 .. N /\ L = found[Len(found)] /\ Len(found) \in Nat \ {0}
      /\ Fits(L).skip \in Nat /\ Fits(L).pad \in Nat /\ BLKMULT \in Nat /\ N \in Nat
  BY <1>1, LastProp, Facts
<1>4. ~ k.resync /\ ~ k.fini /\ Sofar /\ Len(found) <= N /\ dev.lstrval = 1
      /\ Q = Place(Len(found)) - 1 + BLKMULT
  BY <1>1 DEF AppendOn, Lost, Idle
<1>5. L = Len(found)
  BY <1>3, <1>4 DEF Sofar
<1>6. Sofar' /\ Len(found') <= N' /\ N' = N /\ Spot' = Spot
  BY <1>1, <1>4, SameSofar
<1>7. Q' = Q
  BY StillC
<1>8. Spot = Place(L) + BLKMULT + Fits(L).skip + Fits(L).pad /\ Place(L) \in Nat
  <2>1. L \in 1 .. N + 1
    BY <1>3
  <2> HIDE DEF L
  <2> QED
    BY <1>3, <1>5, <2>1, MemberUnits, PlaceProp DEF Spot, TInv
<1>9. Q + (Fits(L).skip + Fits(L).pad) = Spot - 1
  <2> DEFINE p == Place(L)
             s == Fits(L).skip
             d == Fits(L).pad
  <2>1. p \in Nat /\ s \in Nat /\ d \in Nat /\ Q = p - 1 + BLKMULT /\ Spot = p + BLKMULT + s + d
    BY <1>3, <1>4, <1>5, <1>8
  <2> HIDE DEF p, s, d
  <2>2. Q + (s + d) = Spot - 1
    BY <1>3, <2>1
  <2> QED
    BY <2>2 DEF s, d
<1>10. Q' + k'.need = Spot' - 1
  BY <1>2, <1>6, <1>7, <1>9
<1> QED
  BY <1>1, <1>2, <1>4, <1>6, <1>10 DEF AppendOn

LEMMA SkipsA ==
  ASSUME TInv, CInv, AppendOn, Going, Skip \/ SkipStart
  PROVE  AppendOn'
<1>1. sc' = sc /\ found' = found /\ k.pc \in {"skip", "skipto"} /\ dev'.lstrval = dev.lstrval
      /\ k \in LocType
  <2>1. CASE Skip
    BY <2>1 DEF Skip, TInv, LocOK
  <2>2. CASE SkipStart
    BY <2>2 DEF SkipStart, TInv, LocOK, DevOK, DevType
  <2> QED
    BY <2>1, <2>2
<1>2. ~ k.resync /\ ~ k.fini /\ Sofar /\ Len(found) <= N /\ dev.lstrval = 1
      /\ Q + k.need = Spot - 1
  BY <1>1 DEF AppendOn, Lost, Idle
<1>3. \E n \in Nat : /\ n <= k.need /\ Q' = Q + n
                     /\ \/ n = k.need /\ NextHead
                        \/ k'.pc \in {"skip", "skipto"} /\ k'.need = k.need - n
                           /\ k'.resync = k.resync /\ k'.fini = k.fini
  <2>1. CASE Skip
    <3>1. PICK n \in Nat : /\ n <= k.need /\ Q' = Q + n
                           /\ (n = k.need /\ NextHead) \/ k' = [k EXCEPT !.need = k.need - n]
      BY <2>1, SkipC
    <3> QED
      BY <1>1, <3>1 DEF LocType
  <2>2. CASE SkipStart
    <3>1. PICK n \in Nat : /\ n <= k.need /\ Q' = Q + n
                           /\ \/ n = k.need /\ NextHead
                              \/ dev.lstrval < 0 /\ NextHead
                              \/ k' = [k EXCEPT !.pc = "skip", !.need = k.need - n]
      BY <2>2, SkipStartC
    <3>2. ~ dev.lstrval < 0
      BY <1>2
    <3>3. (n = k.need /\ NextHead) \/ k' = [k EXCEPT !.pc = "skip", !.need = k.need - n]
      BY <3>1, <3>2
    <3> QED
      BY <1>1, <3>1, <3>3 DEF LocType
  <2> QED
    BY <2>1, <2>2
<1>4. PICK n \in Nat : /\ n <= k.need /\ Q' = Q + n
                       /\ \/ n = k.need /\ NextHead
                          \/ k'.pc \in {"skip", "skipto"} /\ k'.need = k.need - n
                             /\ k'.resync = k.resync /\ k'.fini = k.fini
  BY <1>3
<1>5. Sofar' /\ Len(found') <= N' /\ N' = N /\ Spot' = Spot
  BY <1>1, <1>2, SameSofar
<1>6. Q \in Int /\ k.need \in Nat /\ BLKMULT \in Nat /\ Spot \in Nat
  <2>1. Len(found) + 1 \in 1 .. N + 1
    BY <1>2, Facts
  <2> QED
    BY <2>1, HereProp, Facts, PlaceProp DEF Spot, TInv
<1>7. CASE n = k.need /\ NextHead
  <2>1. k' = Fresh(k) /\ h' = <<>>
    BY <1>7 DEF NextHead
  <2>2. k'.pc = "head" /\ ~ k'.resync /\ k'.cnt = 0 /\ k'.fini = k.fini
    BY <1>1, <2>1, FreshProp
  <2>3. k'.cnt * BLKMULT = 0 /\ Len(h') = 0
    BY <1>6, <2>1, <2>2
  <2>4. Q' = Spot - 1 /\ Spot \in Int
    BY <1>2, <1>4, <1>6, <1>7
  <2>5. Q' - Len(h') = Spot' - 1 + k'.cnt * BLKMULT
    BY <1>5, <2>3, <2>4
  <2> QED
    BY <1>1, <1>2, <1>5, <2>2, <2>5 DEF AppendOn
<1>8. CASE k'.pc \in {"skip", "skipto"} /\ k'.need = k.need - n
           /\ k'.resync = k.resync /\ k'.fini = k.fini
  <2>1. (Q + n) + (k.need - n) = Q + k.need
    BY <1>6
  <2>2. Q' + k'.need = Spot' - 1
    BY <1>2, <1>4, <1>5, <1>8, <2>1
  <2> QED
    BY <1>1, <1>2, <1>5, <1>8, <2>2 DEF AppendOn
<1> QED
  BY <1>4, <1>7, <1>8

LEMMA StopsA ==
  ASSUME TInv, CInv, AppendOn, Going, IdSearch
  PROVE  AppendOn'
<1>1. sc' = sc /\ found' = found /\ k'.pc = "done" /\ k'.resync = k.resync
  BY DEF IdSearch, Goto, Going, TInv, LocOK, LocType
<1>2. ~ k.resync /\ Sofar /\ Len(found) <= N
  BY DEF AppendOn
<1>3. Sofar' /\ Len(found') <= N'
  BY <1>1, <1>2, SameSofar
<1> QED
  BY <1>1, <1>2, <1>3 DEF AppendOn, Idle, Lost

LEMMA EndA ==
  ASSUME TInv, CInv, AppendOn, Going, End
  PROVE  AppendOn'
<1>1. sc' = sc /\ found' = found /\ k.pc = "end" /\ CanGoBack /\ k'.pc = "append"
      /\ k'.resync = k.resync /\ k'.fini = k.fini
  BY DEF End, Fails, Goto, Going, TInv, LocOK, LocType
<1>2. ~ k.resync /\ Sofar /\ Len(found) <= N /\ ~ k.fini
  BY <1>1 DEF AppendOn, CanGoBack
<1>3. Sofar' /\ Len(found') <= N'
  BY <1>1, <1>2, SameSofar
<1> QED
  BY <1>1, <1>2, <1>3 DEF AppendOn, Idle

LEMMA ExitStays ==
  ASSUME TInv, CInv, Next
  PROVE  sc' = sc /\ (exit' = exit \/ exit' = 1)
<1>1. CASE Open \/ Short \/ End \/ SyncRefused \/ Headed \/ Trailer \/ ZeroRecord \/ Search
           \/ IdSearch \/ IdFound
  BY <1>1 DEF Open, Short, End, SyncRefused, Unsynced, Headed, Trailer, ZeroRecord, Search,
              IdSearch, IdFound, Fails
<1>2. CASE Member \/ Take \/ Copy \/ CopyFails \/ Skip \/ SkipStart
  BY <1>2 DEF Member, Take, Copy, CopyFails, Skip, SkipStart
<1>3. CASE FillData \/ FillNext \/ FillError \/ FillEnd
  BY <1>3 DEF FillData, FillNext, FillError, FillEnd
<1>4. CASE Sync \/ RereadFails \/ Reread
  <2>1. CASE Sync
    BY <2>1 DEF Sync, Poke, Unsynced
  <2>2. CASE RereadFails
    BY <2>2 DEF RereadFails, Poke, Unsynced
  <2>3. CASE Reread
    BY <2>3 DEF Reread
  <2> QED
    BY <1>4, <2>1, <2>2, <2>3
<1> QED
  BY <1>1, <1>2, <1>3, <1>4 DEF Next

(* Only the end of the loop leads to the writing of the files. *)
LEMMA OnlyEnd ==
  ASSUME TInv, CInv, Next, k'.pc = "append"
  PROVE  End
<1>0. k \in LocType
  BY DEF TInv, LocOK
<1>1. CASE Open \/ Short \/ SyncRefused \/ Headed \/ Trailer \/ ZeroRecord \/ Search \/ IdSearch
  BY <1>0, <1>1 DEF Open, Short, SyncRefused, Unsynced, Headed, Trailer, ZeroRecord, Search,
                    IdSearch, Fails, Goto, Stop, LocType
<1>2. CASE IdFound
  BY <1>0, <1>2 DEF IdFound, Fresh, LocType
<1>3. CASE Member
  <2>1. \E p \in {"skipto", "copy"} : \E n : k' = [k EXCEPT !.pc = p, !.need = n]
    BY <1>3, MemberCases
  <2> QED
    BY <1>0, <2>1 DEF LocType
<1>4. CASE Take
  BY <1>4, TakeProp
<1>5. CASE Copy
  <2>1. \E n : k' = [k EXCEPT !.need = n] \/ k' = [k EXCEPT !.pc = "skipto", !.need = n]
    BY <1>5, CopyProp
  <2> QED
    BY <1>0, <1>5, <2>1 DEF LocType, Copy
<1>6. CASE CopyFails
  BY <1>0, <1>6 DEF CopyFails, SkipOver, LocType
<1>7. CASE Skip
  <2>1. NextHead \/ \E n : k' = [k EXCEPT !.need = n]
    BY <1>7, SkipProp
  <2> QED
    BY <1>0, <1>7, <2>1 DEF Skip, NextHead, Fresh, LocType
<1>8. CASE SkipStart
  BY <1>0, <1>8 DEF SkipStart, NextHead, Fresh, LocType
<1>9. CASE FillData \/ FillNext
  BY <1>9, FillingProp DEF FillData, FillNext
<1>10. CASE FillError \/ FillEnd
  BY <1>10, CameProp
<1>11. CASE Sync \/ RereadFails
  BY <1>11, PokeC
<1>12. CASE Reread
  BY <1>12, RereadProp
<1> QED
  BY <1>1, <1>2, <1>3, <1>4, <1>5, <1>6, <1>7, <1>8, <1>9, <1>10, <1>11, <1>12 DEF Next

LEMMA AppendStep ==
  ASSUME TInv, CInv, AInv, [Next]_vars
  PROVE  AInv'
<1>1. CASE Next
  <2>1. sc.act = "append" /\ exit = 0 => AppendOn
    BY DEF AInv
  <2>2. ASSUME sc'.act = "append", exit' = 0 PROVE AppendOn'
    <3>1. Going /\ AppendOn
      BY <1>1, <2>1, <2>2, ExitStays DEF Going
    <3>2. CASE Open \/ FillData \/ FillNext \/ FillEnd \/ Take \/ IdFound \/ IdSearch
      BY <3>1, <3>2, OpenA, FillA, FillEndA, TakeA, IdFoundA, StopsA
    <3>3. CASE Headed \/ Trailer \/ ZeroRecord \/ Member \/ Skip \/ SkipStart \/ End
      BY <3>1, <3>3, HeadedA, TrailerA, ZeroRecordA, MemberA, SkipsA, EndA
    <3>4. CASE FillError \/ Short \/ SyncRefused \/ Search
      BY <2>2, <3>4 DEF FillError, Short, SyncRefused, Unsynced, Search
    <3>5. CASE Sync \/ Reread \/ RereadFails \/ Copy \/ CopyFails
      BY <3>1, <3>5 DEF Sync, Reread, RereadFails, Copy, CopyFails, AppendOn, Going
    <3> QED
      BY <1>1, <3>2, <3>3, <3>4, <3>5 DEF Next
  <2>3. AppendsAtTrailer'
    <3> SUFFICES ASSUME k'.pc = "append" PROVE (Here - Len(b) - TLen + 1 = Trail)'
      BY DEF AppendsAtTrailer
    <3>1. End
      BY <1>1, OnlyEnd
    <3>2. sc' = sc /\ b' = b /\ dev' = dev /\ k.pc = "end"
      BY <3>1 DEF End
    <3>3. CanGoBack /\ sc.act = "append"
      BY <3>1 DEF End, Goto, Fails, TInv, LocOK, LocType
    <3>4. Q - TLen + 1 = Trail
      BY <2>1, <3>2, <3>3 DEF AppendOn, CanGoBack
    <3>5. Here' = Here /\ Trail' = Trail
      BY <3>2, SameHere, SameScene
    <3> QED
      BY <3>2, <3>4, <3>5 DEF Q, TLen
  <2> QED
    BY <2>2, <2>3 DEF AInv
<1>2. CASE UNCHANGED vars
  <2>1. Spot' = Spot /\ Place(Len(found))' = Place(Len(found))
    BY <1>2, Same DEF Spot, Place
  <2>2. AppendOn => AppendOn'
    BY <1>2, <2>1, Same DEF AppendOn, Sofar, TLen
  <2>3. AppendsAtTrailer'
    BY <1>2, Same DEF AInv, AppendsAtTrailer, TLen
  <2> QED
    BY <1>2, <2>2, <2>3, Same DEF AInv
<1> QED
  BY <1>1, <1>2

LEMMA InitA ==
  ASSUME Init
  PROVE  AInv
<1>1. /\ dev.lstrval = 1 /\ h = <<>> /\ found = <<>> /\ k.pc = "open" /\ ~ k.resync /\ ~ k.fini
      /\ k.cnt = 0
  BY DEF Init
<1>2. Q = 0 /\ Len(h) = 0 /\ Len(found) = 0 /\ N \in Nat
  <2>1. TInv
    BY InitT
  <2> QED
    BY <1>1, <2>1, InitC, Facts
<1>3. Sofar
  BY <1>2 DEF Sofar
<1>4. AppendOn
  BY <1>1, <1>2, <1>3 DEF AppendOn, Idle
<1> QED
  BY <1>1, <1>4 DEF AInv, AppendsAtTrailer

(* append() goes on only where going back by the length of the trailer leads to
   the trailer, whatever the archive, its data, its flaws and its volumes, and
   however it is read.                                                       *)
THEOREM AppendsRight == Spec => []AppendsAtTrailer
<1> DEFINE I == TInv /\ CInv /\ AInv
<1>1. Init => I
  BY InitT, InitC, InitA
<1>2. I /\ [Next]_vars => I'
  BY TypedStep, ContentStep, AppendStep
<1>3. I => AppendsAtTrailer
  BY DEF AInv
<1> QED
  BY <1>1, <1>2, <1>3, PTL DEF Spec

(* Whatever the archive, pax is where it takes itself to be, both when an
   append goes on behind the old members and when data goes into a file.     *)
THEOREM InPlaceRight == Spec => []InPlace
<1>1. AppendsAtTrailer /\ FilesBegin => InPlace
  BY DEF InPlace
<1> QED
  BY <1>1, AppendsRight, FilesBeginRight, PTL
=============================================================================
