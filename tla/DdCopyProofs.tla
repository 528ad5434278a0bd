---------------------------- MODULE DdCopyProofs ----------------------------
(***************************************************************************)
(* The buffers of dd(1) never overflow: BuffersFit holds of DdCopy for     *)
(* every choice of operands, inputs and old files.                         *)
(***************************************************************************)
EXTENDS DdCopy, SequenceTheorems, WellFoundedInduction, TLAPS

-----------------------------------------------------------------------------
(* What the operators on sequences of bytes return. *)

LEMMA TakeProp ==
  ASSUME NEW S, NEW s \in Seq(S), NEW k \in Nat
  PROVE  /\ Take(s, k) \in Seq(S)
         /\ Len(Take(s, k)) = Lesser(k, Len(s))
         /\ \A i \in 1 .. Lesser(k, Len(s)) : Take(s, k)[i] = s[i]
<1>1. \A i \in 1 .. Lesser(k, Len(s)) : s[i] \in S
  BY DEF Lesser
<1>2. Lesser(k, Len(s)) \in Nat
  BY DEF Lesser
<1> QED BY <1>1, <1>2, SubSeqProperties DEF Take

LEMMA DropProp ==
  ASSUME NEW S, NEW s \in Seq(S), NEW k \in Nat
  PROVE  /\ Drop(s, k) \in Seq(S)
         /\ Len(Drop(s, k)) = IF k <= Len(s) THEN Len(s) - k ELSE 0
<1>1. \A i \in k + 1 .. Len(s) : s[i] \in S
  OBVIOUS
<1> QED BY <1>1, SubSeqProperties DEF Drop

LEMMA RepProp ==
  ASSUME NEW S, NEW b \in S, NEW k \in Nat
  PROVE  Rep(b, k) \in Seq(S) /\ Len(Rep(b, k)) = k
BY DEF Rep

LEMMA JoinProp ==
  ASSUME NEW S, NEW s \in Seq(S), NEW t \in Seq(S)
  PROVE  s \o t \in Seq(S) /\ Len(s \o t) = Len(s) + Len(t)
BY ConcatProperties

LEMMA PadToProp ==
  ASSUME NEW S, NEW s \in Seq(S), NEW b \in S, NEW k \in Nat
  PROVE  /\ PadTo(s, k, b) \in Seq(S)
         /\ Len(PadTo(s, k, b)) = Greater(k, Len(s))
<1> DEFINE m == IF k > Len(s) THEN k - Len(s) ELSE 0
<1>1. m \in Nat
  OBVIOUS
<1>2. Rep(b, m) \in Seq(S) /\ Len(Rep(b, m)) = m
  BY <1>1, RepProp
<1>3. PadTo(s, k, b) = s \o Rep(b, m)
  BY DEF PadTo
<1> HIDE DEF m
<1>4. s \o Rep(b, m) \in Seq(S) /\ Len(s \o Rep(b, m)) = Len(s) + m
  BY <1>2, <1>1, ConcatProperties
<1> QED BY <1>3, <1>4 DEF m, Greater

LEMMA TranslateProp ==
  ASSUME NEW s \in Seq(Byte), NEW t \in [Byte -> Byte]
  PROVE  Translate(s, t) \in Seq(Byte) /\ Len(Translate(s, t)) = Len(s)
BY DEF Translate

(* A non-empty set of naturals has a least element, and one of naturals
   below a bound a greatest one.                                            *)
LEMMA LeastExists ==
  ASSUME NEW T \in SUBSET Nat, T # {}
  PROVE  \E i \in T : \A j \in T : i <= j
<1>1. PICK i \in T : \A j \in T : ~ (<<j, i>> \in OpToRel(<, Nat))
  BY NatLessThanWellFounded, WFMin
<1>2. \A j \in T : ~ (j < i)
  BY <1>1 DEF OpToRel
<1> QED BY <1>2

LEMMA GreatestExists ==
  ASSUME NEW T \in SUBSET Nat, NEW m \in Nat, T # {}, \A j \in T : j <= m
  PROVE  \E i \in T : \A j \in T : j <= i
<1> DEFINE D == {m - j : j \in T}
<1>1. D \subseteq Nat /\ D # {}
  <2>1. \A j \in T : m - j \in Nat
    OBVIOUS
  <2>2. PICK j \in T : TRUE
    OBVIOUS
  <2>3. m - j \in D
    OBVIOUS
  <2> QED BY <2>1, <2>3
<1>2. PICK d \in D : \A e \in D : d <= e
  BY <1>1, LeastExists
<1>3. PICK i \in T : d = m - i
  BY <1>2
<1>4. \A j \in T : m - i <= m - j
  BY <1>2, <1>3
<1> QED BY <1>4

LEMMA AfterNewlineProp ==
  ASSUME NEW s \in Seq(Byte)
  PROVE  /\ AfterNewline(s) \in Seq(Byte)
         /\ Len(AfterNewline(s)) <= Len(s)
         /\ HasNewline(s) => Len(AfterNewline(s)) < Len(s)
         /\ \A i \in 1 .. Len(s) : s[i] = NL => Len(AfterNewline(s)) >= Len(s) - i
<1> DEFINE nls == {i \in 1 .. Len(s) : s[i] = NL}
           k == CHOOSE i \in nls : \A j \in nls : i <= j
<1>1. CASE nls = {}
  BY <1>1 DEF AfterNewline, HasNewline
<1>2. CASE nls # {}
  <2> HIDE DEF nls
  <2>0. nls \in SUBSET Nat
    BY DEF nls
  <2>1. \E i \in nls : \A j \in nls : i <= j
    BY <2>0, <1>2, LeastExists
  <2>2. k \in nls
    BY <2>1
  <2>3. AfterNewline(s) = Drop(s, k)
    BY <1>2 DEF AfterNewline, nls
  <2> HIDE DEF k
  <2>4. k \in Nat /\ 1 <= k /\ k <= Len(s) /\ Len(s) \in Nat
    BY <2>2 DEF nls
  <2>5. Drop(s, k) \in Seq(Byte) /\ Len(Drop(s, k)) = Len(s) - k
    BY <2>4, DropProp
  <2>6. \A i \in 1 .. Len(s) : s[i] = NL => k <= i
    BY <2>1 DEF nls, k
  <2> QED BY <2>3, <2>4, <2>5, <2>6
<1> QED BY <1>1, <1>2

LEMMA StripBlanksProp ==
  ASSUME NEW s \in Seq(Byte)
  PROVE  StripBlanks(s) \in Seq(Byte) /\ Len(StripBlanks(s)) <= Len(s)
<1> DEFINE T == {i \in 1 .. Len(s) : s[i] # SP}
           P(k) == /\ \A i \in k + 1 .. Len(s) : s[i] = SP
                   /\ k > 0 => s[k] # SP
           c == CHOOSE k \in 0 .. Len(s) : P(k)
<1>1. \E k \in 0 .. Len(s) : P(k)
  <2>1. CASE T = {}
    <3>1. P(0)
      BY <2>1
    <3> QED BY <3>1
  <2>2. CASE T # {}
    <3> HIDE DEF T
    <3>0. T \in SUBSET Nat /\ Len(s) \in Nat /\ \A j \in T : j <= Len(s)
      BY DEF T
    <3>1. PICK k \in T : \A j \in T : j <= k
      BY <2>2, <3>0, GreatestExists
    <3>2. P(k) /\ k \in 0 .. Len(s)
      BY <3>1 DEF T
    <3> QED BY <3>2
  <2> QED BY <2>1, <2>2
<1>2. c \in 0 .. Len(s)
  BY <1>1
<1>3. StripBlanks(s) = Take(s, c)
  BY DEF StripBlanks
<1> HIDE DEF c
<1> QED BY <1>2, <1>3, TakeProp DEF Lesser
LEMMA SwapPairsProp ==
  ASSUME NEW s \in Seq(Byte)
  PROVE  SwapPairs(s) \in Seq(Byte) /\ Len(SwapPairs(s)) = Len(s)
<1>1. \A i \in 1 .. Len(s) :
        (IF i = Len(s) /\ i % 2 = 1 THEN s[i]
         ELSE IF i % 2 = 1 THEN s[i + 1] ELSE s[i - 1]) \in Byte
  <2> TAKE i \in 1 .. Len(s)
  <2>1. i % 2 = 1 \/ i # 1
    OBVIOUS
  <2>2. i % 2 # 1 => i - 1 \in 1 .. Len(s)
    BY <2>1
  <2>3. i # Len(s) => i + 1 \in 1 .. Len(s)
    OBVIOUS
  <2> QED BY <2>2, <2>3, ElementOfSeq
<1> QED BY <1>1 DEF SwapPairs

LEMMA WriteAtProp ==
  ASSUME NEW S, NUL \in S, NEW f \in Seq(S), NEW p \in Nat, NEW d \in Seq(S)
  PROVE  WriteAt(f, p, d) \in Seq(S)
<1> DEFINE m == Greater(Len(f), p + Len(d))
<1>1. m \in Nat
  BY DEF Greater
<1>2. \A i \in 1 .. m :
        (IF i \in p + 1 .. p + Len(d) THEN d[i - p]
         ELSE IF i <= Len(f) THEN f[i] ELSE NUL) \in S
  <2> TAKE i \in 1 .. m
  <2>1. i \in p + 1 .. p + Len(d) => i - p \in 1 .. Len(d)
    BY <1>1
  <2>2. i <= Len(f) => i \in 1 .. Len(f)
    BY <1>1
  <2> QED BY <2>1, <2>2, ElementOfSeq
<1> QED BY <1>1, <1>2 DEF WriteAt

LEMMA FtruncateProp ==
  ASSUME NEW S, NUL \in S, NEW f \in Seq(S), NEW k \in Nat
  PROVE  Ftruncate(f, k) \in Seq(S)
<1>1. \A i \in 1 .. k : (IF i <= Len(f) THEN f[i] ELSE NUL) \in S
  OBVIOUS
<1> QED BY <1>1 DEF Ftruncate

-----------------------------------------------------------------------------
(* The inductive invariant.  BuffersFit alone is not inductive: that a block
   fits behind the held-back input needs HeldBack, HeldBack after dd_out
   needs to know where dd_out returns to, and the types of the buffer that
   def shares need the output buffer to be free of stale bytes.              *)
Place ==
  /\ pc = "read" => Len(rd) < opt.ibs
  /\ pc = "rec" => Cfunc # "def"
  /\ pc = "out" => /\ ret = "in" => Cfunc = "def"
                   /\ ret = "rec" => Cfunc # "def"
                   /\ cnt = 0 => ret = "fini"
  /\ Cfunc = "def" => past = 0 /\ obuf \in Seq(Byte)

IInv == TypeOK /\ Place /\ HeldBack /\ BuffersFit

(* What a run's operands are, and that no step changes them. *)
LEMMA OptFacts ==
  ASSUME TypeOK
  PROVE  /\ opt.ibs \in Nat /\ opt.ibs > 0 /\ opt.obs \in Nat /\ opt.obs > 0
         /\ opt.cbs \in Nat /\ (Cfunc # "def" => opt.cbs > 0)
         /\ opt.ctab \in [Byte -> Byte] /\ opt.cseek \in Nat
         /\ Cfunc \in {"def", "block", "unblock"}
         /\ {PadByte, Blank, NL, NUL} \subseteq Byte
         /\ BsPath => Cfunc = "def"
<1>1. opt \in Options /\ opt \in OptionType
  BY OptionAssumption DEF TypeOK
<1>2. {"BLOCK", "UNBLOCK"} \cap opt.flags # {} => opt.cbs > 0
  BY <1>1, OptionAssumption
<1>3. PadByte \in Byte /\ Blank \in Byte /\ NL \in Byte /\ NUL \in Byte
  BY <1>1, ByteAssumption DEF PadByte, Blank, OptionType
<1>4. Cfunc \in {"def", "block", "unblock"}
  BY DEF Cfunc
<1>5. Cfunc # "def" => opt.cbs > 0
  BY <1>2 DEF Cfunc, Has
<1>6. BsPath => Cfunc = "def"
  BY DEF BsPath, Cfunc, Has
<1> QED BY <1>1, <1>3, <1>4, <1>5, <1>6 DEF OptionType

LEMMA RoomFacts ==
  ASSUME TypeOK
  PROVE  /\ Cfunc = "def" => /\ InRoom = opt.obs + opt.ibs - 1
                             /\ OutRoom = opt.obs + opt.ibs - 1
         /\ Cfunc # "def" => /\ InRoom >= opt.ibs + opt.cbs
                             /\ InRoom \in Nat
                             /\ OutRoom = opt.obs + opt.cbs
BY OptFacts DEF InRoom, OutRoom, Greater

LEMMA LenFacts ==
  ASSUME TypeOK
  PROVE  {Len(ibuf), Len(obuf), Len(rd), Len(src)} \subseteq Nat
BY LenProperties DEF TypeOK

LEMMA OptSame ==
  ASSUME opt' = opt
  PROVE  Cfunc' = Cfunc /\ InRoom' = InRoom /\ OutRoom' = OutRoom
BY DEF Cfunc, InRoom, OutRoom, Has

-----------------------------------------------------------------------------
(* Each action preserves the invariant. *)
LEMMA InitInv == Init => IInv
<1> SUFFICES ASSUME Init PROVE IInv
  OBVIOUS
<1>1. TypeOK
  <2>1. src \in Seq(Byte) /\ file \in Seq(Byte \cup {Stale})
    BY OptionAssumption, SeqMonotonic DEF Init
  <2>2. st \in [in_full : Nat, in_part : Nat, out_full : Nat, out_part : Nat,
                trunc : Nat, swab : Nat, bytes : Nat]
    BY DEF Init
  <2>3. {force, intrunc, lost} \subseteq BOOLEAN
    BY Zenon DEF Init
  <2>4. ibuf = << >> /\ rd = << >> /\ obuf = << >> /\ taken = << >>
    BY DEF Init
  <2>5. {past, n, cnt, pending, seek_offset, pos, errs} \subseteq Nat
    BY DEF Init
  <2> QED BY <2>1, <2>2, <2>3, <2>4, <2>5 DEF Init, TypeOK, Pcs
<1>2. Place
  BY DEF Init, Place
<1>3. HeldBack /\ BuffersFit
  BY <1>1, OptFacts, RoomFacts DEF Init, HeldBack, BuffersFit
<1> QED BY <1>1, <1>2, <1>3 DEF IInv

LEMMA StutterInv == ASSUME IInv, UNCHANGED vars PROVE IInv'
BY OptSame DEF IInv, TypeOK, Place, HeldBack, BuffersFit, vars, Pcs

LEMMA SetupInv == ASSUME IInv, Setup PROVE IInv'
<1> USE DEF IInv
<1>0. opt.cseek * opt.obs \in Nat
  BY OptFacts
<1>1. file' \in Seq(Byte \cup {Stale})
  <2>2. << >> \in Seq(Byte \cup {Stale}) /\ NUL \in Byte
    BY OptFacts
  <2> QED BY <1>0, <2>2, FtruncateProp DEF Setup, TypeOK
<1>2. TypeOK'
  BY <1>0, <1>1 DEF Setup, TypeOK, Pcs, inVars
<1>3. Place'
  BY OptSame DEF Setup, Place, inVars
<1>4. HeldBack' /\ BuffersFit'
  <2>1. opt' = opt /\ ibuf' = ibuf /\ obuf' = obuf /\ pc = "setup"
    BY DEF Setup
  <2>2. HeldBack'
    BY <2>1, OptSame DEF HeldBack
  <2>3. Len(ibuf) \in Nat /\ Len(obuf) \in Nat
    BY LenFacts
  <2>4. Len(ibuf) + opt.ibs <= InRoom
    BY <2>1, <2>3, OptFacts, RoomFacts DEF HeldBack
  <2>5. BuffersFit'
    BY <2>1, <2>3, <2>4, OptSame DEF BuffersFit
  <2> QED BY <2>2, <2>5
<1> QED BY <1>2, <1>3, <1>4

LEMMA StartBlockInv == ASSUME IInv, StartBlock PROVE IInv'
<1> USE DEF IInv
<1>1. TypeOK'
  BY DEF StartBlock, TypeOK, Pcs, outVars
<1>2. opt' = opt /\ ibuf' = ibuf /\ obuf' = obuf /\ past' = past /\ rd' = << >>
      /\ pc = "in" /\ pc' \in {"read", "close"}
  BY DEF StartBlock
<1>3. Place'
  BY <1>2, OptSame, OptFacts DEF Place
<1>4. HeldBack' /\ BuffersFit'
  BY <1>2, OptSame DEF HeldBack, BuffersFit
<1> QED BY <1>1, <1>3, <1>4

(* The part of Read, ReadEof and ReadError that takes a block. *)
LEMMA AcceptInv ==
  ASSUME IInv, pc = "read", opt' = opt, past' = past,
         NEW b \in Seq(Byte), b # << >>, Len(b) <= opt.ibs, Accept(b)
  PROVE  /\ ibuf' \in Seq(Byte) /\ taken' \in Seq(Byte)
         /\ obuf' \in Seq(Byte \cup {Stale})
         /\ n' \in Nat /\ cnt' \in Nat /\ {force'} \subseteq BOOLEAN
         /\ pc' \in Pcs /\ ret' \in {"in", "rec", "fini"}
         /\ Place' /\ HeldBack' /\ BuffersFit'
<1> USE DEF IInv
<1>0. Len(b) \in Nat /\ Len(b) > 0
  BY LenProperties, EmptySeq
<1>1. CASE BsPath
  <2>1. /\ obuf' = b /\ taken' = taken \o b /\ ibuf' = ibuf
        /\ pc' = "out" /\ ret' = "in" /\ n' = Len(b) /\ cnt' = Len(b)
    BY <1>1 DEF Accept, StartOut
  <2>2. force' = TRUE
    BY <1>1, Zenon DEF Accept, StartOut
  <2>3. Cfunc = "def"
    BY <1>1, OptFacts
  <2>4. taken' \in Seq(Byte) /\ ibuf' \in Seq(Byte)
    BY <2>1, ConcatProperties DEF TypeOK
  <2>5. obuf' \in Seq(Byte \cup {Stale})
    BY <2>1, SeqMonotonic
  <2>6. Place'
    BY <2>1, <2>3, <1>0, OptSame DEF Place
  <2>7. HeldBack' /\ BuffersFit'
    BY <2>1, <2>3, <1>0, OptSame, OptFacts, RoomFacts
    DEF HeldBack, BuffersFit
  <2> QED BY <2>1, <2>2, <2>4, <2>5, <2>6, <2>7, <1>0, Zenon DEF Pcs
<1>2. CASE ~ BsPath
  <2> DEFINE sw == IF Has("SWAB") THEN SwapPairs(b) ELSE b
             conv == IF Cfunc = "block" THEN sw ELSE Translate(sw, opt.ctab)
  <2>1. sw \in Seq(Byte) /\ Len(sw) = Len(b)
    BY SwapPairsProp
  <2>2. conv \in Seq(Byte) /\ Len(conv) = Len(b)
    BY <2>1, TranslateProp, OptFacts
  <2>3. /\ ibuf' = ibuf \o conv /\ taken' = taken \o conv /\ obuf' = obuf
        /\ pc' = "conv" /\ n' = n /\ cnt' = cnt /\ ret' = ret
    BY <1>2 DEF Accept
  <2>4. force' = force
    BY <1>2, Zenon DEF Accept
  <2> HIDE DEF conv
  <2>5. /\ taken' \in Seq(Byte) /\ ibuf' \in Seq(Byte)
        /\ Len(ibuf') = Len(ibuf) + Len(b)
    <3>1. ibuf \in Seq(Byte) /\ taken \in Seq(Byte)
      BY DEF TypeOK
    <3>2. /\ ibuf \o conv \in Seq(Byte) /\ taken \o conv \in Seq(Byte)
          /\ Len(ibuf \o conv) = Len(ibuf) + Len(conv)
      BY <3>1, <2>2, JoinProp
    <3> QED BY <3>2, <2>2, <2>3
  <2>6. Place'
    BY <2>3, OptSame DEF Place
  <2>7. HeldBack'
    BY <2>3, OptSame DEF HeldBack
  <2>8. BuffersFit'
    <3>1. /\ pc' = "conv" /\ obuf' = obuf /\ Len(ibuf') = Len(ibuf) + Len(b)
          /\ Len(ibuf) + opt.ibs <= InRoom /\ Len(obuf) <= OutRoom
      BY <2>3, <2>5, Zenon DEF BuffersFit
    <3>2. /\ Len(ibuf) \in Nat /\ opt.ibs \in Nat /\ Len(b) \in Nat
          /\ InRoom \in Nat
      BY <1>0, OptFacts, RoomFacts, LenFacts
    <3>3. Len(ibuf) + Len(b) <= InRoom
      BY <3>1, <3>2
    <3> QED BY <3>1, <3>3, OptSame DEF BuffersFit
  <2>9. n' \in Nat /\ cnt' \in Nat /\ ret' \in {"in", "rec", "fini"}
        /\ obuf' \in Seq(Byte \cup {Stale})
    BY <2>3 DEF TypeOK
  <2>10. {force'} \subseteq BOOLEAN
    BY <2>4, Zenon DEF TypeOK
  <2> QED BY <2>3, <2>5, <2>6, <2>7, <2>8, <2>9, <2>10 DEF Pcs
<1> QED BY <1>1, <1>2

LEMMA CountedProp ==
  ASSUME TypeOK, NEW full, NEW odd, Counted(full, odd)
  PROVE  st' \in [in_full : Nat, in_part : Nat, out_full : Nat,
                  out_part : Nat, trunc : Nat, swab : Nat, bytes : Nat]
<1> DEFINE a == IF full THEN st.in_full + 1 ELSE st.in_full
           p == IF full THEN st.in_part ELSE st.in_part + 1
           w == IF odd /\ Has("SWAB") /\ ~ BsPath THEN st.swab + 1 ELSE st.swab
<1>1. a \in Nat /\ p \in Nat /\ w \in Nat
  <2>1. st.in_full \in Nat /\ st.in_part \in Nat /\ st.swab \in Nat
    BY DEF TypeOK
  <2>2. st.in_full + 1 \in Nat /\ st.in_part + 1 \in Nat /\ st.swab + 1 \in Nat
    BY <2>1
  <2> QED BY <2>1, <2>2, Zenon
<1>2. st' = [st EXCEPT !.in_full = a, !.in_part = p, !.swab = w]
  BY DEF Counted
<1> HIDE DEF a, p, w
<1> QED BY <1>1, <1>2 DEF TypeOK

LEMMA ReadInv == ASSUME IInv, Read PROVE IInv'
<1> USE DEF IInv
<1>1. PICK k \in 1 .. Lesser(opt.ibs - Len(rd), Len(src)) :
        LET got == rd \o Take(src, k)
            b   == IF Has("SYNC") THEN PadTo(got, opt.ibs, PadByte) ELSE got
        IN  /\ src' = Drop(src, k)
            /\ IF Refill(b)
               THEN /\ rd' = got
                    /\ UNCHANGED <<pc, ibuf, obuf, taken, n, cnt, force, ret, st>>
               ELSE /\ rd' = b
                    /\ Counted(Len(b) = opt.ibs, Len(b) % 2 = 1)
                    /\ Accept(b)
  BY DEF Read
<1> DEFINE got == rd \o Take(src, k)
           b   == IF Has("SYNC") THEN PadTo(got, opt.ibs, PadByte) ELSE got
<1>2. /\ pc = "read" /\ opt' = opt /\ past' = past /\ errs' = errs
      /\ pending' = pending /\ seek_offset' = seek_offset /\ file' = file
      /\ pos' = pos
  BY DEF Read
<1>3. lost' = lost /\ intrunc' = intrunc
  BY Zenon DEF Read
<1>4. k \in Nat /\ 1 <= k /\ k <= Len(src) /\ k <= opt.ibs - Len(rd)
  BY LenFacts, OptFacts DEF Lesser
<1>5. /\ got \in Seq(Byte) /\ Len(got) = Len(rd) + k
      /\ src' \in Seq(Byte)
  <2>1. src \in Seq(Byte) /\ rd \in Seq(Byte)
    BY DEF TypeOK
  <2>2. Take(src, k) \in Seq(Byte) /\ Len(Take(src, k)) = k
    BY <2>1, <1>4, TakeProp DEF Lesser
  <2>3. got \in Seq(Byte) /\ Len(got) = Len(rd) + k
    BY <2>1, <2>2, JoinProp
  <2>4. src' = Drop(src, k)
    BY <1>1
  <2> QED BY <2>1, <2>3, <2>4, <1>4, DropProp
<1> HIDE DEF got
<1>6. b \in Seq(Byte) /\ b # << >> /\ Len(b) <= opt.ibs /\ Len(b) \in Nat
  <2>1. Len(got) >= 1 /\ Len(got) <= opt.ibs /\ Len(got) \in Nat
    BY <1>4, <1>5, LenFacts, OptFacts
  <2>2. PadTo(got, opt.ibs, PadByte) \in Seq(Byte)
        /\ Len(PadTo(got, opt.ibs, PadByte)) = opt.ibs
    BY <2>1, <1>5, PadToProp, OptFacts DEF Greater
  <2>3. b \in Seq(Byte) /\ Len(b) \in Nat /\ Len(b) >= 1 /\ Len(b) <= opt.ibs
    BY <2>1, <2>2, <1>5, OptFacts
  <2> QED BY <2>3, LenProperties
<1>7. CASE Refill(b)
  <2>1. /\ rd' = got /\ pc' = pc /\ ibuf' = ibuf /\ obuf' = obuf
        /\ taken' = taken /\ n' = n /\ cnt' = cnt /\ ret' = ret /\ st' = st
    BY <1>1, <1>7 DEF got
  <2>2. force' = force
    BY <1>1, <1>7, Zenon DEF got
  <2>3. TypeOK'
    BY <2>1, <2>2, <1>2, <1>3, <1>5 DEF TypeOK
  <2>4. ~ Has("SYNC") \/ Len(b) = opt.ibs
    BY <1>4, <1>5, <1>6, PadToProp, OptFacts DEF Greater
  <2>5. Len(got) < opt.ibs
    BY <2>4, <1>6, <1>7, OptFacts DEF Refill
  <2>6. Place'
    BY <2>1, <2>5, <1>2, OptSame DEF Place
  <2>7. HeldBack' /\ BuffersFit'
    BY <2>1, <1>2, OptSame DEF HeldBack, BuffersFit
  <2> QED BY <2>3, <2>6, <2>7
<1>8. CASE ~ Refill(b)
  <2>1. rd' = b /\ Counted(Len(b) = opt.ibs, Len(b) % 2 = 1) /\ Accept(b)
    BY <1>1, <1>8 DEF got
  <2> HIDE DEF b
  <2>2. /\ ibuf' \in Seq(Byte) /\ taken' \in Seq(Byte)
        /\ obuf' \in Seq(Byte \cup {Stale})
        /\ n' \in Nat /\ cnt' \in Nat /\ {force'} \subseteq BOOLEAN
        /\ pc' \in Pcs /\ ret' \in {"in", "rec", "fini"}
        /\ Place' /\ HeldBack' /\ BuffersFit'
    BY <2>1, <1>2, <1>6, AcceptInv
  <2>3. st' \in [in_full : Nat, in_part : Nat, out_full : Nat,
                 out_part : Nat, trunc : Nat, swab : Nat, bytes : Nat]
    BY <2>1, CountedProp
  <2>4. {force', intrunc', lost'} \subseteq BOOLEAN
    BY <2>2, <1>3, Zenon DEF TypeOK
  <2>5. TypeOK'
    BY <2>1, <2>2, <2>3, <2>4, <1>2, <1>5, <1>6 DEF TypeOK
  <2> QED BY <2>2, <2>5
<1> QED BY <1>7, <1>8

LEMMA ReadEofInv == ASSUME IInv, ReadEof PROVE IInv'
<1> USE DEF IInv
<1>1. /\ pc = "read" /\ opt' = opt /\ past' = past /\ errs' = errs
      /\ pending' = pending /\ seek_offset' = seek_offset /\ file' = file
      /\ pos' = pos /\ src' = src /\ rd' = rd
  BY DEF ReadEof
<1>2. lost' = lost /\ intrunc' = intrunc
  BY Zenon DEF ReadEof
<1>3. CASE rd = << >>
  <2>1. /\ pc' = "close" /\ ibuf' = ibuf /\ obuf' = obuf /\ taken' = taken
        /\ n' = n /\ cnt' = cnt /\ ret' = ret /\ st' = st
    BY <1>3 DEF ReadEof
  <2>2. force' = force
    BY <1>3, Zenon DEF ReadEof
  <2>3. TypeOK'
    BY <2>1, <2>2, <1>1, <1>2 DEF TypeOK, Pcs
  <2>4. Place'
    BY <2>1, <1>1, OptSame DEF Place
  <2>5. HeldBack' /\ BuffersFit'
    BY <2>1, <1>1, OptSame DEF HeldBack, BuffersFit
  <2> QED BY <2>3, <2>4, <2>5
<1>4. CASE rd # << >>
  <2>1. Counted(FALSE, Len(rd) % 2 = 1) /\ Accept(rd)
    BY <1>4 DEF ReadEof
  <2>2. rd \in Seq(Byte) /\ Len(rd) <= opt.ibs
    <3>1. Len(rd) \in Nat /\ Len(rd) < opt.ibs
      BY <1>1, LenFacts DEF Place
    <3>2. rd \in Seq(Byte)
      BY DEF TypeOK
    <3> QED BY <3>1, <3>2, OptFacts
  <2>3. /\ ibuf' \in Seq(Byte) /\ taken' \in Seq(Byte)
        /\ obuf' \in Seq(Byte \cup {Stale})
        /\ n' \in Nat /\ cnt' \in Nat /\ {force'} \subseteq BOOLEAN
        /\ pc' \in Pcs /\ ret' \in {"in", "rec", "fini"}
        /\ Place' /\ HeldBack' /\ BuffersFit'
    BY <2>1, <2>2, <1>1, <1>4, AcceptInv
  <2>4. st' \in [in_full : Nat, in_part : Nat, out_full : Nat,
                 out_part : Nat, trunc : Nat, swab : Nat, bytes : Nat]
    BY <2>1, CountedProp
  <2>5. {force', intrunc', lost'} \subseteq BOOLEAN
    BY <2>3, <1>2, Zenon DEF TypeOK
  <2>6. TypeOK'
    BY <2>3, <2>4, <2>5, <1>1 DEF TypeOK
  <2> QED BY <2>3, <2>6
<1> QED BY <1>3, <1>4

LEMMA ReadErrorInv == ASSUME IInv, ReadError PROVE IInv'
<1> USE DEF IInv
<1>1. /\ pc = "read" /\ opt' = opt /\ past' = past /\ errs' = errs + 1
      /\ pending' = pending /\ seek_offset' = seek_offset /\ file' = file
      /\ pos' = pos /\ rd' = rd
  BY DEF ReadError
<1>2. intrunc' = intrunc
  BY Zenon DEF ReadError
<1>3. src' \in Seq(Byte) /\ errs' \in Nat
  <2>1. src \in Seq(Byte) /\ errs \in Nat
    BY DEF TypeOK
  <2>3. Lesser(opt.ibs, Len(src)) \in Nat
    BY LenFacts, OptFacts DEF Lesser
  <2>2. src' = src \/ src' = Drop(src, Lesser(opt.ibs, Len(src)))
    BY DEF ReadError
  <2>4. Drop(src, Lesser(opt.ibs, Len(src))) \in Seq(Byte)
    BY <2>1, <2>3, DropProp
  <2> QED BY <2>1, <2>2, <2>4, <1>1
<1>4. CASE Has("NOERROR") /\ Has("SYNC")
  <2> DEFINE b == Rep(PadByte, opt.ibs)
  <2>1. Counted(TRUE, opt.ibs % 2 = 1) /\ Accept(b) 
    BY <1>4 DEF ReadError
  <2>2. b \in Seq(Byte) /\ Len(b) = opt.ibs /\ b # << >>
    <3>1. b \in Seq(Byte) /\ Len(b) = opt.ibs
      BY RepProp, OptFacts
    <3> HIDE DEF b
    <3> QED BY <3>1, OptFacts, EmptySeq
  <2>3. Len(b) <= opt.ibs
    BY <2>2, OptFacts
  <2> HIDE DEF b
  <2>4. /\ ibuf' \in Seq(Byte) /\ taken' \in Seq(Byte)
        /\ obuf' \in Seq(Byte \cup {Stale})
        /\ n' \in Nat /\ cnt' \in Nat /\ {force'} \subseteq BOOLEAN
        /\ pc' \in Pcs /\ ret' \in {"in", "rec", "fini"}
        /\ Place' /\ HeldBack' /\ BuffersFit'
    BY <2>1, <2>2, <2>3, <1>1, AcceptInv
  <2>5. st' \in [in_full : Nat, in_part : Nat, out_full : Nat,
                 out_part : Nat, trunc : Nat, swab : Nat, bytes : Nat]
    BY <2>1, CountedProp
  <2>6. lost' = lost
    BY <1>4, Zenon DEF ReadError
  <2>7. {force', intrunc', lost'} \subseteq BOOLEAN
    BY <2>4, <2>6, <1>2, Zenon DEF TypeOK
  <2>8. TypeOK'
    BY <2>4, <2>5, <2>7, <1>1, <1>3 DEF TypeOK
  <2> QED BY <2>4, <2>8
<1>5. CASE ~ (Has("NOERROR") /\ Has("SYNC"))
  <2>1. /\ pc' \in {"failed", "in"} /\ ibuf' = ibuf /\ obuf' = obuf
        /\ taken' = taken /\ n' = n /\ cnt' = cnt /\ ret' = ret /\ st' = st
    BY <1>5 DEF ReadError
  <2>2. {force', intrunc', lost'} \subseteq BOOLEAN
    BY <1>2, <1>5, Zenon DEF ReadError, TypeOK
  <2>3. TypeOK'
    BY <2>1, <2>2, <1>1, <1>3 DEF TypeOK, Pcs
  <2>4. Place'
    BY <2>1, <1>1, OptSame DEF Place
  <2>5. HeldBack' /\ BuffersFit'
    BY <2>1, <1>1, OptSame DEF HeldBack, BuffersFit
  <2> QED BY <2>3, <2>4, <2>5
<1> QED BY <1>4, <1>5

-----------------------------------------------------------------------------
(* dd_out(f) is entered with something to write unless it closes the copy. *)
LEMMA StartOutProp ==
  ASSUME TypeOK, opt' = opt, NEW f \in BOOLEAN, NEW from \in {"in", "rec", "fini"},
         obuf' \in Seq(Byte \cup {Stale}), StartOut(f, from)
  PROVE  /\ pc' = "out" /\ ret' = from /\ {force'} \subseteq BOOLEAN
         /\ n' \in Nat /\ cnt' \in Nat
         /\ ~ f => cnt' > 0
<1>1. Len(obuf') \in Nat
  BY LenProperties
<1>2. pc' = "out" /\ ret' = from /\ n' = (IF f THEN Len(obuf') ELSE opt.obs)
      /\ cnt' = n'
  BY DEF StartOut
<1>3. force' = f
  BY Zenon DEF StartOut
<1>4. {force'} \subseteq BOOLEAN
  BY <1>3, Zenon
<1> QED BY <1>1, <1>2, <1>4, OptFacts

LEMMA DefInv == ASSUME IInv, Def PROVE IInv'
<1> USE DEF IInv
<1>1. /\ pc = "conv" /\ Cfunc = "def" /\ opt' = opt /\ past' = past
      /\ obuf' = ibuf /\ ibuf' = ibuf
  BY DEF Def
<1>2. obuf' \in Seq(Byte) /\ obuf' \in Seq(Byte \cup {Stale})
  BY <1>1, SeqMonotonic DEF TypeOK
<1>3. /\ n' \in Nat /\ cnt' \in Nat /\ {force'} \subseteq BOOLEAN
      /\ \/ pc' = "out" /\ ret' = "in" /\ cnt' > 0
         \/ pc' = "in" /\ ret' = ret /\ Len(ibuf) < opt.obs
  <2>1. CASE Len(ibuf) >= opt.obs
    <3>1. StartOut(FALSE, "in")
      BY <2>1 DEF Def
    <3> QED BY <3>1, <1>1, <1>2, StartOutProp
  <2>2. CASE ~ (Len(ibuf) >= opt.obs)
    <3>1. n' = n /\ cnt' = cnt /\ pc' = "in" /\ ret' = ret
      BY <2>2 DEF Def
    <3>2. {force'} \subseteq BOOLEAN
      BY <2>2, Zenon DEF Def, TypeOK
    <3>3. Len(ibuf) < opt.obs
      BY <2>2, LenFacts, OptFacts
    <3>4. n \in Nat /\ cnt \in Nat
      BY DEF TypeOK
    <3> QED BY <3>1, <3>2, <3>3, <3>4, Zenon
  <2> QED BY <2>1, <2>2
<1>4. TypeOK'
  <2>1. {force', intrunc', lost'} \subseteq BOOLEAN
    BY <1>3, Zenon DEF Def, TypeOK, inVars
  <2> QED BY <1>1, <1>2, <1>3, <2>1 DEF Def, TypeOK, Pcs, inVars
<1>5. Place'
  BY <1>1, <1>2, <1>3, OptSame DEF Place
<1>6. HeldBack' /\ BuffersFit'
  BY <1>1, <1>3, OptSame, OptFacts, RoomFacts, LenFacts DEF HeldBack, BuffersFit
<1> QED BY <1>4, <1>5, <1>6

LEMMA BlockStartInv == ASSUME IInv, BlockStart PROVE IInv'
<1> USE DEF IInv
<1>1. /\ pc = "conv" /\ Cfunc = "block" /\ opt' = opt /\ past' = past
      /\ obuf' = obuf /\ rd' = rd /\ ret' = ret
  BY DEF BlockStart, inVars, outVars
<1>2. /\ ibuf' \in Seq(Byte) /\ Len(ibuf') <= Len(ibuf) /\ Len(ibuf') \in Nat
      /\ \/ pc' = "in" /\ Len(ibuf') = 0
         \/ pc' = "rec"
  <2>1. ibuf \in Seq(Byte) /\ Len(ibuf) \in Nat
    BY LenFacts DEF TypeOK
  <2>2. /\ AfterNewline(ibuf) \in Seq(Byte)
        /\ Len(AfterNewline(ibuf)) <= Len(ibuf)
    BY <2>1, AfterNewlineProp
  <2>3. \/ pc' = "in" /\ ibuf' = << >>
        \/ pc' = "rec" /\ ibuf' = ibuf
        \/ pc' = "rec" /\ ibuf' = AfterNewline(ibuf)
    BY DEF BlockStart
  <2>4. << >> \in Seq(Byte) /\ Len(<< >>) = 0
    OBVIOUS
  <2>5. Len(AfterNewline(ibuf)) \in Nat
    BY <2>2, LenProperties
  <2>6. CASE pc' = "in" /\ ibuf' = << >>
    BY <2>6, <2>1, <2>4
  <2>7. CASE pc' = "rec" /\ ibuf' = ibuf
    BY <2>7, <2>1
  <2>8. CASE pc' = "rec" /\ ibuf' = AfterNewline(ibuf)
    BY <2>8, <2>2, <2>5
  <2> QED BY <2>3, <2>6, <2>7, <2>8
<1>3. TypeOK'
  <2>1. {force', intrunc', lost'} \subseteq BOOLEAN
    BY Zenon DEF BlockStart, TypeOK, inVars, outVars
  <2> QED BY <1>1, <1>2, <2>1 DEF BlockStart, TypeOK, Pcs, inVars, outVars
<1>4. Place'
  BY <1>1, <1>2, OptSame DEF Place
<1>5. HeldBack' /\ BuffersFit'
  BY <1>1, <1>2, OptSame, OptFacts, RoomFacts, LenFacts DEF HeldBack, BuffersFit
<1> QED BY <1>3, <1>4, <1>5

(* A record that joins the output buffer leaves room for the next one. *)
LEMMA EmitInv ==
  ASSUME IInv, opt' = opt, past' = past, Cfunc # "def", pc \in {"conv", "rec"},
         ibuf' \in Seq(Byte), Len(ibuf') <= Len(ibuf),
         NEW rec \in Seq(Byte), Len(rec) <= opt.cbs + 1, Emit(rec)
  PROVE  /\ obuf' \in Seq(Byte \cup {Stale})
         /\ n' \in Nat /\ cnt' \in Nat /\ {force'} \subseteq BOOLEAN
         /\ pc' \in Pcs /\ ret' \in {"in", "rec", "fini"}
         /\ Place' /\ HeldBack' /\ BuffersFit'
<1> USE DEF IInv
<1>1. Len(obuf) < opt.obs /\ Len(obuf) \in Nat /\ Len(rec) \in Nat
      /\ Len(ibuf) \in Nat /\ Len(ibuf') \in Nat
  BY LenFacts, LenProperties DEF HeldBack
<1>2. obuf' \in Seq(Byte \cup {Stale}) /\ Len(obuf') = Len(obuf) + Len(rec)
  <2>1. rec \in Seq(Byte \cup {Stale}) /\ obuf \in Seq(Byte \cup {Stale})
    BY SeqMonotonic DEF TypeOK
  <2>2. obuf' = obuf \o rec
    BY DEF Emit
  <2> QED BY <2>1, <2>2, JoinProp
<1>3. /\ n' \in Nat /\ cnt' \in Nat /\ {force'} \subseteq BOOLEAN
      /\ ret' \in {"in", "rec", "fini"}
      /\ \/ pc' = "out" /\ ret' = "rec" /\ cnt' > 0
         \/ pc' = "rec" /\ Len(obuf') < opt.obs
  <2>1. CASE Len(obuf') >= opt.obs
    <3>1. StartOut(FALSE, "rec")
      BY <2>1 DEF Emit
    <3> QED BY <3>1, <1>2, StartOutProp
  <2>2. CASE ~ (Len(obuf') >= opt.obs)
    <3>1. n' = n /\ cnt' = cnt /\ pc' = "rec" /\ ret' = ret
      BY <2>2 DEF Emit
    <3>2. {force'} \subseteq BOOLEAN
      BY <2>2, Zenon DEF Emit, TypeOK
    <3>3. Len(obuf') < opt.obs
      BY <2>2, <1>1, <1>2, OptFacts
    <3>4. n \in Nat /\ cnt \in Nat /\ ret \in {"in", "rec", "fini"}
      BY DEF TypeOK
    <3> QED BY <3>1, <3>2, <3>3, <3>4, Zenon
  <2> QED BY <2>1, <2>2
<1>4. Place'
  BY <1>3, OptSame DEF Place
<1>5. HeldBack'
  BY <1>3, OptSame DEF HeldBack
<1>6. BuffersFit'
  <2>1. Len(ibuf') <= InRoom
    BY <1>1, RoomFacts DEF BuffersFit
  <2>2. Len(obuf') <= OutRoom
    BY <1>1, <1>2, OptFacts, RoomFacts
  <2>3. pc' \notin {"in", "read"}
    BY <1>3
  <2> QED BY <2>1, <2>2, <2>3, OptSame DEF BuffersFit
<1> QED BY <1>2, <1>3, <1>4, <1>5, <1>6 DEF Pcs

LEMMA UnblockRecordInv == ASSUME IInv, UnblockRecord PROVE IInv'
<1> USE DEF IInv
<1>1. /\ pc \in {"conv", "rec"} /\ Cfunc = "unblock" /\ opt' = opt
      /\ past' = past /\ rd' = rd /\ src' = src /\ taken' = taken
      /\ errs' = errs /\ pending' = pending /\ seek_offset' = seek_offset
      /\ file' = file /\ pos' = pos /\ st' = st
  BY DEF UnblockRecord, inVars
<1>2. intrunc' = intrunc /\ lost' = lost
  BY Zenon DEF UnblockRecord, inVars
<1>3. CASE Len(ibuf) >= opt.cbs
  <2> DEFINE head == Take(ibuf, opt.cbs)
             rec == Append(StripBlanks(head), NL)
  <2>1. ibuf \in Seq(Byte) /\ Len(ibuf) \in Nat
    BY LenFacts DEF TypeOK
  <2>2. head \in Seq(Byte) /\ Len(head) = opt.cbs
    BY <2>1, <1>3, TakeProp, OptFacts DEF Lesser
  <2>3. StripBlanks(head) \in Seq(Byte) /\ Len(StripBlanks(head)) <= opt.cbs
    BY <2>2, StripBlanksProp
  <2>4. rec \in Seq(Byte) /\ Len(rec) <= opt.cbs + 1
    BY <2>3, AppendProperties, LenProperties, OptFacts
  <2>5. ibuf' = Drop(ibuf, opt.cbs) /\ Emit(rec)
    BY <1>3 DEF UnblockRecord
  <2>6. ibuf' \in Seq(Byte) /\ Len(ibuf') <= Len(ibuf)
    <3>1. /\ Drop(ibuf, opt.cbs) \in Seq(Byte)
          /\ Len(Drop(ibuf, opt.cbs)) = IF opt.cbs <= Len(ibuf)
                                        THEN Len(ibuf) - opt.cbs ELSE 0
      BY <2>1, DropProp, OptFacts
    <3> QED BY <3>1, <2>1, <2>5, OptFacts
  <2> HIDE DEF rec
  <2>7. /\ obuf' \in Seq(Byte \cup {Stale})
        /\ n' \in Nat /\ cnt' \in Nat /\ {force'} \subseteq BOOLEAN
        /\ pc' \in Pcs /\ ret' \in {"in", "rec", "fini"}
        /\ Place' /\ HeldBack' /\ BuffersFit'
    BY <1>1, <2>4, <2>5, <2>6, EmitInv
  <2>8. {force', intrunc', lost'} \subseteq BOOLEAN
    BY <2>7, <1>2, Zenon DEF TypeOK
  <2>9. TypeOK'
    BY <2>6, <2>7, <2>8, <1>1 DEF TypeOK
  <2> QED BY <2>7, <2>9
<1>4. CASE ~ (Len(ibuf) >= opt.cbs)
  <2>1. /\ pc' = "in" /\ ibuf' = ibuf /\ obuf' = obuf /\ n' = n /\ cnt' = cnt
        /\ ret' = ret
    BY <1>4 DEF UnblockRecord
  <2>2. {force', intrunc', lost'} \subseteq BOOLEAN
    BY <1>2, <1>4, Zenon DEF UnblockRecord, TypeOK
  <2>3. TypeOK'
    BY <2>1, <2>2, <1>1 DEF TypeOK, Pcs
  <2>4. Place'
    BY <2>1, <1>1, OptSame DEF Place
  <2>5. HeldBack' /\ BuffersFit'
    BY <2>1, <1>1, <1>4, OptSame, OptFacts, RoomFacts, LenFacts
    DEF HeldBack, BuffersFit
  <2> QED BY <2>3, <2>4, <2>5
<1> QED BY <1>3, <1>4

LEMMA BlockRecordInv == ASSUME IInv, BlockRecord PROVE IInv'
<1> USE DEF IInv
<1> DEFINE head == Take(ibuf, opt.cbs)
           line == SubSeq(ibuf, 1, Len(ibuf) - Len(AfterNewline(ibuf)) - 1)
           rest == Drop(ibuf, opt.cbs)
<1>1. /\ pc = "rec" /\ Cfunc = "block" /\ opt' = opt
      /\ past' = past /\ rd' = rd /\ src' = src /\ taken' = taken
      /\ errs' = errs /\ pending' = pending /\ seek_offset' = seek_offset
      /\ file' = file /\ pos' = pos
  BY DEF BlockRecord, inVars
<1>2. lost' = lost
  BY Zenon DEF BlockRecord, inVars
<1>3. ibuf \in Seq(Byte) /\ Len(ibuf) \in Nat
  BY LenFacts DEF TypeOK
<1>4. head \in Seq(Byte) /\ Len(head) = Lesser(opt.cbs, Len(ibuf))
      /\ \A i \in 1 .. Len(head) : head[i] = ibuf[i]
  BY <1>3, TakeProp, OptFacts
<1>5. Len(head) \in Nat /\ Len(head) <= opt.cbs /\ Len(head) <= Len(ibuf)
  BY <1>3, <1>4, OptFacts DEF Lesser
<1>6. AfterNewline(ibuf) \in Seq(Byte) /\ Len(AfterNewline(ibuf)) <= Len(ibuf)
      /\ Len(AfterNewline(ibuf)) \in Nat
  BY <1>3, AfterNewlineProp, LenProperties
<1>7. CASE ~ HasNewline(head) /\ Len(ibuf) < opt.cbs
  <2>1. /\ pc' = "in" /\ ibuf' = ibuf /\ obuf' = obuf /\ n' = n /\ cnt' = cnt
        /\ ret' = ret /\ st' = st
    BY <1>3, <1>7, OptFacts DEF BlockRecord, head
  <2>2. {force', intrunc', lost'} \subseteq BOOLEAN
    <3>1. ~ (Len(ibuf) >= opt.cbs)
      BY <1>3, <1>7, OptFacts
    <3> QED BY <1>2, <1>7, <3>1, Zenon DEF BlockRecord, TypeOK, head
  <2>3. TypeOK'
    BY <2>1, <2>2, <1>1 DEF TypeOK, Pcs
  <2>4. Place'
    BY <2>1, <1>1, OptSame DEF Place
  <2>5. HeldBack' /\ BuffersFit'
    BY <2>1, <1>1, <1>7, OptSame, OptFacts, RoomFacts, LenFacts
    DEF HeldBack, BuffersFit
  <2> QED BY <2>3, <2>4, <2>5
<1>8. CASE HasNewline(head)
  <2> DEFINE rec == PadTo(Translate(line, opt.ctab), opt.cbs, Blank)
  <2>1. ibuf' = AfterNewline(ibuf) /\ Emit(rec) /\ st' = st
    BY <1>8 DEF BlockRecord, head
  <2>2. intrunc' = intrunc
    BY <1>8, Zenon DEF BlockRecord, head
  <2>3. PICK i \in 1 .. Len(head) : head[i] = NL
    BY <1>8 DEF HasNewline
  <2>4. i \in 1 .. Len(ibuf) /\ ibuf[i] = NL /\ i <= opt.cbs
    BY <2>3, <1>3, <1>4, <1>5, OptFacts
  <2>5. Len(AfterNewline(ibuf)) >= Len(ibuf) - i
        /\ Len(AfterNewline(ibuf)) < Len(ibuf)
    BY <2>4, <1>3, AfterNewlineProp DEF HasNewline
  <2> DEFINE k == Len(ibuf) - Len(AfterNewline(ibuf)) - 1
  <2>6. k \in Nat /\ k < opt.cbs /\ k <= Len(ibuf)
    BY <2>4, <2>5, <1>3, <1>6, OptFacts
  <2>7. line \in Seq(Byte) /\ Len(line) = k
    <3>1. line = Take(ibuf, k)
      BY <2>6, <1>3 DEF Take, Lesser
    <3> HIDE DEF k, line
    <3> QED BY <3>1, <2>6, <1>3, TakeProp DEF Lesser
  <2> HIDE DEF line, k, head
  <2>8. Translate(line, opt.ctab) \in Seq(Byte)
        /\ Len(Translate(line, opt.ctab)) = k
    BY <2>7, TranslateProp, OptFacts
  <2>9. rec \in Seq(Byte) /\ Len(rec) = opt.cbs
    BY <2>6, <2>8, PadToProp, OptFacts DEF Greater
  <2>10. Len(rec) <= opt.cbs + 1
    BY <2>9, OptFacts
  <2> HIDE DEF rec
  <2>11. ibuf' \in Seq(Byte) /\ Len(ibuf') <= Len(ibuf)
    BY <2>1, <1>6
  <2>12. /\ obuf' \in Seq(Byte \cup {Stale})
         /\ n' \in Nat /\ cnt' \in Nat /\ {force'} \subseteq BOOLEAN
         /\ pc' \in Pcs /\ ret' \in {"in", "rec", "fini"}
         /\ Place' /\ HeldBack' /\ BuffersFit'
    BY <1>1, <2>1, <2>9, <2>10, <2>11, EmitInv
  <2>13. {force', intrunc', lost'} \subseteq BOOLEAN
    BY <2>12, <2>2, <1>2, Zenon DEF TypeOK
  <2>14. TypeOK'
    BY <2>1, <2>11, <2>12, <2>13, <1>1 DEF TypeOK
  <2> QED BY <2>12, <2>14
<1>9. CASE ~ HasNewline(head) /\ Len(ibuf) >= opt.cbs
  <2> DEFINE rec == Translate(head, opt.ctab)
             t == IF rest = << >> \/ rest[1] # NL THEN st.trunc + 1 ELSE st.trunc
  <2>0. ~ (Len(ibuf) < opt.cbs)
    BY <1>3, <1>9, OptFacts
  <2>1. /\ ibuf' = AfterNewline(rest) /\ Emit(rec)
        /\ st' = [st EXCEPT !.trunc = t]
    BY <2>0, <1>9 DEF BlockRecord, head, rest
  <2>2. intrunc' = ~ HasNewline(rest)
    BY <2>0, <1>9, Zenon DEF BlockRecord, head, rest
  <2>3. rest \in Seq(Byte) /\ Len(rest) = Len(ibuf) - opt.cbs
    BY <1>3, <1>9, DropProp, OptFacts
  <2>4. rec \in Seq(Byte) /\ Len(rec) <= opt.cbs + 1
    <3> HIDE DEF head
    <3>1. rec \in Seq(Byte) /\ Len(rec) = Len(head)
      BY <1>4, TranslateProp, OptFacts
    <3> QED BY <3>1, <1>5, OptFacts
  <2>5. t \in Nat
    <3>1. st.trunc \in Nat
      BY DEF TypeOK
    <3> QED BY <3>1
  <2>6. st' \in [in_full : Nat, in_part : Nat, out_full : Nat,
                 out_part : Nat, trunc : Nat, swab : Nat, bytes : Nat]
    <3> HIDE DEF t
    <3> QED BY <2>1, <2>5 DEF TypeOK
  <2>7. ibuf' \in Seq(Byte) /\ Len(ibuf') <= Len(ibuf)
    <3> HIDE DEF rest
    <3>1. AfterNewline(rest) \in Seq(Byte) /\ Len(AfterNewline(rest)) <= Len(rest)
          /\ Len(AfterNewline(rest)) \in Nat
      BY <2>3, AfterNewlineProp, LenProperties
    <3> QED BY <3>1, <2>1, <2>3, <1>3, OptFacts
  <2> HIDE DEF rec, rest, head, t
  <2>8. /\ obuf' \in Seq(Byte \cup {Stale})
        /\ n' \in Nat /\ cnt' \in Nat /\ {force'} \subseteq BOOLEAN
        /\ pc' \in Pcs /\ ret' \in {"in", "rec", "fini"}
        /\ Place' /\ HeldBack' /\ BuffersFit'
    BY <1>1, <2>1, <2>4, <2>7, EmitInv
  <2>9. {force', intrunc', lost'} \subseteq BOOLEAN
    BY <2>8, <2>2, <1>2, Zenon DEF TypeOK, HasNewline
  <2>10. TypeOK'
    BY <2>6, <2>7, <2>8, <2>9, <1>1 DEF TypeOK
  <2> QED BY <2>8, <2>10
<1>10. Len(ibuf) < opt.cbs \/ Len(ibuf) >= opt.cbs
  BY <1>3, OptFacts
<1> QED BY <1>7, <1>8, <1>9, <1>10

-----------------------------------------------------------------------------
(* The close routines and dd_out. *)
LEMMA DefCloseInv == ASSUME IInv, DefClose PROVE IInv'
<1> USE DEF IInv
<1>1. /\ pc = "close" /\ Cfunc = "def" /\ opt' = opt /\ past' = past
      /\ ibuf' = ibuf /\ pc' = "flush" /\ (obuf' = ibuf \/ obuf' = obuf)
  BY DEF DefClose
<1>2. obuf' \in Seq(Byte) /\ obuf' \in Seq(Byte \cup {Stale})
  BY <1>1, SeqMonotonic DEF TypeOK, Place
<1>3. TypeOK'
  <2>1. {force', intrunc', lost'} \subseteq BOOLEAN
    BY Zenon DEF DefClose, TypeOK, inVars, outVars
  <2> QED BY <1>1, <1>2, <2>1 DEF DefClose, TypeOK, Pcs, inVars, outVars
<1>4. Place' /\ HeldBack'
  BY <1>1, <1>2, OptSame DEF Place, HeldBack
<1>5. BuffersFit'
  BY <1>1, OptSame, OptFacts, RoomFacts, LenFacts DEF BuffersFit
<1> QED BY <1>3, <1>4, <1>5

LEMMA BlockCloseInv == ASSUME IInv, BlockClose PROVE IInv'
<1> USE DEF IInv
<1>1. /\ pc = "close" /\ Cfunc = "block" /\ opt' = opt
      /\ ibuf' = ibuf /\ pc' = "flush"
  BY DEF BlockClose
<1>2. /\ obuf' \in Seq(Byte \cup {Stale}) /\ past' \in Nat
      /\ Len(obuf') <= OutRoom
      /\ st' \in [in_full : Nat, in_part : Nat, out_full : Nat,
                   out_part : Nat, trunc : Nat, swab : Nat, bytes : Nat]
  <2>1. CASE ibuf = << >>
    BY <2>1, <1>1 DEF BlockClose, TypeOK, BuffersFit
  <2>2. CASE ibuf # << >>
    <3> DEFINE rec == PadTo(ibuf, opt.cbs, Blank)
    <3>1. obuf' = obuf \o rec /\ past' = opt.cbs
          /\ st' = [st EXCEPT !.trunc = @ + 1]
      BY <2>2 DEF BlockClose
    <3>2. Len(ibuf) < opt.cbs /\ Len(obuf) < opt.obs
          /\ Len(ibuf) \in Nat /\ Len(obuf) \in Nat
      BY <1>1, LenFacts DEF HeldBack
    <3>3. rec \in Seq(Byte) /\ Len(rec) = opt.cbs
      <4>1. ibuf \in Seq(Byte) /\ Blank \in Byte /\ opt.cbs \in Nat
        BY OptFacts DEF TypeOK
      <4> QED BY <3>2, <4>1, PadToProp DEF Greater
    <3> HIDE DEF rec
    <3>4. rec \in Seq(Byte \cup {Stale}) /\ obuf \in Seq(Byte \cup {Stale})
      BY <3>3, SeqMonotonic DEF TypeOK
    <3>5. obuf' \in Seq(Byte \cup {Stale}) /\ Len(obuf') = Len(obuf) + opt.cbs
      BY <3>1, <3>3, <3>4, JoinProp
    <3>6. Len(obuf') <= OutRoom
      BY <3>2, <3>5, <1>1, RoomFacts, OptFacts
    <3>7. st' \in [in_full : Nat, in_part : Nat, out_full : Nat,
                   out_part : Nat, trunc : Nat, swab : Nat, bytes : Nat]
      <4>1. st.trunc \in Nat
        BY DEF TypeOK
      <4>2. st.trunc + 1 \in Nat
        BY <4>1
      <4> QED BY <3>1, <4>2 DEF TypeOK
    <3> QED BY <3>1, <3>5, <3>6, <3>7, OptFacts
  <2> QED BY <2>1, <2>2
<1>3. TypeOK'
  <2>1. {force', intrunc', lost'} \subseteq BOOLEAN
    BY Zenon DEF BlockClose, TypeOK, inVars, outVars
  <2> QED BY <1>1, <1>2, <2>1 DEF BlockClose, TypeOK, Pcs, inVars, outVars
<1>4. Place' /\ HeldBack'
  BY <1>1, OptSame DEF Place, HeldBack
<1>5. BuffersFit'
  BY <1>1, <1>2, OptSame DEF BuffersFit
<1> QED BY <1>3, <1>4, <1>5

LEMMA UnblockCloseInv == ASSUME IInv, UnblockClose PROVE IInv'
<1> USE DEF IInv
<1>1. /\ pc = "close" /\ Cfunc = "unblock" /\ opt' = opt /\ past' = past
      /\ ibuf' = ibuf /\ pc' = "flush"
  BY DEF UnblockClose
<1>2. obuf' \in Seq(Byte \cup {Stale}) /\ Len(obuf') <= OutRoom
  <2>1. CASE ibuf = << >>
    BY <2>1, <1>1 DEF UnblockClose, TypeOK, BuffersFit
  <2>2. CASE ibuf # << >>
    <3> DEFINE rec == Append(StripBlanks(ibuf), NL)
    <3>1. obuf' = obuf \o rec
      BY <2>2 DEF UnblockClose
    <3>2. Len(ibuf) < opt.cbs /\ Len(obuf) < opt.obs
          /\ Len(ibuf) \in Nat /\ Len(obuf) \in Nat
      BY <1>1, LenFacts DEF HeldBack
    <3>3. StripBlanks(ibuf) \in Seq(Byte) /\ Len(StripBlanks(ibuf)) <= Len(ibuf)
      BY StripBlanksProp DEF TypeOK
    <3>4. rec \in Seq(Byte) /\ Len(rec) <= opt.cbs /\ Len(rec) \in Nat
      BY <3>2, <3>3, AppendProperties, LenProperties, OptFacts
    <3> HIDE DEF rec
    <3>5. rec \in Seq(Byte \cup {Stale}) /\ obuf \in Seq(Byte \cup {Stale})
      BY <3>4, SeqMonotonic DEF TypeOK
    <3>6. obuf' \in Seq(Byte \cup {Stale}) /\ Len(obuf') = Len(obuf) + Len(rec)
      BY <3>1, <3>5, JoinProp
    <3> QED BY <3>2, <3>4, <3>6, <1>1, RoomFacts, OptFacts
  <2> QED BY <2>1, <2>2
<1>3. TypeOK'
  <2>1. {force', intrunc', lost'} \subseteq BOOLEAN
    BY Zenon DEF UnblockClose, TypeOK, inVars, outVars
  <2> QED BY <1>1, <1>2, <2>1 DEF UnblockClose, TypeOK, Pcs, inVars, outVars
<1>4. Place' /\ HeldBack'
  BY <1>1, OptSame DEF Place, HeldBack
<1>5. BuffersFit'
  BY <1>1, <1>2, OptSame DEF BuffersFit
<1> QED BY <1>3, <1>4, <1>5

(* osync completes a block; without block_close's record it adds no stale
   byte.                                                                    *)
LEMMA OsyncProp ==
  ASSUME TypeOK, Len(obuf) < opt.obs
  PROVE  /\ Osync \in Seq(Byte \cup {Stale}) /\ Len(Osync) = opt.obs
         /\ past = 0 /\ obuf \in Seq(Byte) => Osync \in Seq(Byte)
<1> DEFINE k == opt.obs - Len(obuf)
           e(i) == IF i \in Len(obuf) - past + 1 .. Len(obuf) - past + k
                   THEN PadByte
                   ELSE IF i <= Len(obuf) THEN obuf[i] ELSE Stale
<1>1. Osync = [i \in 1 .. opt.obs |-> e(i)]
  BY DEF Osync
<1>2. opt.obs \in Nat /\ Len(obuf) \in Nat /\ past \in Nat /\ PadByte \in Byte
  BY OptFacts, LenFacts DEF TypeOK
<1>3. \A i \in 1 .. opt.obs : e(i) \in Byte \cup {Stale}
  <2> TAKE i \in 1 .. opt.obs
  <2>1. i <= Len(obuf) => obuf[i] \in Byte \cup {Stale}
    <3>1. obuf \in Seq(Byte \cup {Stale})
      BY DEF TypeOK
    <3> QED BY <3>1, <1>2, ElementOfSeq
  <2> QED BY <2>1, <1>2
<1>4. past = 0 /\ obuf \in Seq(Byte) => \A i \in 1 .. opt.obs : e(i) \in Byte
  <2> HAVE past = 0 /\ obuf \in Seq(Byte)
  <2> TAKE i \in 1 .. opt.obs
  <2>1. i <= Len(obuf) => obuf[i] \in Byte
    BY <1>2, ElementOfSeq
  <2>2. ~ (i <= Len(obuf)) => i \in Len(obuf) - past + 1 .. Len(obuf) - past + k
    BY <1>2
  <2> QED BY <2>1, <2>2, <1>2
<1> HIDE DEF e, k
<1> QED BY <1>1, <1>2, <1>3, <1>4

LEMMA FlushInv == ASSUME IInv, Flush PROVE IInv'
<1> USE DEF IInv
<1>1. /\ pc = "flush" /\ opt' = opt /\ past' = past /\ ibuf' = ibuf
      /\ \/ obuf' = obuf
         \/ Len(obuf) < opt.obs /\ obuf' = Osync
  BY DEF Flush
<1>2. /\ obuf' \in Seq(Byte \cup {Stale}) /\ Len(obuf') <= OutRoom
      /\ Cfunc = "def" => past = 0 /\ obuf' \in Seq(Byte)
  <2>1. CASE obuf' = obuf
    BY <2>1 DEF TypeOK, BuffersFit, Place
  <2>2. CASE Len(obuf) < opt.obs /\ obuf' = Osync
    <3>1. /\ Osync \in Seq(Byte \cup {Stale}) /\ Len(Osync) = opt.obs
          /\ past = 0 /\ obuf \in Seq(Byte) => Osync \in Seq(Byte)
      BY <2>2, OsyncProp
    <3>2. opt.obs <= OutRoom
      BY OptFacts, RoomFacts
    <3> QED BY <2>2, <3>1, <3>2 DEF Place
  <2> QED BY <1>1, <2>1, <2>2
<1>3. /\ n' \in Nat /\ cnt' \in Nat /\ {force'} \subseteq BOOLEAN
      /\ ret' \in {"in", "rec", "fini"}
      /\ \/ pc' = "out" /\ ret' = "fini"
         \/ pc' = "fini"
  <2>1. CASE obuf # << >> \/ pending > 0
    <3>1. StartOut(TRUE, "fini")
      BY <2>1 DEF Flush
    <3> QED BY <3>1, <1>1, <1>2, StartOutProp
  <2>2. CASE ~ (obuf # << >> \/ pending > 0)
    <3>1. n' = n /\ cnt' = cnt /\ pc' = "fini" /\ ret' = ret
      BY <2>2 DEF Flush
    <3>2. {force'} \subseteq BOOLEAN
      BY <2>2, Zenon DEF Flush, TypeOK
    <3>3. n \in Nat /\ cnt \in Nat /\ ret \in {"in", "rec", "fini"}
      BY DEF TypeOK
    <3> QED BY <3>1, <3>2, <3>3, Zenon
  <2> QED BY <2>1, <2>2
<1>4. TypeOK'
  <2>1. {force', intrunc', lost'} \subseteq BOOLEAN
    BY <1>3, Zenon DEF Flush, TypeOK, inVars
  <2> QED BY <1>1, <1>2, <1>3, <2>1 DEF Flush, TypeOK, Pcs, inVars
<1>5. Place' /\ HeldBack'
  BY <1>1, <1>2, <1>3, OptSame DEF Place, HeldBack
<1>6. BuffersFit'
  BY <1>1, <1>2, <1>3, OptSame DEF BuffersFit
<1> QED BY <1>4, <1>5, <1>6

LEMMA FiniInv == ASSUME IInv, Fini PROVE IInv'
<1> USE DEF IInv
<1>1. file' \in Seq(Byte \cup {Stale})
  BY OptFacts, FtruncateProp DEF Fini, TypeOK
<1>2. TypeOK'
  <2>1. {force', intrunc', lost'} \subseteq BOOLEAN
    BY Zenon DEF Fini, TypeOK, inVars
  <2> QED BY <1>1, <2>1 DEF Fini, TypeOK, Pcs, inVars
<1>3. pc' = "done" /\ opt' = opt /\ ibuf' = ibuf /\ obuf' = obuf /\ past' = past
  BY DEF Fini
<1>4. Place' /\ HeldBack' /\ BuffersFit'
  BY <1>3, OptSame DEF Place, HeldBack, BuffersFit
<1> QED BY <1>2, <1>4

LEMMA AdvanceInv ==
  ASSUME IInv, pc = "out", opt' = opt, past' = past, ret' = ret,
         NEW nw \in Nat, Advance(nw)
  PROVE  /\ obuf' \in Seq(Byte \cup {Stale}) /\ ibuf' \in Seq(Byte)
         /\ n' \in Nat /\ cnt' \in Nat /\ pc' \in Pcs
         /\ st' \in [in_full : Nat, in_part : Nat, out_full : Nat,
                      out_part : Nat, trunc : Nat, swab : Nat, bytes : Nat]
         /\ Place' /\ HeldBack' /\ BuffersFit'
<1> USE DEF IInv
<1> DEFINE left == Drop(obuf, nw)
           back == cnt = nw /\ Len(left) < opt.obs
<1>1. /\ obuf' = left /\ pc' = (IF back THEN ret ELSE "out")
      /\ ibuf' = (IF back /\ Cfunc = "def" THEN left ELSE ibuf)
      /\ cnt' = (IF cnt > nw THEN cnt - nw ELSE opt.obs)
      /\ n' = (IF cnt > nw THEN n ELSE opt.obs)
  BY DEF Advance
<1>2. left \in Seq(Byte \cup {Stale})
      /\ Len(left) = IF nw <= Len(obuf) THEN Len(obuf) - nw ELSE 0
  BY DropProp DEF TypeOK
<1>3. Cfunc = "def" => left \in Seq(Byte)
  BY DropProp DEF Place
<1> HIDE DEF left
<1>4. Len(left) \in Nat /\ Len(left) <= Len(obuf) /\ Len(obuf) \in Nat
  BY <1>2, LenFacts
<1>5. ibuf' \in Seq(Byte)
  BY <1>1, <1>3 DEF TypeOK
<1>6. n' \in Nat /\ cnt' \in Nat /\ cnt' > 0
  <2>1. n \in Nat /\ cnt \in Nat
    BY DEF TypeOK
  <2> QED BY <2>1, <1>1, OptFacts
<1>7. st' \in [in_full : Nat, in_part : Nat, out_full : Nat,
               out_part : Nat, trunc : Nat, swab : Nat, bytes : Nat]
  <2> DEFINE full == nw = n /\ n = opt.obs
             f == IF full THEN st.out_full + 1 ELSE st.out_full
             p == IF full THEN st.out_part ELSE st.out_part + 1
  <2>1. f \in Nat /\ p \in Nat /\ st.bytes + nw \in Nat
    <3>1. st.out_full \in Nat /\ st.out_part \in Nat /\ st.bytes \in Nat
      BY DEF TypeOK
    <3> QED BY <3>1
  <2>2. st' = [st EXCEPT !.bytes = st.bytes + nw, !.out_full = f, !.out_part = p]
    BY DEF Advance
  <2> HIDE DEF f, p
  <2> QED BY <2>1, <2>2 DEF TypeOK
<1>8. pc' \in Pcs /\ (back \/ pc' = "out")
  BY <1>1 DEF TypeOK, Pcs
<1>9. Place'
  <2>1. CASE back
    BY <2>1, <1>1, <1>3, <1>6, OptSame DEF Place, TypeOK
  <2>2. CASE ~ back
    BY <2>2, <1>1, <1>3, <1>6, OptSame DEF Place
  <2> QED BY <2>1, <2>2
<1>10. HeldBack'
  <2>1. CASE back
    BY <2>1, <1>1, OptSame DEF HeldBack, Place, TypeOK
  <2>2. CASE ~ back
    BY <2>2, <1>1, OptSame DEF HeldBack
  <2> QED BY <2>1, <2>2
<1>11. BuffersFit'
  <2>1. Len(obuf') <= OutRoom
    BY <1>1, <1>4, OptFacts, RoomFacts DEF BuffersFit
  <2>2. CASE back /\ Cfunc = "def"
    <3>1. ibuf' = left /\ Len(left) < opt.obs
      BY <2>2, <1>1
    <3>2. Len(left) + opt.ibs <= InRoom /\ Len(left) <= InRoom
      BY <3>1, <2>2, <1>4, OptFacts, RoomFacts
    <3> QED BY <3>1, <3>2, <2>1, OptSame DEF BuffersFit
  <2>3. CASE ~ (back /\ Cfunc = "def")
    <3>1. ibuf' = ibuf /\ pc' \notin {"in", "read"}
      BY <2>3, <1>1 DEF Place, TypeOK
    <3> QED BY <3>1, <2>1, OptSame DEF BuffersFit
  <2> QED BY <2>2, <2>3
<1> QED BY <1>1, <1>2, <1>5, <1>6, <1>7, <1>8, <1>9, <1>10, <1>11

LEMMA SkipHoleInv == ASSUME IInv, SkipHole PROVE IInv'
<1> USE DEF IInv
<1>1. /\ pc = "out" /\ opt' = opt /\ past' = past /\ ret' = ret /\ Advance(cnt)
      /\ pending' = pending + cnt
  BY DEF SkipHole
<1>2. cnt \in Nat /\ pending' \in Nat
  <2>1. cnt \in Nat /\ pending \in Nat
    BY DEF TypeOK
  <2> QED BY <2>1, <1>1
<1>3. /\ obuf' \in Seq(Byte \cup {Stale}) /\ ibuf' \in Seq(Byte)
      /\ n' \in Nat /\ cnt' \in Nat /\ pc' \in Pcs
      /\ st' \in [in_full : Nat, in_part : Nat, out_full : Nat,
                   out_part : Nat, trunc : Nat, swab : Nat, bytes : Nat]
      /\ Place' /\ HeldBack' /\ BuffersFit'
  BY <1>1, <1>2, AdvanceInv
<1>4. {force', intrunc', lost'} \subseteq BOOLEAN
  BY Zenon DEF SkipHole, TypeOK, inVars
<1>5. TypeOK'
  BY <1>1, <1>2, <1>3, <1>4 DEF SkipHole, TypeOK, inVars
<1> QED BY <1>3, <1>5

LEMMA WriteInv == ASSUME IInv, Write PROVE IInv'
<1> USE DEF IInv
<1>1. PICK nw \in 1 .. cnt :
        /\ file' = WriteAt(file, pos + pending, Take(obuf, nw))
        /\ pos' = pos + pending + nw
        /\ Advance(nw)
  BY DEF Write
<1>2. /\ pc = "out" /\ opt' = opt /\ past' = past /\ ret' = ret
      /\ pending' = 0 /\ seek_offset' = 0
  BY DEF Write
<1>3. nw \in Nat /\ pos' \in Nat /\ pos + pending \in Nat
  <2>1. cnt \in Nat /\ pos \in Nat /\ pending \in Nat
    BY DEF TypeOK
  <2>2. nw \in Nat
    BY <2>1
  <2> QED BY <2>1, <2>2, <1>1
<1>4. file' \in Seq(Byte \cup {Stale})
  <2>1. Take(obuf, nw) \in Seq(Byte \cup {Stale})
    BY <1>3, TakeProp DEF TypeOK
  <2>2. NUL \in Byte \cup {Stale} /\ file \in Seq(Byte \cup {Stale})
    BY OptFacts DEF TypeOK
  <2> QED BY <1>1, <1>3, <2>1, <2>2, WriteAtProp
<1>5. /\ obuf' \in Seq(Byte \cup {Stale}) /\ ibuf' \in Seq(Byte)
      /\ n' \in Nat /\ cnt' \in Nat /\ pc' \in Pcs
      /\ st' \in [in_full : Nat, in_part : Nat, out_full : Nat,
                   out_part : Nat, trunc : Nat, swab : Nat, bytes : Nat]
      /\ Place' /\ HeldBack' /\ BuffersFit'
  BY <1>1, <1>2, <1>3, AdvanceInv
<1>6. {force', intrunc', lost'} \subseteq BOOLEAN
  BY Zenon DEF Write, TypeOK, inVars
<1>7. TypeOK'
  BY <1>2, <1>3, <1>4, <1>5, <1>6 DEF Write, TypeOK, inVars
<1> QED BY <1>5, <1>7

LEMMA SeekOnlyInv == ASSUME IInv, SeekOnly PROVE IInv'
<1> USE DEF IInv
<1>1. /\ pc = "out" /\ pc' = "fini" /\ opt' = opt /\ past' = past
      /\ ret' = ret /\ ibuf' = ibuf /\ obuf' = obuf
  BY DEF SeekOnly, Place
<1>2. TypeOK'
  <2>1. {force', intrunc', lost'} \subseteq BOOLEAN
    BY Zenon DEF SeekOnly, TypeOK, inVars
  <2>2. pos + pending \in Nat
    <3>1. pos \in Nat /\ pending \in Nat
      BY DEF TypeOK
    <3> QED BY <3>1
  <2> QED BY <1>1, <2>1, <2>2 DEF SeekOnly, TypeOK, Pcs, inVars
<1>3. Place' /\ HeldBack' /\ BuffersFit'
  BY <1>1, OptSame DEF Place, HeldBack, BuffersFit
<1> QED BY <1>2, <1>3

LEMMA WriteErrorInv == ASSUME IInv, WriteError PROVE IInv'
<1> USE DEF IInv
<1>1. /\ pc' = "failed" /\ opt' = opt /\ past' = past /\ ibuf' = ibuf
      /\ obuf' = obuf
  BY DEF WriteError
<1>2. TypeOK'
  <2>1. {force', intrunc', lost'} \subseteq BOOLEAN
    BY Zenon DEF WriteError, TypeOK, inVars, outVars
  <2> QED BY <1>1, <2>1 DEF WriteError, TypeOK, Pcs, inVars, outVars
<1>3. Place' /\ HeldBack' /\ BuffersFit'
  BY <1>1, OptSame DEF Place, HeldBack, BuffersFit
<1> QED BY <1>2, <1>3

-----------------------------------------------------------------------------
LEMMA NextInv == ASSUME IInv, [Next]_vars PROVE IInv'
<1>1. CASE Setup BY <1>1, SetupInv
<1>2. CASE StartBlock BY <1>2, StartBlockInv
<1>3. CASE Read BY <1>3, ReadInv
<1>4. CASE ReadEof BY <1>4, ReadEofInv
<1>5. CASE ReadError BY <1>5, ReadErrorInv
<1>6. CASE Convert
  BY <1>6, DefInv, BlockStartInv, BlockRecordInv, UnblockRecordInv DEF Convert
<1>7. CASE Close
  BY <1>7, DefCloseInv, BlockCloseInv, UnblockCloseInv, FlushInv, FiniInv DEF Close
<1>8. CASE Output
  BY <1>8, SkipHoleInv, WriteInv, SeekOnlyInv, WriteErrorInv DEF Output
<1>9. CASE UNCHANGED vars BY <1>9, StutterInv
<1> QED
  BY <1>1, <1>2, <1>3, <1>4, <1>5, <1>6, <1>7, <1>8, <1>9 DEF Next

(* The strengthened invariant holds of every run of dd. *)
THEOREM Invariance == Spec => []IInv
BY InitInv, NextInv, PTL DEF Spec

(* Every variable of dd keeps its type: in particular only the bytes of the
   input, the pad bytes and stale bytes of the output buffer reach a file.  *)
THEOREM TypeCorrect == Spec => []TypeOK
<1>1. IInv => TypeOK
  BY DEF IInv
<1> QED BY <1>1, Invariance, PTL

(* No read(2) and no record overruns the buffers that setup() allocates,
   whatever the block sizes and wherever the system calls fall short.       *)
THEOREM NoOverrun == Spec => []BuffersFit
<1>1. IInv => BuffersFit
  BY DEF IInv
<1> QED BY <1>1, Invariance, PTL

(* dd never holds back an output block it could write, nor a record it could
   convert, when it goes back to read(2).                                   *)
THEOREM HoldsLittle == Spec => []HeldBack
<1>1. IInv => HeldBack
  BY DEF IInv
<1> QED BY <1>1, Invariance, PTL
=============================================================================
