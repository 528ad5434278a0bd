------------------------------- MODULE Zopen -------------------------------
(***************************************************************************)
(* The streams of compress(1): the writer of zopen.c, its reader, and the  *)
(* reader of gzip (zuncompress.c), each as a record z that a call of       *)
(* zwrite, zread or zclose takes to the next.                              *)
(*                                                                         *)
(* The sizes are scaled: a byte has Width bits, so the codes of single     *)
(* bytes are 0 .. 2^Width - 1, CLEAR comes next, and a buffer of n_bits    *)
(* bytes holds Width codes of n_bits.  The two arrays that hold the table  *)
(* are a sequence of what its codes stand for, <<prefix, byte>>, in the    *)
(* order of the codes; the hash that finds one is left out.                *)
(***************************************************************************)
EXTENDS Integers, Sequences, SequencesExt

CONSTANTS
  Width,      \* bits of a byte (8)
  BITS,       \* the widest codes (16)
  LeastBits,  \* the least limit that a reader takes (12)
  CHECK_GAP,  \* bytes between two looks at the ratio (10000)
  Shift,      \* fractional bits of the ratio (8)
  InMax       \* bytes read from which on the shift would overflow

ASSUME ZopenAssumption ==
  /\ Width \in Nat \ {0, 1} /\ BITS \in Nat /\ LeastBits \in Nat
  /\ Width + 1 < LeastBits /\ LeastBits <= BITS
  /\ CHECK_GAP \in Nat \ {0} /\ Shift \in Nat /\ InMax \in Nat

INIT_BITS  == Width + 1
MAXCODE(n) == 2^n - 1
CLEAR      == 2^Width
FIRST      == CLEAR + 1
Magic      == <<31, 157>>
Block      == 128                      \* BLOCK_MASK
Bit(v, k)  == (v \div 2^k) % 2

(* The state after zopen: BITS when no limit is given.  file: what the writer
   has put out; src, pre: what the reader has yet to read; res: what zread
   gave, fail that it returned -1                                          *)
New(bits, block) ==
  [state |-> "start", maxbits |-> IF bits = 0 THEN BITS ELSE bits, block |-> block,
   n |-> 0, maxcode |-> 0, clear |-> FALSE, table |-> <<>>,
   ratio |-> 0, checkpoint |-> CHECK_GAP, in |-> 1, out |-> 0,
   offset |-> 0, buf |-> [k \in 1..(BITS * Width) |-> 0], ent |-> 0, file |-> <<>>,
   pre |-> <<>>, src |-> <<>>, size |-> 0, code |-> 0, old |-> -1, fin |-> 0, incode |-> 0,
   stack |-> <<>>, res |-> <<>>, fail |-> FALSE]

(* free_ent, maxmaxcode *)
Base(z) == IF z.block THEN FIRST ELSE CLEAR
Free(z) == Base(z) + Len(z.table)
Most(z) == 2^z.maxbits

(* Codes get one bit more, or the first number of bits again *)
Widened(z) ==
  [z EXCEPT !.n = @ + 1,
            !.maxcode = IF z.n + 1 = z.maxbits THEN Most(z) ELSE MAXCODE(z.n + 1)]
Narrowed(z) == [z EXCEPT !.n = INIT_BITS, !.maxcode = MAXCODE(INIT_BITS), !.clear = FALSE]

---------------------------------------------------------------------------
(* Writing                                                                 *)

(* Bits go into bytes from the lowest on. *)
Value(bits) == FoldRight(LAMBDA b, v : b + 2 * v, bits, 0)
Bytes(buf, many) ==
  [j \in 1..many |-> Value([k \in 1..Width |-> buf[(j - 1) * Width + k]])]
Up8(k) == ((k + Width - 1) \div Width) * Width

(* output: the code goes in at offset; what is left of its last byte is
   zero, and the bytes after keep what they held *)
Packed(z, c) ==
  [z EXCEPT !.offset = @ + z.n,
            !.buf = [k \in DOMAIN z.buf |->
                       IF k <= z.offset \/ k > Up8(z.offset + z.n) THEN z.buf[k]
                       ELSE Bit(c, k - z.offset - 1)]]
Flush(z, many) ==
  [z EXCEPT !.file = @ \o Bytes(z.buf, many), !.out = @ + many, !.offset = 0]
FlushFull(z) == IF z.offset = z.n * Width THEN Flush(z, z.n) ELSE z
(* The whole buffer is put out before the size of the codes changes. *)
FlushAny(z)  == IF z.offset > 0 THEN Flush(z, z.n) ELSE z
Resized(z)   == IF z.clear THEN Narrowed(FlushAny(z)) ELSE Widened(FlushAny(z))
Fit(z)       == IF Free(z) > z.maxcode \/ z.clear THEN Resized(z) ELSE z
Output(z, c) == Fit(FlushFull(Packed(z, c)))
OutputEOF(z) == IF z.offset > 0 THEN Flush(z, Up8(z.offset) \div Width) ELSE z

(* cl_block: the table is given up when the ratio no longer gets better *)
Ratio(z) ==
  IF z.in <= InMax THEN (z.in * 2^Shift) \div z.out
  ELSE IF z.out < 2^Shift THEN 2147483647
  ELSE z.in \div (z.out \div 2^Shift)
ClBlock(z) ==
  IF Ratio(z) > z.ratio THEN [z EXCEPT !.checkpoint = z.in + CHECK_GAP, !.ratio = Ratio(z)]
  ELSE Output([z EXCEPT !.checkpoint = z.in + CHECK_GAP, !.ratio = 0, !.table = <<>>,
                        !.clear = TRUE], CLEAR)

(* zwrite: one byte more; the string read so far is put out when the table
   does not go on from it, and enters the table with the byte *)
Known(z, c) == {k \in DOMAIN z.table : z.table[k] = <<z.ent, c>>}
EnteredOneMore(z, old, c) ==
  IF Free(z) <= Most(z) THEN [z EXCEPT !.table = Append(@, <<old, c>>)] ELSE z
Entered(z, old, c) ==
  IF Free(z) < Most(z) THEN [z EXCEPT !.table = Append(@, <<old, c>>)]
  ELSE IF z.in >= z.checkpoint /\ z.block THEN ClBlock(z) ELSE z
Byte(z, c) ==
  IF Known(z, c) # {} THEN [z EXCEPT !.ent = Base(z) - 1 + CHOOSE k \in Known(z, c) : TRUE]
  ELSE Entered([Output(z, z.ent) EXCEPT !.ent = c], z.ent, c)
Counted(z, c) == Byte([z EXCEPT !.in = @ + 1], c)
Begun(z, c) ==
  [Narrowed(z) EXCEPT !.state = "middle", !.ent = c, !.out = 3,
     !.file = Magic \o <<z.maxbits + IF z.block THEN Block ELSE 0>>]
ZWrite(z, data) ==
  IF z.state = "middle" THEN FoldLeft(Counted, z, data)
  ELSE FoldLeft(Counted, Begun(z, Head(data)), Tail(data))

(* zclose: the last code.  When nothing was written, codes have no bits yet,
   and nothing is put out at all.                                          *)
ZClose(z) == IF z.state = "start" THEN z ELSE OutputEOF(Output(z, z.ent))

---------------------------------------------------------------------------
(* Reading                                                                 *)

(* fread, of what gzip has read before to know the format, and of the file *)
Piece(z, many) == SubSeq(z.pre \o z.src, 1, many)
Gone(z, many)  ==
  LET p == IF many < Len(z.pre) THEN many ELSE Len(z.pre) IN
  [z EXCEPT !.pre = SubSeq(@, p + 1, Len(@)), !.src = SubSeq(@, many - p + 1, Len(@))]
Held(z, many)  == IF many < Len(z.pre \o z.src) THEN many ELSE Len(z.pre \o z.src)

(* getcode: the next code, from a new buffer when this one is used up, when
   the codes get wider and after CLEAR; -1 at the end.  The first code of a
   buffer is taken without a look at how much there is.                    *)
Take(z) ==
  [z EXCEPT !.code = Value(SubSeq(z.buf, z.offset + 1, z.offset + z.n)), !.offset = @ + z.n]
Fill(z, many) ==
  IF many = 0 THEN [z EXCEPT !.size = 0, !.code = -1]
  ELSE Take([Gone(z, many) EXCEPT
               !.offset = 0, !.size = many * Width - (z.n - 1),
               !.buf = [k \in DOMAIN z.buf |->
                          IF k > many * Width THEN z.buf[k]
                          ELSE Bit(Piece(z, many)[((k - 1) \div Width) + 1], (k - 1) % Width)]])
Refill(z)  == Fill(z, Held(z, z.n))
Grown(z)   == IF Free(z) > z.maxcode THEN Widened(z) ELSE z
Cleared(z) == IF z.clear THEN Narrowed(z) ELSE z
GetCodeLate(z) ==
  IF z.clear \/ z.offset >= z.size \/ Free(z) > z.maxcode + 1 THEN Refill(Cleared(Grown(z)))
  ELSE Take(z)
GetCode(z) ==
  IF z.clear \/ z.offset >= z.size \/ Free(z) > z.maxcode THEN Refill(Cleared(Grown(z)))
  ELSE Take(z)

(* What a code stands for; the code that is not in the table yet stands for
   the string before it and the first byte of that again                   *)
RECURSIVE String(_, _)
String(z, c) ==
  IF c < CLEAR THEN <<c>>
  ELSE Append(String(z, z.table[c - Base(z) + 1][1]), z.table[c - Base(z) + 1][2])
Expand(z) == IF z.code = Free(z) THEN Append(String(z, z.old), z.fin) ELSE String(z, z.code)
Decoded(z, s) == [z EXCEPT !.stack = s, !.fin = Head(s), !.incode = z.code]

(* The new entry, once the string before has been handed out *)
Learned(z) ==
  [z EXCEPT !.stack = <<>>, !.old = z.incode,
            !.table = IF Free(z) < Most(z) /\ z.old # -1 THEN Append(@, <<z.old, z.fin>>) ELSE @]

RECURSIVE Deliver(_, _)
RECURSIVE Decode(_, _)
(* The loop of zread, at its label and at its head.  num: how many bytes are
   still asked for; a string that does not fit waits for the next call.    *)
Deliver(z, num) ==
  IF Len(z.stack) > num
  THEN [z EXCEPT !.res = @ \o SubSeq(z.stack, 1, num),
                 !.stack = SubSeq(@, num + 1, Len(@))]
  ELSE Decode(Learned([z EXCEPT !.res = @ \o z.stack]), num - Len(z.stack))
Coded(z, num) ==
  IF z.code = -1 THEN [z EXCEPT !.state = "eof"]
  ELSE IF z.code = CLEAR /\ z.block
       THEN Decode([z EXCEPT !.clear = TRUE, !.table = <<>>, !.old = -1], num)
  ELSE IF z.code > Free(z) \/ (z.code = Free(z) /\ z.old = -1)
       THEN [z EXCEPT !.fail = TRUE, !.res = <<>>]
  ELSE Deliver(Decoded(z, Expand(z)), num)
Decode(z, num) == Coded(GetCode(z), num)

(* The header; then compress takes the first code for a byte, gzip for a code
   like all others *)
Headed(z) ==
  LET h == Piece(z, Held(z, 3)) IN
  IF Len(h) < 3 \/ SubSeq(h, 1, 2) # Magic THEN [z EXCEPT !.fail = TRUE]
  ELSE LET bits == h[3] % Block IN
       IF bits > BITS \/ bits < LeastBits THEN [z EXCEPT !.fail = TRUE]
       ELSE [Narrowed(Gone(z, 3)) EXCEPT !.maxbits = bits, !.block = h[3] >= Block]
FirstCode(z, num) ==
  IF z.code = -1 THEN z
  ELSE Decode([z EXCEPT !.res = <<z.code % CLEAR>>, !.fin = z.code % CLEAR, !.old = z.code], num - 1)
Started(z, num, gzip) ==
  IF z.fail THEN z ELSE IF gzip THEN Decode(z, num) ELSE FirstCode(GetCode(z), num)
ZReadOn(z, num, gzip) ==
  CASE z.state = "start"  -> Started(Headed([z EXCEPT !.state = "middle"]), num, gzip)
    [] z.state = "middle" -> Deliver(z, num)
    [] OTHER              -> z
ZRead(z, num, gzip) == ZReadOn([z EXCEPT !.res = <<>>], num, gzip)
=============================================================================
