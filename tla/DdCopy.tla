------------------------------- MODULE DdCopy -------------------------------
(***************************************************************************)
(* The copying engine of dd(1): dd_in, dd_out, dd_close of dd/dd.c and the *)
(* three conversion routines def, block and unblock of dd/conv.c with      *)
(* their close routines.                                                   *)
(*                                                                         *)
(* One process runs, but every read may be short or fail and every write   *)
(* may be short or fail, so one run of dd is a walk through the block      *)
(* boundaries of three streams (input blocks, records, output blocks)      *)
(* that the kernel shifts against each other.  A step of the model is one  *)
(* system call, or one record moved between the two buffers.               *)
(*                                                                         *)
(* Bytes are values; only NUL, the blank and the newline have a role.      *)
(*   ibuf    the bytes from in.db up to in.dbp (in.dbcnt of them)          *)
(*   rd      the bytes of the block being read (in.dbrcnt of them)         *)
(*   obuf    the bytes of out.db still to be written                       *)
(*   past    how many of them lie at or after out.dbp (0 but for           *)
(*           block_close, which counts a record without moving out.dbp)    *)
(*   n, cnt, force, ret   the locals of dd_out and where it returns to     *)
(*   file, pos            the output file and its descriptor's offset      *)
(* taken and lost are history: the bytes handed to the conversion and      *)
(* whether a block was omitted after a read error.                         *)
(***************************************************************************)
EXTENDS Naturals, Sequences

CONSTANTS
  Byte,       \* the byte values that occur
  NUL, SP, NL,\* the three bytes the code looks for
  Stale,      \* whatever a buffer holds where nothing was stored
  Options,    \* the operands dd may be started with (see OptionType)
  Inputs(_),  \* what the input may hold after skip=, for each of them
  OldFiles(_),\* what the output file may hold before dd opens it
  MaxErrors   \* bound: how many reads may fail with an I/O error

Flag == {"BS", "BLOCK", "UNBLOCK", "COUNT", "FILL", "IF", "IFULLBLOCK",
         "NOERROR", "NOTRUNC", "OF", "OSYNC", "SEEK", "SPARSE", "SWAB", "SYNC"}

ASSUME ByteAssumption ==
  /\ {NUL, SP, NL} \subseteq Byte
  /\ Stale \notin Byte
  /\ NUL # SP /\ NUL # NL /\ SP # NL
  /\ MaxErrors \in Nat

(* The state that jcl() leaves behind: count is the operand of count=,
   cseek is out.offset, iseek tells whether the input has ISSEEK, ctab is
   the translation table (the identity when the C pointer is NULL).         *)
OptionType ==
  [flags : SUBSET Flag, ibs : Nat \ {0}, obs : Nat \ {0}, cbs : Nat,
   count : Nat, cseek : Nat, iseek : BOOLEAN, fill : Byte,
   ctab : [Byte -> Byte]]

ASSUME OptionAssumption ==
  /\ \A o \in Options :
       /\ o \in OptionType
       /\ {"BLOCK", "UNBLOCK"} \cap o.flags # {} => o.cbs > 0
       /\ ~ {"BLOCK", "UNBLOCK"} \subseteq o.flags
       /\ ~ {"SYNC", "IFULLBLOCK"} \subseteq o.flags
       /\ "BS" \in o.flags =>
            /\ {"BLOCK", "UNBLOCK", "SWAB", "OSYNC"} \cap o.flags = {}
            /\ o.ibs = o.obs
  /\ \A o \in Options : Inputs(o) \subseteq Seq(Byte) /\ OldFiles(o) \subseteq Seq(Byte)

VARIABLES opt, pc, src, ibuf, rd, obuf, past, n, cnt, force, ret,
          pending, seek_offset, file, pos, st, intrunc, errs, taken, lost

vars == <<opt, pc, src, ibuf, rd, obuf, past, n, cnt, force, ret, pending,
          seek_offset, file, pos, st, intrunc, errs, taken, lost>>

inVars   == <<src, rd, errs, taken, lost>>
outVars  == <<n, cnt, force, ret, pending, seek_offset, file, pos>>

-----------------------------------------------------------------------------
(* Sequences of bytes. *)

Lesser(a, b)  == IF a <= b THEN a ELSE b
Greater(a, b) == IF a >= b THEN a ELSE b
Take(s, k)    == SubSeq(s, 1, Lesser(k, Len(s)))
Drop(s, k)    == SubSeq(s, k + 1, Len(s))
Rep(b, k)     == [i \in 1 .. k |-> b]
PadTo(s, k, b) == s \o Rep(b, IF k > Len(s) THEN k - Len(s) ELSE 0)
Translate(s, t) == [i \in 1 .. Len(s) |-> t[s[i]]]

(* The bytes after the first newline; nothing when there is none. *)
AfterNewline(s) ==
  LET nls == {i \in 1 .. Len(s) : s[i] = NL}
  IN  IF nls = {} THEN << >>
      ELSE Drop(s, CHOOSE i \in nls : \A j \in nls : i <= j)
HasNewline(s) == \E i \in 1 .. Len(s) : s[i] = NL

(* What is left of s before the blanks at its end. *)
StripBlanks(s) ==
  Take(s, CHOOSE k \in 0 .. Len(s) :
            /\ \A i \in k + 1 .. Len(s) : s[i] = SP
            /\ k > 0 => s[k] # SP)

(* swapbytes on the even part of a block. *)
SwapPairs(s) ==
  [i \in 1 .. Len(s) |-> IF i = Len(s) /\ i % 2 = 1 THEN s[i]
                         ELSE IF i % 2 = 1 THEN s[i + 1] ELSE s[i - 1]]

(* A file after write(2) of d at offset p, and after ftruncate(2) to k. *)
WriteAt(f, p, d) ==
  [i \in 1 .. Greater(Len(f), p + Len(d)) |->
     IF i \in p + 1 .. p + Len(d) THEN d[i - p]
     ELSE IF i <= Len(f) THEN f[i] ELSE NUL]
Ftruncate(f, k) == [i \in 1 .. k |-> IF i <= Len(f) THEN f[i] ELSE NUL]

-----------------------------------------------------------------------------
Has(f)   == f \in opt.flags
Cfunc    == IF Has("BLOCK") THEN "block" ELSE IF Has("UNBLOCK") THEN "unblock"
            ELSE "def"
Blank    == opt.ctab[SP]
PadByteUnset == Stale      \* mutant: the buffer is not filled before a read
PadByte  == IF Has("FILL") THEN opt.fill
            ELSE IF Cfunc # "def" THEN SP ELSE NUL
(* The path without buffering is taken only when no other operand at all
   set a flag: if=, of= and count= do set one.                              *)
BsPath   == opt.flags \ {"NOERROR", "NOTRUNC", "SYNC"} = {"BS"}
(* Mutant: room for the larger block alone. *)
InRoomLarger == IF Cfunc = "def" THEN Greater(opt.obs, opt.ibs)
                ELSE Greater(opt.ibs, opt.cbs)
(* Room in the two buffers that setup() allocates. *)
InRoom   == IF Cfunc = "def" THEN opt.obs + opt.ibs - 1
            ELSE Greater(opt.ibs, opt.cbs) + opt.cbs
OutRoom  == IF Cfunc = "def" THEN InRoom ELSE opt.obs + opt.cbs

Pcs == {"setup", "in", "read", "conv", "rec", "out", "close", "flush", "fini",
        "done", "failed"}

TypeOK ==
  /\ opt \in Options
  /\ pc \in Pcs
  /\ ret \in {"in", "rec", "fini"}
  /\ src \in Seq(Byte) /\ rd \in Seq(Byte) /\ ibuf \in Seq(Byte)
  /\ taken \in Seq(Byte)
  /\ obuf \in Seq(Byte \cup {Stale})
  /\ file \in Seq(Byte \cup {Stale})
  /\ {past, n, cnt, pending, seek_offset, pos, errs} \subseteq Nat
  /\ {force, intrunc, lost} \subseteq BOOLEAN
  /\ st \in [in_full : Nat, in_part : Nat, out_full : Nat, out_part : Nat,
             trunc : Nat, swab : Nat, bytes : Nat]

(* No byte is stored past the end of a buffer: a whole input block fits
   behind what the input buffer holds when read(2) is called, the output
   buffer never holds more than its room (the comments of conv.c state the
   sizes; setup() allocates them).                                          *)
BuffersFit ==
  /\ pc \in {"in", "read"} => Len(ibuf) + opt.ibs <= InRoom
  /\ Len(ibuf) <= InRoom
  /\ Len(obuf) <= OutRoom

(* What dd holds back while it reads: less than an output block of finished
   output, and less than a record of input that is not yet converted (def
   has only one buffer, and less than an output block in it).               *)
HeldBack ==
  /\ pc \in {"setup", "in", "read", "close"} =>
       Len(ibuf) < IF Cfunc = "def" THEN opt.obs ELSE opt.cbs
  /\ pc \in {"setup", "in", "read", "conv", "rec", "close"}
       /\ Cfunc # "def" => Len(obuf) < opt.obs

Init ==
  /\ opt \in Options
  /\ src \in Inputs(opt)
  /\ file \in OldFiles(opt)
  /\ pc = "setup" /\ ret = "in"
  /\ ibuf = << >> /\ rd = << >> /\ obuf = << >> /\ taken = << >>
  /\ past = 0 /\ n = 0 /\ cnt = 0 /\ pending = 0 /\ seek_offset = 0
  /\ pos = 0 /\ errs = 0
  /\ force = FALSE /\ intrunc = FALSE /\ lost = FALSE
  /\ st = [in_full |-> 0, in_part |-> 0, out_full |-> 0, out_part |-> 0,
           trunc |-> 0, swab |-> 0, bytes |-> 0]

(* setup() opens the output of of= (O_TRUNC unless seek= or notrunc), seeks
   over the oseek blocks and cuts the file there when of= and seek= were
   given.  The output is a regular file: ISTRUNC and ISSEEK hold of it.     *)
Setup ==
  LET start == opt.cseek * opt.obs
      opened == IF Has("OF") /\ {"SEEK", "NOTRUNC"} \cap opt.flags = {}
                THEN << >> ELSE file
  IN  /\ pc = "setup"
      /\ pos' = start
      /\ file' = IF {"OF", "SEEK"} \subseteq opt.flags /\ ~ Has("NOTRUNC")
                 THEN Ftruncate(opened, start) ELSE opened
      /\ pc' = "in"
      /\ UNCHANGED <<opt, inVars, ibuf, obuf, past, n, cnt, force, ret,
                     pending, seek_offset, st, intrunc>>

(* dd_out(f): try the whole buffer first when forced, else one block. *)
StartOut(f, from) ==
  LET k == IF f THEN Len(obuf') ELSE opt.obs
  IN  /\ pc' = "out" /\ ret' = from
      /\ force' = f /\ n' = k /\ cnt' = k

-----------------------------------------------------------------------------
(* dd_in: the top of its loop, where count= is examined. *)
StartBlock ==
  /\ pc = "in"
  /\ rd' = << >>
  /\ pc' = IF Has("COUNT") /\ st.in_full + st.in_part >= opt.count
           THEN "close" ELSE "read"
  /\ UNCHANGED <<opt, src, errs, taken, lost, ibuf, obuf, past, outVars, st,
                 intrunc>>

(* The block b is complete (in.dbrcnt bytes): it goes straight out when
   the unbuffered path applies, otherwise swab, translation and cfunc.      *)
Accept(b) ==
  LET sw   == IF Has("SWAB") THEN SwapPairs(b) ELSE b
      conv == IF Cfunc = "block" THEN sw ELSE Translate(sw, opt.ctab)
  IN  IF BsPath
      THEN /\ obuf' = b /\ taken' = taken \o b
           /\ StartOut(TRUE, "in")
           /\ UNCHANGED <<ibuf>>
      ELSE /\ ibuf' = ibuf \o conv /\ taken' = taken \o conv
           /\ pc' = "conv"
           /\ UNCHANGED <<obuf, n, cnt, force, ret>>

Counted(full, odd) ==
  st' = [st EXCEPT !.in_full = IF full THEN @ + 1 ELSE @,
                   !.in_part = IF full THEN @ ELSE @ + 1,
                   !.swab    = IF odd /\ Has("SWAB") /\ ~ BsPath
                               THEN @ + 1 ELSE @]

(* A short block is read on instead of being accepted. *)
Refill(b) == Len(b) < opt.ibs /\ Has("IFULLBLOCK")

(* read(2) returns some bytes; with iflag=fullblock a short block is read
   on, without it a short block is accepted, with sync a padded one.        *)
Read ==
  /\ pc = "read" /\ src # << >>
  /\ \E k \in 1 .. Lesser(opt.ibs - Len(rd), Len(src)) :
       LET got == rd \o Take(src, k)
           b   == IF Has("SYNC") THEN PadTo(got, opt.ibs, PadByte) ELSE got
       IN  /\ src' = Drop(src, k)
           /\ IF Refill(b)
              THEN /\ rd' = got
                   /\ UNCHANGED <<pc, ibuf, obuf, taken, n, cnt, force, ret, st>>
              ELSE /\ rd' = b
                   /\ Counted(Len(b) = opt.ibs, Len(b) % 2 = 1)
                   /\ Accept(b)
  /\ UNCHANGED <<opt, errs, lost, past, pending, seek_offset, file, pos,
                 intrunc>>

(* Mutant: the end of the input is taken for a short block. *)
ReadEofRetry ==
  /\ pc = "read" /\ src = << >> /\ pc' = "in"
  /\ UNCHANGED <<opt, inVars, ibuf, obuf, past, outVars, st, intrunc>>

(* read(2) returns 0: the copy ends, or a short full-block is accepted. *)
ReadEof ==
  /\ pc = "read" /\ src = << >>
  /\ IF rd = << >>
     THEN /\ pc' = "close"
          /\ UNCHANGED <<ibuf, obuf, taken, n, cnt, force, ret, st>>
     ELSE /\ Counted(FALSE, Len(rd) % 2 = 1)
          /\ Accept(rd)
  /\ UNCHANGED <<opt, src, rd, errs, lost, past, pending, seek_offset, file,
                 pos, intrunc>>

(* read(2) fails: dd gives up unless noerror.  A seekable input is moved
   dbsz bytes on from where the descriptor stands; with sync the (filled)
   block takes its place, otherwise what was read of the block is dropped.  *)
ReadError ==
  /\ pc = "read" /\ src # << >> /\ errs < MaxErrors
  /\ errs' = errs + 1
  /\ IF ~ Has("NOERROR")
     THEN /\ pc' = "failed"
          /\ UNCHANGED <<src, lost, ibuf, obuf, taken, n, cnt, force, ret, st>>
     ELSE /\ src' = IF opt.iseek THEN Drop(src, Lesser(opt.ibs, Len(src)))
                    ELSE src
          /\ IF Has("SYNC")
             THEN /\ lost' = lost
                  /\ Counted(TRUE, opt.ibs % 2 = 1)
                  /\ Accept(Rep(PadByte, opt.ibs))
             ELSE /\ pc' = "in" /\ lost' = TRUE
                  /\ UNCHANGED <<ibuf, obuf, taken, n, cnt, force, ret, st>>
  /\ UNCHANGED <<opt, rd, past, pending, seek_offset, file, pos, intrunc>>

-----------------------------------------------------------------------------
(* def(): both streams share one buffer; write when obs bytes are there. *)
Def ==
  /\ pc = "conv" /\ Cfunc = "def"
  /\ obuf' = ibuf
  /\ IF Len(ibuf) >= opt.obs
     THEN StartOut(FALSE, "in")
     ELSE pc' = "in" /\ UNCHANGED <<n, cnt, force, ret>>
  /\ UNCHANGED <<opt, inVars, ibuf, past, pending, seek_offset, file, pos, st,
                 intrunc>>

(* block(): a record cut off in an earlier block is first thrown away up to
   its newline.                                                             *)
BlockStart ==
  /\ pc = "conv" /\ Cfunc = "block"
  /\ IF intrunc /\ ~ HasNewline(ibuf)
     THEN ibuf' = << >> /\ pc' = "in" /\ UNCHANGED intrunc
     ELSE /\ ibuf' = IF intrunc THEN AfterNewline(ibuf) ELSE ibuf
          /\ intrunc' = FALSE
          /\ pc' = "rec"
  /\ UNCHANGED <<opt, inVars, obuf, past, outVars, st>>

(* A record (its bytes already cut to cbs) joins the output buffer. *)
Emit(rec) ==
  /\ obuf' = obuf \o rec
  /\ IF Len(obuf') >= opt.obs
     THEN StartOut(FALSE, "rec")
     ELSE pc' = "rec" /\ UNCHANGED <<n, cnt, force, ret>>

(* block(): one turn of the record loop. *)
BlockRecord ==
  LET head == Take(ibuf, opt.cbs)
      line == SubSeq(ibuf, 1, Len(ibuf) - Len(AfterNewline(ibuf)) - 1)
      rest == Drop(ibuf, opt.cbs)
  IN  /\ pc = "rec" /\ Cfunc = "block"
      /\ \/ /\ ~ HasNewline(head) /\ Len(ibuf) < opt.cbs
            /\ pc' = "in"
            /\ UNCHANGED <<ibuf, obuf, n, cnt, force, ret, st, intrunc>>
         \/ /\ HasNewline(head)
            /\ ibuf' = AfterNewline(ibuf)
            /\ Emit(PadTo(Translate(line, opt.ctab), opt.cbs, Blank))
            /\ UNCHANGED <<st, intrunc>>
         \/ /\ ~ HasNewline(head) /\ Len(ibuf) >= opt.cbs
            /\ st' = [st EXCEPT !.trunc =
                        IF rest = << >> \/ rest[1] # NL THEN @ + 1 ELSE @]
            /\ ibuf' = AfterNewline(rest)
            /\ intrunc' = ~ HasNewline(rest)
            /\ Emit(Translate(head, opt.ctab))
      /\ UNCHANGED <<opt, inVars, past, pending, seek_offset, file, pos>>

(* unblock(): one fixed length record loses its blanks and gets a newline. *)
UnblockRecord ==
  /\ pc \in {"conv", "rec"} /\ Cfunc = "unblock"
  /\ IF Len(ibuf) >= opt.cbs
     THEN /\ ibuf' = Drop(ibuf, opt.cbs)
          /\ Emit(Append(StripBlanks(Take(ibuf, opt.cbs)), NL))
     ELSE /\ pc' = "in"
          /\ UNCHANGED <<ibuf, obuf, n, cnt, force, ret>>
  /\ UNCHANGED <<opt, inVars, past, pending, seek_offset, file, pos, st,
                 intrunc>>

-----------------------------------------------------------------------------
(* dd_close, first the close routine of the conversion. *)
DefClose ==
  /\ pc = "close" /\ Cfunc = "def"
  /\ obuf' = IF ibuf # << >> THEN ibuf ELSE obuf
  /\ pc' = "flush"
  /\ UNCHANGED <<opt, inVars, ibuf, past, outVars, st, intrunc>>

(* The last record is stored at out.dbp and counted, but out.dbp stays. *)
BlockClose ==
  /\ pc = "close" /\ Cfunc = "block"
  /\ IF ibuf = << >> THEN UNCHANGED <<obuf, past, st>>
     ELSE /\ st' = [st EXCEPT !.trunc = @ + 1]
          /\ obuf' = obuf \o PadTo(ibuf, opt.cbs, Blank)
          /\ past' = opt.cbs
  /\ pc' = "flush"
  /\ UNCHANGED <<opt, inVars, ibuf, outVars, intrunc>>

UnblockClose ==
  /\ pc = "close" /\ Cfunc = "unblock"
  /\ obuf' = IF ibuf = << >> THEN obuf
             ELSE obuf \o Append(StripBlanks(ibuf), NL)
  /\ pc' = "flush"
  /\ UNCHANGED <<opt, inVars, ibuf, past, outVars, st, intrunc>>

(* osync fills the rest of the last block starting at out.dbp. *)
Osync ==
  LET k == opt.obs - Len(obuf)
  IN  [i \in 1 .. opt.obs |->
         IF i \in Len(obuf) - past + 1 .. Len(obuf) - past + k THEN PadByte
         ELSE IF i <= Len(obuf) THEN obuf[i] ELSE Stale]

Flush ==
  /\ pc = "flush"
  /\ obuf' = IF Has("OSYNC") /\ obuf # << >> /\ Len(obuf) < opt.obs
             THEN Osync ELSE obuf
  /\ IF obuf # << >> \/ pending > 0
     THEN StartOut(TRUE, "fini")
     ELSE pc' = "fini" /\ UNCHANGED <<n, cnt, force, ret>>
  /\ UNCHANGED <<opt, inVars, ibuf, past, pending, seek_offset, file, pos, st,
                 intrunc>>

(* A file that ends in a hole gets its length from ftruncate. *)
Fini ==
  /\ pc = "fini"
  /\ file' = IF seek_offset > 0 THEN Ftruncate(file, seek_offset) ELSE file
  /\ pc' = "done"
  /\ UNCHANGED <<opt, inVars, ibuf, obuf, past, n, cnt, force, ret, pending,
                 seek_offset, pos, st, intrunc>>

-----------------------------------------------------------------------------
(* dd_out. *)

IsZeroFirst(s) == s # << >> /\ s[1] = NUL  \* mutant: one byte is compared
IsZero(s) == s # << >> /\ \A i \in 1 .. Len(s) : s[i] = NUL
Sparse    == Has("SPARSE") /\ IsZero(Take(obuf, cnt)) /\ ~ force

(* nw bytes of the block are dealt with: count them, and go on with the
   rest of the block, with another block, or back to the caller (def takes
   the left-over bytes as its input buffer).                                *)
Advance(nw) ==
  LET full == nw = n /\ n = opt.obs
      left == Drop(obuf, nw)
      back == cnt = nw /\ Len(left) < opt.obs
  IN  /\ obuf' = left
      /\ st' = [st EXCEPT !.bytes = @ + nw,
                          !.out_full = IF full THEN @ + 1 ELSE @,
                          !.out_part = IF full THEN @ ELSE @ + 1]
      /\ cnt' = IF cnt > nw THEN cnt - nw ELSE opt.obs
      /\ n' = IF cnt > nw THEN n ELSE opt.obs
      /\ pc' = IF back THEN ret ELSE "out"
      /\ ibuf' = IF back /\ Cfunc = "def" THEN left ELSE ibuf

(* An output block of NULs is remembered instead of written. *)
SkipHole ==
  /\ pc = "out" /\ Sparse
  /\ pending' = pending + cnt
  /\ Advance(cnt)
  /\ UNCHANGED <<opt, inVars, past, force, ret, seek_offset, file, pos,
                 intrunc>>

(* lseek over what is pending, then write(2), which may be short. *)
Write ==
  /\ pc = "out" /\ ~ Sparse /\ cnt > 0
  /\ \E nw \in 1 .. cnt :
       /\ file' = WriteAt(file, pos + pending, Take(obuf, nw))
       /\ pos' = pos + pending + nw
       /\ Advance(nw)
  /\ pending' = 0 /\ seek_offset' = 0
  /\ UNCHANGED <<opt, inVars, past, force, ret, intrunc>>

(* Nothing left to write but a hole at the end: only the seek is made. *)
SeekOnly ==
  /\ pc = "out" /\ cnt = 0
  /\ pos' = pos + pending /\ seek_offset' = pos + pending /\ pending' = 0
  /\ pc' = ret
  /\ UNCHANGED <<opt, inVars, ibuf, obuf, past, n, cnt, force, ret, file, st,
                 intrunc>>

(* write(2) or lseek(2) fails, or the device is full. *)
WriteError ==
  /\ pc = "out" /\ ~ Sparse
  /\ pc' = "failed"
  /\ UNCHANGED <<opt, inVars, ibuf, obuf, past, outVars, st, intrunc>>

Convert == Def \/ BlockStart \/ BlockRecord \/ UnblockRecord
Close   == DefClose \/ BlockClose \/ UnblockClose \/ Flush \/ Fini
Output  == SkipHole \/ Write \/ SeekOnly \/ WriteError

Next ==
  \/ Setup \/ StartBlock \/ Read \/ ReadEof \/ ReadError
  \/ Convert \/ Close \/ Output

(* dd runs until it exits, and its system calls return. *)
Spec == Init /\ [][Next]_vars
FairSpec == Spec /\ WF_vars(Next)
=============================================================================
