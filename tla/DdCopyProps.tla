---------------------------- MODULE DdCopyProps -----------------------------
(***************************************************************************)
(* What the copying engine of dd(1) promises, stated over the states of    *)
(* DdCopy: dd.1 says that records are treated "independent of input and    *)
(* output block boundaries", so the references below are functions of the  *)
(* bytes read alone.                                                       *)
(***************************************************************************)
EXTENDS DdCopy, SequencesExt

Start == opt.cseek * opt.obs
Byte0(i) == IF i <= Len(file) THEN file[i] ELSE NUL

(* The output as it stands: what was written or seeked over since Start,
   then the hole not yet seeked over.                                       *)
Sent == [i \in 1 .. pos - Start + pending |->
           IF i <= pos - Start THEN Byte0(Start + i) ELSE NUL]
(* The bytes dd holds: one buffer serves both streams when cfunc is def. *)
Held == IF Cfunc # "def" \/ pc \in {"out", "flush", "fini", "done"}
        THEN obuf ELSE ibuf

Running  == pc \notin {"setup", "failed"}
Blanked  == Has("SPARSE") => Has("OF") /\ ~ Has("NOTRUNC")

(* The lines of s, the last one whether or not a newline ends it. *)
Lines(s) ==
  LET turn(acc, b) == IF b = NL THEN [ls |-> Append(acc.ls, acc.cur), cur |-> << >>]
                      ELSE [acc EXCEPT !.cur = Append(@, b)]
      r == FoldLeft(turn, [ls |-> << >>, cur |-> << >>], s)
  IN  IF r.cur = << >> THEN r.ls ELSE Append(r.ls, r.cur)
Terminated(s) == s = << >> \/ s[Len(s)] = NL
Plain == \A b \in Byte : opt.ctab[b] = b

BlockOf(s) ==
  LET ls == Lines(s)
  IN  FlattenSeq([i \in 1 .. Len(ls) |->
        PadTo(Translate(Take(ls[i], opt.cbs), opt.ctab), opt.cbs, Blank)])

UnblockOf(s) ==
  LET k == (Len(s) + opt.cbs - 1) \div opt.cbs
  IN  FlattenSeq([i \in 1 .. k |->
        Append(StripBlanks(Take(Drop(s, (i - 1) * opt.cbs), opt.cbs)), NL)])

-----------------------------------------------------------------------------
(* Without a record conversion, at every moment the output so far, the hole
   not yet made and the bytes still buffered are the bytes accepted, in
   order: none is lost, repeated or reordered however reads and writes fall;
   only osync may add pad bytes, and only up to a whole block (def, dd_out,
   dd_close).                                                               *)
DefConserves ==
  Running /\ Cfunc = "def" /\ Blanked =>
    LET all == Sent \o Held
    IN  /\ IsPrefix(taken, all)
        /\ Len(all) > Len(taken) =>
             /\ Has("OSYNC") /\ ret = "fini" /\ Len(all) % opt.obs = 0
             /\ \A i \in Len(taken) + 1 .. Len(all) : all[i] = PadByte

(* A finished copy without record conversion leaves exactly the accepted
   bytes behind Start, also when they end in NULs that sparse turned into a
   hole (SkipHole, SeekOnly, Fini), and keeps what oseek skipped.           *)
DefFile ==
  pc = "done" /\ Cfunc = "def" /\ Blanked /\ ~ Has("NOTRUNC") /\ Has("OF")
    /\ taken # << >> =>
      /\ Len(file) >= Start + Len(taken)
      /\ SubSeq(file, Start + 1, Start + Len(taken)) = taken
      /\ Len(file) > Start + Len(taken) => Has("OSYNC")

(* Both: at every moment and in the end (def, dd_out, dd_close). *)
DefExact == DefConserves /\ DefFile

(* conv=block: what is out or buffered is at every moment a prefix of the
   padded or cut lines of the input, and all of it at the end, wherever the
   input and output blocks end.  (A last line without newline under osync or
   a translation is left out: block_close neither moves out.dbp behind that
   record nor translates it.)                                               *)
BlockExact ==
  Cfunc = "block" /\ Blanked =>
    /\ pc \in {"in", "read"} => IsPrefix(Sent \o obuf, BlockOf(taken))
    /\ pc = "done" /\ (Terminated(taken) \/ (Plain /\ ~ Has("OSYNC"))) =>
         /\ IsPrefix(BlockOf(taken), Sent)
         /\ Len(Sent) > Len(BlockOf(taken)) => Has("OSYNC")

(* conv=unblock: the same for fixed length records that lose their blanks. *)
UnblockExact ==
  Cfunc = "unblock" /\ pc = "done" /\ Blanked =>
    IF Has("OSYNC") THEN IsPrefix(UnblockOf(taken), Sent)
    ELSE Sent = UnblockOf(taken)

(* The records of block() and unblock() are those of the input. *)
RecordsExact == BlockExact /\ UnblockExact

(* The record counts and byte count that summary() prints: bytes is the
   length of the output, holes included; the input counts never claim more
   or fewer blocks than the bytes accepted make up, and never exceed count=. *)
SummaryExact ==
  /\ Running => st.bytes = pos - Start + pending
  /\ st.out_full * opt.obs <= st.bytes
  /\ st.in_full * opt.ibs <= Len(taken)
  /\ Len(taken) <= (st.in_full + st.in_part) * opt.ibs
  /\ Len(taken) >= st.in_full * opt.ibs + st.in_part
  /\ Has("COUNT") => st.in_full + st.in_part <= opt.count

(* With iflag=fullblock, count= counts blocks and not reads: a copy without
   read errors takes count*ibs bytes unless the input ends first (dd.1).    *)
FullblockCount ==
  pc = "done" /\ Has("IFULLBLOCK") /\ Has("COUNT") /\ errs = 0
    /\ Len(taken) < opt.count * opt.ibs => src = << >>

(* What summary() prints and what count= asks for. *)
CountsExact == SummaryExact /\ FullblockCount

(* The data, the records and the counts. *)
CopyExact == DefExact /\ RecordsExact /\ CountsExact

(* dd ends: no mix of short reads, short writes and skipped errors keeps it
   going (under the fairness that its system calls return).                 *)
Terminates == <>(pc \in {"done", "failed"})
=============================================================================
