------------------------------ MODULE MCDdCopy ------------------------------
(* Instances of DdCopy for TLC: the operands dd is started with, short input
   streams and short old files.                                              *)
EXTENDS DdCopyProps

CONSTANTS a, A   \* a letter and what ucase makes of it

MCByte == {NUL, SP, NL, a, A}
Same   == [b \in MCByte |-> b]
Upper  == [b \in MCByte |-> IF b = a THEN A ELSE b]

Opt(flags, ibs, obs, cbs) ==
  [flags |-> flags, ibs |-> ibs, obs |-> obs, cbs |-> cbs, count |-> 0,
   cseek |-> 0, iseek |-> TRUE, fill |-> A, ctab |-> Same]
Streams(S, len) == UNION {[1 .. k -> S] : k \in 0 .. len}

(* def: every conversion that works on blocks, alone and together. *)
DefFlags == {{"OF"}, {"OF", "SPARSE"}, {"OF", "SPARSE", "OSYNC"}, {"OF", "SYNC", "NOERROR", "FILL"},
             {"OF", "NOERROR", "SWAB"}, {"OF", "NOERROR", "IFULLBLOCK"}}
DefOptions ==
  {Opt(f, i, o, 0) : f \in DefFlags, i \in 1 .. 3, o \in {1, 3}}
  \cup {[Opt({"OF", "COUNT", "IFULLBLOCK"}, 2, 3, 0) EXCEPT !.count = k] : k \in 0 .. 2}
  \cup {[Opt({"COUNT", "NOERROR"} , 2, 1, 0) EXCEPT !.count = 1, !.iseek = FALSE]}
  \cup {[Opt({"OF", "SEEK"} \cup f, 2, 2, 0) EXCEPT !.cseek = 1] :
          f \in {{}, {"NOTRUNC"}, {"SPARSE"}}}
  \cup {Opt({"BS"}, 2, 2, 0), Opt({"BS", "SYNC", "NOERROR"}, 2, 2, 0)}
DefInputs == Streams({NUL, a}, 4) \cup {<<a, NL, NUL, NUL, NUL>>, <<a, A, SP, a, NUL>>}
DefOld    == {<< >>, <<A, A, A>>}

(* block: records of one to three bytes against blocks of one to three. *)
BlockOptions ==
  {Opt(f, i, o, c) : f \in {{"OF", "BLOCK"}, {"OF", "BLOCK", "OSYNC"}},
                     i \in {1, 3}, o \in {1, 4}, c \in {1, 2, 3}}
  \cup {[Opt({"OF", "BLOCK"}, 2, 2, 2) EXCEPT !.ctab = Upper]}
BlockInputs == Streams({NL, a}, 5) \cup {<<a, SP, NL, a, NL>>}
UnblockOptions ==
  {Opt(f, i, o, c) : f \in {{"OF", "UNBLOCK"}, {"OF", "UNBLOCK", "OSYNC"},
                            {"OF", "UNBLOCK", "SYNC", "NOERROR"}},
                     i \in {1, 3}, o \in {1, 4}, c \in {1, 2, 3}}
UnblockInputs == Streams({SP, a}, 5)
MCOptions == DefOptions \cup BlockOptions \cup UnblockOptions
MCInputs(o) == IF "BLOCK" \in o.flags THEN BlockInputs
               ELSE IF "UNBLOCK" \in o.flags THEN UnblockInputs ELSE DefInputs
MCOldFiles(o) == IF {"BLOCK", "UNBLOCK"} \cap o.flags = {} THEN DefOld ELSE {<< >>}
=============================================================================
