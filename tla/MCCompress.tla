----------------------------- MODULE MCCompress -----------------------------
(* Instances of Compress: bytes of two bits, so codes of three to five bits. *)
EXTENDS Compress, TLC

MCNames  == {"f", "f.Z", "g", "g.Z", "stdin", "stdout"}
MCZNames == ("f.Z" :> "f") @@ ("g.Z" :> "g")

File1(type, data, st) == [type |-> type, data |-> data, st |-> st]
Tree(f) ==
  [ent |-> ("f" :> 1) @@ ("f.Z" :> 0) @@ ("g" :> 0) @@ ("g.Z" :> 0) @@ ("stdin" :> 5) @@ ("stdout" :> 6),
   node |-> [i \in 1..8 |-> IF i = 1 THEN f
                            ELSE IF i = 5 THEN File1("pipe", <<0, 0, 1, 0, 0, 1>>, "old")
                            ELSE File1("pipe", <<>>, "old")]]
Of(data) == Tree(File1("reg", data, "orig"))
With(tree, name, i, f) == [tree EXCEPT !.ent[name] = i, !.node[i] = f]

Cmd1(prog, opt, arguments) == [prog |-> prog, opt |-> opt, bits |-> 0, args |-> arguments, answer |-> "none"]
Bits1(b) == [Cmd1("compress", {"f"}, <<"f">>) EXCEPT !.bits = b]
Back   == Cmd1("uncompress", {}, <<"f">>)
ByGzip == Cmd1("gzip", {}, <<"f.Z">>)
OnStdout == Cmd1("uncompress", {"c"}, <<"f.Z">>)
CutIt  == Cmd1("cut", {}, <<>>)
Job(tree, cmds, faults) == [fs |-> tree, cmds |-> cmds, faults |-> faults]

(* Words that are short, and words that fill the table and then change *)
Short == UNION {[1..k -> {0, 1}] : k \in 0..6} \cup UNION {[1..k -> 0..3] : k \in 1..3}
Repeat(u, k) == [i \in 1..k |-> u[((i - 1) % Len(u)) + 1]]
Long == {Repeat(u, j) \o Repeat(v, k) : u \in {<<0>>, <<0, 1>>, <<0, 1, 2, 3, 3>>, <<0, 2, 1, 1>>},
                                        v \in {<<3>>, <<3, 1, 2, 2>>, <<2, 0, 0, 1, 3>>},
                                        j \in {9, 24, 38}, k \in {1, 12, 30}}
Words == Short \cup Long
Codecs == {Job(Of(w), <<Bits1(b), ByGzip, Back>>, {}) : w \in Words, b \in {0, 4}}
          \cup {Job(Of(w), <<Bits1(b), Back>>, {}) : w \in {<<>>, <<0, 1, 1>>}, b \in {1, 2, 3, 6}}

(* A stream that another compress wrote, without CLEAR *)
RECURSIVE Written(_, _)
Written(z, w) ==
  IF w = <<>> THEN ZClose(z).file
  ELSE LET k == IF Len(w) < 6 THEN Len(w) ELSE 6 IN
       CHOOSE s \in {Written(y, SubSeq(w, k + 1, Len(w))) : y \in {ZWrite(z, SubSeq(w, 1, k))}} : TRUE
Foreign(w) == With(Of(w), "g.Z", 4, File1("reg", Written(New(0, FALSE), w), "old"))
Old == {Job(Foreign(w), <<Cmd1("uncompress", {}, <<"g">>), [ByGzip EXCEPT !.args = <<"g.Z">>]>>, {}) :
          w \in Long \cup {<<0, 0, 0>>}}
       \cup {Job(Foreign(w), <<[ByGzip EXCEPT !.args = <<"g.Z">>]>>, {}) : w \in Long}
Cuts == {Job(Of(w), <<Bits1(0), CutIt, Back>>, {}) : w \in {Repeat(<<0, 1, 2, 3, 3>>, 20), <<0, 0, 0, 1>>}}

(* Files in the way, questions, failures *)
Data  == Repeat(<<0, 1>>, 24)
Bad   == File1("reg", <<1, 2, 3>>, "old")
Ways  == {Of(Data), Of(<<0, 1>>), With(Of(Data), "f.Z", 2, Bad), With(Of(<<0, 1>>), "f.Z", 2, Bad),
          Tree(File1("dir", <<>>, "orig")), [Of(Data) EXCEPT !.ent["f"] = 0],
          With(Of(Data), "f.Z", 2, File1("pipe", <<>>, "old")), [Of(Data) EXCEPT !.ent["f.Z"] = 1],
          With([Of(Data) EXCEPT !.ent["f"] = 0], "f.Z", 2, Bad),
          With(Of(<<2>>), "f.Z", 2, File1("reg", Written(New(0, TRUE), Data), "new")),
          With([Of(<<2>>) EXCEPT !.ent["f"] = 0], "f.Z", 2, File1("reg", Written(New(0, TRUE), Data), "new"))}
Asked(c) == {c, [c EXCEPT !.answer = "yes"], [c EXCEPT !.opt = @ \cup {"f"}]}
Ones  == UNION {Asked(Cmd1(p, {}, a)) : p \in {"compress", "uncompress"}, a \in {<<"f">>, <<"f.Z">>}}
         \cup {Cmd1(p, {"c"}, a) : p \in {"compress", "uncompress"}, a \in {<<"f">>, <<"f", "g">>, <<"-">>}}
         \cup {Cmd1("zcat", {}, <<"f">>), Cmd1("compress", {}, <<>>), Cmd1("compress", {}, <<"-", "f">>),
               Cmd1("compress", {}, <<"g", "f">>), [Cmd1("uncompress", {}, <<"f">>) EXCEPT !.bits = 6]}
Fails == {{}, {"open"}, {"read"}, {"write"}, {"close"}, {"attr"}, {"unlink"}}
Files == {Job(t, <<c>>, x) : t \in Ways, c \in Ones, x \in Fails}
MCJobs == Codecs \cup Old \cup Cuts \cup Files
=============================================================================
