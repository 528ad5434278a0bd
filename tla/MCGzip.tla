------------------------------- MODULE MCGzip -------------------------------
(***************************************************************************)
(* Calls of gzip and gunzip on up to two files.                            *)
(***************************************************************************)
EXTENDS Gzip, TLC

Opt(d, opts) == [d |-> d, f |-> "f" \in opts, k |-> "k" \in opts,
                 c |-> "c" \in opts, t |-> "t" \in opts, N |-> "N" \in opts,
                 n |-> "n" \in opts, tty |-> "tty" \in opts]

Call(argv, o, files, data, stored) ==
    [argv |-> argv, files |-> files, data |-> data, stored |-> stored] @@ o

One == Plain(<<1>>)
Two == Plain(<<1, 2>>)
None == <<>>
Old == Plain(<<5>>)

A(i) == "a" :> i
B(i) == "b" :> i
AZ(i) == "a.gz" :> i
BZ(i) == "b.gz" :> i

\* gzip a
Zip ==
    {Call(<<"a">>, Opt(FALSE, {}), A(1), <<Two>>, ""),
     Call(<<"a">>, Opt(FALSE, {"k"}), A(1), <<None>>, ""),
     Call(<<"a">>, Opt(FALSE, {"n", "tty"}), A(1) @@ AZ(2), <<One, Old>>, ""),
     Call(<<"a">>, Opt(FALSE, {"f"}), A(1) @@ AZ(2) @@ B(1), <<One, Old>>, ""),
     Call(<<"a">>, Opt(FALSE, {}), A(1) @@ B(1), <<One>>, ""),
     Call(<<"a.gz">>, Opt(FALSE, {}), AZ(1), <<One>>, ""),
     Call(<<"a">>, Opt(FALSE, {"c"}), A(1), <<Two>>, ""),
     Call(<<"a", "b">>, Opt(FALSE, {}), A(1) @@ B(2) @@ BZ(3),
          <<One, Plain(<<2>>), Old>>, "")}

\* Archives: whole ones, two members, garbage behind, and damaged ones.
Archives == {Packed(<<1, 2>>), Packed(<<>>), Packed(<<1>>) \o Packed(<<2>>),
             Append(Packed(<<1>>), Garbage)}
Damaged == {<<Header, Block(1)>>, <<Header, Block(1), Crc(<<2>>), Length(<<2>>)>>,
            <<Header, Block(1), Crc(<<1>>)>>,
            <<Header, Block(1), Crc(<<1>>), Length(<<1, 2>>)>>,
            <<Header, Garbage>>}

Unzip ==
    {Call(<<"a.gz">>, Opt(TRUE, {}), AZ(1), <<d>>, "") : d \in Archives \cup Damaged}
    \cup {Call(<<"a">>, Opt(TRUE, o), AZ(1) @@ A(2), <<Packed(<<1>>), Old>>, "") :
             o \in {{}, {"f"}, {"tty"}}}
    \cup {Call(<<"a">>, Opt(TRUE, o), AZ(1), <<Packed(<<1>>)>>, "b") :
             o \in {{}, {"k"}, {"N"}, {"c"}}}
    \cup {Call(<<"a.gz">>, Opt(TRUE, {"f"}), AZ(1), <<Old>>, ""),
          Call(<<"a.gz">>, Opt(TRUE, {"c", "f"}), AZ(1), <<Old>>, ""),
          Call(<<"a.gz">>, Opt(TRUE, {"N", "f"}), AZ(1), <<Packed(<<1>>)>>, "a.gz"),
          Call(<<"a.gz">>, Opt(TRUE, {}), AZ(1) @@ BZ(1), <<Packed(<<1>>)>>, ""),
          Call(<<"a.gz">>, Opt(TRUE, {}), AZ(1), <<None>>, ""),
          Call(<<"a.gz">>, Opt(TRUE, {"c", "t"}), AZ(1), <<Packed(<<1>>)>>, ""),
          Call(<<"b">>, Opt(TRUE, {}), B(1), <<Old>>, "")}
    \cup {Call(<<"a.gz", "b.gz">>, Opt(TRUE, {}), AZ(1) @@ BZ(2),
               <<d, Packed(<<3>>)>>, "") : d \in {Packed(<<1>>), <<Header, Block(1)>>}}

AllScenes == Zip \cup Unzip
OneZip == {Call(<<"a">>, Opt(FALSE, {}), A(1), <<Two>>, "")}
=============================================================================
