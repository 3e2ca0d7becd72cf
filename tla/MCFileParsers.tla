----------------------------- MODULE MCFileParsers -----------------------------
(* FileParsers for model checking: the files it parses.                       *)
EXTENDS FileParsers

Block(t, c, n) == [type |-> t, compression |-> c, uncompressed |-> n, compressed |-> n \div 2]

Repeated(x, n) == [i \in 1..n |-> x]

\* Files in the documented order, each type of block there or not, up to two
\* thumbnails, and the same with two neighbours exchanged
Ordered(c, n) ==
    {Repeated(Block(0, c, n), k[1]) \o Repeated(Block(3, 0, n), k[2])
     \o Repeated(Block(5, 0, 2 * n), k[3]) \o Repeated(Block(4, c, n), k[4])
     \o Repeated(Block(2, c, n + 1), k[5]) \o Repeated(Block(1, c, 5 * n), k[6]) :
        k \in (0..1) \X (0..1) \X (0..2) \X (0..1) \X (0..1) \X (0..2)}

Exchanged(s) ==
    {[s EXCEPT ![i] = s[i + 1], ![i + 1] = s[i]] : i \in 1..(Len(s) - 1)}

Layouts == UNION {{s} \cup Exchanged(s) : s \in Ordered(2, 20) \cup Ordered(0, 2)}
           \cup Ordered(4, 2) \cup Ordered(1, 1) \cup Ordered(0, 0) \cup Ordered(0, 986)

MCBGCodeFiles ==
    [version : {1}, checksum : {0, 1}, blocks : Layouts]
    \cup [version : {2}, checksum : {1}, blocks : Ordered(0, 2)]
    \cup [version : {1}, checksum : {2}, blocks : Ordered(0, 2)]

\* Literals, then references near and far, over the windows of the format and
\* over one so small that it wraps; the data read beyond is a checksum's.
Literals == {[i \in 1..n |-> Literal(40 + 3 * i)] : n \in 0..9}

References ==
    {<< >>} \cup
    {<<BackRef(i, n)>> : i \in {1, 3, 8}, n \in {1, 5, 16}} \cup
    {<<BackRef(i, 4), BackRef(2, n)>> : i \in {2, 7}, n \in {1, 16}}

MCEncodings ==
    {[window |-> w[1], lookahead |-> w[2], tokens |-> s \o r, after |-> a] :
        w \in {<<11, 4>>, <<12, 4>>, <<3, 9>>}, s \in Literals, r \in References,
        a \in {<< >>, Bits(173, 8) \o Bits(0, 8) \o Bits(92, 8)}}

MCImages ==
    UNION {[1..n -> {<<0, 0, 0, 255>>, <<255, 1, 0, 255>>, <<254, 255, 1, 255>>,
                     <<20, 23, 12, 255>>, <<20, 23, 12, 0>>, <<0, 0, 0, 0>>}] : n \in 1..4}

Lines ==
    {[kind |-> k, key |-> "", format |-> ""] : k \in {"code", "data", "end"}}
    \cup [kind : {"begin"}, key : {""}, format : {"PNG", "QOI"}]
    \cup [kind : {"key"}, key : Keys, format : {""}]

MCGCodeFiles == UNION {[1..n -> Lines] : n \in 0..4}

Values(t) == [time |-> t, layers |-> 3 - t, shared |-> t]

Entry(kind, n, t) == [kind |-> kind, plate |-> n, values |-> IF t = 4 THEN NoValues ELSE Values(t)]

\* Up to three plates in any order, with images or none, and a description
MCArchives ==
    {d \o p \o i :
        d \in {<< >>, <<Entry("json", 0, 3)>>, <<Entry("model", 0, 3)>>},
        p \in UNION {{[k \in 1..n |-> Entry("plate", order[k], (order[k] + v) % 5)] :
                        v \in 0..4,
                        order \in {o \in [1..n -> {1, 2, 10}] : \A a, b \in 1..n : o[a] = o[b] => a = b}} :
                     n \in 0..3},
        i \in {<< >>, <<Entry("image", 1, 4), Entry("image", 10, 4), Entry("image", 0, 4)>>}}

=============================================================================
