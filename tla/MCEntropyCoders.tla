--------------------------- MODULE MCEntropyCoders ---------------------------
EXTENDS EntropyCoders

Bit(b) == [op |-> "bit", width |-> 1, value |-> b]
Field(n, v) == [op |-> "field", width |-> n, value |-> v]

(* Every sequence of up to six bits and of up to three fields; bits and    *)
(* fields mixed.                                                           *)
ShortBits == UNION {[1 .. n -> {Bit(0), Bit(1)}] : n \in 0 .. 6}
SmallFields == {Field(n, v) : n \in 1 .. 2, v \in 0 .. 3} \cap
               {f \in [op : {"field"}, width : 1 .. 2, value : 0 .. 3] : f.value < 2^f.width}
Mixed == UNION {[1 .. n -> SmallFields \cup {Bit(0), Bit(1)}] : n \in 1 .. 3}

(* Long sequences of one value with a few of the other: runs on either     *)
(* side of 171 bits, where the rarer value falls to the least chance.      *)
Run(n, b) == [i \in 1 .. n |-> Bit(b)]
SkewedBits ==
  {Run(n, b) \o <<Bit(1 - b)>> \o Run(k, b) : n \in {40, 160, 169}, k \in {0, 1, 3}, b \in {0, 1}}
    \cup {Run(n, b) \o <<Bit(1 - b)>> \o Run(k, b) : n \in {190, 250}, k \in {1, 2}, b \in {0, 1}}
    \cup {[i \in 1 .. 96 |-> Bit(IF i % k = 0 THEN b ELSE 1 - b)] : k \in {2, 3, 7, 16}, b \in {0, 1}}

Long == {Run(172, 1) \o <<Bit(0)>>, Run(172, 0) \o <<Bit(1)>>,
         [i \in 1 .. 173 |-> Field(3, IF i = 173 THEN 5 ELSE 7)]}

MCInputs == ShortBits \cup Mixed \cup SkewedBits \cup Long

Make(s, n, m, level, minBits) ==
  <<[symbols |-> s, components |-> n, method |-> m, level |-> level, minBits |-> minBits]>>

UpTo(n, S) == UNION {[1 .. k -> S] : k \in 0 .. n}

(* Few numbers and a table with room for eight.                            *)
Short == {Make(s, 1, m, 7, 3) : s \in UpTo(4, 0 .. 3), m \in {"auto"}}
Levels == {Make(s, 1, "raw", level, 3) : s \in {<<3, 0, 3, 1, 2>>, <<0, 5, 5, 7, 1, 2, 3>>, <<6, 6>>},
                                         level \in {1, 4, 6, 8, 10}}
Groups == {Make(s, n, "tagged", 7, 3) : s \in [1 .. 4 -> {0, 1, 6}], n \in {0, 2, 3}}
TooWide == {Make(<<200, 1>>, 1, m, 7, 3) : m \in {"auto", "raw"}}

(* Tables of 16 and of 4096, as the code's, and a symbol so rare that the   *)
(* encoder gives two bytes at once.                                        *)
Repeated(counts) == FlattenSeq([v \in DOMAIN counts |-> [i \in 1 .. counts[v] |-> v - 1]])
Tables == {Make(Repeated(c), 1, "raw", 7, m) :
             c \in {<<1, 1, 1, 1, 1, 1>>, <<40, 1, 1, 1, 1, 1, 1>>, <<24, 24, 1, 1, 1, 1, 1>>, <<9, 1, 1, 1>>, <<0, 20, 0, 1>>, <<5, 5, 5, 5, 5, 5, 5>>},
             m \in {4, 12}}
Rare == {Make(Repeated(<<171>>) \o [i \in 1 .. 172 |-> IF i = 172 - k THEN 1 ELSE 2], 1, "raw", 7, 9) :
           k \in {3, 7}}
FarApart == {Make(<<0, 70, 0>>, 1, "raw", 7, 12)}

(* Three calls in a row with one decoder, whose tables differ or not.      *)
Pairs == {a \o b \o a : a, b \in {Make(s, 1, "raw", 7, 3) : s \in {<<0, 1>>, <<1, 0, 1>>, <<2, 2, 1>>}}}
           \cup {a \o b \o c \o a : a, b, c \in {Make(s, 1, "raw", 7, 3) : s \in {<<0, 1>>, <<1, 1, 0>>, <<2>>}}}

MCJobs == {<<>>} \cup Short \cup Levels \cup Groups \cup TooWide \cup Tables \cup Rare \cup FarApart \cup Pairs
=============================================================================
