------------------------- MODULE MCKdTreeAttributes -------------------------
EXTENDS KdTreeAttributes

Plain(type, entries) ==
  [type |-> type, components |-> Len(entries[1]), entries |-> entries, mapping |-> <<>>,
   option |-> [bits |-> 0, spacing |-> 0, origin |-> <<>>, range |-> 0], skip |-> FALSE]
Mapped(attribute, mapping) == [attribute EXCEPT !.mapping = mapping]
Quant(attribute, bits, spacing, origin, range) ==
  [attribute EXCEPT !.option = [bits |-> bits, spacing |-> spacing, origin |-> origin, range |-> range]]
Skipped(attribute) == [attribute EXCEPT !.skip = TRUE]

One(S) == {<<<<x>>, <<y>>>> : x, y \in S}
Two == {<<<<0, 5>>, <<7, 1>>>>, <<<<-4, -4>>, <<9, -4>>>>, <<<<3, 3>>, <<3, 3>>>>, <<<<0, 5>>, <<1, -4>>>>}

Bytes == {Plain("uint8", e) : e \in One({0, 1, 3})}
Words == {Plain("uint32", e) : e \in One({0, 5, 15})}
Shorts == {Plain("int8", e) : e \in One(-2 .. 1)} \cup {Plain("int8", <<<<-2, 1>>, <<1, -1>>>>)}
Ints == {Plain("int32", e) : e \in One({-4, -1, 0, 3})}
Wides == {Plain("int32", e) : e \in One({-8, 0, 7})}
Floats ==
  {Quant(Plain("float32", e), b, s, <<>>, 0) : e \in Two, b \in {0, 2, 3}, s \in {0, 2}}
  \cup {Quant(Plain("float32", e), 2, 0, o, r) : e \in Two, o \in {<<>>, <<-5, -5>>, <<0, 0>>}, r \in {0, 15}}

Some == {Plain("uint8", <<<<3>>, <<1>>>>), Plain("int8", <<<<-2, 1>>, <<1, -1>>>>),
         Plain("int32", <<<<-4>>, <<2>>>>),
         Quant(Plain("float32", <<<<-4, -4>>, <<9, -4>>>>), 3, 0, <<>>, 0),
         Skipped(Quant(Plain("float32", <<<<0, 5>>, <<7, 1>>>>), 0, 2, <<>>, 0))}

TwoPoints(attributes) == [pointCount |-> 2, attributes |-> attributes]

(* Every attribute alone, every two and every three of a few beside each   *)
(* other, three points of two entries, and what is refused.                *)
MCClouds ==
  {TwoPoints(<<a>>) : a \in Bytes \cup Words \cup Shorts \cup Ints \cup Wides \cup Floats}
  \cup {TwoPoints(<<a, b>>) : a \in Words \cup Ints, b \in Bytes}
  \cup {TwoPoints(<<a, b, c>>) : a, b, c \in Some}
  \cup {[pointCount |-> 3, attributes |-> <<Mapped(a, m), Mapped(b, <<2, 1, 2>>)>>] :
          a \in Some, b \in Shorts, m \in {<<1, 2, 1>>, <<2, 2, 2>>}}
  \cup {TwoPoints(<<>>), [pointCount |-> 1, attributes |-> <<Plain("uint8", <<<<3>>, <<1>>>>)>>],
        TwoPoints(<<Plain("int64", <<<<3>>, <<1>>>>)>>),
        [pointCount |-> 0, attributes |-> <<[Plain("int8", <<<<3>>>>) EXCEPT !.entries = <<>>]>>]}

Told(type, n) == [type |-> type, components |-> n, skip |-> FALSE]
Wire(attributes, pointCount, rows, ts, ms) ==
  [attributes |-> attributes, pointCount |-> pointCount, bitLength |-> 4, rows |-> rows,
   transforms |-> ts, minima |-> ms]

MCStreams ==
  {Wire(<<Told("int8", 1), Told("int32", 1)>>, n, rows, <<>>, ms) :
     n \in -1 .. 2,
     rows \in UNION {[1 .. k -> {<<x, y>> : x \in {0, 9, 15}, y \in {0, 7, 8}}] : k \in 0 .. 2},
     ms \in {<<>>, <<1>>, <<-8, 7>>, <<7, -8>>}}
  \cup {Wire(<<Told("float32", 1)>>, 1, <<<<15>>>>, ts, <<>>) :
          ts \in {<<>>, <<[bits |-> 0, min |-> <<1>>, range |-> 2]>>, <<[bits |-> 2, min |-> <<1>>, range |-> 2]>>}}
  \cup {Wire(as, 1, <<<<1>>>>, <<>>, <<>>) : as \in {<<>>, <<Told("int64", 1)>>}}

=============================================================================
