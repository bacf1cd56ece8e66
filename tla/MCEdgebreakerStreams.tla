------------------------ MODULE MCEdgebreakerStreams ------------------------
EXTENDS EdgebreakerStreams

(* The symbol read first is the last one; nearly all streams that do not   *)
(* start with an E end at once.                                            *)
Starting(n) == {Append(s, "E") : s \in [1 .. n - 1 -> TopologySymbols]}
Short == UNION {Starting(n) : n \in 1 .. 3} \cup {<<"C">>, <<"R">>, <<"S">>}

Count(s, symbol) == Cardinality({i \in DOMAIN s : s[i] = symbol})

(* No split event, or one at any symbol that names any S or no symbol.     *)
NoOrOneEvent(s) ==
  {<<>>} \cup
  {<<[source |-> a, split |-> b, edge |-> e]>> :
     a \in 0 .. Len(s) - 1,
     b \in {i \in 0 .. Len(s) : i = Len(s) \/ s[i + 1] = "S"}, e \in {"left", "right"}}

StreamsOf(s, Starts, Events, NumVertices, NumFaces, NumData) ==
  {[symbols |-> s, startFaces |-> starts, splitEvents |-> events,
    numSplitSymbols |-> Count(s, "S"), numEncodedVertices |-> v,
    numEncodedFaces |-> f, numAttributeData |-> data] :
     starts \in Starts, events \in Events,
     v \in NumVertices, f \in NumFaces, data \in NumData}

(* Streams of up to three symbols with counts that fit or do not fit, of   *)
(* four symbols with a split event, of five without, and one whose count   *)
(* of splits is impossible.                                                *)
MCStreams ==
  UNION
   {UNION {StreamsOf(s, {<<>>, <<FALSE>>, <<TRUE>>, <<FALSE, FALSE>>},
                     NoOrOneEvent(s), {4, 6}, {Len(s), Len(s) + 1}, {0, 1}) : s \in Short},
    UNION {StreamsOf(s, {<<FALSE, FALSE>>}, NoOrOneEvent(s), {6}, {Len(s)}, {0})
             : s \in Starting(4)},
    UNION {StreamsOf(s, {<<FALSE, TRUE>>}, {<<>>}, {9}, {Len(s) + 1}, {0})
             : s \in Starting(5)},
    {[symbols |-> <<"E">>, startFaces |-> <<FALSE>>, splitEvents |-> <<>>,
      numSplitSymbols |-> 2, numEncodedVertices |-> 3, numEncodedFaces |-> 1,
      numAttributeData |-> 0]}}

=============================================================================
