----------------------- MODULE EdgebreakerSymbolCoders -----------------------
(***************************************************************************)
(* The three ways the topology symbols of a traversal are written          *)
(* (edgebreaker_encode.go: the traversal encoders and                      *)
(* buildValenceContextSymbols; edgebreaker_decode.go: the traversal        *)
(* decoders).                                                              *)
(*                                                                         *)
(*   standard    every symbol is a bit pattern, last symbol first;         *)
(*   predictive  both sides count how many edges of each vertex are left   *)
(*               and guess R or C after every R and C; a bit says whether  *)
(*               the guess was right, other symbols are written out.  The  *)
(*               encoder keeps the last symbol back until the next one     *)
(*               shows whether the reader will guess it;                   *)
(*   valence     the number of edges selects one of six lists each symbol  *)
(*               is put on.  The encoder finds it by running the decoder   *)
(*               on its own symbols.                                       *)
(*                                                                         *)
(* One behaviour runs all three beside the traversal: the symbols are      *)
(* encoded, the decoder runs once to record the lists, and once more as    *)
(* the reader.                                                             *)
(***************************************************************************)
EXTENDS EdgebreakerRoundTrip

VARIABLES
  coder,               \* "idle", "coding", "written"
  vertexValences,      \* the predictive encoder's counts, per base vertex
  prevSymbol,          \* the symbol it keeps back
  explicitSymbols, predictionBits,
  pass,                \* "record" or "read": who runs the decoder
  readerValences,      \* the counts of whoever runs the decoder
  contextSymbols,      \* the six lists of the valence coder, in the order recorded
  activeContext,
  symbolPayload, explicitPayload, predictionStream, contexts,  \* not read yet
  predictedSymbol

predictiveVars == <<vertexValences, prevSymbol, explicitSymbols, predictionBits>>
readerVars == <<symbolPayload, explicitPayload, predictionStream, contexts,
                predictedSymbol>>
coderVars == <<coder, predictiveVars, pass, readerValences, contextSymbols,
               activeContext, readerVars>>

minValence == 2
maxValence == 7
Contexts == 0 .. maxValence - minValence

NoSymbol == "none"
InvalidSymbol == "invalid"        \* topologyInvalid: a guess no symbol confirms

-----------------------------------------------------------------------------
(* Symbols as bits, low bit first: C is one bit, the others have three.    *)

BitPattern == [C |-> <<0>>, S |-> <<1, 0, 0>>, L |-> <<1, 1, 0>>,
               R |-> <<1, 0, 1>>, E |-> <<1, 1, 1>>]

(* The payload is a whole number of bytes.                                 *)
SymbolPayload(list) ==
  LET bits == FlattenSeq([i \in DOMAIN list |-> BitPattern[Reverse(list)[i]]])
  IN  bits \o [i \in 1 .. (8 - (Len(bits) % 8)) % 8 |-> 0]

FirstSymbol(bits) ==
  IF bits = <<>> THEN "truncated"
  ELSE IF bits[1] = 0 THEN "C"
  ELSE IF Len(bits) < 3 THEN "truncated"
  ELSE CHOOSE s \in TopologySymbols \ {"C"} : BitPattern[s] = SubSeq(bits, 1, 3)

AfterFirstSymbol(bits) ==
  IF bits = <<>> THEN bits
  ELSE SubSeq(bits, IF bits[1] = 0 THEN 2 ELSE 4, Len(bits))

-----------------------------------------------------------------------------
(* Counting the edges that are left at each vertex.                        *)

(* How many edges a symbol's face takes from its tip, next and previous    *)
(* vertex when it is removed, and gives them when it is added.             *)
EdgesTaken ==
  [C |-> <<0, 1, 1>>, S |-> <<0, 1, 1>>, R |-> <<1, 1, 2>>, L |-> <<1, 2, 1>>,
   E |-> <<2, 2, 2>>]

EdgesAt(vertexAt, c, symbol, v) ==
  (IF vertexAt[c] = v THEN EdgesTaken[symbol][1] ELSE 0)
  + (IF vertexAt[NextCorner(c)] = v THEN EdgesTaken[symbol][2] ELSE 0)
  + (IF vertexAt[PreviousCorner(c)] = v THEN EdgesTaken[symbol][3] ELSE 0)

(* edgebreakerMutableCornerTable.Valence counts the faces of the fan the   *)
(* stored corner lies in.                                                  *)
Valence(v) ==
  IF vertexCorners[v] < 0 THEN 0 ELSE Cardinality(FanCorners(opposite, vertexCorners[v]))

(* MergeVertices.                                                          *)
MergedIgnored(valences, dest, source) == valences
Merged(valences, dest, source) ==
  IF dest \in DOMAIN valences /\ source \in DOMAIN valences
  THEN [valences EXCEPT ![dest] = @ + valences[source]] ELSE valences

Guess(valence) ==
  IF valence < 0 THEN InvalidSymbol ELSE IF valence < 6 THEN "R" ELSE "C"

Clamped(valence) ==
  IF valence < minValence THEN minValence
  ELSE IF valence > maxValence THEN maxValence ELSE valence

-----------------------------------------------------------------------------
(* The predictive encoder.                                                 *)

CoderInit ==
  /\ coder = "idle"
  /\ vertexValences = <<>>
  /\ prevSymbol = NoSymbol
  /\ explicitSymbols = <<>>
  /\ predictionBits = <<>>
  /\ pass = "record"
  /\ readerValences = <<>>
  /\ contextSymbols = [k \in Contexts |-> <<>>]
  /\ activeContext = -1
  /\ symbolPayload = <<>> /\ explicitPayload = <<>> /\ predictionStream = <<>>
  /\ contexts = contextSymbols
  /\ predictedSymbol = NoSymbol

Start ==
  /\ coder = "idle"
  /\ phase = "ready"
  /\ coder' = "coding"
  /\ vertexValences' = [v \in VertexIDs |-> Valence(v)]
  /\ UNCHANGED <<prevSymbol, explicitSymbols, predictionBits, pass, readerValences,
                 contextSymbols, activeContext, readerVars, vars>>

(* EncodeSymbol, at the corner the traversal stands on.  An S makes the    *)
(* tip useless as a pivot: the reader has two vertices for it by then.     *)
EncoderGuess(symbol, v) ==
  IF symbol \in {"C", "R"} THEN Guess(vertexValences[v]) ELSE NoSymbol

NeedsBitAlways(guess) == guess # NoSymbol      \* also where there is nothing to guess
NeedsBit(guess) == guess # NoSymbol /\ prevSymbol # NoSymbol

EncodeSymbol(symbol) ==
  LET guess == EncoderGuess(symbol, cornerVertex[NextCorner(current)])
      hit == guess = prevSymbol
  IN  /\ vertexValences' =
           [v \in VertexIDs |->
              IF symbol = "S" /\ v = cornerVertex[current] THEN -1
              ELSE vertexValences[v] - EdgesAt(cornerVertex, current, symbol, v)]
      /\ predictionBits' = IF NeedsBit(guess)
                           THEN Append(predictionBits, hit) ELSE predictionBits
      /\ explicitSymbols' = IF prevSymbol # NoSymbol /\ ~ hit
                            THEN Append(explicitSymbols, prevSymbol)
                            ELSE explicitSymbols
      /\ prevSymbol' = symbol

(* Write: the symbol kept back goes out with the others.                   *)
Flushed ==
  IF prevSymbol # NoSymbol THEN Append(explicitSymbols, prevSymbol) ELSE explicitSymbols

Write ==
  /\ coder' = "written"
  /\ explicitSymbols' = Flushed
  /\ prevSymbol' = NoSymbol
  /\ UNCHANGED <<vertexValences, predictionBits>>

EncodeAndCode ==
  /\ coder = "idle" => phase # "ready"
  /\ Encode
  /\ IF Len(symbols') > Len(symbols)
     THEN EncodeSymbol(Last(symbols')) /\ UNCHANGED coder
     ELSE IF phase' = "written" THEN Write
     ELSE UNCHANGED <<coder, predictiveVars>>
  /\ UNCHANGED <<pass, readerValences, contextSymbols, activeContext, readerVars>>

-----------------------------------------------------------------------------
(* Running the decoder: NewActiveCornerReached after every symbol, in the  *)
(* recorder and in both readers alike.                                     *)

ValencesAfter(symbol) ==
  LET merged == IF symbol = "S" THEN Merged(readerValences, VertexP, VertexN)
                ELSE readerValences
  IN  [v \in DOMAIN merged |->
         merged[v] + EdgesAt(dCornerVertex', NewCorner, symbol, v)]

PivotOf(c) == dCornerVertex'[NextCorner(c)]

ContextOf(valence) == Clamped(valence) - minValence

(* The recorder puts the symbol after this one on the list that this one   *)
(* leaves active.                                                          *)
Record(context) ==
  IF symbolID + 1 < NumSymbols
  THEN [contextSymbols EXCEPT ![context] = Append(@, symbols[NumSymbols - symbolID - 1])]
  ELSE contextSymbols

SymbolIsRead == symbolID' > symbolID

DecodeAndRecord ==
  /\ pass = "record"
  /\ Decode
  /\ IF SymbolIsRead
     THEN /\ readerValences' = ValencesAfter(NextSymbol)
          /\ activeContext' = ContextOf(readerValences'[PivotOf(NewCorner)])
          /\ contextSymbols' = Record(activeContext')
     ELSE /\ readerValences' = [v \in DOMAIN dVertexCorners' |->
                IF v \in DOMAIN readerValences THEN readerValences[v] ELSE 0]
          /\ UNCHANGED <<activeContext, contextSymbols>>
  /\ UNCHANGED <<coder, predictiveVars, pass, readerVars>>

(* The streams are complete: the payloads and bits are written last symbol *)
(* first, the lists as they will be taken from their ends.                 *)
ReversedNot(s) == s                 \* the lists in the order recorded
ReadFromItsEnd(s) == Reverse(s)

StandardReaderStarts == symbolPayload' = SymbolPayload(symbols)

PredictiveReaderStarts ==
  /\ explicitPayload' = SymbolPayload(explicitSymbols)
  /\ predictionStream' = Reverse(predictionBits)
  /\ predictedSymbol' = NoSymbol

ValenceReaderStarts ==
  /\ contexts' = [k \in Contexts |-> ReadFromItsEnd(contextSymbols[k])]
  /\ activeContext' = -1
  /\ readerValences' = <<>>

StartReading ==
  /\ pass = "record"
  /\ decoderPhase = "decoded"
  /\ pass' = "read"
  /\ StandardReaderStarts
  /\ PredictiveReaderStarts
  /\ ValenceReaderStarts
  /\ decoderPhase' = "idle"
  /\ symbolID' = 0
  /\ dCornerVertex' = <<>> /\ dOpposite' = <<>> /\ dVertexCorners' = <<>>
  /\ dNumVertices' = 0
  /\ activeCorners' = <<>> /\ topologySplitCorner' = <<>> /\ splitIndex' = 0
  /\ invalidVertices' = <<>> /\ isVertHole' = <<>>
  /\ numDecodedFaces' = 0 /\ startFacesRead' = 0
  /\ UNCHANGED <<encoderVars, coder, predictiveVars, contextSymbols>>

(* What each reader takes the next symbol to be.                           *)
StandardSymbol == FirstSymbol(symbolPayload)

GuessIsRight ==
  predictedSymbol # NoSymbol /\ predictionStream # <<>> /\ Head(predictionStream)
PredictiveSymbol ==
  IF GuessIsRight THEN predictedSymbol ELSE FirstSymbol(explicitPayload)

ValenceSymbol ==
  IF activeContext = -1 THEN "E"
  ELSE IF contexts[activeContext] = <<>> THEN "underflow"
  ELSE Last(contexts[activeContext])

ReaderGuess(symbol, valence) ==
  IF symbol \in {"C", "R"} THEN Guess(valence) ELSE NoSymbol

(* All three readers go one symbol further.  The table is built from the   *)
(* encoder's symbol: the properties compare the three with it.             *)
DecodeAndRead ==
  /\ pass = "read"
  /\ Decode
  /\ IF SymbolIsRead
     THEN /\ symbolPayload' = AfterFirstSymbol(symbolPayload)
          /\ predictionStream' = IF predictedSymbol # NoSymbol /\ predictionStream # <<>>
                                 THEN Tail(predictionStream) ELSE predictionStream
          /\ explicitPayload' = IF GuessIsRight THEN explicitPayload
                                ELSE AfterFirstSymbol(explicitPayload)
          /\ contexts' = [k \in Contexts |->
                IF k = activeContext /\ contexts[k] # <<>>
                THEN Front(contexts[k]) ELSE contexts[k]]
          /\ readerValences' = ValencesAfter(NextSymbol)
          /\ activeContext' = ContextOf(readerValences'[PivotOf(NewCorner)])
          /\ predictedSymbol' =
               ReaderGuess(NextSymbol, readerValences'[PivotOf(NewCorner)])
     ELSE /\ readerValences' = [v \in DOMAIN dVertexCorners' |->
                IF v \in DOMAIN readerValences THEN readerValences[v] ELSE 0]
          /\ UNCHANGED <<activeContext, readerVars>>
  /\ UNCHANGED <<coder, predictiveVars, pass, contextSymbols>>

CodersInit == Init /\ CoderInit

CodersNext ==
  Start \/ EncodeAndCode \/ DecodeAndRecord \/ StartReading \/ DecodeAndRead

CodersSpec == CodersInit /\ [][CodersNext]_<<vars, coderVars>>

-----------------------------------------------------------------------------
NextToRead == pass = "read" /\ decoderPhase = "symbols" /\ symbolID < NumSymbols

AllSymbolsRead == pass = "read" /\ decoderPhase = "startFaces"

CodersTypeOK ==
  /\ coder \in {"idle", "coding", "written"}
  /\ pass \in {"record", "read"}
  /\ prevSymbol \in TopologySymbols \cup {NoSymbol}
  /\ explicitSymbols \in Seq(TopologySymbols)
  /\ predictionBits \in Seq(BOOLEAN)
  /\ \A k \in Contexts : contextSymbols[k] \in Seq(TopologySymbols)
  /\ activeContext \in Contexts \cup {-1}
  /\ predictedSymbol \in {"R", "C", NoSymbol}
  /\ \A v \in DOMAIN readerValences : readerValences[v] >= 0

(* The bit patterns read back as the symbols they were written for.        *)
StandardNamesEachSymbol == NextToRead => StandardSymbol = NextSymbol

(* The valence reader finds every symbol on the list its own counts point  *)
(* it to, and the first one it need not find: it is an E.                  *)
ValenceNamesEachSymbol == NextToRead => ValenceSymbol = NextSymbol

(* The predictive reader makes the encoder's guesses from its own counts   *)
(* and knows every symbol the encoder left out.                            *)
PredictiveNamesEachSymbol == NextToRead => PredictiveSymbol = NextSymbol

(* It does so on every surface without a boundary.                         *)
ClosedSurfacesPredict == numHoles = 0 => PredictiveNamesEachSymbol

(* Whichever coder was chosen, its reader names the symbol the encoder     *)
(* walked; the predictive one where nothing is open.                       *)
EachSymbolIsNamed ==
  StandardNamesEachSymbol /\ ValenceNamesEachSymbol /\ ClosedSurfacesPredict

(* No stream holds a symbol or a bit nobody reads, but for the padding of  *)
(* a payload's last byte.                                                  *)
NothingIsLeftUnread ==
  AllSymbolsRead =>
    /\ Len(symbolPayload) < 8
    /\ \A k \in Contexts : contexts[k] = <<>>
    /\ numHoles = 0 => predictionStream = <<>> /\ Len(explicitPayload) < 8

(* The counts the two sides guess from: when every symbol is read, the     *)
(* reader has counted the edges of each vertex, whatever splits and merges *)
(* it came from.                                                           *)
EdgesOf(v) == Valence(v) + (IF vertexHoleID[v] # -1 THEN 1 ELSE 0)

ReaderCountsEveryEdge ==
  AllSymbolsRead =>
    \A c \in 0 .. 3 * numDecodedFaces - 1 :
       readerValences[dCornerVertex[c]] = EdgesOf(SourceVertex(c))

(* The coders' own state is sound, and ends in the counts of the mesh.     *)
CountsAreSound == CodersTypeOK /\ ReaderCountsEveryEdge

=============================================================================
