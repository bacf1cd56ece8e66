------------------------ MODULE EdgebreakerRoundTrip ------------------------
(***************************************************************************)
(* The encoder and the decoder put together: a mesh is encoded, and the    *)
(* stream is decoded, by a reader of the stream or by the encoder itself,  *)
(* which runs the same decoder to learn the order in which the reader will *)
(* meet the corners (computeDecodedPointMapping).                          *)
(***************************************************************************)
EXTENDS EdgebreakerEncoder, EdgebreakerDecoder

vars == <<encoderVars, decoderVars>>

Init == EncoderInit /\ DecoderInit

Encode == EncoderNext /\ UNCHANGED decoderVars

Decode == phase = "written" /\ DecoderNext /\ UNCHANGED encoderVars

Next == Encode \/ Decode

(* One goroutine encodes and one decodes; both run to the end.             *)
Spec == Init /\ [][Next]_vars /\ WF_vars(Next)

-----------------------------------------------------------------------------
(* recordFaceSource: decoded face i is the face the encoder processed i-th *)
(* from the end, start faces after all others; its corners correspond in   *)
(* order.                                                                  *)
SourceCorner(c) ==
  LET s == processedCorners[Face(c) + 1]
  IN  CASE c % 3 = 0 -> s [] c % 3 = 1 -> NextCorner(s) [] c % 3 = 2 -> PreviousCorner(s)

SourceVertex(c) == cornerVertex[SourceCorner(c)]

Decoded == decoderPhase = "decoded"

(* Types of the traversal and the stream.                                  *)
TypeOK ==
  /\ phase \in Phases \cup {"branch", "walk", "written"}
  /\ visitedFaces \subseteq AllFaces
  /\ visitedVertices \subseteq VertexIDs
  /\ visitedHoles \subseteq 0 .. numHoles - 1
  /\ current \in AllCorners \cup {NoCorner}
  /\ cornerTraversalStack \in Seq(AllCorners \cup {NoCorner})
  /\ faceToSplitSymbol \in [AllFaces -> -1 .. lastEncodedSymbolID]
  /\ processedCorners \in Seq(AllCorners)
  /\ symbols \in Seq(TopologySymbols)
  /\ startFaces \in Seq(BOOLEAN)
  /\ splitEvents \in Seq(SplitEvents)
  /\ decoderPhase \in {"idle", "symbols", "startFaces", "connected", "decoded", "failed"}
  /\ activeCorners \in Seq(DecodedCorners)
  /\ \A v \in DecodedVertexIDs : dVertexCorners[v] \in DecodedCorners \cup {NoCorner}

(* The inner loop always stands on a corner of a face that is not removed  *)
(* yet: C goes right and S pushes both sides without looking whether a     *)
(* face is there, and an index of -1 would end the program.                *)
CurrentFaceIsFresh ==
  phase = "walk" =>
    /\ current \in AllCorners
    /\ Face(current) \notin visitedFaces

(* Every face is removed once, so no symbol is written twice and the       *)
(* traversal's safety limit is out of reach.                               *)
EachFaceIsWalkedOnce ==
  LET walked == processedCorners \o (IF phase = "written" THEN <<>> ELSE initFaceCorners)
  IN  /\ \A i, j \in DOMAIN walked : Face(walked[i]) = Face(walked[j]) => i = j
      /\ {Face(walked[i]) : i \in DOMAIN walked} = visitedFaces

(* The walk never leaves the mesh and never meets a face twice.            *)
WalkIsSound == TypeOK /\ CurrentFaceIsFresh /\ EachFaceIsWalkedOnce

(* The encoder never turns away a mesh its base table accepted: in         *)
(* particular the split events come out in an order the unsigned           *)
(* differences of the stream can express.                                  *)
SplitEventsAreEncodable == EncodableSplitEvents(splitEvents)

(* The reader accepts what the encoder wrote: no symbol finds an occupied  *)
(* edge or an empty stack, and the vertex budget covers the vertices that  *)
(* S symbols merge away.                                                   *)
DecoderAcceptsStream == decoderPhase # "failed"

(* What the encoder can write, the reader takes to the end.                *)
StreamIsAccepted == SplitEventsAreEncodable /\ DecoderAcceptsStream

(* While the mesh is rebuilt, corners that share a vertex shared it in the *)
(* source: an S merges two vertices that were one.                         *)
VerticesNeverMergeWrongly ==
  decoderPhase \notin {"idle", "failed"} =>
    \A c, d \in DecodedCorners :
       (dCornerVertex[c] = dCornerVertex[d] /\ dCornerVertex[c] # -1)
          => SourceVertex(c) = SourceVertex(d)

(* In the end everything is glued that was glued, with its boundary, and   *)
(* vertices are shared exactly where they were: the decoded connectivity   *)
(* is the encoded one.                                                     *)
RoundTrip ==
  Decoded =>
    /\ {SourceCorner(c) : c \in DecodedCorners} = AllCorners
    /\ \A c, d \in DecodedCorners :
         /\ dOpposite[c] = d <=> opposite[SourceCorner(c)] = SourceCorner(d)
         /\ dCornerVertex[c] = dCornerVertex[d] <=> SourceVertex(c) = SourceVertex(d)

(* At no step are vertices shared wrongly, and at the end all of them are  *)
(* shared again.                                                           *)
MeshComesBack == VerticesNeverMergeWrongly /\ RoundTrip

(* The hole flags the decoder keeps while it glues end up saying which     *)
(* vertices lie on the boundary.                                           *)
HoleFlagsAreExact ==
  Decoded =>
    \A c \in DecodedCorners :
       isVertHole[dCornerVertex[c]] <=> vertexHoleID[SourceVertex(c)] # -1

(* The corner stored for a vertex is the leftmost of its fan when points   *)
(* and attribute sequences are laid out from it.                           *)
DecodedCornersAreLeftmost ==
  Decoded =>
    \A v \in {dCornerVertex[c] : c \in DecodedCorners} :
       /\ dVertexCorners[v] # NoCorner
       /\ dCornerVertex[dVertexCorners[v]] = v
       /\ LeftMostFrom(dOpposite, dVertexCorners[v]) = dVertexCorners[v]

(* The hole pass finds the boundary, and leaves each vertex the corner the *)
(* walks around it start from.                                             *)
BoundaryIsExact == HoleFlagsAreExact /\ DecodedCornersAreLeftmost

(* The encoder's own run of the decoder stops before the hole pass and     *)
(* lays out the attributes from the table it has then.  The reader lays    *)
(* them out after the pass, so the pass must change nothing.               *)
SimulatedTableIsTheReaders ==
  [][decoderPhase = "connected" => UNCHANGED dVertexCorners]_vars

(* A seam bit is written for every inner edge, in the order the decoder    *)
(* asks for it: corners ascending, each edge at its first face.            *)
SeamQueries ==
  LET before[c \in 0 .. Cardinality(DecodedCorners)] ==
        IF c = 0 THEN <<>>
        ELSE IF dOpposite[c - 1] > c - 1 THEN Append(before[c - 1], c - 1)
             ELSE before[c - 1]
  IN  before[Cardinality(DecodedCorners)]

SeamBitsReachTheirEdges ==
  Decoded /\ numAttributeData > 0 =>
    /\ Len(SeamQueries) = Len(seams)
    /\ \A i \in DOMAIN seams : SourceCorner(SeamQueries[i]) = seams[i]

-----------------------------------------------------------------------------
(* The codec implements MeshTransfer: the pairs of the abstract receiver   *)
(* are the decoder's opposite corners, named by the source corners they    *)
(* stand for.                                                              *)

SentPairs ==
  IF phase = "written"
  THEN {<<c, opposite[c]>> : c \in {d \in AllCorners : opposite[d] # NoCorner}}
  ELSE {}

ReceivedPairs ==
  {<<SourceCorner(c), SourceCorner(dOpposite[c])>> :
     c \in {d \in DecodedCorners : dOpposite[d] # NoCorner}}

TransferStatus ==
  CASE phase = "rejected" -> "refused"
    [] Decoded -> "delivered"
    [] phase = "written" /\ ~ Decoded -> "sent"
    [] OTHER -> "open"

Transfer == INSTANCE MeshTransfer
              WITH status <- TransferStatus, sent <- SentPairs, received <- ReceivedPairs

(* A mesh is refused before anything is written, or its gluing arrives:    *)
(* never a wrong pair in between, never an unglued one, nothing missing.   *)
ImplementsTransfer == Transfer!TransferSpec

=============================================================================
