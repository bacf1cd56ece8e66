-------------------------- MODULE EdgebreakerStreams --------------------------
(***************************************************************************)
(* The connectivity decoder on its own, reading any stream: one cut short, *)
(* one whose counts do not fit its symbols, one no encoder writes.  It may *)
(* refuse such a stream, but as long as it has not, the table it builds    *)
(* must be one that the walks of the later passes can follow.              *)
(***************************************************************************)
EXTENDS EdgebreakerDecoder

CONSTANT Streams

IsStream(s) ==
  /\ s.symbols \in Seq(TopologySymbols)
  /\ s.startFaces \in Seq(BOOLEAN)
  /\ s.splitEvents \in Seq(SplitEvents)
  /\ s.numSplitSymbols \in Nat
  /\ s.numEncodedVertices \in Nat
  /\ s.numEncodedFaces \in Nat
  /\ s.numAttributeData \in Nat

ASSUME StreamsAssumption == \A s \in Streams : IsStream(s)

StreamInit ==
  \E s \in Streams :
    /\ symbols = s.symbols
    /\ startFaces = s.startFaces
    /\ seams = <<>>
    /\ splitEvents = s.splitEvents
    /\ numSplitSymbols = s.numSplitSymbols
    /\ numEncodedVertices = s.numEncodedVertices
    /\ numEncodedFaces = s.numEncodedFaces
    /\ numAttributeData = s.numAttributeData

ReaderVars == <<decoderVars, wireVars>>

ReaderInit == StreamInit /\ DecoderInit
ReaderNext == DecoderNext /\ UNCHANGED wireVars

(* One goroutine reads the stream to its end or to the first error.        *)
ReaderSpec == ReaderInit /\ [][ReaderNext]_ReaderVars /\ WF_ReaderVars(ReaderNext)

-----------------------------------------------------------------------------

Building == decoderPhase \in {"symbols", "startFaces"}

(* The corners of the faces that symbols have added so far.                *)
SymbolCorners == {c \in DecodedCorners : c < 3 * symbolID}

(* Types of the decoder's variables, for any stream.                       *)
ReaderTypeOK ==
  /\ decoderPhase \in {"idle", "symbols", "startFaces", "connected", "decoded", "failed"}
  /\ symbolID \in 0 .. NumSymbols
  /\ dCornerVertex \in [DecodedCorners -> DecodedVertexIDs \cup {-1}]
  /\ dOpposite \in [DecodedCorners -> DecodedCorners \cup {NoCorner}]
  /\ dVertexCorners \in [DecodedVertexIDs -> Int]
  /\ dNumVertices \in 0 .. DecoderMaxVertices
  /\ activeCorners \in Seq(Nat)
  /\ topologySplitCorner \in [DOMAIN topologySplitCorner -> Int]
  /\ splitIndex \in 0 .. Len(splitEvents)
  /\ invalidVertices \in Seq(Int)
  /\ isVertHole \in [DOMAIN isVertHole -> BOOLEAN]
  /\ numDecodedFaces \in Nat
  /\ startFacesRead \in 0 .. Len(startFaces)

(* Opposite corners come in pairs at every step: no symbol and no start    *)
(* face takes an edge that is already glued, or glues a corner to itself.  *)
DecodedOppositesArePairs == IsPairing(dOpposite)

(* Every face a symbol adds has three vertices that exist, so no array of  *)
(* the decoder is indexed by the -1 of an unset corner.                    *)
SymbolFacesHaveVertices ==
  Building => \A c \in SymbolCorners : dCornerVertex[c] \in 0 .. dNumVertices - 1

(* The corner stored for a vertex is a corner of that vertex, through all  *)
(* the merging of vertices at S: C and the start faces find the edge to    *)
(* glue by it.                                                             *)
StoredCornersHaveTheirVertex ==
  Building =>
    \A v \in DecodedVertexIDs :
       dVertexCorners[v] \in SymbolCorners => dCornerVertex[dVertexCorners[v]] = v

(* Faces glued by a symbol share the two vertices of the edge, whatever    *)
(* the order of C, S, R, L and E and whatever parts split events join.     *)
SymbolFacesShareTheirEdges ==
  decoderPhase = "symbols" =>
    \A c \in SymbolCorners :
       dOpposite[c] \in SymbolCorners => FacesSameEdge(dCornerVertex, c, dOpposite[c])

(* The table is one the later passes can walk whatever the symbols were:   *)
(* paired corners, faces with vertices, stored corners that are theirs.    *)
TableIsSound ==
  /\ ReaderTypeOK /\ DecodedOppositesArePairs /\ SymbolFacesHaveVertices
  /\ StoredCornersHaveTheirVertex /\ SymbolFacesShareTheirEdges

(* A decoded mesh has exactly the faces that were announced, and each of   *)
(* their corners a vertex within the count.                                *)
DecodedMeshIsComplete ==
  decoderPhase \in {"connected", "decoded"} =>
    /\ numDecodedFaces = numEncodedFaces
    /\ \A c \in DecodedCorners : dCornerVertex[c] \in 0 .. dNumVertices - 1
    /\ dNumVertices <= DecoderMaxVertices

(* Reading ends, with a mesh or with an error.                             *)
ReadingEnds == <>(decoderPhase \in {"decoded", "failed"})

=============================================================================
