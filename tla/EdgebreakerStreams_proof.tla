----------------------- MODULE EdgebreakerStreams_proof -----------------------
(***************************************************************************)
(* The reader of EdgebreakerStreams builds a sound table from any stream:  *)
(* TableIsSound and DecodedMeshIsComplete hold of every behaviour of       *)
(* ReaderSpec, for every set of streams of every length.                   *)
(*                                                                         *)
(* Neither is inductive.  ReaderInv adds where the corners the decoder     *)
(* holds on to can point: into the faces decoded so far (and not, say,     *)
(* into the face that comes next), and that the part on top of the stack   *)
(* grows at the face decoded last.  While symbols are read the invariant   *)
(* has a simpler form, SymbolsSoFar, in which every glued edge is shared;  *)
(* there is a lemma per symbol that it keeps SymbolsSoFar.                 *)
(*                                                                         *)
(* The second half is about one table that is built up to another, face by *)
(* face (Cut, Rebuilt): what each symbol does to the table under           *)
(* construction is the next cut, provided the symbol tells the truth about *)
(* the other table.  EdgebreakerMirror_proof shows that it does.           *)
(***************************************************************************)
EXTENDS EdgebreakerStreams, CornerTables_proof, TLAPS

(* The stream is not changed by reading it.                                *)
WireTypeOK ==
  /\ symbols \in Seq(TopologySymbols)
  /\ startFaces \in Seq(BOOLEAN)
  /\ splitEvents \in Seq(SplitEvents)
  /\ numSplitSymbols \in Nat /\ numEncodedVertices \in Nat /\ numEncodedFaces \in Nat

(* Before it is read, nothing is.                                          *)
NothingRead ==
  decoderPhase = "idle" =>
    symbolID = 0 /\ activeCorners = <<>> /\ numDecodedFaces = 0 /\ startFacesRead = 0

(* The table keeps the size the counts of the stream give it.              *)
AllVertices == 0 .. DecoderMaxVertices - 1

TableHasItsSize ==
  decoderPhase \notin {"idle", "failed"} =>
    /\ DecodedCorners = Corners(numEncodedFaces)
    /\ DecodedVertexIDs = AllVertices
    /\ DOMAIN isVertHole = AllVertices
    /\ DOMAIN topologySplitCorner = 0 .. NumSymbols - 1

(* Everything that names a corner names one of a face already decoded,     *)
(* even when the table is too small for that face.                         *)
CornersAreOfDecodedFaces ==
  /\ Building =>
       /\ symbolID <= numDecodedFaces
       /\ activeCorners \in Seq(0 .. NewCorner - 1)
       /\ \A id \in DOMAIN topologySplitCorner :
            topologySplitCorner[id] \in {NoCorner} \cup 0 .. NewCorner - 1
       /\ \A v \in DecodedVertexIDs :
            dVertexCorners[v] \in {NoCorner} \cup 0 .. 3 * symbolID - 1
       /\ \A c \in DecodedCorners : dOpposite[c] # NoCorner => c < NewCorner
  /\ decoderPhase \in {"connected", "decoded"} =>
       \A v \in DecodedVertexIDs : dVertexCorners[v] \in {NoCorner} \cup DecodedCorners

(* The part on top of the stack grows at the face decoded last: whatever   *)
(* fits into the table with it, the other parts do too.                    *)
TopIsTheLastFace ==
  decoderPhase = "symbols" =>
    /\ numDecodedFaces = symbolID
    /\ symbolID > 0 => activeCorners # <<>> /\ Last(activeCorners) = NewCorner - 3

ReaderInv ==
  /\ WireTypeOK /\ ReaderTypeOK /\ NothingRead /\ TableHasItsSize
  /\ CornersAreOfDecodedFaces /\ TopIsTheLastFace
  /\ DecodedOppositesArePairs /\ SymbolFacesHaveVertices
  /\ StoredCornersHaveTheirVertex /\ SymbolFacesShareTheirEdges
  /\ DecodedMeshIsComplete

(* Every glued edge joins two faces below `limit` that share it.           *)
SharesItsEdges(opposite, cornerVertex, F, limit) ==
  \A c \in Corners(F) : opposite[c] # NoCorner =>
     c < limit /\ FacesSameEdge(cornerVertex, c, opposite[c])

(* ReaderInv while symbols are read.                                       *)
SymbolsSoFar ==
  /\ decoderPhase = "symbols"
  /\ symbolID \in 0 .. NumSymbols /\ numDecodedFaces = symbolID
  /\ startFacesRead \in 0 .. Len(startFaces)
  /\ dNumVertices \in 0 .. DecoderMaxVertices
  /\ IsTable(dOpposite, Corners(numEncodedFaces))
  /\ SharesItsEdges(dOpposite, dCornerVertex, numEncodedFaces, NewCorner)
  /\ dCornerVertex \in [Corners(numEncodedFaces) -> AllVertices \cup {-1}]
  /\ \A c \in Corners(numEncodedFaces) :
        c < NewCorner => dCornerVertex[c] \in 0 .. dNumVertices - 1
  /\ dVertexCorners \in [AllVertices -> {NoCorner} \cup 0 .. NewCorner - 1]
  /\ \A v \in AllVertices :
        dVertexCorners[v] \in Corners(numEncodedFaces)
          => dCornerVertex[dVertexCorners[v]] = v
  /\ activeCorners \in Seq(0 .. NewCorner - 1)
  /\ symbolID > 0 => activeCorners # <<>> /\ Last(activeCorners) = NewCorner - 3
  /\ topologySplitCorner \in [0 .. NumSymbols - 1 -> {NoCorner} \cup 0 .. NewCorner - 1]
  /\ splitIndex \in 0 .. Len(splitEvents)
  /\ invalidVertices \in Seq(Int)
  /\ isVertHole \in [AllVertices -> BOOLEAN]

LEMMA InvGivesSymbolsSoFar ==
  ReaderInv /\ decoderPhase = "symbols" => SymbolsSoFar
<1> SUFFICES ASSUME ReaderInv, decoderPhase = "symbols"
             PROVE  SymbolsSoFar
  OBVIOUS
<1> DEFINE D == Corners(numEncodedFaces)
<1>1. /\ DecodedCorners = D /\ DecodedVertexIDs = AllVertices
      /\ DOMAIN isVertHole = AllVertices
      /\ DOMAIN topologySplitCorner = 0 .. NumSymbols - 1
  BY DEF ReaderInv, TableHasItsSize
<1>2. /\ numDecodedFaces = symbolID /\ NewCorner = 3 * symbolID
      /\ symbolID > 0 => activeCorners # <<>> /\ Last(activeCorners) = NewCorner - 3
  BY DEF ReaderInv, TopIsTheLastFace, NewCorner
<1>3. D \in SUBSET Nat
  BY CornersAreFinite DEF ReaderInv, WireTypeOK
<1>4. IsTable(dOpposite, D)
  BY <1>1 DEF ReaderInv, ReaderTypeOK, DecodedOppositesArePairs, IsTable
<1>5. SymbolCorners = {c \in D : c < NewCorner}
  BY <1>1, <1>2 DEF SymbolCorners
<1>6. ASSUME NEW c \in D, dOpposite[c] # NoCorner
      PROVE  c < NewCorner /\ FacesSameEdge(dCornerVertex, c, dOpposite[c])
  <2>1. /\ dOpposite[c] \in D /\ dOpposite[dOpposite[c]] = c /\ c # NoCorner
        /\ c < NewCorner /\ dOpposite[c] < NewCorner
    BY <1>1, <1>3, <1>4, <1>6
       DEF ReaderInv, IsTable, IsPairing, CornersAreOfDecodedFaces, Building, NoCorner
  <2> QED
    BY <1>5, <2>1 DEF ReaderInv, SymbolFacesShareTheirEdges
<1>7. \A v \in AllVertices : dVertexCorners[v] \in {NoCorner} \cup 0 .. NewCorner - 1
  BY <1>1, <1>2 DEF ReaderInv, CornersAreOfDecodedFaces, Building
<1>8. \A v \in AllVertices :
         dVertexCorners[v] \in D => dCornerVertex[dVertexCorners[v]] = v
  <2> SUFFICES ASSUME NEW v \in AllVertices, dVertexCorners[v] \in D
               PROVE  dCornerVertex[dVertexCorners[v]] = v
    OBVIOUS
  <2>1. NewCorner \in Int
    BY <1>2 DEF ReaderInv, ReaderTypeOK, WireTypeOK, NumSymbols
  <2>2. dVertexCorners[v] \in SymbolCorners
    BY <1>3, <1>5, <1>7, <2>1 DEF NoCorner
  <2> QED
    BY <1>1, <2>2 DEF ReaderInv, StoredCornersHaveTheirVertex, Building
<1>9. \A c \in D : c < NewCorner => dCornerVertex[c] \in 0 .. dNumVertices - 1
  BY <1>5 DEF ReaderInv, SymbolFacesHaveVertices, Building
<1>10. /\ activeCorners \in Seq(0 .. NewCorner - 1)
       /\ \A id \in 0 .. NumSymbols - 1 :
            topologySplitCorner[id] \in {NoCorner} \cup 0 .. NewCorner - 1
  BY <1>1 DEF ReaderInv, CornersAreOfDecodedFaces, Building
<1>11. /\ symbolID \in 0 .. NumSymbols
       /\ dCornerVertex \in [D -> AllVertices \cup {-1}]
       /\ dVertexCorners \in [AllVertices -> Int]
       /\ dNumVertices \in 0 .. DecoderMaxVertices
       /\ topologySplitCorner \in [0 .. NumSymbols - 1 -> Int]
       /\ splitIndex \in 0 .. Len(splitEvents)
       /\ invalidVertices \in Seq(Int)
       /\ isVertHole \in [AllVertices -> BOOLEAN]
       /\ startFacesRead \in 0 .. Len(startFaces)
  BY <1>1 DEF ReaderInv, ReaderTypeOK
<1>12. /\ dVertexCorners \in [AllVertices -> {NoCorner} \cup 0 .. NewCorner - 1]
       /\ topologySplitCorner \in [0 .. NumSymbols - 1 -> {NoCorner} \cup 0 .. NewCorner - 1]
  BY <1>7, <1>10, <1>11
<1> QED
  BY <1>2, <1>4, <1>6, <1>8, <1>9, <1>10, <1>11, <1>12
     DEF SymbolsSoFar, SharesItsEdges

LEMMA SymbolsSoFarGiveInv ==
  WireTypeOK /\ SymbolsSoFar => ReaderInv
<1> SUFFICES ASSUME WireTypeOK, SymbolsSoFar
             PROVE  ReaderInv
  OBVIOUS
<1> DEFINE D == Corners(numEncodedFaces)
<1>1. /\ DecodedCorners = D /\ DecodedVertexIDs = AllVertices
      /\ DOMAIN isVertHole = AllVertices
      /\ DOMAIN topologySplitCorner = 0 .. NumSymbols - 1
  BY DEF SymbolsSoFar, IsTable, DecodedCorners, DecodedVertexIDs
<1>2. symbolID \in Nat /\ numDecodedFaces = symbolID /\ NewCorner = 3 * symbolID
  BY DEF SymbolsSoFar, NewCorner, WireTypeOK, NumSymbols
<1>3. D \in SUBSET Nat
  BY CornersAreFinite DEF WireTypeOK
<1>4. SymbolCorners = {c \in D : c < NewCorner}
  BY <1>1, <1>2 DEF SymbolCorners
<1>5. decoderPhase = "symbols" /\ Building
  BY DEF SymbolsSoFar, Building
<1>6. activeCorners \in Seq(Nat)
  <2>1. activeCorners \in Seq(0 .. NewCorner - 1)
    BY DEF SymbolsSoFar
  <2>2. 0 .. NewCorner - 1 \subseteq Nat
    BY <1>2
  <2> HIDE DEF NewCorner
  <2> QED
    BY <2>1, <2>2, SeqMonotonic
<1>7. ReaderTypeOK
  <2>1. /\ dOpposite \in [D -> D \cup {NoCorner}]
        /\ topologySplitCorner \in [0 .. NumSymbols - 1 -> {NoCorner} \cup 0 .. NewCorner - 1]
        /\ dVertexCorners \in [AllVertices -> {NoCorner} \cup 0 .. NewCorner - 1]
    BY DEF SymbolsSoFar, IsTable
  <2>2. {NoCorner} \cup 0 .. NewCorner - 1 \subseteq Int
    BY <1>2 DEF NoCorner
  <2>3. /\ topologySplitCorner \in [DOMAIN topologySplitCorner -> Int]
        /\ dVertexCorners \in [DecodedVertexIDs -> Int]
    BY <2>1, <2>2, <1>1
  <2> QED
    BY <1>1, <1>2, <1>6, <2>1, <2>3 DEF ReaderTypeOK, SymbolsSoFar
<1>8. TableHasItsSize /\ NothingRead /\ DecodedMeshIsComplete
  BY <1>1, <1>5 DEF TableHasItsSize, NothingRead, DecodedMeshIsComplete
<1>9. CornersAreOfDecodedFaces
  BY <1>1, <1>2, <1>5 DEF CornersAreOfDecodedFaces, SymbolsSoFar, SharesItsEdges
<1>10. TopIsTheLastFace
  BY DEF TopIsTheLastFace, SymbolsSoFar
<1>11. DecodedOppositesArePairs
  BY DEF DecodedOppositesArePairs, SymbolsSoFar, IsTable
<1>12. SymbolFacesHaveVertices
  BY <1>4 DEF SymbolFacesHaveVertices, SymbolsSoFar
<1>13. StoredCornersHaveTheirVertex
  BY <1>1, <1>4 DEF StoredCornersHaveTheirVertex, SymbolsSoFar
<1>14. SymbolFacesShareTheirEdges
  <2>1. \A c \in D : c # NoCorner
    BY <1>3 DEF NoCorner
  <2> QED
    BY <1>4, <1>3, <2>1 DEF SymbolFacesShareTheirEdges, SymbolsSoFar,
       SharesItsEdges
<1> QED
  BY <1>7, <1>8, <1>9, <1>10, <1>11, <1>12, <1>13, <1>14 DEF ReaderInv

LEMMA SymbolsSoFarGiveInvNext ==
  (WireTypeOK /\ SymbolsSoFar)' => ReaderInv'
BY SymbolsSoFarGiveInv, PTL

-----------------------------------------------------------------------------
(* The stack of parts.                                                     *)

LEMMA FrontAndLast ==
  ASSUME NEW S, NEW s \in Seq(S), s # <<>>
  PROVE  Front(s) \in Seq(S) /\ Last(s) \in S
<1>1. Len(s) \in Nat \ {0} /\ \A i \in 1 .. Len(s) : s[i] \in S
  BY LenProperties, EmptySeq
<1>2. Front(s) \in Seq(S)
  BY <1>1, SubSeqProperties DEF Front
<1> QED
  BY <1>1, <1>2 DEF Last

Pushed(s, e) == s \o <<e>>

LEMMA PushOn ==
  ASSUME NEW S, NEW s \in Seq(S), NEW e \in S
  PROVE  /\ Pushed(s, e) \in Seq(S)
         /\ Pushed(s, e) # <<>>
         /\ Last(Pushed(s, e)) = e
<1>1. <<e>> \in Seq(S) /\ Len(<<e>>) = 1 /\ <<e>>[1] = e
  OBVIOUS
<1>2. /\ s \o <<e>> \in Seq(S)
      /\ Len(s \o <<e>>) = Len(s) + 1
      /\ (s \o <<e>>)[Len(s) + 1] = e
      /\ Len(s) \in Nat
  BY <1>1, ConcatProperties, LenProperties
<1> QED
  BY <1>2, EmptySeq DEF Last, Pushed

-----------------------------------------------------------------------------
(* Gluing.                                                                 *)

(* Gluing two free corners that face the same edge leaves a table a table; *)
(* gluing a corner outside the table changes nothing.                      *)
LEMMA GlueKeepsTable ==
  ASSUME NEW F \in Nat, NEW o, IsTable(o, Corners(F)), NEW cv, NEW limit \in Int,
         SharesItsEdges(o, cv, F, limit),
         NEW c, NEW d,
         c \in Corners(F) /\ d \in Corners(F) =>
            /\ c # d /\ o[c] = NoCorner /\ o[d] = NoCorner
            /\ c < limit /\ d < limit /\ FacesSameEdge(cv, c, d)
  PROVE  /\ IsTable(Glue(o, c, d), Corners(F))
         /\ SharesItsEdges(Glue(o, c, d), cv, F, limit)
         /\ \A x \in Corners(F) : x # c /\ x # d => Glue(o, c, d)[x] = o[x]
<1> DEFINE D == Corners(F)
           g == Glue(o, c, d)
<1>1. D \in SUBSET Nat /\ NoCorner \notin D /\ DOMAIN o = D
  BY CornersAreFinite DEF NoCorner, IsTable
<1>2. CASE ~ (c \in D /\ d \in D)
  BY <1>1, <1>2 DEF Glue
<1>3. CASE c \in D /\ d \in D
  <2>1. /\ g \in [D -> D \cup {NoCorner}]
        /\ \A x \in D : g[x] = IF x = c THEN d ELSE IF x = d THEN c ELSE o[x]
        /\ IsPairing(g)
    BY <1>1, <1>3, GlueKeepsPairing DEF IsTable
  <2>2. FacesSameEdge(cv, d, c)
    BY <1>3 DEF FacesSameEdge
  <2>3. SharesItsEdges(g, cv, F, limit)
    BY <1>3, <2>1, <2>2 DEF SharesItsEdges
  <2> QED
    BY <2>1, <2>3 DEF IsTable
<1> QED
  BY <1>2, <1>3

(* A step that gives equal vertices to the corners that had equal ones     *)
(* keeps the edges shared: it may rename or merge vertices of the faces    *)
(* below the limit, and do anything to the others.                         *)
LEMMA RenamingKeepsEdges ==
  ASSUME NEW F \in Nat, NEW o, IsTable(o, Corners(F)), NEW n \in Nat,
         NEW cv, NEW renamed, SharesItsEdges(o, cv, F, 3 * n),
         \A c, d \in Corners(F) :
            c < 3 * n /\ d < 3 * n /\ cv[c] = cv[d] => renamed[c] = renamed[d]
  PROVE  SharesItsEdges(o, renamed, F, 3 * n)
<1> DEFINE D == Corners(F)
<1> SUFFICES ASSUME NEW c \in D, o[c] # NoCorner
             PROVE  c < 3 * n /\ FacesSameEdge(renamed, c, o[c])
  BY DEF SharesItsEdges
<1>1. D \in SUBSET Nat /\ o[c] \in D /\ o[o[c]] = c /\ c # NoCorner
  BY CornersAreFinite DEF NoCorner, IsTable, IsPairing
<1>2. c < 3 * n /\ o[c] < 3 * n /\ FacesSameEdge(cv, c, o[c])
  BY <1>1 DEF SharesItsEdges
<1>3. /\ c \in Corners(n) /\ o[c] \in Corners(n)
  BY <1>1, <1>2 DEF Corners
<1>4. \A x \in {c, o[c]} :
         /\ NextCorner(x) \in D /\ NextCorner(x) < 3 * n
         /\ PreviousCorner(x) \in D /\ PreviousCorner(x) < 3 * n
  <2> TAKE x \in {c, o[c]}
  <2>1. NextCorner(x) \in D /\ PreviousCorner(x) \in D
    BY <1>1, CornerArithmetic
  <2>2. NextCorner(x) \in Corners(n) /\ PreviousCorner(x) \in Corners(n)
    BY <1>3, CornerArithmetic
  <2> QED
    BY <2>1, <2>2 DEF Corners
<1> QED
  BY <1>2, <1>4 DEF FacesSameEdge

(* The corners of one face.                                                *)
LEMMA NewFaceCorners ==
  ASSUME NEW n \in Nat
  PROVE  /\ NextCorner(3 * n) = 3 * n + 1 /\ PreviousCorner(3 * n) = 3 * n + 2
         /\ NextCorner(3 * n + 1) = 3 * n + 2 /\ PreviousCorner(3 * n + 1) = 3 * n
         /\ NextCorner(3 * n + 2) = 3 * n /\ PreviousCorner(3 * n + 2) = 3 * n + 1
BY DEF NextCorner, PreviousCorner

-----------------------------------------------------------------------------
(* The symbols.                                                            *)

LEMMA Numbers ==
  ASSUME WireTypeOK, SymbolsSoFar
  PROVE  /\ numEncodedFaces \in Nat /\ symbolID \in Nat /\ NewCorner = 3 * symbolID
         /\ NewCorner \in Nat /\ NumSymbols \in Nat
         /\ DecoderMaxVertices \in Nat /\ dNumVertices \in Nat
         /\ 0 .. dNumVertices - 1 \subseteq AllVertices
         /\ DecodedVertexIDs = AllVertices
         /\ DOMAIN dCornerVertex = Corners(numEncodedFaces)
         /\ Corners(numEncodedFaces) = 0 .. 3 * numEncodedFaces - 1
BY DEF WireTypeOK, SymbolsSoFar, NewCorner, NumSymbols, DecoderMaxVertices, AllVertices,
       DecodedVertexIDs, Corners

(* What an active corner shows of the face it lies in.                     *)
LEMMA DecodedFace ==
  ASSUME WireTypeOK, SymbolsSoFar, NEW c \in 0 .. NewCorner - 1
  PROVE  /\ NextIn(c) = NextCorner(c) /\ NextCorner(c) \in 0 .. NewCorner - 1
         /\ PreviousIn(c) = PreviousCorner(c) /\ PreviousCorner(c) \in 0 .. NewCorner - 1
         /\ NextCorner(PreviousCorner(c)) = c /\ PreviousCorner(NextCorner(c)) = c
         /\ c \in Corners(numEncodedFaces) =>
              /\ NextCorner(c) \in Corners(numEncodedFaces)
              /\ PreviousCorner(c) \in Corners(numEncodedFaces)
              /\ VertexOf(NextIn(c)) = dCornerVertex[NextCorner(c)]
              /\ VertexOf(NextIn(c)) \in 0 .. dNumVertices - 1
              /\ VertexOf(PreviousIn(c)) = dCornerVertex[PreviousCorner(c)]
              /\ VertexOf(PreviousIn(c)) \in 0 .. dNumVertices - 1
         /\ c \notin Corners(numEncodedFaces) =>
              /\ VertexOf(NextIn(c)) = -1
              /\ VertexOf(PreviousIn(c)) = -1
<1> DEFINE D == Corners(numEncodedFaces)
<1>1. numEncodedFaces \in Nat /\ symbolID \in Nat /\ NewCorner = 3 * symbolID
      /\ DOMAIN dCornerVertex = D
  BY Numbers
<1>2. Corners(symbolID) = 0 .. NewCorner - 1
  BY <1>1 DEF Corners
<1>3. /\ NextCorner(c) \in 0 .. NewCorner - 1 /\ PreviousCorner(c) \in 0 .. NewCorner - 1
      /\ NextCorner(PreviousCorner(c)) = c /\ PreviousCorner(NextCorner(c)) = c
      /\ NextCorner(NextCorner(c)) = PreviousCorner(c)
  BY <1>1, <1>2, CornerArithmetic, NextAndPrevious
<1>4. NextIn(c) = NextCorner(c) /\ PreviousIn(c) = PreviousCorner(c)
  BY DEF NextIn, PreviousIn
<1>5. ASSUME c \in D
      PROVE  /\ NextCorner(c) \in D /\ PreviousCorner(c) \in D
             /\ \A d \in {NextCorner(c), PreviousCorner(c)} :
                   VertexOf(d) = dCornerVertex[d] /\ VertexOf(d) \in 0 .. dNumVertices - 1
  <2>1. NextCorner(c) \in D /\ PreviousCorner(c) \in D
    BY <1>1, <1>5, CornerArithmetic
  <2>2. ASSUME NEW d \in {NextCorner(c), PreviousCorner(c)}
        PROVE  VertexOf(d) = dCornerVertex[d] /\ VertexOf(d) \in 0 .. dNumVertices - 1
    <3>1. d \in D /\ d < NewCorner
      BY <1>1, <1>3, <1>5, <2>1
    <3> QED
      BY <1>1, <3>1 DEF VertexOf, At, SymbolsSoFar
  <2> QED
    BY <2>1, <2>2
<1>6. ASSUME c \notin D
      PROVE  VertexOf(NextCorner(c)) = -1 /\ VertexOf(PreviousCorner(c)) = -1
  <2>1. \A d \in D : NextCorner(d) \in D /\ PreviousCorner(d) \in D
    BY <1>1, CornerArithmetic
  <2>2. NextCorner(c) \notin D /\ PreviousCorner(c) \notin D
    BY <1>3, <1>6, <2>1
  <2> QED
    BY <1>1, <2>2 DEF VertexOf, At
<1> QED
  BY <1>3, <1>4, <1>5, <1>6

(* The vertices of a new face.                                             *)
LEMMA NewFaceVertices ==
  ASSUME WireTypeOK, SymbolsSoFar, NEW v0, NEW v1, NEW v2,
         NEW m \in dNumVertices .. DecoderMaxVertices,
         NewCorner \in Corners(numEncodedFaces) =>
            v0 \in 0 .. m - 1 /\ v1 \in 0 .. m - 1 /\ v2 \in 0 .. m - 1,
         NEW cv, cv = MapCorners(dCornerVertex, NewFace(v0, v1, v2))
  PROVE  /\ cv \in [Corners(numEncodedFaces) -> AllVertices \cup {-1}]
         /\ \A c \in Corners(numEncodedFaces) : c < NewCorner => cv[c] = dCornerVertex[c]
         /\ \A c \in Corners(numEncodedFaces) : c < NewCorner + 3 => cv[c] \in 0 .. m - 1
         /\ NewCorner \in Corners(numEncodedFaces) =>
              /\ NewCorner + 1 \in Corners(numEncodedFaces)
              /\ NewCorner + 2 \in Corners(numEncodedFaces)
              /\ 0 .. NewCorner - 1 \subseteq Corners(numEncodedFaces)
              /\ cv[NewCorner] = v0 /\ cv[NewCorner + 1] = v1 /\ cv[NewCorner + 2] = v2
         /\ NewCorner \notin Corners(numEncodedFaces) =>
              /\ NewCorner + 1 \notin Corners(numEncodedFaces)
              /\ NewCorner + 2 \notin Corners(numEncodedFaces)
         /\ SharesItsEdges(dOpposite, cv, numEncodedFaces, NewCorner)
<1> DEFINE D == Corners(numEncodedFaces)
           N == NewCorner
           new == NewFace(v0, v1, v2)
<1>1. /\ numEncodedFaces \in Nat /\ symbolID \in Nat /\ N = 3 * symbolID /\ N \in Nat
      /\ DecoderMaxVertices \in Nat /\ dNumVertices \in Nat
      /\ DecodedVertexIDs = AllVertices /\ AllVertices = 0 .. DecoderMaxVertices - 1
      /\ DOMAIN dCornerVertex = D /\ D = 0 .. 3 * numEncodedFaces - 1
  BY Numbers DEF AllVertices
<1>2. /\ dCornerVertex \in [D -> AllVertices \cup {-1}]
      /\ \A c \in D : c < N => dCornerVertex[c] \in 0 .. dNumVertices - 1
      /\ IsTable(dOpposite, D)
      /\ SharesItsEdges(dOpposite, dCornerVertex, numEncodedFaces, N)
  BY DEF SymbolsSoFar
<1>3. /\ DOMAIN new = {N, N + 1, N + 2}
      /\ new[N] = v0 /\ new[N + 1] = v1 /\ new[N + 2] = v2
  BY <1>1 DEF NewFace
<1>4. cv = [c \in D |-> IF c \in {N, N + 1, N + 2} /\ new[c] \in AllVertices
                         THEN new[c] ELSE dCornerVertex[c]]
  BY <1>1, <1>3 DEF MapCorners
<1> HIDE DEF new, N, D
<1>5. cv \in [D -> AllVertices \cup {-1}] /\ \A c \in D : c < N => cv[c] = dCornerVertex[c]
  BY <1>1, <1>2, <1>4
<1>6. /\ N \in D => N + 1 \in D /\ N + 2 \in D /\ 0 .. N - 1 \subseteq D
      /\ N \notin D => N + 1 \notin D /\ N + 2 \notin D
      /\ \A c \in D : c < N + 3 => c < N \/ (c \in {N, N + 1, N + 2} /\ N \in D)
  BY <1>1
<1>7. N \in D => cv[N] = v0 /\ cv[N + 1] = v1 /\ cv[N + 2] = v2
  <2> SUFFICES ASSUME N \in D
               PROVE  cv[N] = v0 /\ cv[N + 1] = v1 /\ cv[N + 2] = v2
    OBVIOUS
  <2>1. v0 \in AllVertices /\ v1 \in AllVertices /\ v2 \in AllVertices
    BY <1>1 DEF N, D
  <2> QED
    BY <1>3, <1>4, <1>6, <2>1
<1>8. \A c \in D : c < N + 3 => cv[c] \in 0 .. m - 1
  <2> SUFFICES ASSUME NEW c \in D, c < N + 3
               PROVE  cv[c] \in 0 .. m - 1
    OBVIOUS
  <2>1. CASE c < N
    BY <1>1, <1>2, <1>5, <2>1
  <2>2. CASE c \in {N, N + 1, N + 2} /\ N \in D
    BY <1>7, <2>2 DEF N, D
  <2> QED
    BY <1>6, <2>1, <2>2
<1>9. SharesItsEdges(dOpposite, cv, numEncodedFaces, 3 * symbolID)
  <2>1. \A c, d \in D : c < 3 * symbolID /\ d < 3 * symbolID
                          /\ dCornerVertex[c] = dCornerVertex[d] => cv[c] = cv[d]
    BY <1>1, <1>5
  <2>2. SharesItsEdges(dOpposite, dCornerVertex, numEncodedFaces, 3 * symbolID)
    BY <1>1, <1>2
  <2> QED
    BY <1>1, <1>2, <2>1, <2>2, RenamingKeepsEdges DEF D
<1> QED
  BY <1>1, <1>5, <1>6, <1>7, <1>8, <1>9 DEF N, D

(* What a symbol must do to keep SymbolsSoFar.                             *)
LEMMA AddedFace ==
  ASSUME WireTypeOK, SymbolsSoFar, symbolID < NumSymbols,
         FaceAdded, UNCHANGED <<wireVars, decoderPhase>>,
         IsTable(dOpposite', Corners(numEncodedFaces)),
         SharesItsEdges(dOpposite', dCornerVertex', numEncodedFaces, NewCorner + 3),
         dNumVertices' \in 0 .. DecoderMaxVertices,
         dCornerVertex' \in [Corners(numEncodedFaces) -> AllVertices \cup {-1}],
         \A c \in Corners(numEncodedFaces) :
            c < NewCorner + 3 => dCornerVertex'[c] \in 0 .. dNumVertices' - 1,
         dVertexCorners' \in [AllVertices -> {NoCorner} \cup 0 .. NewCorner + 2],
         \A v \in AllVertices :
            dVertexCorners'[v] \in Corners(numEncodedFaces)
              => dCornerVertex'[dVertexCorners'[v]] = v,
         activeCorners' \in Seq(0 .. NewCorner + 2), activeCorners' # <<>>,
         Last(activeCorners)' = NewCorner,
         topologySplitCorner' \in [0 .. NumSymbols - 1 -> {NoCorner} \cup 0 .. NewCorner + 2],
         splitIndex' \in 0 .. Len(splitEvents),
         invalidVertices' \in Seq(Int),
         isVertHole' \in [AllVertices -> BOOLEAN]
  PROVE  SymbolsSoFar'
<1>1. /\ UNCHANGED <<decoderPhase, numEncodedFaces, NumSymbols, AllVertices,
                     DecoderMaxVertices, splitEvents, startFaces, startFacesRead>>
  BY DEF wireVars, FaceAdded, NumSymbols, AllVertices, DecoderMaxVertices
<1>2. Corners(numEncodedFaces)' = Corners(numEncodedFaces)
  BY <1>1
<1>3. /\ symbolID' \in 0 .. NumSymbols /\ numDecodedFaces' = symbolID'
      /\ NewCorner' = NewCorner + 3 /\ NewCorner' - 3 = NewCorner /\ NewCorner' - 1 = NewCorner + 2
  <2>1. symbolID \in Nat /\ NumSymbols \in Nat /\ numDecodedFaces = symbolID
        /\ symbolID' = symbolID + 1 /\ numDecodedFaces' = numDecodedFaces + 1
    BY Numbers DEF FaceAdded, SymbolsSoFar
  <2>2. symbolID' \in 0 .. NumSymbols /\ numDecodedFaces' = symbolID'
    BY <2>1
  <2> QED
    BY <2>1, <2>2 DEF NewCorner
<1> QED
  BY <1>1, <1>2, <1>3 DEF SymbolsSoFar

LEMMA SymbolCKeeps ==
  WireTypeOK /\ SymbolsSoFar /\ DecodeC /\ UNCHANGED wireVars => SymbolsSoFar' \/ Fail
<1> SUFFICES ASSUME WireTypeOK, SymbolsSoFar, DecodeC, UNCHANGED wireVars, ~ Fail
             PROVE  SymbolsSoFar'
  OBVIOUS
<1> DEFINE D == Corners(numEncodedFaces)
           N == NewCorner
           a == Top
           x == VertexOf(NextIn(a))
           q == LeftMostCornerOf(x)
           b == NextIn(q)
           vertAPrev == VertexOf(PreviousIn(a))
           vertBNext == VertexOf(NextIn(b))
           cv == MapCorners(dCornerVertex, NewFace(x, vertBNext, vertAPrev))
           glued == Glue(dOpposite, a, N + 1)
<1>1. symbolID < NumSymbols
  BY Numbers DEF DecodeC, ReadingSymbol
<1>2. /\ activeCorners # <<>> /\ a # b /\ ~ (a < 0) /\ ~ (b < 0)
      /\ ~ Occupied(a) /\ ~ Occupied(b)
      /\ dOpposite' = Glue(glued, b, N + 2)
      /\ dCornerVertex' = cv
      /\ dVertexCorners' = SetLeftMost(dVertexCorners, vertAPrev, N + 2)
      /\ isVertHole' = ClosedVertices({x})
      /\ activeCorners' = ReplaceTop(N)
      /\ FaceAdded
      /\ UNCHANGED <<decoderPhase, dNumVertices, topologySplitCorner,
                     splitIndex, invalidVertices>>
  BY DEF DecodeC
<1>3. /\ numEncodedFaces \in Nat /\ N \in Nat /\ N = 3 * symbolID /\ symbolID \in Nat
      /\ dNumVertices \in Nat /\ DecoderMaxVertices \in Nat
      /\ 0 .. dNumVertices - 1 \subseteq AllVertices
      /\ DecodedVertexIDs = AllVertices /\ AllVertices = 0 .. DecoderMaxVertices - 1
      /\ D = 0 .. 3 * numEncodedFaces - 1
  BY Numbers DEF AllVertices
<1>4. /\ IsTable(dOpposite, D) /\ SharesItsEdges(dOpposite, dCornerVertex, numEncodedFaces, N)
      /\ dNumVertices <= DecoderMaxVertices
      /\ dVertexCorners \in [AllVertices -> {NoCorner} \cup 0 .. N - 1]
      /\ \A v \in AllVertices : dVertexCorners[v] \in D => dCornerVertex[dVertexCorners[v]] = v
      /\ activeCorners \in Seq(0 .. N - 1)
      /\ topologySplitCorner \in [0 .. NumSymbols - 1 -> {NoCorner} \cup 0 .. N - 1]
      /\ splitIndex \in 0 .. Len(splitEvents) /\ invalidVertices \in Seq(Int)
      /\ isVertHole \in [AllVertices -> BOOLEAN]
  BY <1>3 DEF SymbolsSoFar
<1>5. a \in 0 .. N - 1 /\ Front(activeCorners) \in Seq(0 .. N - 1)
  BY <1>2, <1>4, FrontAndLast DEF Top
<1>6. x \in 0 .. dNumVertices - 1 /\ a \in D
  <2>1. a \in D => x \in 0 .. dNumVertices - 1
    BY <1>5, DecodedFace
  <2>2. a \notin D => x = -1
    BY <1>5, DecodedFace
  <2>3. x = -1 => q = -1
    BY <1>3, <1>4 DEF LeftMostCornerOf, At
  <2>4. q = -1 => b < 0
    BY DEF NextIn, NoCorner
  <2> QED
    BY <1>2, <2>1, <2>2, <2>3, <2>4
<1>7. q = dVertexCorners[x] /\ q \in 0 .. N - 1
  <2>1. q = dVertexCorners[x] /\ q \in {NoCorner} \cup 0 .. N - 1
    BY <1>3, <1>4, <1>6 DEF LeftMostCornerOf, At
  <2>2. q = NoCorner => b < 0
    BY DEF NextIn, NoCorner
  <2> QED
    BY <1>2, <2>1, <2>2
<1>8. /\ b \in 0 .. N - 1 /\ b = NextCorner(q) /\ PreviousCorner(b) = q
      /\ b \in D => q \in D /\ dCornerVertex[q] = x
  <2>1. b \in 0 .. N - 1 /\ b = NextCorner(q) /\ PreviousCorner(b) = q
    BY <1>7, DecodedFace
  <2>2. b \in D => q \in D
    BY <1>3, <1>7, <2>1, CornerArithmetic
  <2> QED
    BY <1>3, <1>4, <1>6, <1>7, <2>1, <2>2
<1>9. /\ x = dCornerVertex[NextCorner(a)] /\ vertAPrev = dCornerVertex[PreviousCorner(a)]
      /\ NextCorner(a) \in D /\ PreviousCorner(a) \in D
      /\ NextCorner(a) < N /\ PreviousCorner(a) < N
      /\ vertAPrev \in 0 .. dNumVertices - 1
  <2>1. NextCorner(a) \in 0 .. N - 1 /\ PreviousCorner(a) \in 0 .. N - 1
    BY <1>5, DecodedFace
  <2>2. NextCorner(a) < N /\ PreviousCorner(a) < N
    BY <1>3, <2>1
  <2> QED
    BY <1>5, <1>6, <2>2, DecodedFace
<1>10. b \in D =>
         /\ vertBNext = dCornerVertex[NextCorner(b)]
         /\ NextCorner(b) \in D /\ NextCorner(b) < N
         /\ vertBNext \in 0 .. dNumVertices - 1
  <2>1. NextCorner(b) \in 0 .. N - 1
    BY <1>8, DecodedFace
  <2>2. NextCorner(b) < N
    BY <1>3, <2>1
  <2> QED
    BY <1>8, <2>2, DecodedFace
<1> HIDE DEF x, q, vertAPrev, vertBNext, cv, glued, a, b, N, D
<1>11. N \in D => b \in D
  BY <1>3, <1>8
<1>12. /\ cv \in [D -> AllVertices \cup {-1}]
       /\ \A c \in D : c < N => cv[c] = dCornerVertex[c]
       /\ \A c \in D : c < N + 3 => cv[c] \in 0 .. dNumVertices - 1
       /\ N \in D => /\ N + 1 \in D /\ N + 2 \in D
                     /\ cv[N] = x /\ cv[N + 1] = vertBNext /\ cv[N + 2] = vertAPrev
       /\ N \notin D => N + 1 \notin D /\ N + 2 \notin D
       /\ SharesItsEdges(dOpposite, cv, numEncodedFaces, N)
  <2>1. dNumVertices \in dNumVertices .. DecoderMaxVertices
    BY <1>3, <1>4
  <2>2. N \in D => /\ x \in 0 .. dNumVertices - 1 /\ vertBNext \in 0 .. dNumVertices - 1
                   /\ vertAPrev \in 0 .. dNumVertices - 1
    BY <1>6, <1>9, <1>10, <1>11
  <2> QED
    BY <2>1, <2>2, NewFaceVertices DEF cv, N, D
<1>13. /\ NextCorner(N) = N + 1 /\ PreviousCorner(N) = N + 2
       /\ NextCorner(N + 1) = N + 2 /\ PreviousCorner(N + 1) = N
       /\ NextCorner(N + 2) = N /\ PreviousCorner(N + 2) = N + 1
  BY <1>3, NewFaceCorners
<1>14. SharesItsEdges(dOpposite, cv, numEncodedFaces, N + 3)
  BY <1>3, <1>12 DEF SharesItsEdges, D
<1>15. /\ dOpposite[a] = NoCorner
       /\ b \in D => dOpposite[b] = NoCorner
       /\ \A c \in D : c >= N => dOpposite[c] = NoCorner
  <2>1. \A c \in D : dOpposite[c] \in D \cup {NoCorner}
    BY <1>4 DEF IsTable
  <2>2. \A c \in D : ~ Occupied(c) => dOpposite[c] = NoCorner
    BY <1>3, <1>4, <2>1 DEF Occupied, OppositeOf, At, IsTable
  <2> QED
    BY <1>2, <1>3, <1>4, <1>6, <2>2 DEF SharesItsEdges, D
<1>16. N \in D => FacesSameEdge(cv, a, N + 1) /\ FacesSameEdge(cv, b, N + 2)
  <2> SUFFICES ASSUME N \in D
               PROVE  FacesSameEdge(cv, a, N + 1) /\ FacesSameEdge(cv, b, N + 2)
    OBVIOUS
  <2>1. cv[NextCorner(a)] = x /\ cv[PreviousCorner(a)] = vertAPrev
    BY <1>9, <1>12
  <2>2. cv[NextCorner(b)] = vertBNext /\ cv[PreviousCorner(b)] = x
    <3>1. q < N
      BY <1>3, <1>7
    <3> QED
      BY <1>8, <1>10, <1>11, <1>12, <3>1
  <2> QED
    BY <1>12, <1>13, <2>1, <2>2 DEF FacesSameEdge
<1>17. /\ IsTable(glued, D) /\ SharesItsEdges(glued, cv, numEncodedFaces, N + 3)
       /\ \A c \in D : c # a /\ c # N + 1 => glued[c] = dOpposite[c]
  <2>1. a \in D /\ N + 1 \in D =>
          /\ a # N + 1 /\ dOpposite[a] = NoCorner /\ dOpposite[N + 1] = NoCorner
          /\ a < N + 3 /\ N + 1 < N + 3 /\ FacesSameEdge(cv, a, N + 1)
    BY <1>3, <1>5, <1>12, <1>15, <1>16
  <2>2. N + 3 \in Int /\ numEncodedFaces \in Nat
    BY <1>3
  <2>3. IsTable(dOpposite, D)
    BY <1>4
  <2> QED
    BY <1>14, <2>1, <2>2, <2>3, GlueKeepsTable DEF glued, D
<1>18. /\ IsTable(dOpposite', D) /\ SharesItsEdges(dOpposite', cv, numEncodedFaces, N + 3)
  <2>1. b \in D /\ N + 2 \in D =>
          /\ b # N + 2 /\ glued[b] = NoCorner /\ glued[N + 2] = NoCorner
          /\ b < N + 3 /\ N + 2 < N + 3 /\ FacesSameEdge(cv, b, N + 2)
    <3> SUFFICES ASSUME b \in D, N + 2 \in D
                 PROVE  /\ b # N + 2 /\ glued[b] = NoCorner /\ glued[N + 2] = NoCorner
                        /\ b < N + 3 /\ N + 2 < N + 3 /\ FacesSameEdge(cv, b, N + 2)
      OBVIOUS
    <3>1. /\ b # N + 1 /\ b # N + 2 /\ b < N + 3 /\ N + 2 < N + 3
          /\ a # N + 2 /\ N + 1 # N + 2 /\ N + 2 >= N
      BY <1>3, <1>5, <1>8
    <3>2. glued[b] = dOpposite[b] /\ glued[N + 2] = dOpposite[N + 2]
      BY <1>2, <1>17, <3>1
    <3> QED
      BY <1>12, <1>15, <1>16, <3>1, <3>2
  <2>2. N + 3 \in Int /\ numEncodedFaces \in Nat
    BY <1>3
  <2> QED
    BY <1>2, <1>17, <2>1, <2>2, GlueKeepsTable DEF D
<1>19. /\ dVertexCorners' \in [AllVertices -> {NoCorner} \cup 0 .. N + 2]
       /\ \A v \in AllVertices : dVertexCorners'[v] \in D => cv[dVertexCorners'[v]] = v
  <2>1. dVertexCorners' = [v \in AllVertices |->
           IF v = vertAPrev THEN N + 2 ELSE dVertexCorners[v]]
    BY <1>2, <1>4 DEF SetLeftMost
  <2>2. \A v \in AllVertices : dVertexCorners[v] \in {NoCorner} \cup 0 .. N - 1
    BY <1>4
  <2>3. ASSUME NEW v \in AllVertices
        PROVE  /\ dVertexCorners'[v] \in {NoCorner} \cup 0 .. N + 2
               /\ dVertexCorners'[v] \in D => cv[dVertexCorners'[v]] = v
    <3>1. CASE v = vertAPrev
      BY <1>3, <1>12, <2>1, <3>1
    <3>2. CASE v # vertAPrev
      <4>1. dVertexCorners'[v] = dVertexCorners[v]
        BY <2>1, <3>2
      <4>2. dVertexCorners[v] \in D => dVertexCorners[v] < N
        BY <1>3, <2>2 DEF NoCorner
      <4>3. dVertexCorners[v] \in {NoCorner} \cup 0 .. N + 2
        BY <1>3, <2>2
      <4> QED
        BY <1>4, <1>12, <4>1, <4>2, <4>3
    <3> QED
      BY <3>1, <3>2
  <2> QED
    BY <2>1, <2>3
<1>20. /\ activeCorners' \in Seq(0 .. N + 2) /\ activeCorners' # <<>>
       /\ Last(activeCorners)' = N
  <2>1. 0 .. N - 1 \subseteq 0 .. N + 2 /\ N \in 0 .. N + 2
    BY <1>3
  <2>2. Front(activeCorners) \in Seq(0 .. N + 2)
    BY <1>5, <2>1, SeqMonotonic
  <2>3. activeCorners' = Pushed(Front(activeCorners), N)
    BY <1>2 DEF ReplaceTop, Pushed
  <2> QED
    BY <2>1, <2>2, <2>3, PushOn
<1>21. topologySplitCorner \in [0 .. NumSymbols - 1 -> {NoCorner} \cup 0 .. N + 2]
  BY <1>3, <1>4
<1>22. isVertHole' \in [AllVertices -> BOOLEAN]
  BY <1>2, <1>4 DEF ClosedVertices
<1> QED
  BY <1>1, <1>2, <1>3, <1>4, <1>12, <1>18, <1>19, <1>20, <1>21, <1>22, AddedFace DEF N, D, SymbolsSoFar

(* Split events leave corners of the new face only.                        *)
LEMMA SplitEventsKeep ==
  WireTypeOK /\ SymbolsSoFar /\ TakeSplitEvents(NewCorner) =>
    /\ topologySplitCorner' \in [0 .. NumSymbols - 1 -> {NoCorner} \cup 0 .. NewCorner + 2]
    /\ splitIndex' \in 0 .. Len(splitEvents)
<1> SUFFICES ASSUME WireTypeOK, SymbolsSoFar, TakeSplitEvents(NewCorner)
             PROVE  /\ topologySplitCorner' \in [0 .. NumSymbols - 1 ->
                                                   {NoCorner} \cup 0 .. NewCorner + 2]
                    /\ splitIndex' \in 0 .. Len(splitEvents)
  OBVIOUS
<1>1. /\ NewCorner = 3 * symbolID /\ symbolID \in Nat /\ NewCorner \in Nat
      /\ topologySplitCorner \in [0 .. NumSymbols - 1 -> {NoCorner} \cup 0 .. NewCorner - 1]
      /\ splitIndex \in 0 .. Len(splitEvents) /\ Len(splitEvents) \in Nat
  <2>1. splitEvents \in Seq(SplitEvents)
    BY DEF WireTypeOK
  <2>2. Len(splitEvents) \in Nat
    BY <2>1, LenProperties
  <2> QED
    BY <2>2, Numbers DEF SymbolsSoFar
<1>2. NextCorner(NewCorner) = NewCorner + 1 /\ PreviousCorner(NewCorner) = NewCorner + 2
  BY <1>1, NewFaceCorners
<1>3. topologySplitCorner' \in [0 .. NumSymbols - 1 -> {NoCorner} \cup 0 .. NewCorner + 2]
  <2> DEFINE cornerOf(i) == IF splitEvents[i].edge = "right"
                            THEN NextCorner(NewCorner) ELSE PreviousCorner(NewCorner)
             for(id) == {i \in EventsHere : DecoderSplitID(i) = id}
             left(id) == CHOOSE i \in for(id) : \A j \in for(id) : i <= j
  <2>1. topologySplitCorner' = [id \in 0 .. NumSymbols - 1 |->
           IF for(id) = {} THEN topologySplitCorner[id] ELSE cornerOf(left(id))]
    BY <1>1 DEF TakeSplitEvents
  <2>2. \A i : cornerOf(i) \in 0 .. NewCorner + 2
    BY <1>1, <1>2
  <2>3. \A id \in 0 .. NumSymbols - 1 :
           topologySplitCorner[id] \in {NoCorner} \cup 0 .. NewCorner + 2
    BY <1>1
  <2> HIDE DEF cornerOf, for, left
  <2> QED
    BY <2>1, <2>2, <2>3
<1>4. splitIndex' \in 0 .. Len(splitEvents)
  <2>1. EventsHere \subseteq 1 .. splitIndex
    BY DEF EventsHere
  <2>2. \A a, b \in Int : IsFiniteSet(a .. b)
                            /\ Cardinality(a .. b) = IF a > b THEN 0 ELSE b - a + 1
    BY FS_Interval
  <2>3. splitIndex \in Nat /\ 1 \in Int
    BY <1>1
  <2>4. IsFiniteSet(1 .. splitIndex) /\ Cardinality(1 .. splitIndex) = splitIndex
    BY <2>2, <2>3
  <2>5. Cardinality(EventsHere) <= splitIndex /\ IsFiniteSet(EventsHere)
    BY <2>1, <2>4, FS_Subset
  <2>6. Cardinality(EventsHere) \in Nat
    BY <2>5, FS_CardinalityType
  <2>7. splitIndex' = splitIndex - Cardinality(EventsHere)
    BY DEF TakeSplitEvents
  <2> QED
    BY <1>1, <2>3, <2>5, <2>6, <2>7
<1> QED
  BY <1>3, <1>4

(* The corner stored for a vertex stays its corner when faces are added.   *)
LEMMA StoredCornerStays ==
  ASSUME WireTypeOK, SymbolsSoFar, NEW v \in AllVertices,
         NEW cv, \A c \in Corners(numEncodedFaces) : c < NewCorner => cv[c] = dCornerVertex[c]
  PROVE  /\ dVertexCorners[v] \in {NoCorner} \cup 0 .. NewCorner + 2
         /\ dVertexCorners[v] \in Corners(numEncodedFaces) => cv[dVertexCorners[v]] = v
<1>1. /\ dVertexCorners[v] \in {NoCorner} \cup 0 .. NewCorner - 1
      /\ dVertexCorners[v] \in Corners(numEncodedFaces)
           => dCornerVertex[dVertexCorners[v]] = v
  BY DEF SymbolsSoFar
<1>2. NewCorner \in Nat /\ NoCorner \notin Corners(numEncodedFaces)
  BY Numbers, CornersAreFinite DEF NoCorner
<1>3. dVertexCorners[v] \in Corners(numEncodedFaces) => dVertexCorners[v] < NewCorner
  BY <1>1, <1>2
<1> QED
  BY <1>1, <1>2, <1>3

LEMMA SideKeeps ==
  ASSUME WireTypeOK, SymbolsSoFar, UNCHANGED wireVars, ~ Fail,
         NEW symbol, NEW opp \in {NewCorner + 1, NewCorner + 2},
         DecodeSide(symbol, opp, PreviousCorner(opp), NextCorner(opp))
  PROVE  SymbolsSoFar'
<1> DEFINE D == Corners(numEncodedFaces)
           N == NewCorner
           a == Top
           l == PreviousCorner(opp)
           r == NextCorner(opp)
           newVertex == dNumVertices
           vertexR == VertexOf(PreviousIn(a))
           vertexL == VertexOf(NextIn(a))
           given == [c \in {opp, l, r} |->
                       IF c = opp THEN newVertex ELSE IF c = r THEN vertexR ELSE vertexL]
           cv == MapCorners(dCornerVertex, NewFace(given[N], given[N + 1], given[N + 2]))
<1>1. symbolID < NumSymbols
  BY Numbers DEF DecodeSide, ReadingSymbol
<1>2. /\ activeCorners # <<>> /\ ~ Occupied(a) /\ ~ NoRoomFor(1)
      /\ dOpposite' = Glue(dOpposite, opp, a)
      /\ dNumVertices' = dNumVertices + 1
      /\ dCornerVertex' = MapCorners(dCornerVertex, given)
      /\ dVertexCorners' = SetLeftMost(SetLeftMost(dVertexCorners, newVertex, opp), vertexR, r)
      /\ activeCorners' = ReplaceTop(N)
      /\ TakeSplitEvents(N)
      /\ FaceAdded
      /\ UNCHANGED <<decoderPhase, invalidVertices, isVertHole>>
  BY DEF DecodeSide
<1>3. /\ numEncodedFaces \in Nat /\ N \in Nat /\ N = 3 * symbolID /\ symbolID \in Nat
      /\ dNumVertices \in Nat /\ DecoderMaxVertices \in Nat
      /\ 0 .. dNumVertices - 1 \subseteq AllVertices
      /\ DecodedVertexIDs = AllVertices /\ AllVertices = 0 .. DecoderMaxVertices - 1
      /\ D = 0 .. 3 * numEncodedFaces - 1
  BY Numbers DEF AllVertices
<1>4. /\ IsTable(dOpposite, D) /\ SharesItsEdges(dOpposite, dCornerVertex, numEncodedFaces, N)
      /\ DOMAIN dVertexCorners = AllVertices
      /\ activeCorners \in Seq(0 .. N - 1)
      /\ splitIndex \in 0 .. Len(splitEvents) /\ invalidVertices \in Seq(Int)
      /\ isVertHole \in [AllVertices -> BOOLEAN]
  BY <1>3 DEF SymbolsSoFar
<1>5. a \in 0 .. N - 1 /\ Front(activeCorners) \in Seq(0 .. N - 1)
  BY <1>2, <1>4, FrontAndLast DEF Top
<1>6. dNumVertices + 1 \in dNumVertices .. DecoderMaxVertices
      /\ newVertex \in AllVertices
  BY <1>2, <1>3 DEF NoRoomFor
<1>7. a \in D =>
         /\ vertexL = dCornerVertex[NextCorner(a)] /\ vertexR = dCornerVertex[PreviousCorner(a)]
         /\ NextCorner(a) \in D /\ NextCorner(a) < N
         /\ PreviousCorner(a) \in D /\ PreviousCorner(a) < N
         /\ vertexL \in 0 .. dNumVertices - 1 /\ vertexR \in 0 .. dNumVertices - 1
  <2>1. NextCorner(a) \in 0 .. N - 1 /\ PreviousCorner(a) \in 0 .. N - 1
    BY <1>5, DecodedFace
  <2>2. NextCorner(a) < N /\ PreviousCorner(a) < N
    BY <1>3, <2>1
  <2> QED
    BY <1>5, <2>2, DecodedFace
<1>8. /\ {opp, l, r} = {N, N + 1, N + 2} /\ opp # l /\ opp # r /\ l # r
      /\ NextCorner(opp) = r /\ PreviousCorner(opp) = l
  BY <1>3, NewFaceCorners
<1>9. /\ given[opp] = newVertex /\ given[r] = vertexR /\ given[l] = vertexL
      /\ given = NewFace(given[N], given[N + 1], given[N + 2])
  <2>1. given[opp] = newVertex /\ given[r] = vertexR /\ given[l] = vertexL
    BY <1>8
  <2>2. /\ given = [c \in {N, N + 1, N + 2} |-> given[c]]
        /\ N # N + 1 /\ N # N + 2 /\ N + 1 # N + 2
    BY <1>3, <1>8
  <2> HIDE DEF given
  <2>3. [c \in {N, N + 1, N + 2} |-> given[c]] = NewFace(given[N], given[N + 1], given[N + 2])
    BY <2>2 DEF NewFace
  <2> QED
    BY <2>1, <2>2, <2>3
<1>10. dCornerVertex' = cv
  BY <1>2, <1>9
<1> HIDE DEF vertexL, vertexR, given, cv, a, l, r, N, D, newVertex
<1>11. N \in D => a \in D
  BY <1>3, <1>5
<1>12. /\ cv \in [D -> AllVertices \cup {-1}]
       /\ \A c \in D : c < N => cv[c] = dCornerVertex[c]
       /\ \A c \in D : c < N + 3 => cv[c] \in 0 .. dNumVertices
       /\ N \in D => /\ N + 1 \in D /\ N + 2 \in D
                     /\ \A c \in {opp, l, r} : cv[c] = given[c]
       /\ N \notin D => N + 1 \notin D /\ N + 2 \notin D
       /\ SharesItsEdges(dOpposite, cv, numEncodedFaces, N)
  <2>1. N \in D => /\ given[N] \in 0 .. (dNumVertices + 1) - 1
                   /\ given[N + 1] \in 0 .. (dNumVertices + 1) - 1
                   /\ given[N + 2] \in 0 .. (dNumVertices + 1) - 1
    <3> SUFFICES ASSUME N \in D
                 PROVE  \A c \in {opp, l, r} : given[c] \in 0 .. (dNumVertices + 1) - 1
      BY <1>8
    <3> QED
      BY <1>3, <1>7, <1>9, <1>11 DEF newVertex
  <2>2. /\ cv \in [D -> AllVertices \cup {-1}]
        /\ \A c \in D : c < N => cv[c] = dCornerVertex[c]
        /\ \A c \in D : c < N + 3 => cv[c] \in 0 .. (dNumVertices + 1) - 1
        /\ N \in D => /\ N + 1 \in D /\ N + 2 \in D
                      /\ cv[N] = given[N] /\ cv[N + 1] = given[N + 1]
                      /\ cv[N + 2] = given[N + 2]
        /\ N \notin D => N + 1 \notin D /\ N + 2 \notin D
        /\ SharesItsEdges(dOpposite, cv, numEncodedFaces, N)
    BY <1>6, <2>1, NewFaceVertices DEF cv, N, D
  <2>3. (dNumVertices + 1) - 1 = dNumVertices
    BY <1>3
  <2> QED
    BY <1>8, <2>2, <2>3
<1>13. SharesItsEdges(dOpposite, cv, numEncodedFaces, N + 3)
  BY <1>3, <1>12 DEF SharesItsEdges, D
<1>14. /\ a \in D => dOpposite[a] = NoCorner
       /\ \A c \in D : c >= N => dOpposite[c] = NoCorner
  <2>1. \A c \in D : dOpposite[c] \in D \cup {NoCorner}
    BY <1>4 DEF IsTable
  <2>2. \A c \in D : ~ Occupied(c) => dOpposite[c] = NoCorner
    BY <1>3, <1>4, <2>1 DEF Occupied, OppositeOf, At, IsTable
  <2> QED
    BY <1>2, <1>3, <1>4, <2>2 DEF SharesItsEdges, D
<1>15. N \in D => FacesSameEdge(cv, opp, a)
  <2> SUFFICES ASSUME N \in D
               PROVE  FacesSameEdge(cv, opp, a)
    OBVIOUS
  <2>1. cv[NextCorner(opp)] = vertexR /\ cv[PreviousCorner(opp)] = vertexL
    BY <1>8, <1>9, <1>12
  <2>2. cv[NextCorner(a)] = vertexL /\ cv[PreviousCorner(a)] = vertexR
    BY <1>7, <1>11, <1>12
  <2> QED
    BY <2>1, <2>2 DEF FacesSameEdge
<1>16. /\ IsTable(dOpposite', D) /\ SharesItsEdges(dOpposite', cv, numEncodedFaces, N + 3)
  <2>1. opp >= N /\ opp < N + 3 /\ a < N + 3 /\ opp # a
    BY <1>3, <1>5 DEF N
  <2>2. opp \in D => N \in D
    BY <1>12 DEF N
  <2>3. opp \in D /\ a \in D =>
          /\ opp # a /\ dOpposite[opp] = NoCorner /\ dOpposite[a] = NoCorner
          /\ opp < N + 3 /\ a < N + 3 /\ FacesSameEdge(cv, opp, a)
    BY <1>14, <1>15, <2>1, <2>2
  <2>4. N + 3 \in Int /\ numEncodedFaces \in Nat /\ IsTable(dOpposite, D)
    BY <1>3, <1>4
  <2> QED
    BY <1>2, <1>13, <2>3, <2>4, GlueKeepsTable DEF D
<1>17. /\ dVertexCorners' \in [AllVertices -> {NoCorner} \cup 0 .. N + 2]
       /\ \A v \in AllVertices : dVertexCorners'[v] \in D => cv[dVertexCorners'[v]] = v
  <2>1. dVertexCorners' = [v \in AllVertices |->
           IF v = vertexR THEN r ELSE IF v = newVertex THEN opp ELSE dVertexCorners[v]]
    BY <1>2, <1>4 DEF SetLeftMost
  <2>2. ASSUME NEW v \in AllVertices
        PROVE  /\ dVertexCorners'[v] \in {NoCorner} \cup 0 .. N + 2
               /\ dVertexCorners'[v] \in D => cv[dVertexCorners'[v]] = v
    <3>1. /\ opp \in 0 .. N + 2 /\ r \in 0 .. N + 2
          /\ opp \in D => cv[opp] = newVertex
          /\ r \in D => cv[r] = vertexR
      <4>1. opp \in {N, N + 1, N + 2} /\ r \in {N, N + 1, N + 2}
        BY <1>8
      <4>2. opp \in D \/ r \in D => N \in D
        BY <1>12, <4>1
      <4>3. opp \in 0 .. N + 2 /\ r \in 0 .. N + 2
        BY <1>3, <4>1
      <4> QED
        BY <1>9, <1>12, <4>2, <4>3
    <3>2. CASE v \in {vertexR, newVertex}
      BY <2>1, <3>1, <3>2
    <3>3. CASE v \notin {vertexR, newVertex}
      <4>1. dVertexCorners'[v] = dVertexCorners[v]
        BY <2>1, <3>3
      <4> QED
        BY <1>12, <4>1, StoredCornerStays DEF N, D
    <3> QED
      BY <3>2, <3>3
  <2> QED
    BY <2>1, <2>2
<1>18. /\ activeCorners' \in Seq(0 .. N + 2) /\ activeCorners' # <<>>
       /\ Last(activeCorners)' = N
  <2>1. 0 .. N - 1 \subseteq 0 .. N + 2 /\ N \in 0 .. N + 2
    BY <1>3
  <2>2. Front(activeCorners) \in Seq(0 .. N + 2)
    BY <1>5, <2>1, SeqMonotonic
  <2>3. activeCorners' = Pushed(Front(activeCorners), N)
    BY <1>2 DEF ReplaceTop, Pushed
  <2> QED
    BY <2>1, <2>2, <2>3, PushOn
<1>19. /\ topologySplitCorner' \in [0 .. NumSymbols - 1 -> {NoCorner} \cup 0 .. N + 2]
       /\ splitIndex' \in 0 .. Len(splitEvents)
  BY <1>2, SplitEventsKeep DEF N
<1>20. dNumVertices' \in 0 .. DecoderMaxVertices /\ dNumVertices' - 1 = dNumVertices
  BY <1>2, <1>3, <1>6
<1>21. UNCHANGED <<wireVars, decoderPhase>> /\ FaceAdded
       /\ invalidVertices' \in Seq(Int) /\ isVertHole' \in [AllVertices -> BOOLEAN]
  BY <1>2, <1>4
<1> QED
  BY <1>1, <1>10, <1>12, <1>16, <1>17, <1>18, <1>19, <1>20, <1>21, AddedFace DEF N, D

LEMMA SymbolRKeeps ==
  ASSUME WireTypeOK, SymbolsSoFar, UNCHANGED wireVars, DecodeR, ~ Fail
  PROVE  SymbolsSoFar'
<1>1. /\ PreviousCorner(NewCorner + 2) = NewCorner + 1
      /\ NextCorner(NewCorner + 2) = NewCorner
  BY Numbers, NewFaceCorners
<1> QED
  BY <1>1, SideKeeps DEF DecodeR

LEMMA SymbolLKeeps ==
  ASSUME WireTypeOK, SymbolsSoFar, UNCHANGED wireVars, DecodeL, ~ Fail
  PROVE  SymbolsSoFar'
<1>1. /\ PreviousCorner(NewCorner + 1) = NewCorner
      /\ NextCorner(NewCorner + 1) = NewCorner + 2
  BY Numbers, NewFaceCorners
<1> QED
  BY <1>1, SideKeeps DEF DecodeL

LEMMA SymbolEKeeps ==
  ASSUME WireTypeOK, SymbolsSoFar, UNCHANGED wireVars, DecodeE, ~ Fail
  PROVE  SymbolsSoFar'
<1> DEFINE D == Corners(numEncodedFaces)
           N == NewCorner
           n == dNumVertices
           cv == MapCorners(dCornerVertex, NewFace(n, n + 1, n + 2))
<1>1. symbolID < NumSymbols
  BY Numbers DEF DecodeE, ReadingSymbol
<1>2. /\ ~ NoRoomFor(3)
      /\ dNumVertices' = n + 3
      /\ dCornerVertex' = cv
      /\ dVertexCorners' = [v \in DecodedVertexIDs |->
            IF v \in n .. n + 2 THEN N + v - n ELSE dVertexCorners[v]]
      /\ activeCorners' = Append(activeCorners, N)
      /\ TakeSplitEvents(N)
      /\ FaceAdded
      /\ UNCHANGED <<decoderPhase, dOpposite, invalidVertices, isVertHole>>
  BY DEF DecodeE
<1>3. /\ numEncodedFaces \in Nat /\ N \in Nat /\ N = 3 * symbolID /\ symbolID \in Nat
      /\ n \in Nat /\ DecoderMaxVertices \in Nat
      /\ DecodedVertexIDs = AllVertices /\ AllVertices = 0 .. DecoderMaxVertices - 1
      /\ D = 0 .. 3 * numEncodedFaces - 1
  BY Numbers DEF AllVertices
<1>4. /\ IsTable(dOpposite, D)
      /\ activeCorners \in Seq(0 .. N - 1)
      /\ invalidVertices \in Seq(Int) /\ isVertHole \in [AllVertices -> BOOLEAN]
  BY DEF SymbolsSoFar
<1>5. n + 3 \in n .. DecoderMaxVertices
  BY <1>2, <1>3 DEF NoRoomFor
<1> HIDE DEF cv, N, D, n
<1>6. /\ cv \in [D -> AllVertices \cup {-1}]
      /\ \A c \in D : c < N => cv[c] = dCornerVertex[c]
      /\ \A c \in D : c < N + 3 => cv[c] \in 0 .. n + 2
      /\ N \in D => cv[N] = n /\ cv[N + 1] = n + 1 /\ cv[N + 2] = n + 2
      /\ N \notin D => N + 1 \notin D /\ N + 2 \notin D
      /\ SharesItsEdges(dOpposite, cv, numEncodedFaces, N)
  <2>1. n \in 0 .. (n + 3) - 1 /\ n + 1 \in 0 .. (n + 3) - 1 /\ n + 2 \in 0 .. (n + 3) - 1
        /\ (n + 3) - 1 = n + 2
    BY <1>3
  <2> QED
    BY <1>5, <2>1, NewFaceVertices DEF cv, N, D, n
<1>7. SharesItsEdges(dOpposite, cv, numEncodedFaces, N + 3)
  BY <1>3, <1>6 DEF SharesItsEdges, D
<1>8. /\ dVertexCorners' \in [AllVertices -> {NoCorner} \cup 0 .. N + 2]
      /\ \A v \in AllVertices : dVertexCorners'[v] \in D => cv[dVertexCorners'[v]] = v
  <2>1. ASSUME NEW v \in AllVertices
        PROVE  /\ dVertexCorners'[v] \in {NoCorner} \cup 0 .. N + 2
               /\ dVertexCorners'[v] \in D => cv[dVertexCorners'[v]] = v
    <3>1. CASE v \in n .. n + 2
      <4>1. v \in {n, n + 1, n + 2}
        BY <1>3, <3>1
      <4>2. dVertexCorners'[v] = N + v - n
        BY <1>2, <1>3, <3>1
      <4>3. N + n - n = N /\ N + (n + 1) - n = N + 1 /\ N + (n + 2) - n = N + 2
        BY <1>3
      <4>4. N \in 0 .. N + 2 /\ N + 1 \in 0 .. N + 2 /\ N + 2 \in 0 .. N + 2
        BY <1>3
      <4> QED
        BY <1>6, <4>1, <4>2, <4>3, <4>4
    <3>2. CASE v \notin n .. n + 2
      <4>1. dVertexCorners'[v] = dVertexCorners[v]
        BY <1>2, <1>3, <3>2
      <4> QED
        BY <1>6, <4>1, StoredCornerStays DEF N, D
    <3> QED
      BY <3>1, <3>2
  <2>2. dVertexCorners' = [v \in AllVertices |-> dVertexCorners'[v]]
    BY <1>2, <1>3
  <2> QED
    BY <2>1, <2>2
<1>9. /\ activeCorners' \in Seq(0 .. N + 2) /\ activeCorners' # <<>>
      /\ Last(activeCorners)' = N
  <2>1. 0 .. N - 1 \subseteq 0 .. N + 2 /\ N \in 0 .. N + 2
    BY <1>3
  <2>2. activeCorners \in Seq(0 .. N + 2)
    BY <1>4, <2>1, SeqMonotonic
  <2>3. activeCorners' = Pushed(activeCorners, N)
    BY <1>2, <2>1, <2>2 DEF Pushed
  <2> QED
    BY <2>1, <2>2, <2>3, PushOn
<1>10. /\ topologySplitCorner' \in [0 .. NumSymbols - 1 -> {NoCorner} \cup 0 .. N + 2]
       /\ splitIndex' \in 0 .. Len(splitEvents)
  BY <1>2, SplitEventsKeep DEF N
<1>11. dNumVertices' \in 0 .. DecoderMaxVertices /\ dNumVertices' - 1 = n + 2
  BY <1>2, <1>3, <1>5
<1>12. /\ UNCHANGED <<wireVars, decoderPhase>> /\ FaceAdded
       /\ IsTable(dOpposite', D) /\ SharesItsEdges(dOpposite', cv, numEncodedFaces, N + 3)
       /\ invalidVertices' \in Seq(Int) /\ isVertHole' \in [AllVertices -> BOOLEAN]
  BY <1>2, <1>4, <1>7
<1> QED
  BY <1>1, <1>2, <1>6, <1>8, <1>9, <1>10, <1>11, <1>12, AddedFace DEF N, D

(* S merges vertex n of one part into vertex p of the other.  The part on  *)
(* top of the stack is the last face, so whenever it fits into the table   *)
(* the other part does too, and p is a vertex.                             *)
LEMMA SymbolSKeeps ==
  ASSUME WireTypeOK, SymbolsSoFar, UNCHANGED wireVars, DecodeS, ~ Fail
  PROVE  SymbolsSoFar'
<1> DEFINE D == Corners(numEncodedFaces)
           N == NewCorner
           b == Top
           rest == OtherParts
           a == Last(rest)
           p == VertexP
           n == VertexN
           vertANext == VertexOf(NextIn(a))
           vertBPrev == VertexOf(PreviousIn(b))
           glued == MapCorners(dCornerVertex, NewFace(p, vertANext, vertBPrev))
           cv == MergeVertexFan(glued, NextIn(b), n, p)
           leftMost == SetLeftMost(dVertexCorners, vertBPrev, N + 2)
           first == Glue(dOpposite, a, N + 2)
<1>1. symbolID < NumSymbols
  BY Numbers DEF DecodeS, ReadingSymbol
<1>2. /\ activeCorners # <<>> /\ rest # <<>> /\ a # b /\ ~ Occupied(a) /\ ~ Occupied(b)
      /\ dOpposite' = Glue(first, b, N + 1)
      /\ dCornerVertex' = cv
      /\ dVertexCorners' =
           SetLeftMost(SetLeftMost(leftMost, p, At(leftMost, n)), n, NoCorner)
      /\ invalidVertices' = IF numAttributeData = 0
                            THEN Append(invalidVertices, n) ELSE invalidVertices
      /\ activeCorners' = Front(rest) \o <<N>>
      /\ FaceAdded
      /\ UNCHANGED <<decoderPhase, dNumVertices, topologySplitCorner, splitIndex, isVertHole>>
  BY DEF DecodeS
<1>3. /\ numEncodedFaces \in Nat /\ N \in Nat /\ N = 3 * symbolID /\ symbolID \in Nat
      /\ dNumVertices \in Nat /\ DecoderMaxVertices \in Nat
      /\ 0 .. dNumVertices - 1 \subseteq AllVertices
      /\ DecodedVertexIDs = AllVertices /\ AllVertices = 0 .. DecoderMaxVertices - 1
      /\ D = 0 .. 3 * numEncodedFaces - 1
  BY Numbers DEF AllVertices
<1>4. /\ IsTable(dOpposite, D) /\ SharesItsEdges(dOpposite, dCornerVertex, numEncodedFaces, N)
      /\ dNumVertices \in 0 .. DecoderMaxVertices
      /\ dVertexCorners \in [AllVertices -> {NoCorner} \cup 0 .. N - 1]
      /\ activeCorners \in Seq(0 .. N - 1)
      /\ symbolID > 0 => b = N - 3
      /\ symbolID \in 0 .. NumSymbols /\ NumSymbols \in Nat
      /\ topologySplitCorner \in [0 .. NumSymbols - 1 -> {NoCorner} \cup 0 .. N - 1]
      /\ splitIndex \in 0 .. Len(splitEvents) /\ invalidVertices \in Seq(Int)
      /\ isVertHole \in [AllVertices -> BOOLEAN]
  BY <1>3, Numbers DEF SymbolsSoFar, Top
<1>5. b \in 0 .. N - 1 /\ Front(activeCorners) \in Seq(0 .. N - 1)
  BY <1>2, <1>4, FrontAndLast DEF Top
<1>6. b = N - 3 /\ N >= 3
  BY <1>3, <1>4, <1>5
<1>7. rest \in Seq(0 .. N - 1)
  <2>1. topologySplitCorner[symbolID] \in {NoCorner} \cup 0 .. N - 1
    BY <1>1, <1>4
  <2>2. CASE topologySplitCorner[symbolID] = NoCorner
    <3>1. rest = Front(activeCorners)
      BY <1>5, <2>2, ConcatEmptySeq DEF OtherParts
    <3> QED
      BY <1>5, <3>1
  <2>3. CASE topologySplitCorner[symbolID] # NoCorner
    <3>1. rest = Pushed(Front(activeCorners), topologySplitCorner[symbolID])
      BY <2>3 DEF OtherParts, Pushed
    <3> QED
      BY <1>5, <2>1, <2>3, <3>1, PushOn
  <2> QED
    BY <2>2, <2>3
<1>8. a \in 0 .. N - 1 /\ Front(rest) \in Seq(0 .. N - 1)
  BY <1>2, <1>7, FrontAndLast
<1>9. /\ a \in D =>
         /\ vertANext = dCornerVertex[NextCorner(a)] /\ p = dCornerVertex[PreviousCorner(a)]
         /\ NextCorner(a) \in D /\ NextCorner(a) < N
         /\ PreviousCorner(a) \in D /\ PreviousCorner(a) < N
         /\ vertANext \in 0 .. dNumVertices - 1 /\ p \in 0 .. dNumVertices - 1
      /\ a \notin D => p = -1
  <2>1. NextCorner(a) \in 0 .. N - 1 /\ PreviousCorner(a) \in 0 .. N - 1
    BY <1>8, DecodedFace
  <2>2. NextCorner(a) < N /\ PreviousCorner(a) < N
    BY <1>3, <2>1
  <2> QED
    BY <1>8, <2>2, DecodedFace DEF VertexP
<1>10. /\ b \in D =>
         /\ n = dCornerVertex[NextCorner(b)] /\ vertBPrev = dCornerVertex[PreviousCorner(b)]
         /\ NextCorner(b) \in D /\ NextCorner(b) < N
         /\ PreviousCorner(b) \in D /\ PreviousCorner(b) < N
         /\ n \in 0 .. dNumVertices - 1 /\ vertBPrev \in 0 .. dNumVertices - 1
       /\ b \notin D => n = -1 /\ vertBPrev = -1
  <2>1. NextCorner(b) \in 0 .. N - 1 /\ PreviousCorner(b) \in 0 .. N - 1
    BY <1>5, DecodedFace
  <2>2. NextCorner(b) < N /\ PreviousCorner(b) < N
    BY <1>3, <2>1
  <2> QED
    BY <1>5, <2>2, DecodedFace DEF VertexN
<1>11. cv = [d \in DOMAIN glued |-> IF glued[d] = n THEN p ELSE glued[d]]
  BY DEF MergeVertexFan
<1> HIDE DEF vertANext, vertBPrev, glued, cv, leftMost, first, a, b, p, n, rest, N, D
<1>12. /\ b \in D => a \in D
       /\ N \in D => b \in D
       /\ b \notin D => \A c \in D : c < N
  BY <1>3, <1>6, <1>8
<1>13. /\ glued \in [D -> AllVertices \cup {-1}]
       /\ \A c \in D : c < N => glued[c] = dCornerVertex[c]
       /\ \A c \in D : c < N + 3 => glued[c] \in 0 .. dNumVertices - 1
       /\ N \in D => /\ N + 1 \in D /\ N + 2 \in D
                     /\ glued[N] = p /\ glued[N + 1] = vertANext /\ glued[N + 2] = vertBPrev
       /\ N \notin D => N + 1 \notin D /\ N + 2 \notin D
  <2>1. dNumVertices \in dNumVertices .. DecoderMaxVertices
    BY <1>3, <1>4
  <2>2. N \in D => /\ p \in 0 .. dNumVertices - 1 /\ vertANext \in 0 .. dNumVertices - 1
                   /\ vertBPrev \in 0 .. dNumVertices - 1
    BY <1>9, <1>10, <1>12
  <2> QED
    BY <2>1, <2>2, NewFaceVertices DEF glued, N, D
<1>14. /\ cv = [d \in D |-> IF glued[d] = n THEN p ELSE glued[d]]
       /\ b \in D => p \in 0 .. dNumVertices - 1
       /\ b \notin D => \A d \in D : glued[d] # n
  <2>1. DOMAIN glued = D
    BY <1>13
  <2>2. ASSUME b \notin D, NEW d \in D
        PROVE  glued[d] # n
    <3>1. glued[d] \in 0 .. dNumVertices - 1
      BY <1>3, <1>12, <1>13, <2>2
    <3> QED
      BY <1>3, <1>10, <2>2, <3>1
  <2> QED
    BY <1>9, <1>11, <1>12, <2>1, <2>2
<1>15. cv \in [D -> AllVertices \cup {-1}]
  BY <1>3, <1>13, <1>14
<1>16. \A c \in D : c < N + 3 => cv[c] \in 0 .. dNumVertices - 1
  BY <1>13, <1>14
<1>17. SharesItsEdges(dOpposite, cv, numEncodedFaces, N)
  <2>1. \A c, d \in D : c < 3 * symbolID /\ d < 3 * symbolID
                          /\ dCornerVertex[c] = dCornerVertex[d] => cv[c] = cv[d]
    BY <1>3, <1>13, <1>14
  <2> QED
    BY <1>3, <1>4, <2>1, RenamingKeepsEdges DEF D
<1>18. SharesItsEdges(dOpposite, cv, numEncodedFaces, N + 3)
  BY <1>3, <1>17 DEF SharesItsEdges, D
<1>19. /\ NextCorner(N) = N + 1 /\ PreviousCorner(N) = N + 2
       /\ NextCorner(N + 1) = N + 2 /\ PreviousCorner(N + 1) = N
       /\ NextCorner(N + 2) = N /\ PreviousCorner(N + 2) = N + 1
  BY <1>3, NewFaceCorners
<1>20. /\ a \in D => dOpposite[a] = NoCorner
       /\ b \in D => dOpposite[b] = NoCorner
       /\ \A c \in D : c >= N => dOpposite[c] = NoCorner
  <2>1. \A c \in D : dOpposite[c] \in D \cup {NoCorner}
    BY <1>4 DEF IsTable
  <2>2. \A c \in D : ~ Occupied(c) => dOpposite[c] = NoCorner
    BY <1>3, <1>4, <2>1 DEF Occupied, OppositeOf, At, IsTable
  <2>3. \A c \in D : dOpposite[c] # NoCorner => c < N
    BY <1>4 DEF SharesItsEdges, D
  <2>4. \A c \in D : c >= N => dOpposite[c] = NoCorner
    BY <1>3, <2>3
  <2> QED
    BY <1>2, <2>2, <2>4
<1>21. N \in D => FacesSameEdge(cv, a, N + 2) /\ FacesSameEdge(cv, b, N + 1)
  <2> SUFFICES ASSUME N \in D
               PROVE  FacesSameEdge(cv, a, N + 2) /\ FacesSameEdge(cv, b, N + 1)
    OBVIOUS
  <2>1. a \in D /\ b \in D
    BY <1>12
  <2>2. /\ glued[NextCorner(a)] = glued[N + 1] /\ glued[PreviousCorner(a)] = glued[N]
    BY <1>9, <1>13, <2>1
  <2>3. FacesSameEdge(cv, a, N + 2)
    BY <1>9, <1>13, <1>14, <1>19, <2>1, <2>2 DEF FacesSameEdge
  <2>4. /\ glued[NextCorner(b)] = n /\ glued[PreviousCorner(b)] = glued[N + 2]
        /\ glued[N] = p
    BY <1>10, <1>13, <2>1
  <2>5. FacesSameEdge(cv, b, N + 1)
    BY <1>10, <1>13, <1>14, <1>19, <2>1, <2>4 DEF FacesSameEdge
  <2> QED
    BY <2>3, <2>5
<1>22. /\ IsTable(first, D) /\ SharesItsEdges(first, cv, numEncodedFaces, N + 3)
       /\ \A c \in D : c # a /\ c # N + 2 => first[c] = dOpposite[c]
  <2>1. a # N + 2 /\ a < N + 3 /\ N + 2 < N + 3 /\ N + 2 >= N
    BY <1>3, <1>8
  <2>2. a \in D /\ N + 2 \in D =>
          /\ a # N + 2 /\ dOpposite[a] = NoCorner /\ dOpposite[N + 2] = NoCorner
          /\ a < N + 3 /\ N + 2 < N + 3 /\ FacesSameEdge(cv, a, N + 2)
    BY <1>13, <1>20, <1>21, <2>1
  <2>3. N + 3 \in Int /\ numEncodedFaces \in Nat
    BY <1>3
  <2>4. IsTable(dOpposite, D)
    BY <1>4
  <2> QED
    BY <1>18, <2>2, <2>3, <2>4, GlueKeepsTable DEF first, D
<1>23. /\ IsTable(dOpposite', D) /\ SharesItsEdges(dOpposite', cv, numEncodedFaces, N + 3)
  <2>1. b \in D /\ N + 1 \in D =>
          /\ b # N + 1 /\ first[b] = NoCorner /\ first[N + 1] = NoCorner
          /\ b < N + 3 /\ N + 1 < N + 3 /\ FacesSameEdge(cv, b, N + 1)
    <3> SUFFICES ASSUME b \in D, N + 1 \in D
                 PROVE  /\ b # N + 1 /\ first[b] = NoCorner /\ first[N + 1] = NoCorner
                        /\ b < N + 3 /\ N + 1 < N + 3 /\ FacesSameEdge(cv, b, N + 1)
      OBVIOUS
    <3>1. /\ b # N + 1 /\ b # N + 2 /\ b < N + 3 /\ N + 1 < N + 3
          /\ a # N + 1 /\ N + 1 # N + 2 /\ N + 1 >= N
      BY <1>3, <1>5, <1>8
    <3>2. first[b] = dOpposite[b] /\ first[N + 1] = dOpposite[N + 1]
      BY <1>2, <1>22, <3>1
    <3> QED
      BY <1>13, <1>20, <1>21, <3>1, <3>2
  <2>2. N + 3 \in Int /\ numEncodedFaces \in Nat
    BY <1>3
  <2> QED
    BY <1>2, <1>22, <2>1, <2>2, GlueKeepsTable DEF D
<1>24. /\ dVertexCorners' \in [AllVertices -> {NoCorner} \cup 0 .. N + 2]
       /\ \A v \in AllVertices : dVertexCorners'[v] \in D => cv[dVertexCorners'[v]] = v
  <2>1. leftMost = [v \in AllVertices |->
           IF v = vertBPrev THEN N + 2 ELSE dVertexCorners[v]]
    BY <1>4 DEF SetLeftMost, leftMost
  <2>2. dVertexCorners' = [v \in AllVertices |->
           IF v = n THEN NoCorner ELSE IF v = p THEN At(leftMost, n) ELSE leftMost[v]]
    BY <1>2, <2>1 DEF SetLeftMost
  <2>3. ASSUME NEW v \in AllVertices
        PROVE  /\ leftMost[v] \in {NoCorner} \cup 0 .. N + 2
               /\ leftMost[v] \in D => glued[leftMost[v]] = v
    <3>1. CASE v = vertBPrev
      <4>1. leftMost[v] = N + 2 /\ N + 2 \in 0 .. N + 2
        BY <1>3, <2>1, <3>1
      <4> QED
        BY <1>13, <3>1, <4>1
    <3>2. CASE v # vertBPrev
      <4>1. leftMost[v] = dVertexCorners[v]
        BY <2>1, <3>2
      <4> QED
        BY <1>13, <4>1, StoredCornerStays DEF N, D
    <3> QED
      BY <3>1, <3>2
  <2>4. /\ At(leftMost, n) \in {NoCorner} \cup 0 .. N + 2
        /\ At(leftMost, n) \in D => glued[At(leftMost, n)] = n
    <3>1. CASE n \in AllVertices
      BY <2>1, <2>3, <3>1 DEF At
    <3>2. CASE n \notin AllVertices
      <4>1. At(leftMost, n) = NoCorner /\ NoCorner \notin D
        BY <1>3, <2>1, <3>2 DEF At, NoCorner
      <4> QED
        BY <4>1
    <3> QED
      BY <3>1, <3>2
  <2>5. NoCorner \notin D
    BY <1>3 DEF NoCorner
  <2>6. ASSUME NEW v \in AllVertices
        PROVE  /\ dVertexCorners'[v] \in {NoCorner} \cup 0 .. N + 2
               /\ dVertexCorners'[v] \in D => cv[dVertexCorners'[v]] = v
    <3>1. CASE v = n
      BY <2>2, <2>5, <3>1
    <3>2. CASE v # n /\ v = p
      BY <1>14, <2>2, <2>4, <3>2
    <3>3. CASE v # n /\ v # p
      BY <1>14, <2>2, <2>3, <3>3
    <3> QED
      BY <3>1, <3>2, <3>3
  <2> QED
    BY <2>2, <2>6
<1>25. /\ activeCorners' \in Seq(0 .. N + 2) /\ activeCorners' # <<>>
       /\ Last(activeCorners)' = N
  <2>1. 0 .. N - 1 \subseteq 0 .. N + 2 /\ N \in 0 .. N + 2
    BY <1>3
  <2>2. Front(rest) \in Seq(0 .. N + 2)
    BY <1>8, <2>1, SeqMonotonic
  <2>3. activeCorners' = Pushed(Front(rest), N)
    BY <1>2 DEF Pushed
  <2> QED
    BY <2>1, <2>2, <2>3, PushOn
<1>26. topologySplitCorner \in [0 .. NumSymbols - 1 -> {NoCorner} \cup 0 .. N + 2]
  BY <1>3, <1>4
<1>27. invalidVertices' \in Seq(Int)
  <2>1. n \in Int
    BY <1>3, <1>10
  <2> QED
    BY <1>2, <1>4, <2>1
<1> QED
  BY <1>1, <1>2, <1>3, <1>4, <1>15, <1>16, <1>23, <1>24, <1>25, <1>26, <1>27, AddedFace
     DEF N, D

-----------------------------------------------------------------------------
(* The other steps.                                                        *)

(* The state an error leaves is the one it found.                          *)
LEMMA FailKeeps ==
  ASSUME ReaderInv, Fail, UNCHANGED wireVars
  PROVE  ReaderInv'
<1>1. WireTypeOK'
  BY DEF ReaderInv, WireTypeOK, wireVars
<1>2. ReaderTypeOK'
  BY DEF ReaderInv, ReaderTypeOK, Fail, wireVars, decodedTable, DecodedCorners,
         DecodedVertexIDs, NumSymbols, DecoderMaxVertices
<1>3. decoderPhase' = "failed" /\ dOpposite' = dOpposite
  BY DEF Fail, decodedTable
<1> QED
  BY <1>1, <1>2, <1>3 DEF ReaderInv, NothingRead, TableHasItsSize,
     CornersAreOfDecodedFaces, TopIsTheLastFace, DecodedOppositesArePairs,
     SymbolFacesHaveVertices, StoredCornersHaveTheirVertex, SymbolFacesShareTheirEdges,
     DecodedMeshIsComplete, Building

LEMMA StartDecodingKeeps ==
  ASSUME ReaderInv, StartDecoding, UNCHANGED wireVars
  PROVE  ReaderInv'
<1>1. CASE numSplitSymbols > NumSymbols
  BY <1>1, FailKeeps DEF StartDecoding, Fail, decodedTable
<1>2. CASE ~ (numSplitSymbols > NumSymbols)
  <2> DEFINE D == Corners(numEncodedFaces)
  <2>1. /\ WireTypeOK' /\ UNCHANGED wireVars
        /\ UNCHANGED <<numEncodedFaces, NumSymbols, AllVertices, DecoderMaxVertices,
                       splitEvents, startFaces, startFacesRead>>
    BY DEF ReaderInv, WireTypeOK, wireVars, StartDecoding, AllVertices, NumSymbols,
           DecoderMaxVertices
  <2>2. /\ symbolID = 0 /\ numDecodedFaces = 0 /\ activeCorners = <<>>
        /\ UNCHANGED <<symbolID, activeCorners, numDecodedFaces, invalidVertices>>
        /\ invalidVertices \in Seq(Int) /\ startFacesRead \in 0 .. Len(startFaces)
    BY DEF StartDecoding, ReaderInv, NothingRead, ReaderTypeOK
  <2>3. /\ numEncodedFaces \in Nat /\ NumSymbols \in Nat /\ DecoderMaxVertices \in Nat
        /\ Len(splitEvents) \in Nat
    <3>1. symbols \in Seq(TopologySymbols) /\ splitEvents \in Seq(SplitEvents)
          /\ numEncodedVertices \in Nat /\ numSplitSymbols \in Nat /\ numEncodedFaces \in Nat
      BY DEF ReaderInv, WireTypeOK
    <3> QED
      BY <3>1, LenProperties DEF NumSymbols, DecoderMaxVertices
  <2>4. /\ decoderPhase' = "symbols"
        /\ dCornerVertex' = [c \in D |-> -1]
        /\ dOpposite' = [c \in D |-> NoCorner]
        /\ dVertexCorners' = [v \in AllVertices |-> NoCorner]
        /\ dNumVertices' = 0
        /\ topologySplitCorner' = [id \in 0 .. NumSymbols - 1 |-> NoCorner]
        /\ splitIndex' = Len(splitEvents)
        /\ isVertHole' = [v \in AllVertices |-> TRUE]
    BY <1>2 DEF StartDecoding, AllVertices
  <2>5. NewCorner' = 0 /\ Corners(numEncodedFaces)' = D
    BY <2>1, <2>2 DEF NewCorner
  <2>6. D \in SUBSET Nat
    BY <2>3, CornersAreFinite
  <2>7. /\ IsTable(dOpposite', D)
        /\ SharesItsEdges(dOpposite', dCornerVertex', numEncodedFaces, 0)
    BY <2>4 DEF IsTable, IsPairing, SharesItsEdges
  <2>8. \A v \in AllVertices : dVertexCorners'[v] \notin D
    BY <2>4, <2>6 DEF NoCorner
  <2>9. \A c \in D : ~ (c < 0)
    BY <2>6
  <2>10. activeCorners' \in Seq(0 .. NewCorner' - 1)
    BY <2>2
  <2> HIDE DEF D
  <2>11. SymbolsSoFar'
    BY <2>1, <2>2, <2>3, <2>4, <2>5, <2>7, <2>8, <2>9, <2>10 DEF SymbolsSoFar
  <2> QED
    BY <2>1, <2>11, SymbolsSoFarGiveInvNext
<1> QED
  BY <1>1, <1>2

(* What the start-face bits do to the rest of the invariant: a step that   *)
(* leaves the faces of the symbols alone.                                  *)
LEMMA StartFaceKeeps ==
  ASSUME ReaderInv, UNCHANGED wireVars,
         decoderPhase \in {"symbols", "startFaces"}, decoderPhase' = "startFaces",
         UNCHANGED <<symbolID, dVertexCorners, dNumVertices, topologySplitCorner,
                     splitIndex, invalidVertices>>,
         numDecodedFaces' \in Nat, numDecodedFaces <= numDecodedFaces',
         IsTable(dOpposite', Corners(numEncodedFaces)),
         \A c \in Corners(numEncodedFaces) : dOpposite'[c] # NoCorner => c < NewCorner',
         dCornerVertex' \in [Corners(numEncodedFaces) -> AllVertices \cup {-1}],
         \A c \in Corners(numEncodedFaces) :
            c < 3 * symbolID => dCornerVertex'[c] = dCornerVertex[c],
         activeCorners' \in Seq(0 .. NewCorner - 1),
         isVertHole' \in [AllVertices -> BOOLEAN],
         startFacesRead' \in 0 .. Len(startFaces)
  PROVE  ReaderInv'
<1> DEFINE D == Corners(numEncodedFaces)
<1>1. /\ WireTypeOK'
      /\ UNCHANGED <<numEncodedFaces, NumSymbols, AllVertices, DecoderMaxVertices,
                     splitEvents, startFaces>>
      /\ Corners(numEncodedFaces)' = D
  BY DEF ReaderInv, WireTypeOK, wireVars, AllVertices, NumSymbols, DecoderMaxVertices
<1>2. /\ DecodedCorners = D /\ DecodedVertexIDs = AllVertices
      /\ DOMAIN topologySplitCorner = 0 .. NumSymbols - 1
  BY DEF ReaderInv, TableHasItsSize
<1>3. /\ DecodedCorners' = D /\ DecodedVertexIDs' = AllVertices
      /\ DOMAIN isVertHole' = AllVertices
      /\ DOMAIN topologySplitCorner' = 0 .. NumSymbols - 1
  BY <1>2 DEF IsTable, DecodedCorners, DecodedVertexIDs
<1>4. /\ numDecodedFaces \in Nat /\ symbolID \in Nat /\ symbolID <= numDecodedFaces
      /\ NewCorner \in Nat /\ NewCorner' \in Nat /\ NewCorner <= NewCorner'
  <2>1. NumSymbols \in Nat
    BY LenProperties DEF ReaderInv, WireTypeOK, NumSymbols
  <2>2. numDecodedFaces \in Nat /\ symbolID \in Nat /\ symbolID <= numDecodedFaces
    BY <2>1 DEF ReaderInv, ReaderTypeOK, CornersAreOfDecodedFaces, Building
  <2>3. /\ numDecodedFaces' \in Nat /\ numDecodedFaces <= numDecodedFaces'
        /\ NewCorner = 3 * numDecodedFaces /\ NewCorner' = 3 * numDecodedFaces'
    BY DEF NewCorner
  <2>4. \A m, n \in Nat : m <= n => 3 * m \in Nat /\ 3 * n \in Nat /\ 3 * m <= 3 * n
    OBVIOUS
  <2> QED
    BY <2>2, <2>3, <2>4
<1>5. SymbolCorners' = SymbolCorners /\ SymbolCorners = {c \in D : c < 3 * symbolID}
  BY <1>2, <1>3 DEF SymbolCorners
<1>6. 0 .. NewCorner - 1 \subseteq 0 .. NewCorner' - 1 /\ 0 .. NewCorner' - 1 \subseteq Nat
  <2>1. \A m, n \in Nat : m <= n => 0 .. m - 1 \subseteq 0 .. n - 1
                                   /\ 0 .. n - 1 \subseteq Nat
    OBVIOUS
  <2> QED
    BY <1>4, <2>1
<1>7. activeCorners' \in Seq(0 .. NewCorner' - 1) /\ activeCorners' \in Seq(Nat)
  BY <1>6, SeqMonotonic
<1>8. ReaderTypeOK'
  <2>1. dOpposite' \in [D -> D \cup {NoCorner}]
    BY DEF IsTable
  <2>2. /\ symbolID \in 0 .. NumSymbols
        /\ dVertexCorners \in [DecodedVertexIDs -> Int]
        /\ dNumVertices \in 0 .. DecoderMaxVertices
        /\ topologySplitCorner \in [DOMAIN topologySplitCorner -> Int]
        /\ splitIndex \in 0 .. Len(splitEvents)
        /\ invalidVertices \in Seq(Int)
    BY DEF ReaderInv, ReaderTypeOK
  <2> QED
    BY <1>1, <1>2, <1>3, <1>7, <2>1, <2>2 DEF ReaderTypeOK
<1>9. CornersAreOfDecodedFaces'
  <2>1. /\ \A id \in DOMAIN topologySplitCorner :
             topologySplitCorner[id] \in {NoCorner} \cup 0 .. NewCorner' - 1
        /\ \A v \in DecodedVertexIDs :
             dVertexCorners[v] \in {NoCorner} \cup 0 .. 3 * symbolID - 1
    BY <1>6 DEF ReaderInv, CornersAreOfDecodedFaces, Building
  <2>2. symbolID' <= numDecodedFaces'
    BY <1>4
  <2> QED
    BY <1>2, <1>3, <1>7, <2>1, <2>2 DEF CornersAreOfDecodedFaces, Building
<1>10. SymbolFacesHaveVertices'
  BY <1>5 DEF ReaderInv, SymbolFacesHaveVertices, Building
<1>11. StoredCornersHaveTheirVertex'
  BY <1>2, <1>3, <1>5 DEF ReaderInv, StoredCornersHaveTheirVertex, Building
<1>12. /\ NothingRead' /\ TableHasItsSize' /\ TopIsTheLastFace'
       /\ SymbolFacesShareTheirEdges' /\ DecodedMeshIsComplete'
  BY <1>1, <1>3 DEF NothingRead, TableHasItsSize, TopIsTheLastFace,
     SymbolFacesShareTheirEdges, DecodedMeshIsComplete
<1>13. DecodedOppositesArePairs'
  BY DEF DecodedOppositesArePairs, IsTable
<1> QED
  BY <1>1, <1>8, <1>9, <1>10, <1>11, <1>12, <1>13 DEF ReaderInv

LEMMA SymbolsDoneKeeps ==
  ASSUME ReaderInv, SymbolsDone \/ DecodeBoundaryStart, UNCHANGED wireVars
  PROVE  ReaderInv'
<1> DEFINE D == Corners(numEncodedFaces)
<1>1. Building /\ decoderPhase' = "startFaces"
  BY DEF SymbolsDone, DecodeBoundaryStart, Building
<1>2. /\ DecodedCorners = D /\ DecodedVertexIDs = AllVertices
      /\ DOMAIN isVertHole = AllVertices
  BY <1>1 DEF ReaderInv, TableHasItsSize, Building
<1>3. /\ IsTable(dOpposite, D)
      /\ dCornerVertex \in [D -> AllVertices \cup {-1}]
      /\ isVertHole \in [AllVertices -> BOOLEAN]
      /\ numDecodedFaces \in Nat
      /\ startFacesRead \in 0 .. Len(startFaces)
      /\ activeCorners \in Seq(0 .. NewCorner - 1)
      /\ \A c \in D : dOpposite[c] # NoCorner => c < NewCorner
  BY <1>1, <1>2 DEF ReaderInv, ReaderTypeOK, IsTable, DecodedOppositesArePairs,
     CornersAreOfDecodedFaces
<1>4. /\ UNCHANGED <<symbolID, decodedTable, topologySplitCorner, splitIndex,
                     invalidVertices, isVertHole, numDecodedFaces>>
      /\ NewCorner' = NewCorner
  BY DEF SymbolsDone, DecodeBoundaryStart, NewCorner
<1>5. activeCorners' \in Seq(0 .. NewCorner - 1) /\ startFacesRead' \in 0 .. Len(startFaces)
  <2>1. CASE SymbolsDone
    BY <1>3, <2>1 DEF SymbolsDone
  <2>2. CASE DecodeBoundaryStart
    <3>1. /\ activeCorners # <<>> /\ activeCorners' = Front(activeCorners)
          /\ startFacesRead < Len(startFaces) /\ startFacesRead' = startFacesRead + 1
      BY <2>2 DEF DecodeBoundaryStart
    <3>2. Len(startFaces) \in Nat
      BY LenProperties DEF ReaderInv, WireTypeOK
    <3> QED
      BY <1>3, <3>1, <3>2, FrontAndLast
  <2> QED
    BY <2>1, <2>2
<1>6. numDecodedFaces' \in Nat /\ numDecodedFaces <= numDecodedFaces'
  BY <1>3, <1>4
<1> HIDE DEF NewCorner
<1>7. /\ decoderPhase \in {"symbols", "startFaces"} /\ UNCHANGED wireVars
      /\ UNCHANGED <<symbolID, dVertexCorners, dNumVertices, topologySplitCorner,
                     splitIndex, invalidVertices>>
      /\ dOpposite' = dOpposite /\ dCornerVertex' = dCornerVertex /\ isVertHole' = isVertHole
  BY <1>1, <1>4 DEF Building, decodedTable
<1>8. /\ IsTable(dOpposite', D)
      /\ \A c \in D : dOpposite'[c] # NoCorner => c < NewCorner'
      /\ dCornerVertex' \in [D -> AllVertices \cup {-1}]
      /\ \A c \in D : c < 3 * symbolID => dCornerVertex'[c] = dCornerVertex[c]
      /\ isVertHole' \in [AllVertices -> BOOLEAN]
  BY <1>3, <1>4, <1>7
<1> QED
  BY <1>1, <1>5, <1>6, <1>7, <1>8, StartFaceKeeps

(* Gluing free corners, whatever edges they face.                          *)
LEMMA GlueIsTable ==
  ASSUME NEW F \in Nat, NEW o, IsTable(o, Corners(F)), NEW c, NEW d,
         c \in Corners(F) /\ d \in Corners(F) =>
            c # d /\ o[c] = NoCorner /\ o[d] = NoCorner
  PROVE  /\ IsTable(Glue(o, c, d), Corners(F))
         /\ \A x \in Corners(F) : x # c /\ x # d => Glue(o, c, d)[x] = o[x]
<1> DEFINE D == Corners(F)
<1>1. D \in SUBSET Nat /\ NoCorner \notin D /\ DOMAIN o = D
  BY CornersAreFinite DEF NoCorner, IsTable
<1>2. CASE ~ (c \in D /\ d \in D)
  BY <1>1, <1>2 DEF Glue
<1>3. CASE c \in D /\ d \in D
  BY <1>1, <1>3, GlueKeepsPairing DEF IsTable
<1> QED
  BY <1>2, <1>3

(* An interior start glues the new face to three free corners of faces     *)
(* decoded before it, or to none where a stored corner is missing.         *)
LEMMA InteriorStartKeeps ==
  ASSUME ReaderInv, DecodeInteriorStart, ~ Fail, UNCHANGED wireVars
  PROVE  ReaderInv'
<1> DEFINE D == Corners(numEncodedFaces)
           N == NewCorner
           a == Top
           vertN == VertexOf(NextIn(a))
           b == NextIn(LeftMostCornerOf(vertN))
           vertX == VertexOf(NextIn(b))
           c == NextIn(LeftMostCornerOf(vertX))
           vertP == VertexOf(NextIn(c))
           g1 == Glue(dOpposite, N, a)
           g2 == Glue(g1, N + 1, b)
           new == NewFace(vertX, vertP, vertN)
<1>1. /\ decoderPhase = "startFaces" /\ decoderPhase' = "startFaces"
      /\ activeCorners # <<>> /\ startFacesRead < Len(startFaces)
      /\ ~ (numDecodedFaces >= numEncodedFaces)
      /\ a # b /\ a # c /\ b # c
      /\ ~ Occupied(a) /\ ~ Occupied(b) /\ ~ Occupied(c)
      /\ dOpposite' = Glue(g2, N + 2, c)
      /\ dCornerVertex' = MapCorners(dCornerVertex, new)
      /\ isVertHole' = ClosedVertices({vertX, vertP, vertN})
      /\ activeCorners' = Front(activeCorners)
      /\ numDecodedFaces' = numDecodedFaces + 1
      /\ startFacesRead' = startFacesRead + 1
      /\ UNCHANGED <<symbolID, dVertexCorners, dNumVertices, topologySplitCorner,
                     splitIndex, invalidVertices>>
  BY DEF DecodeInteriorStart
<1>2. /\ DecodedCorners = D /\ DecodedVertexIDs = AllVertices
      /\ DOMAIN isVertHole = AllVertices
  BY <1>1 DEF ReaderInv, TableHasItsSize
<1>3. /\ IsTable(dOpposite, D) /\ DOMAIN dOpposite = D
      /\ dCornerVertex \in [D -> AllVertices \cup {-1}]
      /\ isVertHole \in [AllVertices -> BOOLEAN]
      /\ startFacesRead \in 0 .. Len(startFaces)
      /\ activeCorners \in Seq(0 .. N - 1)
      /\ \A x \in D : dOpposite[x] # NoCorner => x < N
      /\ \A v \in AllVertices : dVertexCorners[v] \in {NoCorner} \cup 0 .. 3 * symbolID - 1
      /\ DOMAIN dVertexCorners = AllVertices
  BY <1>1, <1>2 DEF ReaderInv, ReaderTypeOK, IsTable, DecodedOppositesArePairs,
     CornersAreOfDecodedFaces, Building, DecodedCorners
<1>4. /\ numEncodedFaces \in Nat /\ numDecodedFaces \in Nat /\ symbolID \in Nat
      /\ symbolID <= numDecodedFaces /\ Len(startFaces) \in Nat
  <2>1. NumSymbols \in Nat /\ Len(startFaces) \in Nat /\ numEncodedFaces \in Nat
    BY LenProperties DEF ReaderInv, WireTypeOK, NumSymbols
  <2> QED
    BY <1>1, <2>1 DEF ReaderInv, ReaderTypeOK, CornersAreOfDecodedFaces, Building
<1>5. /\ N \in Nat /\ N = 3 * numDecodedFaces /\ 3 * symbolID <= N
      /\ D = 0 .. 3 * numEncodedFaces - 1
      /\ N \in D /\ N + 1 \in D /\ N + 2 \in D /\ 0 .. N - 1 \subseteq D
  BY <1>1, <1>4 DEF NewCorner, Corners
<1>6. a \in 0 .. N - 1 /\ Front(activeCorners) \in Seq(0 .. N - 1)
  BY <1>1, <1>3, FrontAndLast DEF Top
<1>7. /\ b \in {NoCorner} \cup 0 .. N - 1
      /\ c \in {NoCorner} \cup 0 .. N - 1
  <2>1. ASSUME NEW v
        PROVE  NextIn(LeftMostCornerOf(v)) \in {NoCorner} \cup 0 .. N - 1
    <3>1. LeftMostCornerOf(v) \in {NoCorner} \cup 0 .. 3 * symbolID - 1
      BY <1>3 DEF LeftMostCornerOf, At, NoCorner
    <3>2. LeftMostCornerOf(v) \in {NoCorner} \cup 0 .. N - 1
      BY <1>4, <1>5, <3>1
    <3>3. Corners(numDecodedFaces) = 0 .. N - 1
      BY <1>5 DEF Corners
    <3>4. CASE LeftMostCornerOf(v) = NoCorner
      BY <3>4 DEF NextIn, NoCorner
    <3>5. CASE LeftMostCornerOf(v) \in 0 .. N - 1
      <4>1. NextCorner(LeftMostCornerOf(v)) \in 0 .. N - 1
        BY <1>4, <3>3, <3>5, CornerArithmetic
      <4> QED
        BY <3>5, <4>1 DEF NextIn
    <3> QED
      BY <3>2, <3>4, <3>5
  <2> QED
    BY <2>1
<1> HIDE DEF a, b, c, vertN, vertX, vertP, g1, g2, new, N, D
<1>8. /\ dOpposite[a] = NoCorner
      /\ b \in D => dOpposite[b] = NoCorner
      /\ c \in D => dOpposite[c] = NoCorner
      /\ \A x \in D : x >= N => dOpposite[x] = NoCorner
  <2>1. \A x \in D : dOpposite[x] \in D \cup {NoCorner}
    BY <1>3 DEF IsTable
  <2>2. \A x \in D : ~ Occupied(x) => dOpposite[x] = NoCorner
    BY <1>3, <1>5, <2>1 DEF Occupied, OppositeOf, At
  <2>3. a \in D
    BY <1>5, <1>6
  <2>4. \A x \in D : x >= N => ~ (x < N)
    BY <1>5
  <2> QED
    BY <1>1, <1>3, <2>2, <2>3, <2>4
<1>9. /\ N # N + 1 /\ N # N + 2 /\ N + 1 # N + 2 /\ N >= N /\ N + 1 >= N /\ N + 2 >= N
      /\ \A x \in {a, b, c} : x # N /\ x # N + 1 /\ x # N + 2 /\ x < N + 3
  BY <1>5, <1>6, <1>7 DEF NoCorner
<1>10. /\ IsTable(g1, D)
       /\ \A x \in D : x # N /\ x # a => g1[x] = dOpposite[x]
  <2>1. N # a /\ dOpposite[N] = NoCorner /\ dOpposite[a] = NoCorner
    BY <1>5, <1>8, <1>9
  <2> QED
    BY <1>3, <1>4, <2>1, GlueIsTable DEF g1, D
<1>11. /\ IsTable(g2, D)
       /\ \A x \in D : x # N + 1 /\ x # b => g2[x] = g1[x]
  <2>1. b \in D => N + 1 # b /\ g1[N + 1] = NoCorner /\ g1[b] = NoCorner
    BY <1>1, <1>5, <1>8, <1>9, <1>10
  <2> QED
    BY <1>4, <1>10, <2>1, GlueIsTable DEF g2, D
<1>12. /\ IsTable(dOpposite', D)
       /\ \A x \in D : x # N + 2 /\ x # c => dOpposite'[x] = g2[x]
  <2>1. c \in D => N + 2 # c /\ g2[N + 2] = NoCorner /\ g2[c] = NoCorner
    BY <1>1, <1>5, <1>8, <1>9, <1>10, <1>11
  <2> QED
    BY <1>1, <1>4, <1>11, <2>1, GlueIsTable DEF D
<1>13. NewCorner' = N + 3
  <2>1. NewCorner' = 3 * (numDecodedFaces + 1)
    BY <1>1 DEF NewCorner
  <2> QED
    BY <1>4, <1>5, <2>1
<1>14. \A x \in D : dOpposite'[x] # NoCorner => x < NewCorner'
  <2> SUFFICES ASSUME NEW x \in D, dOpposite'[x] # NoCorner
               PROVE  x < N + 3
    BY <1>13
  <2>1. CASE x \in {N, N + 1, N + 2, a, b, c}
    BY <1>5, <1>9, <2>1
  <2>2. CASE x \notin {N, N + 1, N + 2, a, b, c}
    <3>1. dOpposite[x] # NoCorner
      BY <1>10, <1>11, <1>12, <2>2
    <3> QED
      BY <1>3, <1>5, <3>1
  <2> QED
    BY <2>1, <2>2
<1>15. /\ dCornerVertex' \in [D -> AllVertices \cup {-1}]
       /\ \A x \in D : x < 3 * symbolID => dCornerVertex'[x] = dCornerVertex[x]
  <2>1. dCornerVertex' = [x \in D |-> IF x \in DOMAIN new /\ new[x] \in AllVertices
                                      THEN new[x] ELSE dCornerVertex[x]]
    BY <1>1, <1>2, <1>3 DEF MapCorners
  <2>2. DOMAIN new = {N, N + 1, N + 2}
    BY DEF new, NewFace, N
  <2>3. \A x \in D : x < 3 * symbolID => x \notin DOMAIN new
    BY <1>4, <1>5, <2>2
  <2> QED
    BY <1>3, <2>1, <2>3
<1>16. isVertHole' \in [AllVertices -> BOOLEAN]
  BY <1>1, <1>2, <1>3 DEF ClosedVertices
<1>17. /\ numDecodedFaces' \in Nat /\ numDecodedFaces <= numDecodedFaces'
       /\ startFacesRead' \in 0 .. Len(startFaces)
       /\ activeCorners' \in Seq(0 .. N - 1)
  BY <1>1, <1>3, <1>4, <1>6
<1>18. decoderPhase \in {"symbols", "startFaces"} /\ UNCHANGED wireVars
  BY <1>1
<1> QED
  BY <1>1, <1>12, <1>14, <1>15, <1>16, <1>17, <1>18, StartFaceKeeps DEF N, D

-----------------------------------------------------------------------------
(* The end of decoding.                                                    *)

(* The elements of a finite set of numbers, counted in their order, get    *)
(* the numbers from 0 on, each one once.                                   *)
LEMMA RanksCountUp ==
  ASSUME NEW S \in SUBSET Nat, IsFiniteSet(S),
         NEW below, \A c \in S : below[c] = {d \in S : d < c},
         NEW rank \in [S -> Nat], \A c \in S : rank[c] = Cardinality(below[c])
  PROVE  /\ rank \in [S -> 0 .. Cardinality(S) - 1]
         /\ \A v \in 0 .. Cardinality(S) - 1 : \E c \in S : rank[c] = v
         /\ \A c, d \in S : rank[c] = rank[d] => c = d
<1> DEFINE n == Cardinality(S)
<1>1. n \in Nat
  BY FS_CardinalityType
<1>2. \A c \in S : /\ IsFiniteSet(below[c]) /\ Cardinality(below[c]) \in Nat
                   /\ rank[c] = Cardinality(below[c])
  <2> TAKE c \in S
  <2>1. below[c] \subseteq S /\ rank[c] = Cardinality(below[c])
    OBVIOUS
  <2>2. IsFiniteSet(below[c])
    BY <2>1, FS_Subset
  <2> QED
    BY <2>1, <2>2, FS_CardinalityType
<1>3. \A c \in S : \A T \in SUBSET S :
         below[c] \cup {c} \subseteq T => Cardinality(below[c]) < Cardinality(T)
  <2> SUFFICES ASSUME NEW c \in S, NEW T \in SUBSET S, below[c] \cup {c} \subseteq T
               PROVE  Cardinality(below[c]) < Cardinality(T)
    OBVIOUS
  <2>1. c \notin below[c]
    OBVIOUS
  <2>2. /\ IsFiniteSet(below[c] \cup {c})
        /\ Cardinality(below[c] \cup {c}) = Cardinality(below[c]) + 1
    BY <1>2, <2>1, FS_AddElement
  <2>3. IsFiniteSet(T) /\ Cardinality(T) \in Nat
    BY FS_Subset, FS_CardinalityType
  <2>4. Cardinality(below[c] \cup {c}) <= Cardinality(T)
    BY <2>3, FS_Subset
  <2> QED
    BY <1>2, <2>2, <2>3, <2>4
<1>4. rank \in [S -> 0 .. n - 1]
  <2>1. ASSUME NEW c \in S
        PROVE  rank[c] \in 0 .. n - 1
    <3>1. Cardinality(below[c]) < Cardinality(S)
      BY <1>3
    <3> QED
      BY <1>1, <1>2, <3>1
  <2> QED
    BY <2>1
<1>5. \A c, d \in S : rank[c] = rank[d] => c = d
  <2>1. ASSUME NEW c \in S, NEW d \in S, c < d
        PROVE  rank[c] < rank[d]
    <3>1. below[c] \cup {c} \subseteq below[d] /\ below[d] \in SUBSET S
      <4>1. \A e \in S : e < c => e < d
        BY <2>1
      <4> QED
        BY <2>1, <4>1
    <3>2. Cardinality(below[c]) < Cardinality(below[d])
      BY <1>3, <3>1
    <3> QED
      BY <1>2, <3>2
  <2> SUFFICES ASSUME NEW c \in S, NEW d \in S, rank[c] = rank[d], c # d
               PROVE  FALSE
    OBVIOUS
  <2>2. c < d \/ d < c
    OBVIOUS
  <2>3. rank[c] < rank[d] \/ rank[d] < rank[c]
    BY <2>1, <2>2
  <2> QED
    BY <1>2, <2>3
<1>6. rank \in Injection(S, 0 .. n - 1)
  BY <1>4, <1>5 DEF Injection, IsInjective
<1>7. IsFiniteSet(0 .. n - 1) /\ Cardinality(0 .. n - 1) = n
  <2>1. \A a, b \in Int : IsFiniteSet(a .. b)
                            /\ Cardinality(a .. b) = IF a > b THEN 0 ELSE b - a + 1
    BY FS_Interval
  <2>2. 0 \in Int /\ n - 1 \in Int
    BY <1>1
  <2>3. IsFiniteSet(0 .. n - 1)
          /\ Cardinality(0 .. n - 1) = IF 0 > n - 1 THEN 0 ELSE n - 1 - 0 + 1
    BY <2>1, <2>2
  <2> QED
    BY <1>1, <2>3
<1>8. rank \in Surjection(S, 0 .. n - 1)
  BY <1>6, <1>7, FS_Injection
<1> QED
  BY <1>4, <1>5, <1>8 DEF Surjection

(* Renumbering the vertices in the order the corners meet them leaves no   *)
(* number out: a corner per vertex is found again, and no vertex more than *)
(* before is counted.                                                      *)
LEMMA CompactionIsSound ==
  ASSUME NEW F \in Nat, DOMAIN dOpposite = Corners(F), IsTable(dOpposite, Corners(F)),
         dNumVertices \in Nat, NEW max \in Nat, dNumVertices <= max,
         dCornerVertex \in [Corners(F) -> 0 .. dNumVertices - 1],
         DecodedVertexIDs = 0 .. max - 1, isVertHole \in [0 .. max - 1 -> BOOLEAN],
         RemoveInvalidVertices
  PROVE  /\ dNumVertices' \in Nat /\ dNumVertices' <= dNumVertices
         /\ dCornerVertex' \in [Corners(F) -> 0 .. dNumVertices' - 1]
         /\ dVertexCorners' \in [0 .. max - 1 -> {NoCorner} \cup Corners(F)]
         /\ isVertHole' \in [0 .. max - 1 -> BOOLEAN]
         /\ UNCHANGED dOpposite
<1> DEFINE D == Corners(F)
           first == FirstUses(dCornerVertex)
           numUsed == Cardinality(first)
           rank(c) == Cardinality({d \in first : d < c})
           rankOf == [c \in first |-> rank(c)]
           firstUse(c) == CHOOSE d \in first : dCornerVertex[d] = dCornerVertex[c]
           met(v) == CHOOSE d \in first : rank(d) = v
<1>1. /\ D \in SUBSET Nat /\ IsFiniteSet(D) /\ DecodedCorners = D
      /\ DOMAIN dCornerVertex = D /\ D = 0 .. 3 * F - 1
  BY CornersAreFinite DEF DecodedCorners, Corners
<1>2. /\ dCornerVertex' = [c \in D |-> rank(firstUse(c))]
      /\ dNumVertices' = numUsed
      /\ dVertexCorners' = [v \in 0 .. max - 1 |->
            IF v < numUsed THEN LeftMostFrom(dOpposite, met(v)) ELSE NoCorner]
      /\ isVertHole' = [v \in 0 .. max - 1 |->
            IF v < numUsed THEN isVertHole[dCornerVertex[met(v)]] ELSE isVertHole[v]]
      /\ UNCHANGED dOpposite
  BY <1>1 DEF RemoveInvalidVertices, StoredAfterCompaction
<1>3. /\ first = {c \in D : \A d \in 0 .. c - 1 : dCornerVertex[d] # dCornerVertex[c]}
      /\ first \in SUBSET D /\ first \in SUBSET Nat
  BY <1>1 DEF FirstUses
<1>4. IsFiniteSet(first) /\ numUsed \in Nat
  BY <1>1, <1>3, FS_Subset, FS_CardinalityType
<1>5. \A c \in D : \E d \in first : dCornerVertex[d] = dCornerVertex[c]
  <2> TAKE c \in D
  <2> DEFINE Uses == {d \in D : dCornerVertex[d] = dCornerVertex[c]}
  <2>1. Uses \in SUBSET Nat /\ Uses # {}
    BY <1>1
  <2>2. PICK d \in Uses : \A e \in Uses : d <= e
    BY <2>1, LeastNumber
  <2>3. d \in D /\ dCornerVertex[d] = dCornerVertex[c]
    BY <2>2
  <2>4. ASSUME NEW e \in 0 .. d - 1
        PROVE  dCornerVertex[e] # dCornerVertex[d]
    <3>1. e \in D /\ ~ (d <= e)
      BY <1>1, <2>3
    <3> QED
      BY <2>2, <2>3, <3>1
  <2> QED
    BY <1>3, <2>3, <2>4
<1>6. \A c, d \in first : dCornerVertex[c] = dCornerVertex[d] => c = d
  <2> SUFFICES ASSUME NEW c \in first, NEW d \in first,
                      dCornerVertex[c] = dCornerVertex[d], c # d
               PROVE  FALSE
    OBVIOUS
  <2>1. c \in Nat /\ d \in Nat
    BY <1>3
  <2>2. c \in 0 .. d - 1 \/ d \in 0 .. c - 1
    BY <2>1
  <2> QED
    BY <1>3, <2>2
<1>7. numUsed <= dNumVertices
  <2> DEFINE f == [c \in first |-> dCornerVertex[c]]
             V == 0 .. dNumVertices - 1
  <2>1. f \in [first -> V] /\ \A c, d \in first : f[c] = f[d] => c = d
    BY <1>3, <1>6
  <2>2. f \in Injection(first, V)
    BY <2>1 DEF Injection, IsInjective
  <2>3. \A a, b \in Int : IsFiniteSet(a .. b)
                            /\ Cardinality(a .. b) = IF a > b THEN 0 ELSE b - a + 1
    BY FS_Interval
  <2>4. IsFiniteSet(V)
          /\ Cardinality(V) = IF 0 > dNumVertices - 1 THEN 0 ELSE dNumVertices - 1 - 0 + 1
    BY <2>3
  <2>5. numUsed <= Cardinality(V)
    BY <2>2, <2>4, FS_Injection
  <2> QED
    BY <2>4, <2>5
<1>8. /\ rankOf \in [first -> 0 .. numUsed - 1]
      /\ \A v \in 0 .. numUsed - 1 : \E c \in first : rankOf[c] = v
  <2> DEFINE below == [c \in first |-> {d \in first : d < c}]
  <2>1. \A c \in first : below[c] = {d \in first : d < c} /\ below[c] \subseteq first
    OBVIOUS
  <2>2. \A c \in first : rankOf[c] = Cardinality(below[c])
    BY <2>1
  <2>3. \A c \in first : Cardinality(below[c]) \in Nat
    BY <1>4, <2>1, FS_Subset, FS_CardinalityType
  <2>4. rankOf \in [first -> Nat] /\ first \in SUBSET Nat /\ IsFiniteSet(first)
    BY <1>3, <1>4, <2>2, <2>3
  <2> HIDE DEF rankOf, first, below, rank, firstUse, met, D
  <2>5. \A c \in first : below[c] = {d \in first : d < c}
    BY <2>1
  <2>6. /\ rankOf \in [first -> 0 .. Cardinality(first) - 1]
        /\ \A v \in 0 .. Cardinality(first) - 1 : \E c \in first : rankOf[c] = v
    BY ONLY <2>2, <2>4, <2>5, RanksCountUp
  <2> QED
    BY <2>6
<1>9. \A c \in first : rank(c) = rankOf[c]
  OBVIOUS
<1> HIDE DEF rankOf, rank, numUsed, first
<1>10. \A c \in D : firstUse(c) \in first
  BY <1>5
<1>11. \A v \in 0 .. numUsed - 1 : met(v) \in first
  BY <1>8, <1>9
<1> HIDE DEF firstUse, met, D
<1>12. dCornerVertex' \in [D -> 0 .. numUsed - 1]
  BY <1>2, <1>8, <1>9, <1>10
<1>13. ASSUME NEW v \in 0 .. max - 1
       PROVE  /\ dVertexCorners'[v] \in {NoCorner} \cup D
              /\ isVertHole'[v] \in BOOLEAN
  <2>1. CASE v < numUsed
    <3>1. met(v) \in D
      BY <1>3, <1>4, <1>11, <2>1
    <3>2. LeftMostFrom(dOpposite, met(v)) \in D
      BY <3>1, LeftMostOfFan, FanKeepsSwings DEF D
    <3>3. dCornerVertex[met(v)] \in 0 .. max - 1
      <4>1. dCornerVertex[met(v)] \in 0 .. dNumVertices - 1
        BY <3>1 DEF D
      <4> QED
        BY <4>1
    <3> QED
      BY <1>2, <2>1, <3>2, <3>3
  <2>2. CASE ~ (v < numUsed)
    BY <1>2, <2>2
  <2> QED
    BY <2>1, <2>2
<1>14. /\ dVertexCorners' \in [0 .. max - 1 -> {NoCorner} \cup D]
       /\ isVertHole' \in [0 .. max - 1 -> BOOLEAN]
  BY <1>2, <1>13
<1> QED
  BY <1>2, <1>4, <1>7, <1>12, <1>14 DEF D

(* What a decoded mesh keeps of the invariant.                             *)
LEMMA MeshKeeps ==
  ASSUME ReaderInv, UNCHANGED wireVars,
         decoderPhase \in {"startFaces", "connected"}, decoderPhase' \in {"connected", "decoded"},
         UNCHANGED <<symbolID, activeCorners, topologySplitCorner, splitIndex,
                     invalidVertices, numDecodedFaces, startFacesRead, dOpposite>>,
         numDecodedFaces = numEncodedFaces,
         dNumVertices' \in 0 .. DecoderMaxVertices,
         dCornerVertex' \in [Corners(numEncodedFaces) -> 0 .. dNumVertices' - 1],
         dVertexCorners' \in [AllVertices -> {NoCorner} \cup Corners(numEncodedFaces)],
         isVertHole' \in [AllVertices -> BOOLEAN]
  PROVE  ReaderInv'
<1> DEFINE D == Corners(numEncodedFaces)
<1>1. /\ WireTypeOK'
      /\ UNCHANGED <<numEncodedFaces, NumSymbols, AllVertices, DecoderMaxVertices,
                     splitEvents, startFaces>>
      /\ Corners(numEncodedFaces)' = D
  BY DEF ReaderInv, WireTypeOK, wireVars, AllVertices, NumSymbols, DecoderMaxVertices
<1>2. /\ DecodedCorners = D /\ DecodedVertexIDs = AllVertices
      /\ DOMAIN isVertHole = AllVertices
      /\ DOMAIN topologySplitCorner = 0 .. NumSymbols - 1
      /\ D \in SUBSET Nat /\ DecoderMaxVertices \in Nat
  BY CornersAreFinite DEF ReaderInv, TableHasItsSize, WireTypeOK, DecoderMaxVertices
<1>3. /\ DecodedCorners' = D /\ DecodedVertexIDs' = AllVertices
      /\ DOMAIN isVertHole' = AllVertices
  BY <1>2 DEF DecodedCorners, DecodedVertexIDs
<1>4. ReaderTypeOK'
  <2>1. /\ symbolID \in 0 .. NumSymbols /\ activeCorners \in Seq(Nat)
        /\ dOpposite \in [D -> D \cup {NoCorner}]
        /\ topologySplitCorner \in [DOMAIN topologySplitCorner -> Int]
        /\ splitIndex \in 0 .. Len(splitEvents) /\ invalidVertices \in Seq(Int)
        /\ numDecodedFaces \in Nat /\ startFacesRead \in 0 .. Len(startFaces)
    BY <1>2 DEF ReaderInv, ReaderTypeOK
  <2>2. dCornerVertex' \in [D -> AllVertices \cup {-1}]
    <3>1. 0 .. dNumVertices' - 1 \subseteq AllVertices
      <4>1. \A n \in 0 .. DecoderMaxVertices : 0 .. n - 1 \subseteq 0 .. DecoderMaxVertices - 1
        BY <1>2
      <4> QED
        BY <4>1 DEF AllVertices
    <3> QED
      BY <3>1
  <2>3. {NoCorner} \cup D \subseteq Int
    BY <1>2 DEF NoCorner
  <2>4. dVertexCorners' \in [AllVertices -> Int]
    BY <2>3
  <2> QED
    BY <1>1, <1>3, <2>1, <2>2, <2>4 DEF ReaderTypeOK
<1>5. TableHasItsSize' /\ CornersAreOfDecodedFaces' /\ DecodedMeshIsComplete'
  BY <1>1, <1>2, <1>3 DEF TableHasItsSize, CornersAreOfDecodedFaces, DecodedMeshIsComplete,
     Building
<1>6. DecodedOppositesArePairs'
  BY DEF ReaderInv, DecodedOppositesArePairs
<1>7. /\ NothingRead' /\ TopIsTheLastFace' /\ SymbolFacesHaveVertices'
      /\ StoredCornersHaveTheirVertex' /\ SymbolFacesShareTheirEdges'
  BY DEF NothingRead, TopIsTheLastFace, SymbolFacesHaveVertices,
     StoredCornersHaveTheirVertex, SymbolFacesShareTheirEdges, Building
<1> QED
  BY <1>1, <1>4, <1>5, <1>6, <1>7 DEF ReaderInv

LEMMA FinishKeeps ==
  ASSUME ReaderInv, FinishConnectivity, ~ Fail, UNCHANGED wireVars
  PROVE  ReaderInv'
<1> DEFINE D == Corners(numEncodedFaces)
<1>1. /\ decoderPhase = "startFaces" /\ decoderPhase' = "connected" /\ ~ Incomplete
      /\ \/ UNCHANGED <<decodedTable, isVertHole>>
         \/ RemoveInvalidVertices
      /\ UNCHANGED <<symbolID, activeCorners, topologySplitCorner, splitIndex,
                     invalidVertices, numDecodedFaces, startFacesRead>>
  BY DEF FinishConnectivity
<1>2. /\ DecodedCorners = D /\ DecodedVertexIDs = AllVertices
      /\ AllVertices = 0 .. DecoderMaxVertices - 1
      /\ numEncodedFaces \in Nat /\ DecoderMaxVertices \in Nat
      /\ D \in SUBSET Nat /\ D = 0 .. 3 * numEncodedFaces - 1
  BY <1>1, CornersAreFinite
     DEF ReaderInv, TableHasItsSize, WireTypeOK, DecoderMaxVertices, AllVertices, Corners
<1>3. /\ IsTable(dOpposite, D) /\ DOMAIN dOpposite = D
      /\ dNumVertices \in 0 .. DecoderMaxVertices
      /\ isVertHole \in [AllVertices -> BOOLEAN]
      /\ DOMAIN dCornerVertex = D /\ dCornerVertex \in [D -> AllVertices \cup {-1}]
      /\ DOMAIN dVertexCorners = AllVertices
      /\ dVertexCorners \in [AllVertices -> Int]
  BY <1>1, <1>2 DEF ReaderInv, ReaderTypeOK, IsTable, DecodedOppositesArePairs,
     TableHasItsSize, DecodedCorners
<1>4. /\ numDecodedFaces = numEncodedFaces
      /\ dCornerVertex \in [D -> 0 .. dNumVertices - 1]
  BY <1>1, <1>2, <1>3 DEF Incomplete
<1>5. \A v \in AllVertices : dVertexCorners[v] \in {NoCorner} \cup D
  <2>1. \A v \in AllVertices : dVertexCorners[v] \in {NoCorner} \cup 0 .. 3 * symbolID - 1
    BY <1>1, <1>2 DEF ReaderInv, CornersAreOfDecodedFaces, Building
  <2>2. symbolID \in Nat /\ symbolID <= numEncodedFaces
    <3>1. NumSymbols \in Nat
      BY LenProperties DEF ReaderInv, WireTypeOK, NumSymbols
    <3> QED
      BY <1>1, <1>4, <3>1 DEF ReaderInv, ReaderTypeOK, CornersAreOfDecodedFaces, Building
  <2>3. 0 .. 3 * symbolID - 1 \subseteq D
    BY <1>2, <2>2
  <2> QED
    BY <2>1, <2>3
<1> HIDE DEF D
<1>6. CASE UNCHANGED <<decodedTable, isVertHole>>
  <2>1. /\ UNCHANGED <<dCornerVertex, dOpposite, dVertexCorners, dNumVertices, isVertHole>>
    BY <1>6 DEF decodedTable
  <2>2. dVertexCorners' \in [AllVertices -> {NoCorner} \cup D]
    BY <1>3, <1>5, <2>1
  <2>3. decoderPhase \in {"startFaces", "connected"} /\ decoderPhase' \in {"connected", "decoded"}
    BY <1>1
  <2> QED
    BY <1>1, <1>3, <1>4, <2>1, <2>2, <2>3, MeshKeeps DEF D
<1>7. CASE RemoveInvalidVertices
  <2>1. /\ dNumVertices \in Nat /\ dNumVertices <= DecoderMaxVertices
    BY <1>2, <1>3
  <2>2. /\ dNumVertices' \in Nat /\ dNumVertices' <= dNumVertices
        /\ dCornerVertex' \in [D -> 0 .. dNumVertices' - 1]
        /\ dVertexCorners' \in [AllVertices -> {NoCorner} \cup D]
        /\ isVertHole' \in [AllVertices -> BOOLEAN]
        /\ UNCHANGED dOpposite
    BY <1>2, <1>3, <1>4, <1>7, <2>1, CompactionIsSound DEF D
  <2>3. dNumVertices' \in 0 .. DecoderMaxVertices
    BY <1>2, <2>1, <2>2
  <2>4. decoderPhase \in {"startFaces", "connected"} /\ decoderPhase' \in {"connected", "decoded"}
    BY <1>1
  <2> QED
    BY <1>1, <1>4, <2>2, <2>3, <2>4, MeshKeeps DEF D
<1> QED
  BY <1>1, <1>6, <1>7

LEMMA HoleCornersKeep ==
  ASSUME ReaderInv, UpdateHoleCorners, UNCHANGED wireVars
  PROVE  ReaderInv'
<1> DEFINE D == Corners(numEncodedFaces)
<1>1. /\ decoderPhase = "connected" /\ decoderPhase' = "decoded"
      /\ dVertexCorners' = [v \in DecodedVertexIDs |->
            IF v < dNumVertices /\ isVertHole[v]
            THEN LeftMostFrom(dOpposite, dVertexCorners[v]) ELSE dVertexCorners[v]]
      /\ UNCHANGED <<symbolID, dCornerVertex, dOpposite, dNumVertices, activeCorners,
                     topologySplitCorner, splitIndex, invalidVertices, isVertHole,
                     numDecodedFaces, startFacesRead>>
  BY DEF UpdateHoleCorners, HoleCorner
<1>2. /\ DecodedCorners = D /\ DecodedVertexIDs = AllVertices
      /\ numEncodedFaces \in Nat
  BY <1>1 DEF ReaderInv, TableHasItsSize, WireTypeOK
<1>3. /\ IsTable(dOpposite, D)
      /\ dNumVertices \in 0 .. DecoderMaxVertices
      /\ isVertHole \in [AllVertices -> BOOLEAN]
      /\ dCornerVertex \in [D -> 0 .. dNumVertices - 1]
      /\ numDecodedFaces = numEncodedFaces
      /\ \A v \in AllVertices : dVertexCorners[v] \in {NoCorner} \cup D
  BY <1>1, <1>2 DEF ReaderInv, ReaderTypeOK, IsTable, DecodedOppositesArePairs,
     TableHasItsSize, DecodedMeshIsComplete, CornersAreOfDecodedFaces
<1>4. ASSUME NEW c \in {NoCorner} \cup D
      PROVE  LeftMostFrom(dOpposite, c) \in {NoCorner} \cup D
  <2>1. CASE c = NoCorner
    BY <2>1 DEF LeftMostFrom, NoCorner
  <2>2. CASE c \in D
    BY <1>2, <1>3, <2>2, LeftMostOfFan, FanKeepsSwings
  <2> QED
    BY <2>1, <2>2
<1>5. dVertexCorners' \in [AllVertices -> {NoCorner} \cup D]
  BY <1>1, <1>2, <1>3, <1>4
<1>6. decoderPhase \in {"startFaces", "connected"} /\ decoderPhase' \in {"connected", "decoded"}
  BY <1>1
<1>7. /\ dNumVertices' \in 0 .. DecoderMaxVertices
      /\ dCornerVertex' \in [D -> 0 .. dNumVertices' - 1]
      /\ isVertHole' \in [AllVertices -> BOOLEAN]
  BY <1>1, <1>3
<1> HIDE DEF D
<1> QED
  BY <1>1, <1>3, <1>5, <1>6, <1>7, MeshKeeps DEF D

-----------------------------------------------------------------------------

(* Before anything is read, the invariant only asks that there is a stream. *)
LEMMA NothingReadGivesInv ==
  WireTypeOK /\ DecoderInit => ReaderInv
<1> SUFFICES ASSUME WireTypeOK, DecoderInit
             PROVE  ReaderInv
  OBVIOUS
<1>1. /\ Len(symbols) \in Nat /\ Len(splitEvents) \in Nat /\ Len(startFaces) \in Nat
      /\ DecoderMaxVertices \in Nat
  BY LenProperties DEF WireTypeOK, DecoderMaxVertices
<1>2. /\ decoderPhase = "idle" /\ symbolID = 0 /\ dNumVertices = 0 /\ splitIndex = 0
      /\ dCornerVertex = <<>> /\ dOpposite = <<>> /\ dVertexCorners = <<>>
      /\ activeCorners = <<>> /\ topologySplitCorner = <<>> /\ invalidVertices = <<>>
      /\ isVertHole = <<>> /\ numDecodedFaces = 0 /\ startFacesRead = 0
  BY DEF DecoderInit
<1>3. ReaderTypeOK
  <2>1. DOMAIN << >> = {} /\ \A T : << >> \in [{} -> T] /\ << >> \in Seq(T)
    BY EmptySeq
  <2> QED
    BY <1>1, <1>2, <2>1 DEF ReaderTypeOK, DecodedCorners, DecodedVertexIDs, NumSymbols
<1>4. DecodedOppositesArePairs
  BY <1>2 DEF DecodedOppositesArePairs, IsPairing
<1> QED
  BY <1>2, <1>3, <1>4 DEF ReaderInv, NothingRead, TableHasItsSize,
     CornersAreOfDecodedFaces, TopIsTheLastFace,
     SymbolFacesHaveVertices, StoredCornersHaveTheirVertex, SymbolFacesShareTheirEdges,
     DecodedMeshIsComplete, Building

LEMMA ReaderInitGivesInv ==
  ReaderInit => ReaderInv
<1> SUFFICES ASSUME ReaderInit
             PROVE  ReaderInv
  OBVIOUS
<1>1. PICK s \in Streams :
        /\ symbols = s.symbols /\ startFaces = s.startFaces
        /\ splitEvents = s.splitEvents
        /\ numSplitSymbols = s.numSplitSymbols
        /\ numEncodedVertices = s.numEncodedVertices
        /\ numEncodedFaces = s.numEncodedFaces
  BY DEF ReaderInit, StreamInit
<1>2. IsStream(s)
  BY StreamsAssumption
<1>3. WireTypeOK
  BY <1>1, <1>2 DEF IsStream, WireTypeOK
<1> QED
  BY <1>3, NothingReadGivesInv DEF ReaderInit

(* A symbol is decoded or refused.                                         *)
LEMMA SymbolKeeps ==
  ASSUME ReaderInv, DecodeC \/ DecodeR \/ DecodeL \/ DecodeS \/ DecodeE, UNCHANGED wireVars
  PROVE  ReaderInv'
<1>1. WireTypeOK /\ SymbolsSoFar
  <2>1. decoderPhase = "symbols"
    BY DEF DecodeC, DecodeR, DecodeL, DecodeSide, DecodeS, DecodeE, ReadingSymbol
  <2> QED
    BY <2>1, InvGivesSymbolsSoFar DEF ReaderInv
<1>2. CASE Fail
  BY <1>2, FailKeeps
<1>3. CASE ~ Fail
  <2>1. SymbolsSoFar'
    BY <1>1, <1>3, SymbolCKeeps, SymbolRKeeps, SymbolLKeeps, SymbolSKeeps, SymbolEKeeps
  <2>2. WireTypeOK'
    BY <1>1 DEF WireTypeOK, wireVars
  <2> QED
    BY <2>1, <2>2, SymbolsSoFarGiveInvNext
<1> QED
  BY <1>2, <1>3

LEMMA ReaderInvIsInductive ==
  ReaderInv /\ [ReaderNext]_ReaderVars => ReaderInv'
<1> SUFFICES ASSUME ReaderInv, [ReaderNext]_ReaderVars
             PROVE  ReaderInv'
  OBVIOUS
<1>1. CASE UNCHANGED ReaderVars
  BY <1>1 DEF ReaderVars, decoderVars, wireVars, decodedTable, ReaderInv,
     WireTypeOK, ReaderTypeOK, NothingRead, TableHasItsSize, CornersAreOfDecodedFaces,
     TopIsTheLastFace, DecodedOppositesArePairs, SymbolFacesHaveVertices,
     StoredCornersHaveTheirVertex, SymbolFacesShareTheirEdges, DecodedMeshIsComplete,
     Building, DecodedCorners, DecodedVertexIDs, NumSymbols, DecoderMaxVertices,
     AllVertices, SymbolCorners, NewCorner
<1>2. CASE ReaderNext
  <2>1. UNCHANGED wireVars /\ DecoderNext
    BY <1>2 DEF ReaderNext
  <2>2. CASE StartDecoding
    BY <2>1, <2>2, StartDecodingKeeps
  <2>3. CASE DecodeC \/ DecodeR \/ DecodeL \/ DecodeS \/ DecodeE
    BY <2>1, <2>3, SymbolKeeps
  <2>4. CASE SymbolsDone \/ DecodeBoundaryStart
    BY <2>1, <2>4, SymbolsDoneKeeps
  <2>5. CASE Fail
    BY <2>1, <2>5, FailKeeps
  <2>6. CASE DecodeInteriorStart /\ ~ Fail
    BY <2>1, <2>6, InteriorStartKeeps
  <2>7. CASE FinishConnectivity /\ ~ Fail
    BY <2>1, <2>7, FinishKeeps
  <2>8. CASE UpdateHoleCorners
    BY <2>1, <2>8, HoleCornersKeep
  <2> QED
    BY <2>1, <2>2, <2>3, <2>4, <2>5, <2>6, <2>7, <2>8 DEF DecoderNext, TruncatedStartFaces
<1> QED
  BY <1>1, <1>2

(* The table is one the later passes can walk, whatever the stream.        *)
THEOREM TablesAreAlwaysSound == ReaderSpec => []TableIsSound
<1>1. ReaderInv => TableIsSound
  BY DEF ReaderInv, TableIsSound
<1> QED
  BY <1>1, ReaderInitGivesInv, ReaderInvIsInductive, PTL DEF ReaderSpec

(* What is decoded without an error has the announced faces, and every     *)
(* corner a vertex within the count, whatever the stream.                  *)
THEOREM DecodedMeshesAreComplete == ReaderSpec => []DecodedMeshIsComplete
<1>1. ReaderInv => DecodedMeshIsComplete
  BY DEF ReaderInv
<1> QED
  BY <1>1, ReaderInitGivesInv, ReaderInvIsInductive, PTL DEF ReaderSpec

-----------------------------------------------------------------------------
(* The decoder rebuilds a table it has never seen.  Its corners are named  *)
(* in the order of decoding, so the table it is rebuilding can be written  *)
(* down before it exists, and after m corners it must have the part of it  *)
(* whose edges run between those.                                          *)
Cut(table, m) == [c \in DOMAIN table |-> IF c < m /\ table[c] < m THEN table[c] ELSE NoCorner]

IsWhole(table, F) ==
  /\ IsTable(table, Corners(F))
  /\ \A c \in Corners(F) :
       /\ table[c] # NoCorner => Face(table[c]) # Face(c)
       /\ NextCorner(c) \notin FanCorners(table, c)

LeftEnd(o, c) == o[NextCorner(c)] = NoCorner
RightEnd(o, c) == o[PreviousCorner(c)] = NoCorner

(* A table that is cut off is a table.                                     *)
LEMMA CutIsTable ==
  ASSUME NEW F \in Nat, NEW T, IsTable(T, Corners(F)), NEW m \in Nat
  PROVE  /\ IsTable(Cut(T, m), Corners(F))
         /\ \A c \in Corners(F) :
              /\ Cut(T, m)[c] = IF c < m /\ T[c] < m THEN T[c] ELSE NoCorner
              /\ Cut(T, m)[c] # NoCorner =>
                   Cut(T, m)[c] = T[c] /\ T[c] \in Corners(F) /\ c < m /\ T[c] < m
<1> DEFINE o == Cut(T, m)
           D == Corners(F)
<1>1. T \in [D -> D \cup {NoCorner}] /\ DOMAIN T = D /\ IsPairing(T)
  BY DEF IsTable
<1>2. \A c \in D : o[c] = IF c < m /\ T[c] < m THEN T[c] ELSE NoCorner
  BY <1>1 DEF Cut
<1>3. o \in [D -> D \cup {NoCorner}] /\ DOMAIN o = D
  BY <1>1 DEF Cut
<1>4. \A c \in D : o[c] # NoCorner => o[c] = T[c] /\ T[c] \in D /\ c < m /\ T[c] < m
  BY <1>1, <1>2
<1> HIDE DEF o, D
<1>5. IsPairing(o)
  <2> SUFFICES ASSUME NEW c \in D, o[c] # NoCorner
               PROVE  o[c] \in D /\ o[c] # c /\ o[o[c]] = c
    BY <1>3 DEF IsPairing
  <2>1. o[c] = T[c] /\ T[c] \in D /\ c < m /\ T[c] < m
    BY <1>4
  <2>2. T[c] # c /\ T[T[c]] = c
    BY <1>1, <2>1, CornersAreFinite DEF IsPairing, NoCorner, D
  <2> QED
    BY <1>2, <2>1, <2>2
<1> QED
  BY <1>2, <1>3, <1>4, <1>5 DEF IsTable, o, D

(* Gluing more never makes a fan smaller.                                  *)
LEMMA FansGrow ==
  ASSUME NEW F \in Nat, NEW o, IsTable(o, Corners(F)), NEW q, IsTable(q, Corners(F)),
         \A c \in Corners(F) : o[c] # NoCorner => q[c] = o[c],
         NEW c \in Corners(F)
  PROVE  FanCorners(o, c) \subseteq FanCorners(q, c)
<1> DEFINE D == Corners(F)
           S == FanCorners(q, c)
<1>1. c \in S /\ S \subseteq D /\ KeepsSwings(q, S)
  BY FanKeepsSwings
<1> HIDE DEF S
<1>2. KeepsSwings(o, S)
  <2> SUFFICES ASSUME NEW d \in S
               PROVE  /\ SwingLeft(o, d) >= 0 => SwingLeft(o, d) \in S
                      /\ SwingRight(o, d) >= 0 => SwingRight(o, d) \in S
    BY DEF KeepsSwings
  <2>1. d \in D /\ NextCorner(d) \in D /\ PreviousCorner(d) \in D
    BY <1>1, CornerArithmetic
  <2>2. /\ NextCorner(PreviousCorner(d)) = d /\ PreviousCorner(NextCorner(d)) = d
    BY <2>1, NextAndPrevious
  <2>3. /\ o[NextCorner(d)] = NoCorner => SwingLeft(o, d) = NoCorner
        /\ o[NextCorner(d)] # NoCorner => SwingLeft(o, d) = NextCorner(o[NextCorner(d)])
        /\ o[PreviousCorner(d)] = NoCorner => SwingRight(o, d) = NoCorner
        /\ o[PreviousCorner(d)] # NoCorner => SwingRight(o, d) = PreviousCorner(o[PreviousCorner(d)])
    BY <2>1, <2>2, SwingsCrossEdges
  <2>4. /\ q[NextCorner(d)] # NoCorner => SwingLeft(q, d) = NextCorner(q[NextCorner(d)])
        /\ q[PreviousCorner(d)] # NoCorner => SwingRight(q, d) = PreviousCorner(q[PreviousCorner(d)])
    BY <2>1, <2>2, SwingsCrossEdges
  <2>5. /\ SwingLeft(o, d) >= 0 => SwingLeft(q, d) = SwingLeft(o, d)
        /\ SwingRight(o, d) >= 0 => SwingRight(q, d) = SwingRight(o, d)
    BY <2>1, <2>3, <2>4 DEF NoCorner
  <2> QED
    BY <1>1, <2>5 DEF KeepsSwings
<1> QED
  BY <1>1, <1>2, FanIsLeast DEF S

(* The neighbours of a corner in its fan, across the edges beside it.      *)
LEMMA FanNeighbours ==
  ASSUME NEW F \in Nat, NEW o, IsTable(o, Corners(F)), NEW c \in Corners(F)
  PROVE  /\ NextCorner(c) \in Corners(F) /\ PreviousCorner(c) \in Corners(F)
         /\ o[NextCorner(c)] # NoCorner =>
              LET l == NextCorner(o[NextCorner(c)])
              IN  /\ o[NextCorner(c)] \in Corners(F) /\ l \in Corners(F) /\ l \in FanCorners(o, c)
                  /\ FanCorners(o, l) = FanCorners(o, c) /\ c \in FanCorners(o, l)
                  /\ SwingLeft(o, c) = l
         /\ o[PreviousCorner(c)] # NoCorner =>
              LET r == PreviousCorner(o[PreviousCorner(c)])
              IN  /\ o[PreviousCorner(c)] \in Corners(F) /\ r \in Corners(F) /\ r \in FanCorners(o, c)
                  /\ FanCorners(o, r) = FanCorners(o, c) /\ c \in FanCorners(o, r)
                  /\ SwingRight(o, c) = r
         /\ o[NextCorner(c)] = NoCorner => SwingLeft(o, c) = NoCorner
         /\ o[PreviousCorner(c)] = NoCorner => SwingRight(o, c) = NoCorner
<1> DEFINE D == Corners(F)
<1>1. NextCorner(c) \in D /\ PreviousCorner(c) \in D
  BY CornerArithmetic
<1>2. NextCorner(PreviousCorner(c)) = c /\ PreviousCorner(NextCorner(c)) = c
  BY NextAndPrevious
<1>3. /\ o[NextCorner(c)] = NoCorner => SwingLeft(o, c) = NoCorner
      /\ o[NextCorner(c)] # NoCorner => /\ SwingLeft(o, c) = NextCorner(o[NextCorner(c)])
                                        /\ o[NextCorner(c)] \in D
      /\ o[PreviousCorner(c)] = NoCorner => SwingRight(o, c) = NoCorner
      /\ o[PreviousCorner(c)] # NoCorner => /\ SwingRight(o, c) = PreviousCorner(o[PreviousCorner(c)])
                                            /\ o[PreviousCorner(c)] \in D
  BY <1>1, <1>2, SwingsCrossEdges
<1>4. c \in FanCorners(o, c) /\ KeepsSwings(o, FanCorners(o, c))
  BY FanKeepsSwings
<1>5. ASSUME o[NextCorner(c)] # NoCorner
      PROVE  LET l == NextCorner(o[NextCorner(c)])
             IN  /\ l \in D /\ l \in FanCorners(o, c) /\ FanCorners(o, l) = FanCorners(o, c)
  <2> DEFINE l == NextCorner(o[NextCorner(c)])
  <2>1. l \in D /\ SwingLeft(o, c) = l
    BY <1>3, <1>5, CornerArithmetic
  <2> HIDE DEF l
  <2>2. l >= 0
    BY <2>1, CornersAreFinite
  <2>3. l \in FanCorners(o, c)
    BY <1>4, <2>1, <2>2 DEF KeepsSwings
  <2>4. FanCorners(o, l) = FanCorners(o, c)
    BY <2>3, FansAreDisjoint
  <2> QED
    BY <2>1, <2>3, <2>4 DEF l
<1>6. ASSUME o[PreviousCorner(c)] # NoCorner
      PROVE  LET r == PreviousCorner(o[PreviousCorner(c)])
             IN  /\ r \in D /\ r \in FanCorners(o, c) /\ FanCorners(o, r) = FanCorners(o, c)
  <2> DEFINE r == PreviousCorner(o[PreviousCorner(c)])
  <2>1. r \in D /\ SwingRight(o, c) = r
    BY <1>3, <1>6, CornerArithmetic
  <2> HIDE DEF r
  <2>2. r >= 0
    BY <2>1, CornersAreFinite
  <2>3. r \in FanCorners(o, c)
    BY <1>4, <2>1, <2>2 DEF KeepsSwings
  <2>4. FanCorners(o, r) = FanCorners(o, c)
    BY <2>3, FansAreDisjoint
  <2> QED
    BY <2>1, <2>3, <2>4 DEF r
<1> QED
  BY <1>1, <1>3, <1>4, <1>5, <1>6

(* A fan with a rightmost corner has a leftmost one.                       *)
LEMMA OpenFanHasLeftmost ==
  ASSUME NEW F \in Nat, NEW o, IsTable(o, Corners(F)), NEW c \in Corners(F), RightEnd(o, c)
  PROVE  \E e \in FanCorners(o, c) : LeftEnd(o, e)
<1> DEFINE l == LastOf(LeftFan(o, c))
<1>1. /\ l \in LeftCorners(o, c) /\ LeftCorners(o, c) \subseteq Corners(F)
      /\ SwingLeft(o, l) < 0 \/ SwingLeft(o, l) = c
  BY LeftWalk
<1> HIDE DEF l
<1>2. l \in Corners(F) /\ l \in FanCorners(o, c)
  BY <1>1 DEF FanCorners, LeftCorners
<1>3. c >= 0 /\ l >= 0 /\ ~ (l < 0) /\ SwingRight(o, c) = NoCorner
  BY <1>2, CornersAreFinite, FanNeighbours DEF RightEnd
<1>4. SwingLeft(o, l) = c => SwingRight(o, c) = l
  BY <1>2, <1>3, SwingsAreInverse
<1>5. SwingLeft(o, l) < 0
  BY <1>1, <1>3, <1>4 DEF NoCorner
<1>6. LeftEnd(o, l)
  <2> SUFFICES ASSUME o[NextCorner(l)] # NoCorner PROVE FALSE
    BY DEF LeftEnd
  <2>1. SwingLeft(o, l) \in Corners(F)
    BY <1>2, FanNeighbours
  <2> QED
    BY <1>5, <2>1, CornersAreFinite
<1> QED
  BY <1>2, <1>6

(* Of an open fan one corner is on the left and one on the right.          *)
LEMMA FanEnds ==
  ASSUME NEW F \in Nat, NEW o, IsTable(o, Corners(F)), NEW c \in Corners(F),
         NEW d \in FanCorners(o, c)
  PROVE  /\ LeftEnd(o, c) /\ LeftEnd(o, d) => d = c
         /\ RightEnd(o, c) /\ RightEnd(o, d) => d = c
<1>1. d \in Corners(F)
  BY FanKeepsSwings
<1>2. /\ LeftEnd(o, c) => SwingLeft(o, c) < 0
      /\ LeftEnd(o, d) => SwingLeft(o, d) < 0
      /\ RightEnd(o, c) => SwingRight(o, c) < 0
      /\ RightEnd(o, d) => SwingRight(o, d) < 0
  BY <1>1, FanNeighbours DEF LeftEnd, RightEnd, NoCorner
<1> QED
  BY <1>2, OneLeftmost, OneRightmost

(* What the decoder has after m corners and n vertices: the gluing of the  *)
(* table cut off there; vertices that are exactly its fans; for each of    *)
(* them a stored corner, the leftmost where there is one; and flags that   *)
(* say which fans are still open.                                          *)
Rebuilt(T, F, m, o, cv, vc, hole, n) ==
  /\ \E k \in 0 .. F : m = 3 * k
  /\ n \in Nat
  /\ o = Cut(T, m)
  /\ \A c \in 0 .. m - 1 : cv[c] \in 0 .. n - 1
  /\ \A c \in Corners(F) \ (0 .. m - 1) : cv[c] = -1
  /\ SharesItsEdges(o, cv, F, m)
  /\ \A c, d \in 0 .. m - 1 : cv[c] = cv[d] => d \in FanCorners(o, c)
  /\ \A v \in DOMAIN vc : vc[v] # NoCorner => vc[v] \in 0 .. m - 1 /\ cv[vc[v]] = v
  /\ \A c \in 0 .. m - 1 : vc[cv[c]] \in 0 .. m - 1 /\ cv[vc[cv[c]]] = cv[c]
  /\ \A c \in 0 .. m - 1 : LeftEnd(o, c) => vc[cv[c]] = c
  /\ \A c \in 0 .. m - 1 : hole[cv[c]] <=> LeftEnd(o, vc[cv[c]])
  /\ \A v \in DOMAIN hole : v \notin 0 .. n - 1 => hole[v]

(* A fan meets a face once.                                                *)
LEMMA FansOfOneFace ==
  ASSUME NEW F \in Nat, NEW T, IsWhole(T, F), NEW c \in Corners(F)
  PROVE  /\ PreviousCorner(c) \notin FanCorners(T, c)
         /\ NextCorner(c) \notin FanCorners(T, c)
         /\ \A d \in FanCorners(T, c) : d \in Corners(F) /\ (Face(d) = Face(c) => d = c)
<1> DEFINE D == Corners(F)
<1>1. IsTable(T, D) /\ NextCorner(c) \in D /\ PreviousCorner(c) \in D
  BY CornerArithmetic DEF IsWhole
<1>2. NextCorner(PreviousCorner(c)) = c
  BY NextAndPrevious
<1>3. PreviousCorner(c) \notin FanCorners(T, c)
  <2> SUFFICES ASSUME PreviousCorner(c) \in FanCorners(T, c) PROVE FALSE
    OBVIOUS
  <2>1. FanCorners(T, PreviousCorner(c)) = FanCorners(T, c)
    BY <1>1, FansAreDisjoint
  <2>2. c \in FanCorners(T, c)
    BY <1>1, FanKeepsSwings
  <2> QED
    BY <1>1, <1>2, <2>1, <2>2 DEF IsWhole
<1>4. ASSUME NEW d \in FanCorners(T, c)
      PROVE  d \in D /\ (Face(d) = Face(c) => d = c)
  <2>1. d \in D
    BY <1>1, FanKeepsSwings
  <2>2. /\ {c, NextCorner(c), PreviousCorner(c)} = {3 * Face(c), 3 * Face(c) + 1, 3 * Face(c) + 2}
        /\ {d, NextCorner(d), PreviousCorner(d)} = {3 * Face(d), 3 * Face(d) + 1, 3 * Face(d) + 2}
    BY <2>1, CornerArithmetic
  <2>3. Face(d) = Face(c) => d \in {c, NextCorner(c), PreviousCorner(c)}
    BY <2>2
  <2> QED
    BY <1>3, <2>1, <2>3 DEF IsWhole
<1> QED
  BY <1>1, <1>3, <1>4 DEF IsWhole

(* What follows at once from having been rebuilt.                          *)
LEMMA RebuiltTable ==
  ASSUME NEW F \in Nat, NEW T, IsWhole(T, F), NEW m,
         NEW o, NEW cv, NEW vc, NEW hole, NEW n, Rebuilt(T, F, m, o, cv, vc, hole, n)
  PROVE  /\ m \in Nat /\ m <= 3 * F /\ n \in Nat
         /\ IsTable(o, Corners(F)) /\ IsTable(T, Corners(F))
         /\ \A c \in 0 .. m - 1 :
              /\ NextCorner(c) \in 0 .. m - 1 /\ PreviousCorner(c) \in 0 .. m - 1
              /\ c \in Corners(F) /\ c \in Nat /\ c < m
         /\ 0 .. m - 1 \subseteq Corners(F)
         /\ \A c \in Corners(F) :
              /\ o[c] = IF c < m /\ T[c] < m THEN T[c] ELSE NoCorner
              /\ o[c] # NoCorner => o[c] = T[c] /\ T[c] \in Corners(F) /\ c < m /\ T[c] < m
         /\ \A c \in Corners(F) : FanCorners(o, c) \subseteq FanCorners(T, c)
         /\ \A c, d \in 0 .. m - 1 : cv[c] = cv[d] =>
              d \in FanCorners(o, c) /\ FanCorners(o, d) = FanCorners(o, c) /\ d \in FanCorners(T, c)
         /\ \A c \in 0 .. m - 1 : \A d \in FanCorners(o, c) : d \in Corners(F) /\ cv[d] = cv[c]
<1> DEFINE D == Corners(F)
<1>1. IsTable(T, D) /\ o = Cut(T, m) /\ n \in Nat
  BY DEF IsWhole, Rebuilt
<1> PICK k \in 0 .. F : m = 3 * k
  BY DEF Rebuilt
<1>0. m \in Nat /\ m <= 3 * F
  OBVIOUS
<1>2. /\ IsTable(o, D)
      /\ \A c \in D : /\ o[c] = IF c < m /\ T[c] < m THEN T[c] ELSE NoCorner
                      /\ o[c] # NoCorner => o[c] = T[c] /\ T[c] \in D /\ c < m /\ T[c] < m
  BY <1>1, CutIsTable
<1>3. 0 .. m - 1 \subseteq D
  BY DEF Corners
<1>4. \A c \in D : FanCorners(o, c) \subseteq FanCorners(T, c)
  BY <1>1, <1>2, FansGrow
<1>5. ASSUME NEW c \in 0 .. m - 1, NEW d \in 0 .. m - 1, cv[c] = cv[d]
      PROVE  d \in FanCorners(o, c) /\ FanCorners(o, d) = FanCorners(o, c) /\ d \in FanCorners(T, c)
  <2>1. d \in FanCorners(o, c) /\ c \in D
    BY <1>3, <1>5 DEF Rebuilt
  <2>2. FanCorners(o, d) = FanCorners(o, c)
    BY <1>2, <2>1, FansAreDisjoint
  <2> QED
    BY <1>4, <2>1, <2>2
<1>7. \A c \in 0 .. m - 1 :
        /\ NextCorner(c) \in 0 .. m - 1 /\ PreviousCorner(c) \in 0 .. m - 1
        /\ c \in D /\ c \in Nat /\ c < m
  <2> TAKE c \in 0 .. m - 1
  <2>1. c \in Corners(k) /\ Corners(k) = 0 .. m - 1
    BY DEF Corners
  <2>4. k \in Nat
    OBVIOUS
  <2>2. NextCorner(c) \in Corners(k) /\ PreviousCorner(c) \in Corners(k)
    BY <2>1, <2>4, CornerArithmetic
  <2>3. c \in Nat /\ c < m
    BY <1>0
  <2> QED
    BY <1>3, <2>1, <2>2, <2>3
<1>6. ASSUME NEW c \in 0 .. m - 1, NEW d \in FanCorners(o, c)
      PROVE  d \in D /\ cv[d] = cv[c]
  <2>1. c \in D
    BY <1>3
  <2>2. \A x \in D : o[x] # NoCorner => FacesSameEdge(cv, x, o[x])
    BY DEF Rebuilt, SharesItsEdges
  <2> QED
    BY <1>2, <2>1, <2>2, FanKeepsSwings, FanHasOneVertex
<1> QED
  BY <1>0, <1>1, <1>2, <1>3, <1>4, <1>5, <1>6, <1>7

(* A ring around a vertex that lacks one face yet.                         *)
RingDone(T, g, m) ==
  \A d \in FanCorners(T, g) :
    /\ d < m \/ d = g
    /\ T[NextCorner(d)] # NoCorner /\ T[PreviousCorner(d)] # NoCorner

(* The stored corner of such a vertex is the one beside the gap, on the    *)
(* right: the walk of the decoder across it finds the edge to be closed.   *)
LEMMA RingEnd ==
  ASSUME NEW F \in Nat, NEW T, IsWhole(T, F), NEW m,
         NEW o, NEW cv, NEW vc, NEW hole, NEW n, Rebuilt(T, F, m, o, cv, vc, hole, n),
         NEW g \in Corners(F), ~ (g < m), RingDone(T, g, m)
  PROVE  LET l == T[NextCorner(g)]
             r == T[PreviousCorner(g)]
         IN  /\ l \in 0 .. m - 1 /\ r \in 0 .. m - 1
             /\ NextCorner(l) \in 0 .. m - 1 /\ PreviousCorner(r) \in 0 .. m - 1
             /\ vc[cv[NextCorner(l)]] = PreviousCorner(r)
             /\ cv[NextCorner(l)] = cv[PreviousCorner(r)]
<1> DEFINE D == Corners(F)
           l == T[NextCorner(g)]
           r == T[PreviousCorner(g)]
           x == NextCorner(l)
           y == PreviousCorner(r)
<1>1. /\ m \in Nat /\ IsTable(o, D) /\ IsTable(T, D) /\ 0 .. m - 1 \subseteq D
      /\ \A c \in D : o[c] = IF c < m /\ T[c] < m THEN T[c] ELSE NoCorner
      /\ \A c \in D : FanCorners(o, c) \subseteq FanCorners(T, c)
      /\ \A c \in 0 .. m - 1 : \A d \in FanCorners(o, c) : d \in D /\ cv[d] = cv[c]
      /\ \A c \in 0 .. m - 1 : NextCorner(c) \in 0 .. m - 1 /\ PreviousCorner(c) \in 0 .. m - 1
  BY RebuiltTable
<1>2. g \in FanCorners(T, g) /\ l # NoCorner /\ r # NoCorner
  BY <1>1, FanKeepsSwings DEF RingDone
<1>3. /\ NextCorner(g) \in D /\ PreviousCorner(g) \in D
      /\ l \in D /\ x \in D /\ x \in FanCorners(T, g) /\ FanCorners(T, x) = FanCorners(T, g)
      /\ r \in D /\ y \in D /\ y \in FanCorners(T, g) /\ FanCorners(T, y) = FanCorners(T, g)
  BY <1>1, <1>2, FanNeighbours
<1>4. /\ Face(l) # Face(NextCorner(g)) /\ Face(r) # Face(PreviousCorner(g))
      /\ T[l] = NextCorner(g) /\ T[r] = PreviousCorner(g)
  BY <1>1, <1>2, <1>3 DEF IsWhole, IsTable, IsPairing
<1>5. /\ Face(NextCorner(g)) = Face(g) /\ Face(PreviousCorner(g)) = Face(g)
      /\ Face(x) = Face(l) /\ Face(y) = Face(r)
      /\ PreviousCorner(x) = l /\ NextCorner(y) = r
      /\ PreviousCorner(NextCorner(g)) = g /\ NextCorner(PreviousCorner(g)) = g
  <2>1. \A c \in D : Face(NextCorner(c)) = Face(c) /\ Face(PreviousCorner(c)) = Face(c)
    BY DEF Corners, Face, NextCorner, PreviousCorner
  <2>2. l \in D /\ r \in D
    BY <1>3
  <2> HIDE DEF D, l, r
  <2>3. Face(x) = Face(l) /\ Face(y) = Face(r)
    BY <2>1, <2>2
  <2>4. PreviousCorner(x) = l /\ NextCorner(y) = r
    BY <2>2, NextAndPrevious DEF D
  <2> QED
    BY <2>1, <2>3, <2>4, NextAndPrevious DEF D
<1> HIDE DEF l, r, x, y
<1>6. x # g /\ y # g
  BY <1>4, <1>5
<1>7. x \in 0 .. m - 1 /\ y \in 0 .. m - 1
  <2>1. x < m /\ y < m /\ x \in Nat /\ y \in Nat
    BY <1>3, <1>6, CornersAreFinite DEF RingDone
  <2> QED
    BY <1>1, <2>1
<1>8. l \in 0 .. m - 1 /\ r \in 0 .. m - 1
  BY <1>1, <1>5, <1>7
<1>9. NextCorner(g) >= m /\ PreviousCorner(g) >= m
  <2>1. /\ NextCorner(g) \in Nat /\ PreviousCorner(g) \in Nat /\ g \in Nat
    BY <1>3, CornersAreFinite
  <2>2. NextCorner(g) \in 0 .. m - 1 => g \in 0 .. m - 1
    BY <1>1, <1>5
  <2>3. PreviousCorner(g) \in 0 .. m - 1 => g \in 0 .. m - 1
    BY <1>1, <1>5
  <2> QED
    BY <1>1, <2>1, <2>2, <2>3
<1>10. RightEnd(o, x)
  <2>1. ~ (T[l] < m)
    BY <1>1, <1>3, <1>4, <1>9, CornersAreFinite
  <2> QED
    BY <1>1, <1>3, <1>5, <2>1 DEF RightEnd
<1>11. PICK e \in FanCorners(o, x) : LeftEnd(o, e)
  BY <1>1, <1>3, <1>10, OpenFanHasLeftmost
<1>12. e \in D /\ cv[e] = cv[x] /\ e \in FanCorners(T, g)
  BY <1>1, <1>3, <1>7, <1>11
<1>13. e < m
  <2> SUFFICES ASSUME e = g PROVE FALSE
    BY <1>12 DEF RingDone
  <2>1. ~ (g < m) /\ \A d \in D : o[d] # NoCorner => d < m /\ o[d] < m
    BY <1>1, <1>3
  <2>2. g \in FanCorners(o, x) /\ FanCorners(o, g) = FanCorners(o, x) /\ x \in FanCorners(o, g)
    BY <1>1, <1>3, <1>11, FanKeepsSwings, FansAreDisjoint
  <2>3. KeepsSwings(o, {g})
    <3>1. o[NextCorner(g)] = NoCorner /\ o[PreviousCorner(g)] = NoCorner
      BY <1>1, <1>3, <1>9, CornersAreFinite
    <3>2. SwingLeft(o, g) = NoCorner /\ SwingRight(o, g) = NoCorner
      BY <1>1, <3>1, FanNeighbours
    <3> QED
      BY <3>2 DEF KeepsSwings, NoCorner
  <2>4. FanCorners(o, g) \subseteq {g}
    BY <1>1, <2>3, FanIsLeast
  <2> QED
    BY <1>6, <2>2, <2>4
<1>14. e = y
  <2>1. /\ NextCorner(e) \in D /\ T[NextCorner(e)] # NoCorner /\ e \in 0 .. m - 1
    BY <1>1, <1>12, <1>13, CornerArithmetic, CornersAreFinite DEF RingDone
  <2>2. NextCorner(e) < m /\ ~ (T[NextCorner(e)] < m)
    BY <1>1, <1>11, <2>1 DEF LeftEnd
  <2> DEFINE s == NextCorner(T[NextCorner(e)])
  <2>3. /\ T[NextCorner(e)] \in D /\ s \in D /\ s \in FanCorners(T, e) /\ SwingLeft(T, e) = s
    BY <1>1, <1>12, <2>1, FanNeighbours
  <2>4. FanCorners(T, e) = FanCorners(T, g)
    BY <1>1, <1>12, FansAreDisjoint
  <2>5. PreviousCorner(s) = T[NextCorner(e)]
    BY <2>3, NextAndPrevious
  <2> HIDE DEF s
  <2>6. ~ (s \in 0 .. m - 1)
    BY <1>1, <2>2, <2>3, <2>5
  <2>7. s = g
    <3>1. s < m \/ s = g
      BY <2>3, <2>4 DEF RingDone
    <3>2. s \in Nat
      BY <2>3, CornersAreFinite
    <3> QED
      BY <1>1, <2>6, <3>1, <3>2
  <2>8. SwingRight(T, g) = e
    <3>1. s >= 0
      BY <2>3, CornersAreFinite
    <3> QED
      BY <1>1, <1>12, <2>3, <2>7, <3>1, SwingsAreInverse
  <2>9. SwingRight(T, g) = y
    BY <1>1, <1>2, FanNeighbours DEF r, y
  <2> QED
    BY <2>8, <2>9
<1>15. vc[cv[e]] = e
  <2>1. e \in 0 .. m - 1
    BY <1>7, <1>14
  <2> QED
    BY <1>11, <2>1 DEF Rebuilt
<1> QED
  BY <1>7, <1>8, <1>12, <1>14, <1>15 DEF l, r, x, y

-----------------------------------------------------------------------------
(* One face more.                                                          *)
NewFaceOf(m) == {m, m + 1, m + 2}
IsOld(c, m) == c \in 0 .. m - 1

NextFaceAt(F, k, m) == k \in 0 .. F - 1 /\ m = 3 * k

(* The corners of the face that is added.                                  *)
LEMMA FaceOfNewCorners ==
  ASSUME NEW F \in Nat, NEW k, NEW m, NextFaceAt(F, k, m)
  PROVE  /\ NextCorner(m) = m + 1 /\ NextCorner(m + 1) = m + 2 /\ NextCorner(m + 2) = m
         /\ PreviousCorner(m) = m + 2 /\ PreviousCorner(m + 1) = m /\ PreviousCorner(m + 2) = m + 1
         /\ m \in Nat /\ NewFaceOf(m) \subseteq Corners(F) /\ m + 3 <= 3 * F
         /\ k + 1 \in 0 .. F /\ m + 3 = 3 * (k + 1)
         /\ \A c \in Corners(F) : Face(c) = k <=> c \in NewFaceOf(m)
         /\ \A c \in Corners(F) : c \in NewFaceOf(m) \/ IsOld(c, m) <=> c < m + 3
         /\ \A c \in NewFaceOf(m) : ~ IsOld(c, m) /\ ~ (c < m) /\ c < m + 3 /\ c \in 0 .. m + 2
         /\ \A c \in 0 .. m + 2 : c \in NewFaceOf(m) \/ IsOld(c, m)
         /\ 0 .. m - 1 \subseteq 0 .. m + 2 /\ 0 .. m + 2 \subseteq Corners(F)
<1> USE DEF NextFaceAt
<1>1. k \in Nat
  OBVIOUS
<1>2. /\ NextCorner(m) = m + 1 /\ NextCorner(m + 1) = m + 2 /\ NextCorner(m + 2) = m
      /\ PreviousCorner(m) = m + 2 /\ PreviousCorner(m + 1) = m /\ PreviousCorner(m + 2) = m + 1
  BY <1>1, NewFaceCorners
<1> QED
  BY <1>1, <1>2 DEF NewFaceOf, IsOld, Corners, Face

(* What one face more adds to the part of the table cut off.               *)
LEMMA CutGrows ==
  ASSUME NEW F \in Nat, NEW T, IsWhole(T, F), NEW k, NEW m, NextFaceAt(F, k, m),
         NEW o, o = Cut(T, m), NEW q, q = Cut(T, m + 3)
  PROVE  /\ IsTable(o, Corners(F)) /\ IsTable(q, Corners(F)) /\ IsTable(T, Corners(F))
         /\ \A c \in Corners(F) : o[c] # NoCorner => q[c] = o[c]
         /\ \A j \in NewFaceOf(m) :
              /\ q[j] = IF IsOld(T[j], m) THEN T[j] ELSE NoCorner
              /\ o[j] = NoCorner
              /\ IsOld(T[j], m) => /\ q[T[j]] = j /\ o[T[j]] = NoCorner /\ T[j] \in Corners(F)
                                   /\ T[T[j]] = j /\ T[j] # j
         /\ \A c \in 0 .. m - 1 :
              q[c] # o[c] => \E j \in NewFaceOf(m) : T[j] = c /\ IsOld(T[j], m) /\ q[c] = j
         /\ \A c \in Corners(F) \ (0 .. m + 2) : q[c] = NoCorner /\ o[c] = NoCorner
<1> DEFINE D == Corners(F)
<1>1. m \in Nat /\ m + 3 \in Nat /\ NewFaceOf(m) \subseteq D /\ 0 .. m + 2 \subseteq D
  BY FaceOfNewCorners
<1>2. IsTable(T, D) /\ T \in [D -> D \cup {NoCorner}] /\ IsPairing(T)
  BY DEF IsWhole, IsTable
<1>3. /\ IsTable(o, D) /\ IsTable(q, D)
      /\ \A c \in D :
           /\ o[c] = IF c < m /\ T[c] < m THEN T[c] ELSE NoCorner
           /\ q[c] = IF c < m + 3 /\ T[c] < m + 3 THEN T[c] ELSE NoCorner
  BY <1>1, <1>2, CutIsTable
<1>4. \A c \in D : /\ c \in Nat /\ T[c] \in Int /\ (T[c] = NoCorner \/ T[c] \in D) /\ NoCorner = -1
                   /\ T[c] # NoCorner => T[c] \in Nat /\ T[T[c]] = c /\ T[c] # c
  <2> TAKE c \in D
  <2>1. \A d \in D : d \in Nat
    BY CornersAreFinite
  <2>2. T[c] = NoCorner \/ T[c] \in D
    BY <1>2
  <2>3. T[c] # NoCorner => T[T[c]] = c /\ T[c] # c
    BY <1>2 DEF IsPairing
  <2> HIDE DEF D
  <2> QED
    BY <2>1, <2>2, <2>3 DEF NoCorner
<1>5. \A c \in D : o[c] # NoCorner => q[c] = o[c]
  <2> TAKE c \in D
  <2> HIDE DEF D
  <2> QED
    BY <1>1, <1>3, <1>4
<1>6. ASSUME NEW j \in NewFaceOf(m)
      PROVE  /\ q[j] = IF IsOld(T[j], m) THEN T[j] ELSE NoCorner
             /\ o[j] = NoCorner
             /\ IsOld(T[j], m) => /\ q[T[j]] = j /\ o[T[j]] = NoCorner /\ T[j] \in D
                                  /\ T[T[j]] = j /\ T[j] # j
  <2>1. j \in D /\ ~ (j < m) /\ j < m + 3 /\ j \in Nat
    BY <1>1, FaceOfNewCorners, CornersAreFinite
  <2>2. o[j] = NoCorner
    BY <1>3, <2>1
  <2>3. T[j] # NoCorner /\ T[j] < m + 3 => IsOld(T[j], m)
    <3> SUFFICES ASSUME T[j] # NoCorner, T[j] < m + 3 PROVE IsOld(T[j], m)
      OBVIOUS
    <3>1. Face(T[j]) # Face(j) /\ T[j] \in D /\ Face(j) = k
      BY <1>4, <2>1, FaceOfNewCorners DEF IsWhole
    <3> QED
      BY <3>1, FaceOfNewCorners
  <2>4. IsOld(T[j], m) => T[j] # NoCorner /\ T[j] < m /\ T[j] < m + 3
    BY <1>1, <1>4, <2>1 DEF IsOld
  <2>5. q[j] = IF IsOld(T[j], m) THEN T[j] ELSE NoCorner
    BY <1>3, <1>4, <2>1, <2>3, <2>4
  <2>6. ASSUME IsOld(T[j], m)
        PROVE  /\ q[T[j]] = j /\ o[T[j]] = NoCorner /\ T[j] \in D
               /\ T[T[j]] = j /\ T[j] # j
    <3>1. T[j] # NoCorner /\ T[j] < m + 3 /\ T[j] \in D /\ T[T[j]] = j /\ T[j] # j
      BY <1>4, <2>1, <2>4, <2>6
    <3> QED
      BY <1>3, <2>1, <3>1
  <2> QED
    BY <2>2, <2>5, <2>6
<1>7. ASSUME NEW c \in 0 .. m - 1, q[c] # o[c]
      PROVE  \E j \in NewFaceOf(m) : T[j] = c /\ IsOld(T[j], m) /\ q[c] = j
  <2>1. c \in D /\ c \in Nat /\ c < m
    BY <1>1, FaceOfNewCorners
  <2>2. q[c] = T[c] /\ ~ (T[c] < m) /\ T[c] < m + 3 /\ T[c] \in D /\ T[T[c]] = c
    BY <1>1, <1>3, <1>4, <1>7, <2>1
  <2>3. T[c] \in NewFaceOf(m)
    <3>1. T[c] \in NewFaceOf(m) \/ IsOld(T[c], m)
      BY <2>2, FaceOfNewCorners
    <3> QED
      BY <1>1, <2>2, <3>1 DEF IsOld
  <2> QED
    BY <2>2, <2>3 DEF IsOld
<1>8. \A c \in D \ (0 .. m + 2) : q[c] = NoCorner /\ o[c] = NoCorner
  <2> TAKE c \in D \ (0 .. m + 2)
  <2>1. c \in D /\ c \in Nat /\ ~ (c < m + 3) /\ ~ (c < m)
    BY <1>1, CornersAreFinite
  <2> QED
    BY <1>3, <2>1
<1> QED
  BY <1>2, <1>3, <1>5, <1>6, <1>7, <1>8

(* The glues of one face make the next cut, in whatever order they are     *)
(* made.                                                                   *)
LEMMA CutIsGlued ==
  ASSUME NEW F \in Nat, NEW T, IsWhole(T, F), NEW k, NEW m, NextFaceAt(F, k, m),
         NEW o, o = Cut(T, m), NEW q, q = Cut(T, m + 3)
  PROVE  /\ (\A j \in NewFaceOf(m) : ~ IsOld(T[j], m)) => q = o
         /\ \A a \in NewFaceOf(m) :
              IsOld(T[a], m) /\ (\A j \in NewFaceOf(m) \ {a} : ~ IsOld(T[j], m)) => q = Glue(o, a, T[a])
         /\ \A a, b \in NewFaceOf(m) :
              a # b /\ IsOld(T[a], m) /\ IsOld(T[b], m) /\ (\A j \in NewFaceOf(m) \ {a, b} : ~ IsOld(T[j], m))
                => q = Glue(Glue(o, T[a], a), T[b], b)
         /\ (\A j \in NewFaceOf(m) : IsOld(T[j], m)) =>
              q = Glue(Glue(Glue(o, m, T[m]), m + 1, T[m + 1]), m + 2, T[m + 2])
<1> DEFINE D == Corners(F)
<1>1. /\ IsTable(o, D) /\ IsTable(q, D)
      /\ \A j \in NewFaceOf(m) :
              /\ q[j] = IF IsOld(T[j], m) THEN T[j] ELSE NoCorner
              /\ o[j] = NoCorner
              /\ IsOld(T[j], m) => /\ q[T[j]] = j /\ o[T[j]] = NoCorner /\ T[j] \in D
                                   /\ T[T[j]] = j /\ T[j] # j
      /\ \A c \in 0 .. m - 1 :
              q[c] # o[c] => \E j \in NewFaceOf(m) : T[j] = c /\ IsOld(T[j], m) /\ q[c] = j
      /\ \A c \in D \ (0 .. m + 2) : q[c] = NoCorner /\ o[c] = NoCorner
  BY CutGrows
<1>2. o \in [D -> D \cup {NoCorner}] /\ q \in [D -> D \cup {NoCorner}]
  BY <1>1 DEF IsTable
<1>3. /\ NewFaceOf(m) \subseteq D /\ \A j \in NewFaceOf(m) : ~ IsOld(j, m)
      /\ \A c \in D : c \in NewFaceOf(m) \/ c \in 0 .. m - 1 \/ c \in D \ (0 .. m + 2)
  <2>1. /\ NewFaceOf(m) \subseteq D /\ \A j \in NewFaceOf(m) : ~ IsOld(j, m)
        /\ \A c \in 0 .. m + 2 : c \in NewFaceOf(m) \/ IsOld(c, m)
    BY FaceOfNewCorners
  <2> QED
    BY <2>1 DEF IsOld
<1> HIDE DEF D
<1>4. \A x, c, d : x \in [D -> D \cup {NoCorner}] /\ c \in D /\ d \in D =>
        /\ Glue(x, c, d) \in [D -> D \cup {NoCorner}]
        /\ \A e \in D : Glue(x, c, d)[e] = IF e = d THEN c ELSE IF e = c THEN d ELSE x[e]
  BY DEF Glue
<1>5. \A x \in [D -> D \cup {NoCorner}] :
        (\A c \in NewFaceOf(m) \cup 0 .. m - 1 \cup (D \ (0 .. m + 2)) : c \in D => q[c] = x[c]) => q = x
  BY <1>2, <1>3
<1>6. \A c \in D \ (0 .. m + 2) : c \notin NewFaceOf(m) /\ ~ IsOld(c, m)
  <2>1. \A c \in NewFaceOf(m) : c \in 0 .. m + 2
    BY FaceOfNewCorners
  <2>2. 0 .. m - 1 \subseteq 0 .. m + 2
    BY FaceOfNewCorners
  <2> QED
    BY <2>1, <2>2 DEF IsOld
<1>7. ASSUME \A j \in NewFaceOf(m) : ~ IsOld(T[j], m)
      PROVE  q = o
  BY <1>1, <1>2, <1>5, <1>7
<1>8. ASSUME NEW a \in NewFaceOf(m), IsOld(T[a], m), \A j \in NewFaceOf(m) \ {a} : ~ IsOld(T[j], m)
      PROVE  q = Glue(o, a, T[a])
  <2> DEFINE x == Glue(o, a, T[a])
  <2>1. a \in D /\ T[a] \in D /\ a # T[a]
    BY <1>1, <1>3, <1>8
  <2>2. /\ x \in [D -> D \cup {NoCorner}]
        /\ \A e \in D : x[e] = IF e = T[a] THEN a ELSE IF e = a THEN T[a] ELSE o[e]
    BY <1>2, <1>4, <2>1
  <2> HIDE DEF x
  <2>3. \A c \in NewFaceOf(m) : q[c] = x[c]
    BY <1>1, <1>3, <1>8, <2>1, <2>2
  <2>4. \A c \in 0 .. m - 1 : c \in D => q[c] = x[c]
    <3> TAKE c \in 0 .. m - 1
    <3>1. c # a
      BY <1>3, <1>8 DEF IsOld
    <3> QED
      BY <1>1, <1>8, <2>1, <2>2, <3>1
  <2>5. \A c \in D \ (0 .. m + 2) : q[c] = x[c]
    BY <1>1, <1>6, <1>8, <2>2
  <2> QED
    BY <1>5, <2>2, <2>3, <2>4, <2>5 DEF x
<1>9. ASSUME NEW a \in NewFaceOf(m), NEW b \in NewFaceOf(m), a # b, IsOld(T[a], m), IsOld(T[b], m),
             \A j \in NewFaceOf(m) \ {a, b} : ~ IsOld(T[j], m)
      PROVE  q = Glue(Glue(o, T[a], a), T[b], b)
  <2> DEFINE y == Glue(o, T[a], a)
             x == Glue(y, T[b], b)
  <2>1. a \in D /\ T[a] \in D /\ a # T[a] /\ b \in D /\ T[b] \in D /\ b # T[b]
        /\ T[a] # T[b] /\ T[a] # b /\ T[b] # a
    BY <1>1, <1>3, <1>9
  <2>2. /\ y \in [D -> D \cup {NoCorner}]
        /\ \A e \in D : y[e] = IF e = a THEN T[a] ELSE IF e = T[a] THEN a ELSE o[e]
    BY <1>2, <1>4, <2>1
  <2> HIDE DEF y
  <2>3. /\ x \in [D -> D \cup {NoCorner}]
        /\ \A e \in D : x[e] = IF e = b THEN T[b] ELSE IF e = T[b] THEN b ELSE y[e]
    BY <1>4, <2>1, <2>2
  <2> HIDE DEF x
  <2>4. \A c \in NewFaceOf(m) : q[c] = x[c]
    BY <1>1, <1>3, <1>9, <2>1, <2>2, <2>3
  <2>5. \A c \in 0 .. m - 1 : c \in D => q[c] = x[c]
    <3> TAKE c \in 0 .. m - 1
    <3>1. c # a /\ c # b
      BY <1>3, <1>9 DEF IsOld
    <3> QED
      BY <1>1, <1>9, <2>1, <2>2, <2>3, <3>1
  <2>6. \A c \in D \ (0 .. m + 2) : q[c] = x[c]
    BY <1>1, <1>6, <1>9, <2>2, <2>3
  <2> QED
    BY <1>5, <2>3, <2>4, <2>5, <2>6 DEF x, y
<1>10. ASSUME \A j \in NewFaceOf(m) : IsOld(T[j], m)
       PROVE  q = Glue(Glue(Glue(o, m, T[m]), m + 1, T[m + 1]), m + 2, T[m + 2])
  <2> DEFINE a == m
             b == m + 1
             d == m + 2
             z == Glue(o, a, T[a])
             y == Glue(z, b, T[b])
             x == Glue(y, d, T[d])
  <2>0. NewFaceOf(m) = {a, b, d} /\ a # b /\ a # d /\ b # d
    <3>1. m \in Nat
      BY FaceOfNewCorners
    <3> QED
      BY <3>1 DEF NewFaceOf
  <2> HIDE DEF a, b, d
  <2>1. /\ a \in D /\ T[a] \in D /\ b \in D /\ T[b] \in D /\ d \in D /\ T[d] \in D
        /\ T[a] # T[b] /\ T[a] # T[d] /\ T[b] # T[d]
        /\ T[a] \notin {a, b, d} /\ T[b] \notin {a, b, d} /\ T[d] \notin {a, b, d}
    BY <1>1, <1>3, <1>10, <2>0
  <2>2. /\ z \in [D -> D \cup {NoCorner}]
        /\ \A e \in D : z[e] = IF e = T[a] THEN a ELSE IF e = a THEN T[a] ELSE o[e]
    BY <1>2, <1>4, <2>1
  <2> HIDE DEF z
  <2>3. /\ y \in [D -> D \cup {NoCorner}]
        /\ \A e \in D : y[e] = IF e = T[b] THEN b ELSE IF e = b THEN T[b] ELSE z[e]
    BY <1>4, <2>1, <2>2
  <2> HIDE DEF y
  <2>4. /\ x \in [D -> D \cup {NoCorner}]
        /\ \A e \in D : x[e] = IF e = T[d] THEN d ELSE IF e = d THEN T[d] ELSE y[e]
    BY <1>4, <2>1, <2>3
  <2> HIDE DEF x
  <2>5. \A c \in NewFaceOf(m) : q[c] = x[c]
    BY <1>1, <1>10, <2>0, <2>1, <2>2, <2>3, <2>4
  <2>6. \A c \in 0 .. m - 1 : c \in D => q[c] = x[c]
    <3> TAKE c \in 0 .. m - 1
    <3>1. c \notin {a, b, d}
      BY <1>3, <2>0 DEF IsOld
    <3>2. c \in D /\ q[c] # o[c] => c \in {T[a], T[b], T[d]}
      BY <1>1, <2>0
    <3> QED
      BY <1>1, <1>10, <2>0, <2>1, <2>2, <2>3, <2>4, <3>1, <3>2
  <2>7. \A c \in D \ (0 .. m + 2) : q[c] = x[c]
    BY <1>1, <1>6, <1>10, <2>0, <2>2, <2>3, <2>4
  <2> QED
    BY <1>5, <2>4, <2>5, <2>6, <2>7 DEF x, y, z, a, b, d
<1> QED
  BY <1>7, <1>8, <1>9, <1>10

(* What an added face must bring along for the vertices to stay the fans.  *)
LEMMA FaceIsRebuilt ==
  ASSUME NEW F \in Nat, NEW T, IsWhole(T, F), NEW k, NEW m, NextFaceAt(F, k, m),
         NEW o, NEW cv, NEW vc, NEW hole, NEW n, Rebuilt(T, F, m, o, cv, vc, hole, n),
         NEW q, q = Cut(T, m + 3), NEW cv2, NEW vc2, NEW hole2, NEW n2 \in Nat,
         \A c \in 0 .. m + 2 : cv2[c] \in 0 .. n2 - 1 /\ cv2[c] \in DOMAIN vc2,
         \A c \in Corners(F) \ (0 .. m + 2) : cv2[c] = -1,
         \A j \in NewFaceOf(m) :
            /\ IsOld(T[NextCorner(j)], m) => cv2[j] = cv2[NextCorner(T[NextCorner(j)])]
            /\ IsOld(T[PreviousCorner(j)], m) => cv2[j] = cv2[PreviousCorner(T[PreviousCorner(j)])]
            /\ ~ IsOld(T[NextCorner(j)], m) /\ ~ IsOld(T[PreviousCorner(j)], m) =>
                 \A d \in 0 .. m + 2 : cv2[d] = cv2[j] => d = j,
         \A c, d \in 0 .. m - 1 : cv[c] = cv[d] => cv2[c] = cv2[d],
         \A c, d \in 0 .. m - 1 : cv2[c] = cv2[d] => cv[c] = cv[d] \/ d \in FanCorners(q, c),
         \A v \in DOMAIN vc2 : vc2[v] # NoCorner => vc2[v] \in 0 .. m + 2 /\ cv2[vc2[v]] = v,
         \A c \in 0 .. m + 2 : vc2[cv2[c]] \in 0 .. m + 2,
         \A c \in 0 .. m + 2 : LeftEnd(q, c) => vc2[cv2[c]] = c,
         \A c \in 0 .. m + 2 : hole2[cv2[c]] <=> LeftEnd(q, vc2[cv2[c]]),
         \A v \in DOMAIN hole2 : v \notin 0 .. n2 - 1 => hole2[v]
  PROVE  Rebuilt(T, F, m + 3, q, cv2, vc2, hole2, n2)
<1> DEFINE D == Corners(F)
           N == NewFaceOf(m)
<1>1. /\ m \in Nat /\ N \subseteq D /\ m + 3 <= 3 * F
      /\ k + 1 \in 0 .. F /\ m + 3 = 3 * (k + 1)
      /\ \A c \in N : ~ IsOld(c, m) /\ c \in 0 .. m + 2
      /\ \A c \in 0 .. m + 2 : c \in N \/ IsOld(c, m)
      /\ 0 .. m - 1 \subseteq 0 .. m + 2 /\ 0 .. m + 2 \subseteq D
      /\ NextCorner(m) = m + 1 /\ NextCorner(m + 1) = m + 2 /\ NextCorner(m + 2) = m
      /\ PreviousCorner(m) = m + 2 /\ PreviousCorner(m + 1) = m /\ PreviousCorner(m + 2) = m + 1
  BY FaceOfNewCorners
<1>2. 0 .. (m + 3) - 1 = 0 .. m + 2
  BY <1>1
<1>3. o = Cut(T, m)
  BY DEF Rebuilt
<1>4. /\ IsTable(o, D) /\ IsTable(q, D) /\ IsTable(T, D)
      /\ \A c \in D : o[c] # NoCorner => q[c] = o[c]
      /\ \A j \in N :
           /\ q[j] = IF IsOld(T[j], m) THEN T[j] ELSE NoCorner
           /\ o[j] = NoCorner
           /\ IsOld(T[j], m) => /\ q[T[j]] = j /\ o[T[j]] = NoCorner /\ T[j] \in D
                                /\ T[T[j]] = j /\ T[j] # j
      /\ \A c \in 0 .. m - 1 :
           q[c] # o[c] => \E j \in N : T[j] = c /\ IsOld(T[j], m) /\ q[c] = j
      /\ \A c \in D \ (0 .. m + 2) : q[c] = NoCorner /\ o[c] = NoCorner
  BY <1>3, CutGrows
<1>5. /\ \A c \in 0 .. m - 1 : NextCorner(c) \in 0 .. m - 1 /\ PreviousCorner(c) \in 0 .. m - 1
      /\ \A c \in D : o[c] # NoCorner => o[c] = T[c] /\ T[c] \in D /\ c < m /\ T[c] < m
      /\ \A c, d \in 0 .. m - 1 : cv[c] = cv[d] => d \in FanCorners(o, c)
  BY RebuiltTable
<1>6. \A j \in N : NextCorner(j) \in N /\ PreviousCorner(j) \in N
                   /\ NextCorner(PreviousCorner(j)) = j /\ PreviousCorner(NextCorner(j)) = j
  BY <1>1 DEF NewFaceOf
<1>7. \A c \in D : FanCorners(o, c) \subseteq FanCorners(q, c)
  BY <1>4, FansGrow
<1> HIDE DEF D, N
<1>8. SharesItsEdges(q, cv2, F, m + 3)
  <2> SUFFICES ASSUME NEW c \in D, q[c] # NoCorner
               PROVE  c < m + 3 /\ FacesSameEdge(cv2, c, q[c])
    BY DEF SharesItsEdges, D
  <2>1. c \in 0 .. m + 2 /\ c < m + 3
    <3>1. c \in 0 .. m + 2
      BY <1>4
    <3> QED
      BY <1>1, <3>1
  <2>2. ASSUME NEW j \in N, IsOld(T[j], m)
        PROVE  FacesSameEdge(cv2, j, T[j]) /\ FacesSameEdge(cv2, T[j], j)
    <3>1. /\ cv2[NextCorner(j)] = cv2[PreviousCorner(T[j])]
          /\ cv2[PreviousCorner(j)] = cv2[NextCorner(T[j])]
      BY <1>6, <2>2 DEF N
    <3> QED
      BY <3>1 DEF FacesSameEdge
  <2>3. CASE c \in N
    BY <1>4, <2>1, <2>2, <2>3
  <2>4. CASE IsOld(c, m) /\ q[c] # o[c]
    <3>1. PICK j \in N : T[j] = c /\ IsOld(T[j], m) /\ q[c] = j
      BY <1>4, <2>4 DEF IsOld
    <3> QED
      BY <2>1, <2>2, <3>1
  <2>5. CASE IsOld(c, m) /\ q[c] = o[c]
    <3>1. o[c] # NoCorner /\ FacesSameEdge(cv, c, o[c]) /\ c \in 0 .. m - 1
      BY <2>5 DEF Rebuilt, SharesItsEdges, D, IsOld
    <3>2. o[c] \in 0 .. m - 1
      <4>1. o[c] \in D /\ o[c] < m
        BY <1>5, <3>1
      <4> QED
        BY <1>1, <4>1, CornersAreFinite DEF D
    <3>3. /\ NextCorner(c) \in 0 .. m - 1 /\ PreviousCorner(c) \in 0 .. m - 1
          /\ NextCorner(o[c]) \in 0 .. m - 1 /\ PreviousCorner(o[c]) \in 0 .. m - 1
      BY <1>5, <3>1, <3>2
    <3> QED
      BY <2>1, <2>5, <3>1, <3>3 DEF FacesSameEdge
  <2> QED
    BY <1>1, <2>1, <2>3, <2>4, <2>5
<1>9. \A c, d \in 0 .. m - 1 : cv2[c] = cv2[d] => d \in FanCorners(q, c)
  <2> TAKE c, d \in 0 .. m - 1
  <2>1. c \in D
    BY <1>1
  <2> QED
    BY <1>5, <1>7, <2>1
<1>10. ASSUME NEW j \in N, IsOld(T[NextCorner(j)], m) \/ IsOld(T[PreviousCorner(j)], m)
       PROVE  \E g \in 0 .. m - 1 : /\ cv2[g] = cv2[j] /\ j \in FanCorners(q, g) /\ g \in FanCorners(q, j)
                                    /\ FanCorners(q, g) = FanCorners(q, j)
  <2>0. j \in D /\ NextCorner(j) \in N /\ PreviousCorner(j) \in N
    BY <1>1, <1>6
  <2>1. CASE IsOld(T[NextCorner(j)], m)
    <3> DEFINE g == NextCorner(T[NextCorner(j)])
    <3>1. g \in 0 .. m - 1 /\ cv2[g] = cv2[j]
      BY <1>5, <2>1 DEF IsOld, N
    <3>2. q[NextCorner(j)] = T[NextCorner(j)] /\ q[NextCorner(j)] # NoCorner
      <4>1. T[NextCorner(j)] \in D
        BY <1>4, <2>0, <2>1
      <4> QED
        BY <1>4, <2>0, <2>1, <4>1, CornersAreFinite DEF D, NoCorner
    <3>3. /\ g \in FanCorners(q, j) /\ FanCorners(q, g) = FanCorners(q, j) /\ j \in FanCorners(q, g)
      BY <1>4, <2>0, <3>2, FanNeighbours DEF D
    <3> QED
      BY <3>1, <3>3
  <2>2. CASE IsOld(T[PreviousCorner(j)], m)
    <3> DEFINE g == PreviousCorner(T[PreviousCorner(j)])
    <3>1. g \in 0 .. m - 1 /\ cv2[g] = cv2[j]
      BY <1>5, <2>2 DEF IsOld, N
    <3>2. q[PreviousCorner(j)] = T[PreviousCorner(j)] /\ q[PreviousCorner(j)] # NoCorner
      <4>1. T[PreviousCorner(j)] \in D
        BY <1>4, <2>0, <2>2
      <4> QED
        BY <1>4, <2>0, <2>2, <4>1, CornersAreFinite DEF D, NoCorner
    <3>3. /\ g \in FanCorners(q, j) /\ FanCorners(q, g) = FanCorners(q, j) /\ j \in FanCorners(q, g)
      BY <1>4, <2>0, <3>2, FanNeighbours DEF D
    <3> QED
      BY <3>1, <3>3
  <2> QED
    BY <1>10, <2>1, <2>2
<1>11. ASSUME NEW c \in 0 .. m + 2, NEW d \in 0 .. m + 2, cv2[c] = cv2[d]
       PROVE  d \in FanCorners(q, c)
  <2>0. c \in D /\ d \in D /\ c \in FanCorners(q, c) /\ d \in FanCorners(q, d)
    BY <1>1, <1>4, FanKeepsSwings DEF D
  <2>1. ASSUME NEW e \in 0 .. m + 2, e \in {c, d}, c # d
        PROVE  \E g \in 0 .. m - 1 : /\ cv2[g] = cv2[e] /\ FanCorners(q, g) = FanCorners(q, e)
                                     /\ g \in FanCorners(q, e)
    <3>1. CASE IsOld(e, m)
      BY <2>0, <2>1, <3>1 DEF IsOld
    <3>2. CASE e \in N
      <4>1. IsOld(T[NextCorner(e)], m) \/ IsOld(T[PreviousCorner(e)], m)
        BY <1>11, <2>1, <3>2 DEF N
      <4> QED
        BY <1>10, <3>2, <4>1
    <3> QED
      BY <1>1, <3>1, <3>2
  <2>2. CASE c = d
    BY <2>0, <2>2
  <2>3. CASE c # d
    <3>1. PICK g \in 0 .. m - 1 : cv2[g] = cv2[c] /\ FanCorners(q, g) = FanCorners(q, c)
      BY <2>1, <2>3
    <3>2. PICK h \in 0 .. m - 1 : cv2[h] = cv2[d] /\ FanCorners(q, h) = FanCorners(q, d)
      BY <2>1, <2>3
    <3>3. h \in FanCorners(q, g) /\ g \in D
      BY <1>1, <1>9, <1>11, <3>1, <3>2
    <3>4. FanCorners(q, h) = FanCorners(q, g)
      BY <1>4, <3>3, FansAreDisjoint DEF D
    <3> QED
      BY <2>0, <3>1, <3>2, <3>4
  <2> QED
    BY <2>2, <2>3
<1>12. \A c \in 0 .. m + 2 : vc2[cv2[c]] \in 0 .. m + 2 /\ cv2[vc2[cv2[c]]] = cv2[c]
  <2> TAKE c \in 0 .. m + 2
  <2>1. vc2[cv2[c]] \in 0 .. m + 2 /\ cv2[c] \in DOMAIN vc2
    OBVIOUS
  <2>2. vc2[cv2[c]] # NoCorner
    BY <1>1, <2>1 DEF NoCorner
  <2> QED
    BY <2>1, <2>2
<1> QED
  BY <1>1, <1>2, <1>8, <1>11, <1>12 DEF Rebuilt, D

(* The leftmost and rightmost corners after it.                            *)
LEMMA LeftEndsAfter ==
  ASSUME NEW F \in Nat, NEW T, IsWhole(T, F), NEW k, NEW m, NextFaceAt(F, k, m),
         NEW o, o = Cut(T, m), NEW q, q = Cut(T, m + 3)
  PROVE  /\ \A j \in NewFaceOf(m) : LeftEnd(q, j) <=> ~ IsOld(T[NextCorner(j)], m)
         /\ \A c \in 0 .. m - 1 :
              /\ LeftEnd(q, c) => LeftEnd(o, c)
              /\ LeftEnd(o, c) /\ ~ LeftEnd(q, c) =>
                   \E j \in NewFaceOf(m) : IsOld(T[j], m) /\ c = PreviousCorner(T[j])
         /\ \A j \in NewFaceOf(m) : IsOld(T[j], m) =>
              LET x == PreviousCorner(T[j])
              IN  x \in 0 .. m - 1 /\ NextCorner(x) = T[j] /\ LeftEnd(o, x) /\ ~ LeftEnd(q, x)
         /\ \A j \in NewFaceOf(m) : IsOld(T[j], m) =>
              LET x == NextCorner(T[j])
              IN  x \in 0 .. m - 1 /\ PreviousCorner(x) = T[j] /\ RightEnd(o, x)
<1> DEFINE D == Corners(F)
           N == NewFaceOf(m)
<1>1. /\ m \in Nat /\ N \subseteq D
      /\ \A c \in N : ~ IsOld(c, m) /\ c \in 0 .. m + 2
      /\ 0 .. m - 1 \subseteq 0 .. m + 2 /\ 0 .. m + 2 \subseteq D
      /\ NextCorner(m) = m + 1 /\ NextCorner(m + 1) = m + 2 /\ NextCorner(m + 2) = m
      /\ PreviousCorner(m) = m + 2 /\ PreviousCorner(m + 1) = m /\ PreviousCorner(m + 2) = m + 1
  BY FaceOfNewCorners
<1>2. /\ \A c \in D : o[c] # NoCorner => q[c] = o[c]
      /\ \A j \in N :
           /\ q[j] = IF IsOld(T[j], m) THEN T[j] ELSE NoCorner
           /\ IsOld(T[j], m) => q[T[j]] = j /\ o[T[j]] = NoCorner /\ T[j] \in D
      /\ \A c \in 0 .. m - 1 :
           q[c] # o[c] => \E j \in N : T[j] = c /\ IsOld(T[j], m) /\ q[c] = j
  BY CutGrows
<1>3. \A c \in 0 .. m - 1 :
        /\ NextCorner(c) \in 0 .. m - 1 /\ PreviousCorner(c) \in 0 .. m - 1
        /\ NextCorner(PreviousCorner(c)) = c /\ PreviousCorner(NextCorner(c)) = c
  <2> TAKE c \in 0 .. m - 1
  <2>1. k \in Nat /\ c \in Corners(k) /\ Corners(k) = 0 .. m - 1
    BY DEF NextFaceAt, Corners
  <2> QED
    BY <2>1, CornerArithmetic, NextAndPrevious
<1>4. \A j \in N : NextCorner(j) \in N /\ j # NoCorner
  BY <1>1 DEF NewFaceOf, NoCorner
<1>5. \A c : IsOld(c, m) => c # NoCorner
  BY <1>1 DEF IsOld, NoCorner
<1> HIDE DEF D, N
<1>6. \A j \in N : LeftEnd(q, j) <=> ~ IsOld(T[NextCorner(j)], m)
  BY <1>2, <1>4, <1>5 DEF LeftEnd
<1>7. \A c \in 0 .. m - 1 :
        /\ LeftEnd(q, c) => LeftEnd(o, c)
        /\ LeftEnd(o, c) /\ ~ LeftEnd(q, c) =>
             \E j \in N : IsOld(T[j], m) /\ c = PreviousCorner(T[j])
  <2> TAKE c \in 0 .. m - 1
  <2>1. NextCorner(c) \in 0 .. m - 1 /\ NextCorner(c) \in D /\ PreviousCorner(NextCorner(c)) = c
    BY <1>1, <1>3
  <2> QED
    BY <1>2, <2>1 DEF LeftEnd
<1>8. ASSUME NEW j \in N, IsOld(T[j], m)
      PROVE  /\ PreviousCorner(T[j]) \in 0 .. m - 1 /\ NextCorner(PreviousCorner(T[j])) = T[j]
             /\ LeftEnd(o, PreviousCorner(T[j])) /\ ~ LeftEnd(q, PreviousCorner(T[j]))
             /\ NextCorner(T[j]) \in 0 .. m - 1 /\ PreviousCorner(NextCorner(T[j])) = T[j]
             /\ RightEnd(o, NextCorner(T[j]))
  <2> DEFINE a == T[j]
  <2>1. a \in 0 .. m - 1 /\ q[a] = j /\ o[a] = NoCorner /\ j # NoCorner
    BY <1>2, <1>4, <1>8 DEF IsOld
  <2> HIDE DEF a
  <2>2. /\ NextCorner(a) \in 0 .. m - 1 /\ PreviousCorner(a) \in 0 .. m - 1
        /\ NextCorner(PreviousCorner(a)) = a /\ PreviousCorner(NextCorner(a)) = a
    BY <1>3, <2>1
  <2> QED
    BY <2>1, <2>2 DEF LeftEnd, RightEnd, a
<1> QED
  BY <1>6, <1>7, <1>8 DEF N

(* The vertices of an old face are three.                                  *)
LEMMA OldFaceVertices ==
  ASSUME NEW F \in Nat, NEW T, IsWhole(T, F), NEW m,
         NEW o, NEW cv, NEW vc, NEW hole, NEW n, Rebuilt(T, F, m, o, cv, vc, hole, n),
         NEW c \in 0 .. m - 1
  PROVE  /\ cv[c] # cv[NextCorner(c)] /\ cv[c] # cv[PreviousCorner(c)]
         /\ cv[NextCorner(c)] # cv[PreviousCorner(c)]
<1>1. /\ \A d \in 0 .. m - 1 : NextCorner(d) \in 0 .. m - 1 /\ PreviousCorner(d) \in 0 .. m - 1 /\ d \in Corners(F)
      /\ \A d, e \in 0 .. m - 1 : cv[d] = cv[e] => e \in FanCorners(T, d)
  BY RebuiltTable
<1>2. \A d \in 0 .. m - 1 : cv[d] # cv[NextCorner(d)] /\ cv[d] # cv[PreviousCorner(d)]
  BY <1>1, FansOfOneFace
<1>3. NextCorner(NextCorner(c)) = PreviousCorner(c)
  BY <1>1, NextAndPrevious
<1> QED
  BY <1>1, <1>2, <1>3

(* C closes the ring around its tip between two parts of the boundary of   *)
(* one vertex.                                                             *)
LEMMA StepC ==
  ASSUME NEW F \in Nat, NEW T, IsWhole(T, F), NEW k, NEW m, NextFaceAt(F, k, m),
         NEW o, NEW cv, NEW vc, NEW hole, NEW n, Rebuilt(T, F, m, o, cv, vc, hole, n),
         0 .. n - 1 \subseteq DOMAIN vc, 0 .. n - 1 \subseteq DOMAIN hole,
         ~ IsOld(T[m], m), IsOld(T[m + 1], m), IsOld(T[m + 2], m), RingDone(T, m, m),
         NEW a, a = T[m + 1], NEW b, b = T[m + 2],
         NEW x, x = cv[NextCorner(a)], NEW va, va = cv[PreviousCorner(a)],
         NEW vb, vb = cv[NextCorner(b)]
  PROVE  /\ NextCorner(vc[x]) = b /\ x # va /\ x # vb
         /\ \A cv2, vc2, hole2 :
              /\ \A c \in 0 .. m - 1 : cv2[c] = cv[c]
              /\ cv2[m] = x /\ cv2[m + 1] = vb /\ cv2[m + 2] = va
              /\ \A c \in Corners(F) \ (0 .. m + 2) : cv2[c] = -1
              /\ vc2 = SetLeftMost(vc, va, m + 2)
              /\ hole2 = [v \in DOMAIN hole |-> hole[v] /\ v # x]
              => Rebuilt(T, F, m + 3, Cut(T, m + 3), cv2, vc2, hole2, n)
<1> DEFINE D == Corners(F)
           N == NewFaceOf(m)
           q == Cut(T, m + 3)
<1>1. /\ m \in Nat /\ N = {m, m + 1, m + 2} /\ N \subseteq D
      /\ \A c \in N : ~ IsOld(c, m) /\ ~ (c < m) /\ c \in 0 .. m + 2
      /\ \A c \in 0 .. m + 2 : c \in N \/ IsOld(c, m)
      /\ 0 .. m - 1 \subseteq 0 .. m + 2
      /\ NextCorner(m) = m + 1 /\ NextCorner(m + 1) = m + 2 /\ NextCorner(m + 2) = m
      /\ PreviousCorner(m) = m + 2 /\ PreviousCorner(m + 1) = m /\ PreviousCorner(m + 2) = m + 1
  BY FaceOfNewCorners DEF NewFaceOf
<1>2. /\ o = Cut(T, m) /\ n \in Nat
      /\ \A c \in 0 .. m - 1 : cv[c] \in 0 .. n - 1
      /\ \A v \in DOMAIN vc : vc[v] # NoCorner => vc[v] \in 0 .. m - 1 /\ cv[vc[v]] = v
      /\ \A c \in 0 .. m - 1 : vc[cv[c]] \in 0 .. m - 1 /\ cv[vc[cv[c]]] = cv[c]
      /\ \A c \in 0 .. m - 1 : LeftEnd(o, c) => vc[cv[c]] = c
      /\ \A c \in 0 .. m - 1 : hole[cv[c]] <=> LeftEnd(o, vc[cv[c]])
      /\ \A v \in DOMAIN hole : v \notin 0 .. n - 1 => hole[v]
  BY DEF Rebuilt
<1>3. \A c \in 0 .. m - 1 : c \in D /\ NextCorner(c) \in 0 .. m - 1 /\ PreviousCorner(c) \in 0 .. m - 1
                            /\ NextCorner(PreviousCorner(c)) = c
  BY RebuiltTable, NextAndPrevious
<1>4. a \in 0 .. m - 1 /\ b \in 0 .. m - 1
  BY DEF IsOld
<1>5. /\ vc[x] = PreviousCorner(b) /\ x = cv[PreviousCorner(b)]
  <2>1. T[NextCorner(m)] = a /\ T[PreviousCorner(m)] = b /\ m \in D /\ ~ (m < m)
    BY <1>1
  <2> QED
    BY <2>1, RingEnd
<1>6. NextCorner(vc[x]) = b
  BY <1>3, <1>4, <1>5
<1>7. x # va /\ x # vb
  BY <1>4, <1>5, OldFaceVertices
<1>8. /\ \A j \in N : LeftEnd(q, j) <=> ~ IsOld(T[NextCorner(j)], m)
      /\ \A c \in 0 .. m - 1 :
           /\ LeftEnd(q, c) => LeftEnd(o, c)
           /\ LeftEnd(o, c) /\ ~ LeftEnd(q, c) =>
                \E j \in N : IsOld(T[j], m) /\ c = PreviousCorner(T[j])
      /\ \A j \in N : IsOld(T[j], m) => LeftEnd(o, PreviousCorner(T[j])) /\ ~ LeftEnd(q, PreviousCorner(T[j]))
  BY <1>2, LeftEndsAfter
<1>9. vc[va] = PreviousCorner(a) /\ hole[va]
  <2>1. LeftEnd(o, PreviousCorner(a)) /\ PreviousCorner(a) \in 0 .. m - 1
    BY <1>1, <1>3, <1>4, <1>8
  <2> QED
    BY <1>2, <2>1
<1>10. va \in 0 .. n - 1 /\ vb \in 0 .. n - 1 /\ x \in 0 .. n - 1
  BY <1>2, <1>3, <1>4
<1>11. ASSUME NEW cv2, NEW vc2, NEW hole2,
              \A c \in 0 .. m - 1 : cv2[c] = cv[c],
              cv2[m] = x /\ cv2[m + 1] = vb /\ cv2[m + 2] = va,
              \A c \in Corners(F) \ (0 .. m + 2) : cv2[c] = -1,
              vc2 = SetLeftMost(vc, va, m + 2),
              hole2 = [v \in DOMAIN hole |-> hole[v] /\ v # x]
       PROVE  Rebuilt(T, F, m + 3, q, cv2, vc2, hole2, n)
  <2>1. /\ DOMAIN vc2 = DOMAIN vc /\ DOMAIN hole2 = DOMAIN hole
        /\ \A v \in DOMAIN vc : vc2[v] = IF v = va THEN m + 2 ELSE vc[v]
        /\ \A v \in DOMAIN hole : hole2[v] <=> hole[v] /\ v # x
    BY <1>11 DEF SetLeftMost
  <2>2. \A c \in 0 .. m + 2 : c \in {m, m + 1, m + 2} \/ c \in 0 .. m - 1
    BY <1>1 DEF IsOld
  <2>3. \A c \in 0 .. m + 2 : cv2[c] \in 0 .. n - 1 /\ cv2[c] \in DOMAIN vc2
    BY <1>2, <1>10, <1>11, <2>1, <2>2
  <2>4. \A c \in 0 .. m + 2 : \E d \in 0 .. m - 1 : cv2[c] = cv[d] /\ cv2[d] = cv[d]
    BY <1>3, <1>4, <1>11, <2>2
  <2>5. ASSUME NEW j \in N
        PROVE  /\ IsOld(T[NextCorner(j)], m) => cv2[j] = cv2[NextCorner(T[NextCorner(j)])]
               /\ IsOld(T[PreviousCorner(j)], m) => cv2[j] = cv2[PreviousCorner(T[PreviousCorner(j)])]
               /\ IsOld(T[NextCorner(j)], m) \/ IsOld(T[PreviousCorner(j)], m)
    <3>1. cv2[NextCorner(a)] = x /\ cv2[PreviousCorner(a)] = va
          /\ cv2[NextCorner(b)] = vb /\ cv2[PreviousCorner(b)] = x
      BY <1>3, <1>4, <1>5, <1>11
    <3> QED
      BY <1>1, <1>11, <3>1
  <2>6. \A c \in 0 .. m + 2 : vc2[cv2[c]] \in 0 .. m + 2
    BY <1>1, <1>2, <2>1, <2>3, <2>4
  <2>7. \A v \in DOMAIN vc2 : vc2[v] # NoCorner => vc2[v] \in 0 .. m + 2 /\ cv2[vc2[v]] = v
    BY <1>1, <1>2, <1>11, <2>1
  <2>8. ASSUME NEW c \in 0 .. m + 2, LeftEnd(q, c)
        PROVE  vc2[cv2[c]] = c
    <3>1. CASE c \in 0 .. m - 1
      <4>1. vc[cv[c]] = c /\ cv2[c] = cv[c] /\ cv[c] \in DOMAIN vc
        BY <1>2, <1>8, <1>11, <2>8, <3>1
      <4>2. cv[c] # va
        BY <1>1, <1>8, <1>9, <2>8, <4>1
      <4> QED
        BY <2>1, <4>1, <4>2
    <3>2. CASE c \in N
      <4>1. c = m + 2
        BY <1>1, <1>8, <2>8, <3>2
      <4> QED
        BY <1>10, <1>11, <2>1, <4>1
    <3> QED
      BY <1>1, <2>2, <3>1, <3>2
  <2>9. ASSUME NEW c \in 0 .. m + 2
        PROVE  hole2[cv2[c]] <=> LeftEnd(q, vc2[cv2[c]])
    <3>1. PICK d \in 0 .. m - 1 : cv2[c] = cv[d] /\ cv[d] \in DOMAIN vc /\ cv[d] \in DOMAIN hole
      BY <1>2, <2>4
    <3>2. CASE cv[d] = x
      BY <1>1, <1>5, <1>7, <1>8, <2>1, <3>1, <3>2
    <3>3. CASE cv[d] = va
      BY <1>1, <1>7, <1>8, <1>9, <2>1, <3>1, <3>3
    <3>4. CASE cv[d] # x /\ cv[d] # va
      <4>1. vc2[cv2[c]] = vc[cv[d]] /\ (hole2[cv2[c]] <=> hole[cv[d]])
        BY <2>1, <3>1, <3>4
      <4> DEFINE s == vc[cv[d]]
      <4>2. s \in 0 .. m - 1 /\ cv[s] = cv[d] /\ (hole[cv[d]] <=> LeftEnd(o, s))
        BY <1>2
      <4>3. s # PreviousCorner(a) /\ s # PreviousCorner(b)
        BY <1>5, <3>4, <4>2
      <4> HIDE DEF s
      <4>4. LeftEnd(o, s) <=> LeftEnd(q, s)
        BY <1>1, <1>8, <4>2, <4>3
      <4> QED
        BY <4>1, <4>2, <4>4 DEF s
    <3> QED
      BY <3>2, <3>3, <3>4
  <2>10. \A v \in DOMAIN hole2 : v \notin 0 .. n - 1 => hole2[v]
    BY <1>2, <1>10, <2>1
  <2> HIDE DEF q
  <2>11. /\ \A c, d \in 0 .. m - 1 : cv[c] = cv[d] => cv2[c] = cv2[d]
         /\ \A c, d \in 0 .. m - 1 : cv2[c] = cv2[d] => cv[c] = cv[d] \/ d \in FanCorners(q, c)
    BY <1>11
  <2> QED
    BY <1>2, <1>11, <2>3, <2>5, <2>6, <2>7, <2>8, <2>9, <2>10, <2>11, FaceIsRebuilt DEF q
<1> QED
  BY <1>6, <1>7, <1>11

(* R and L add a face along one edge, and one vertex.                      *)
LEMMA StepSide ==
  ASSUME NEW F \in Nat, NEW T, IsWhole(T, F), NEW k, NEW m, NextFaceAt(F, k, m),
         NEW o, NEW cv, NEW vc, NEW hole, NEW n, Rebuilt(T, F, m, o, cv, vc, hole, n),
         0 .. n \subseteq DOMAIN vc, 0 .. n \subseteq DOMAIN hole,
         NEW p \in NewFaceOf(m), IsOld(T[p], m),
         \A j \in NewFaceOf(m) \ {p} : ~ IsOld(T[j], m),
         NEW a, a = T[p],
         NEW vr, vr = cv[PreviousCorner(a)], NEW vl, vl = cv[NextCorner(a)]
  PROVE  \A cv2, vc2 :
           /\ \A c \in 0 .. m - 1 : cv2[c] = cv[c]
           /\ cv2[p] = n /\ cv2[NextCorner(p)] = vr /\ cv2[PreviousCorner(p)] = vl
           /\ \A c \in Corners(F) \ (0 .. m + 2) : cv2[c] = -1
           /\ vc2 = SetLeftMost(SetLeftMost(vc, n, p), vr, NextCorner(p))
           => Rebuilt(T, F, m + 3, Cut(T, m + 3), cv2, vc2, hole, n + 1)
<1> DEFINE D == Corners(F)
           N == NewFaceOf(m)
           q == Cut(T, m + 3)
           l == PreviousCorner(p)
           r == NextCorner(p)
<1>1. /\ m \in Nat /\ N = {m, m + 1, m + 2} /\ N \subseteq D
      /\ \A c \in N : ~ IsOld(c, m) /\ ~ (c < m) /\ c \in 0 .. m + 2
      /\ \A c \in 0 .. m + 2 : c \in N \/ IsOld(c, m)
      /\ 0 .. m - 1 \subseteq 0 .. m + 2
      /\ NextCorner(m) = m + 1 /\ NextCorner(m + 1) = m + 2 /\ NextCorner(m + 2) = m
      /\ PreviousCorner(m) = m + 2 /\ PreviousCorner(m + 1) = m /\ PreviousCorner(m + 2) = m + 1
  BY FaceOfNewCorners DEF NewFaceOf
<1>2. /\ N = {p, l, r} /\ p # l /\ p # r /\ l # r
      /\ NextCorner(p) = r /\ NextCorner(r) = l /\ NextCorner(l) = p
      /\ PreviousCorner(p) = l /\ PreviousCorner(r) = p /\ PreviousCorner(l) = r
  BY <1>1
<1> HIDE DEF l, r
<1>3. /\ o = Cut(T, m) /\ n \in Nat
      /\ \A c \in 0 .. m - 1 : cv[c] \in 0 .. n - 1
      /\ \A v \in DOMAIN vc : vc[v] # NoCorner => vc[v] \in 0 .. m - 1 /\ cv[vc[v]] = v
      /\ \A c \in 0 .. m - 1 : vc[cv[c]] \in 0 .. m - 1 /\ cv[vc[cv[c]]] = cv[c]
      /\ \A c \in 0 .. m - 1 : LeftEnd(o, c) => vc[cv[c]] = c
      /\ \A c \in 0 .. m - 1 : hole[cv[c]] <=> LeftEnd(o, vc[cv[c]])
      /\ \A v \in DOMAIN hole : v \notin 0 .. n - 1 => hole[v]
  BY DEF Rebuilt
<1>4. \A c \in 0 .. m - 1 : c \in D /\ NextCorner(c) \in 0 .. m - 1 /\ PreviousCorner(c) \in 0 .. m - 1
                            /\ NextCorner(PreviousCorner(c)) = c
  BY RebuiltTable, NextAndPrevious
<1>5. a \in 0 .. m - 1
  BY DEF IsOld
<1>6. \A c \in 0 .. m - 1 : cv[c] # n /\ cv[c] \in 0 .. n - 1 /\ cv[c] \in 0 .. n
  BY <1>3
<1>7. vr # n /\ vr \in 0 .. n /\ vl \in 0 .. n /\ n \in 0 .. n
  BY <1>3, <1>4, <1>5, <1>6
<1>8. /\ \A j \in N : LeftEnd(q, j) <=> ~ IsOld(T[NextCorner(j)], m)
      /\ \A c \in 0 .. m - 1 :
           /\ LeftEnd(q, c) => LeftEnd(o, c)
           /\ LeftEnd(o, c) /\ ~ LeftEnd(q, c) =>
                \E j \in N : IsOld(T[j], m) /\ c = PreviousCorner(T[j])
      /\ \A j \in N : IsOld(T[j], m) => LeftEnd(o, PreviousCorner(T[j])) /\ ~ LeftEnd(q, PreviousCorner(T[j]))
  BY <1>3, LeftEndsAfter
<1>9. vc[vr] = PreviousCorner(a) /\ hole[vr]
  <2>1. LeftEnd(o, PreviousCorner(a)) /\ PreviousCorner(a) \in 0 .. m - 1
    BY <1>1, <1>4, <1>5, <1>8
  <2> QED
    BY <1>3, <2>1
<1>10. ASSUME NEW cv2, NEW vc2,
              \A c \in 0 .. m - 1 : cv2[c] = cv[c],
              cv2[p] = n /\ cv2[r] = vr /\ cv2[l] = vl,
              \A c \in Corners(F) \ (0 .. m + 2) : cv2[c] = -1,
              vc2 = SetLeftMost(SetLeftMost(vc, n, p), vr, r)
       PROVE  Rebuilt(T, F, m + 3, q, cv2, vc2, hole, n + 1)
  <2>1. /\ DOMAIN vc2 = DOMAIN vc
        /\ \A v \in DOMAIN vc : vc2[v] = IF v = vr THEN r ELSE IF v = n THEN p ELSE vc[v]
    BY <1>10 DEF SetLeftMost
  <2>2. \A c \in 0 .. m + 2 : c \in {p, l, r} \/ c \in 0 .. m - 1
    BY <1>1, <1>2 DEF IsOld
  <2>3. \A c \in 0 .. m + 2 : cv2[c] \in 0 .. (n + 1) - 1 /\ cv2[c] \in DOMAIN vc2
    <3>1. 0 .. (n + 1) - 1 = 0 .. n
      BY <1>3
    <3> QED
      BY <1>6, <1>7, <1>10, <2>1, <2>2, <3>1
  <2>4. \A c \in 0 .. m + 2 : c # p => \E d \in 0 .. m - 1 : cv2[c] = cv[d] /\ cv2[d] = cv[d]
    BY <1>4, <1>5, <1>10, <2>2
  <2>5. ASSUME NEW j \in N
        PROVE  /\ IsOld(T[NextCorner(j)], m) => cv2[j] = cv2[NextCorner(T[NextCorner(j)])]
               /\ IsOld(T[PreviousCorner(j)], m) => cv2[j] = cv2[PreviousCorner(T[PreviousCorner(j)])]
               /\ ~ IsOld(T[NextCorner(j)], m) /\ ~ IsOld(T[PreviousCorner(j)], m) =>
                    \A d \in 0 .. m + 2 : cv2[d] = cv2[j] => d = j
    <3>1. cv2[NextCorner(a)] = vl /\ cv2[PreviousCorner(a)] = vr
      BY <1>4, <1>5, <1>10
    <3>2. \A d \in 0 .. m + 2 : cv2[d] = n => d = p
      BY <1>6, <2>4
    <3> QED
      BY <1>2, <1>10, <3>1, <3>2
  <2>6. \A c \in 0 .. m + 2 : vc2[cv2[c]] \in 0 .. m + 2
    <3> TAKE c \in 0 .. m + 2
    <3>1. p \in 0 .. m + 2 /\ r \in 0 .. m + 2
      BY <1>1, <1>2
    <3>2. CASE c = p
      BY <1>7, <1>10, <2>1, <3>1, <3>2
    <3>3. CASE c # p
      BY <1>1, <1>3, <2>1, <2>3, <2>4, <3>1, <3>3
    <3> QED
      BY <3>2, <3>3
  <2>7. \A v \in DOMAIN vc2 : vc2[v] # NoCorner => vc2[v] \in 0 .. m + 2 /\ cv2[vc2[v]] = v
    BY <1>1, <1>2, <1>3, <1>10, <2>1
  <2>8. ASSUME NEW c \in 0 .. m + 2, LeftEnd(q, c)
        PROVE  vc2[cv2[c]] = c
    <3>1. CASE c \in 0 .. m - 1
      <4>1. vc[cv[c]] = c /\ cv2[c] = cv[c] /\ cv[c] \in DOMAIN vc /\ cv[c] # n
        BY <1>3, <1>6, <1>8, <1>10, <2>8, <3>1
      <4>2. cv[c] # vr
        BY <1>1, <1>8, <1>9, <2>8, <4>1
      <4> QED
        BY <2>1, <4>1, <4>2
    <3>2. CASE c \in {p, l, r}
      <4>1. c = p \/ c = r
        BY <1>2, <1>8, <2>8, <3>2
      <4> QED
        BY <1>7, <1>10, <2>1, <4>1
    <3> QED
      BY <2>2, <3>1, <3>2
  <2>9. ASSUME NEW c \in 0 .. m + 2
        PROVE  hole[cv2[c]] <=> LeftEnd(q, vc2[cv2[c]])
    <3>1. CASE c = p
      <4>1. hole[n]
        <5>1. n \notin 0 .. n - 1 /\ n \in DOMAIN hole
          BY <1>3, <1>7
        <5> QED
          BY <1>3, <5>1
      <4>2. vc2[n] = p /\ LeftEnd(q, p)
        BY <1>2, <1>7, <1>8, <2>1
      <4> QED
        BY <1>10, <3>1, <4>1, <4>2
    <3>2. CASE c # p
      <4>1. PICK d \in 0 .. m - 1 : cv2[c] = cv[d] /\ cv[d] \in DOMAIN vc /\ cv[d] # n
        BY <1>6, <2>4, <3>2
      <4>2. CASE cv[d] = vr
        <5>1. vc2[vr] = r /\ LeftEnd(q, r)
          BY <1>2, <1>7, <1>8, <2>1
        <5> QED
          BY <1>9, <4>1, <4>2, <5>1
      <4>3. CASE cv[d] # vr
        <5>1. vc2[cv2[c]] = vc[cv[d]]
          BY <2>1, <4>1, <4>3
        <5> DEFINE s == vc[cv[d]]
        <5>2. s \in 0 .. m - 1 /\ cv[s] = cv[d] /\ (hole[cv[d]] <=> LeftEnd(o, s))
          BY <1>3
        <5>3. s # PreviousCorner(a)
          BY <4>3, <5>2
        <5> HIDE DEF s
        <5>4. LeftEnd(o, s) <=> LeftEnd(q, s)
          BY <1>2, <1>8, <5>2, <5>3
        <5> QED
          BY <4>1, <5>1, <5>2, <5>4 DEF s
      <4> QED
        BY <4>2, <4>3
    <3> QED
      BY <3>1, <3>2
  <2>10. n + 1 \in Nat /\ \A v \in DOMAIN hole : v \notin 0 .. (n + 1) - 1 => hole[v]
    <3>1. n + 1 \in Nat /\ \A v : v \in 0 .. n - 1 => v \in 0 .. (n + 1) - 1
      BY <1>3
    <3> QED
      BY <1>3, <3>1
  <2> HIDE DEF q
  <2>11. /\ \A c, d \in 0 .. m - 1 : cv[c] = cv[d] => cv2[c] = cv2[d]
         /\ \A c, d \in 0 .. m - 1 : cv2[c] = cv2[d] => cv[c] = cv[d] \/ d \in FanCorners(q, c)
    BY <1>10
  <2> QED
    BY <1>10, <2>3, <2>5, <2>6, <2>7, <2>8, <2>9, <2>10, <2>11, FaceIsRebuilt DEF q
<1> QED
  BY <1>10 DEF l, r

(* The corners stored for the vertices of the face of an E.                *)
StoredOfE(vc, n, m) ==
  [v \in DOMAIN vc |-> IF v \in n .. n + 2 THEN m + v - n ELSE vc[v]]

(* E: a face on its own, with three new vertices.                          *)
LEMMA StepE ==
  ASSUME NEW F \in Nat, NEW T, IsWhole(T, F), NEW k, NEW m, NextFaceAt(F, k, m),
         NEW o, NEW cv, NEW vc, NEW hole, NEW n, Rebuilt(T, F, m, o, cv, vc, hole, n),
         0 .. n + 2 \subseteq DOMAIN vc, 0 .. n + 2 \subseteq DOMAIN hole,
         \A j \in NewFaceOf(m) : ~ IsOld(T[j], m)
  PROVE  \A cv2, vc2 :
           /\ \A c \in 0 .. m - 1 : cv2[c] = cv[c]
           /\ cv2[m] = n /\ cv2[m + 1] = n + 1 /\ cv2[m + 2] = n + 2
           /\ \A c \in Corners(F) \ (0 .. m + 2) : cv2[c] = -1
           /\ vc2 = StoredOfE(vc, n, m)
           => Rebuilt(T, F, m + 3, Cut(T, m + 3), cv2, vc2, hole, n + 3)
<1> DEFINE D == Corners(F)
           N == NewFaceOf(m)
           q == Cut(T, m + 3)
<1>1. /\ m \in Nat /\ N = {m, m + 1, m + 2} /\ N \subseteq D
      /\ \A c \in N : ~ IsOld(c, m) /\ ~ (c < m) /\ c \in 0 .. m + 2
      /\ \A c \in 0 .. m + 2 : c \in N \/ IsOld(c, m)
      /\ 0 .. m - 1 \subseteq 0 .. m + 2
      /\ NextCorner(m) = m + 1 /\ NextCorner(m + 1) = m + 2 /\ NextCorner(m + 2) = m
      /\ PreviousCorner(m) = m + 2 /\ PreviousCorner(m + 1) = m /\ PreviousCorner(m + 2) = m + 1
  BY FaceOfNewCorners DEF NewFaceOf
<1>3. /\ o = Cut(T, m) /\ n \in Nat
      /\ \A c \in 0 .. m - 1 : cv[c] \in 0 .. n - 1
      /\ \A v \in DOMAIN vc : vc[v] # NoCorner => vc[v] \in 0 .. m - 1 /\ cv[vc[v]] = v
      /\ \A c \in 0 .. m - 1 : vc[cv[c]] \in 0 .. m - 1 /\ cv[vc[cv[c]]] = cv[c]
      /\ \A c \in 0 .. m - 1 : LeftEnd(o, c) => vc[cv[c]] = c
      /\ \A c \in 0 .. m - 1 : hole[cv[c]] <=> LeftEnd(o, vc[cv[c]])
      /\ \A v \in DOMAIN hole : v \notin 0 .. n - 1 => hole[v]
  BY DEF Rebuilt
<1>4. /\ \A c \in 0 .. m - 1 : cv[c] \notin n .. n + 2 /\ cv[c] \in 0 .. n - 1 /\ cv[c] \in 0 .. n + 2
      /\ n \notin 0 .. n - 1 /\ n + 1 \notin 0 .. n - 1 /\ n + 2 \notin 0 .. n - 1
      /\ n # n + 1 /\ n # n + 2 /\ n + 1 # n + 2
      /\ 0 .. (n + 3) - 1 = 0 .. n + 2 /\ n + 3 \in Nat
      /\ {n, n + 1, n + 2} \subseteq 0 .. n + 2 /\ n .. n + 2 = {n, n + 1, n + 2}
      /\ 0 .. n - 1 \subseteq 0 .. n + 2
  <2>1. \A v \in 0 .. n - 1 : v \notin n .. n + 2 /\ v \in 0 .. n + 2
    BY <1>3
  <2> QED
    BY <1>3, <2>1
<1>5. /\ \A j \in N : LeftEnd(q, j) <=> ~ IsOld(T[NextCorner(j)], m)
      /\ \A c \in 0 .. m - 1 :
           /\ LeftEnd(q, c) => LeftEnd(o, c)
           /\ LeftEnd(o, c) /\ ~ LeftEnd(q, c) =>
                \E j \in N : IsOld(T[j], m) /\ c = PreviousCorner(T[j])
  BY <1>3, LeftEndsAfter
<1>6. /\ \A j \in N : LeftEnd(q, j) /\ NextCorner(j) \in N /\ PreviousCorner(j) \in N
      /\ \A c \in 0 .. m - 1 : LeftEnd(q, c) <=> LeftEnd(o, c)
  BY <1>1, <1>5
<1>7. ASSUME NEW cv2, NEW vc2,
              \A c \in 0 .. m - 1 : cv2[c] = cv[c],
              cv2[m] = n /\ cv2[m + 1] = n + 1 /\ cv2[m + 2] = n + 2,
              \A c \in Corners(F) \ (0 .. m + 2) : cv2[c] = -1,
              vc2 = StoredOfE(vc, n, m)
       PROVE  Rebuilt(T, F, m + 3, q, cv2, vc2, hole, n + 3)
  <2>1. /\ DOMAIN vc2 = DOMAIN vc
        /\ \A v \in DOMAIN vc : v \notin n .. n + 2 => vc2[v] = vc[v]
        /\ vc2[n] = m /\ vc2[n + 1] = m + 1 /\ vc2[n + 2] = m + 2
    <3>1. n \in DOMAIN vc /\ n + 1 \in DOMAIN vc /\ n + 2 \in DOMAIN vc
      BY <1>4
    <3>2. vc2[n] = m + n - n /\ vc2[n + 1] = m + (n + 1) - n /\ vc2[n + 2] = m + (n + 2) - n
      BY <1>4, <1>7, <3>1 DEF StoredOfE
    <3> QED
      BY <1>1, <1>3, <1>7, <3>2 DEF StoredOfE
  <2>2. \A c \in 0 .. m + 2 : c \in N \/ c \in 0 .. m - 1
    BY <1>1 DEF IsOld
  <2>3. \A c \in N : cv2[c] \in n .. n + 2 /\ cv2[c] \in 0 .. n + 2 /\ vc2[cv2[c]] = c /\ cv2[c] \notin 0 .. n - 1
    <3> DEFINE P(c) == /\ cv2[c] \in n .. n + 2 /\ cv2[c] \in 0 .. n + 2
                       /\ vc2[cv2[c]] = c /\ cv2[c] \notin 0 .. n - 1
    <3>1. P(m)
      BY <1>4, <1>7, <2>1
    <3>2. P(m + 1)
      BY <1>4, <1>7, <2>1
    <3>3. P(m + 2)
      BY <1>4, <1>7, <2>1
    <3> HIDE DEF P
    <3>4. \A c \in N : P(c)
      BY <1>1, <3>1, <3>2, <3>3
    <3> QED
      BY <3>4 DEF P
  <2>4. \A c \in 0 .. m - 1 : cv2[c] = cv[c] /\ cv2[c] \in 0 .. n + 2 /\ vc2[cv2[c]] = vc[cv[c]]
    BY <1>4, <1>7, <2>1
  <2>5. \A c \in 0 .. m + 2 : cv2[c] \in 0 .. (n + 3) - 1 /\ cv2[c] \in DOMAIN vc2
    BY <1>4, <2>1, <2>2, <2>3, <2>4
  <2>6. ASSUME NEW j \in N
        PROVE  /\ ~ IsOld(T[NextCorner(j)], m) /\ ~ IsOld(T[PreviousCorner(j)], m)
               /\ \A d \in 0 .. m + 2 : cv2[d] = cv2[j] => d = j
    <3>1. \A d \in 0 .. m - 1 : cv2[d] # cv2[j]
      BY <1>4, <2>3, <2>4
    <3>2. \A d \in N : cv2[d] = cv2[j] => d = j
      BY <1>1, <1>4, <1>7
    <3> QED
      BY <1>6, <2>2, <3>1, <3>2
  <2>7. \A c \in 0 .. m + 2 : vc2[cv2[c]] \in 0 .. m + 2
    BY <1>1, <1>3, <2>2, <2>3, <2>4
  <2>8. \A v \in DOMAIN vc2 : vc2[v] # NoCorner => vc2[v] \in 0 .. m + 2 /\ cv2[vc2[v]] = v
    BY <1>1, <1>3, <1>4, <1>7, <2>1
  <2>9. \A c \in 0 .. m + 2 : LeftEnd(q, c) => vc2[cv2[c]] = c
    BY <1>3, <1>6, <2>2, <2>3, <2>4
  <2>10. \A c \in 0 .. m + 2 : hole[cv2[c]] <=> LeftEnd(q, vc2[cv2[c]])
    <3>1. \A c \in N : hole[cv2[c]] /\ LeftEnd(q, vc2[cv2[c]])
      BY <1>3, <1>6, <2>3
    <3>2. \A c \in 0 .. m - 1 : hole[cv2[c]] <=> LeftEnd(q, vc2[cv2[c]])
      BY <1>3, <1>6, <2>4
    <3> QED
      BY <2>2, <3>1, <3>2
  <2>11. \A v \in DOMAIN hole : v \notin 0 .. (n + 3) - 1 => hole[v]
    BY <1>3, <1>4
  <2> HIDE DEF q
  <2>12. /\ \A c, d \in 0 .. m - 1 : cv[c] = cv[d] => cv2[c] = cv2[d]
         /\ \A c, d \in 0 .. m - 1 : cv2[c] = cv2[d] => cv[c] = cv[d] \/ d \in FanCorners(q, c)
    BY <2>4
  <2> DEFINE n2 == n + 3
  <2>13. n2 \in Nat
    BY <1>4
  <2>14. /\ \A c \in 0 .. m + 2 : cv2[c] \in 0 .. n2 - 1 /\ cv2[c] \in DOMAIN vc2
         /\ \A v \in DOMAIN hole : v \notin 0 .. n2 - 1 => hole[v]
    BY <2>5, <2>11
  <2>15. \A j \in NewFaceOf(m) :
            /\ IsOld(T[NextCorner(j)], m) => cv2[j] = cv2[NextCorner(T[NextCorner(j)])]
            /\ IsOld(T[PreviousCorner(j)], m) => cv2[j] = cv2[PreviousCorner(T[PreviousCorner(j)])]
            /\ ~ IsOld(T[NextCorner(j)], m) /\ ~ IsOld(T[PreviousCorner(j)], m) =>
                 \A d \in 0 .. m + 2 : cv2[d] = cv2[j] => d = j
    BY <2>6
  <2> HIDE DEF n2
  <2>16. Rebuilt(T, F, m + 3, q, cv2, vc2, hole, n2)
    BY <1>7, <2>13, <2>14, <2>15, <2>7, <2>8, <2>9, <2>10, <2>12, FaceIsRebuilt DEF q
  <2> QED
    BY <2>16 DEF n2
<1> QED
  BY <1>7

(* A start face inside closes three rings at once.                         *)
LEMMA StepInterior ==
  ASSUME NEW F \in Nat, NEW T, IsWhole(T, F), NEW k, NEW m, NextFaceAt(F, k, m),
         NEW o, NEW cv, NEW vc, NEW hole, NEW n, Rebuilt(T, F, m, o, cv, vc, hole, n),
         0 .. n - 1 \subseteq DOMAIN vc, 0 .. n - 1 \subseteq DOMAIN hole,
         \A j \in NewFaceOf(m) : IsOld(T[j], m) /\ RingDone(T, j, m),
         NEW a, a = T[m], NEW b, b = T[m + 1], NEW d, d = T[m + 2],
         NEW vn, vn = cv[NextCorner(a)], NEW vx, vx = cv[NextCorner(b)],
         NEW vp, vp = cv[NextCorner(d)]
  PROVE  /\ NextCorner(vc[vn]) = b /\ NextCorner(vc[vx]) = d
         /\ a # b /\ a # d /\ b # d
         /\ \A cv2, hole2 :
              /\ \A c \in 0 .. m - 1 : cv2[c] = cv[c]
              /\ cv2[m] = vx /\ cv2[m + 1] = vp /\ cv2[m + 2] = vn
              /\ \A c \in Corners(F) \ (0 .. m + 2) : cv2[c] = -1
              /\ hole2 = [v \in DOMAIN hole |-> hole[v] /\ v \notin {vx, vp, vn}]
              => Rebuilt(T, F, m + 3, Cut(T, m + 3), cv2, vc, hole2, n)
<1> DEFINE D == Corners(F)
           N == NewFaceOf(m)
           q == Cut(T, m + 3)
<1>1. /\ m \in Nat /\ N = {m, m + 1, m + 2} /\ N \subseteq D
      /\ \A c \in N : ~ IsOld(c, m) /\ ~ (c < m) /\ c \in 0 .. m + 2
      /\ \A c \in 0 .. m + 2 : c \in N \/ IsOld(c, m)
      /\ 0 .. m - 1 \subseteq 0 .. m + 2
      /\ NextCorner(m) = m + 1 /\ NextCorner(m + 1) = m + 2 /\ NextCorner(m + 2) = m
      /\ PreviousCorner(m) = m + 2 /\ PreviousCorner(m + 1) = m /\ PreviousCorner(m + 2) = m + 1
      /\ m # m + 1 /\ m # m + 2 /\ m + 1 # m + 2
  BY FaceOfNewCorners DEF NewFaceOf
<1>2. /\ o = Cut(T, m) /\ n \in Nat
      /\ \A c \in 0 .. m - 1 : cv[c] \in 0 .. n - 1
      /\ \A v \in DOMAIN vc : vc[v] # NoCorner => vc[v] \in 0 .. m - 1 /\ cv[vc[v]] = v
      /\ \A c \in 0 .. m - 1 : vc[cv[c]] \in 0 .. m - 1 /\ cv[vc[cv[c]]] = cv[c]
      /\ \A c \in 0 .. m - 1 : LeftEnd(o, c) => vc[cv[c]] = c
      /\ \A c \in 0 .. m - 1 : hole[cv[c]] <=> LeftEnd(o, vc[cv[c]])
      /\ \A v \in DOMAIN hole : v \notin 0 .. n - 1 => hole[v]
  BY DEF Rebuilt
<1>3. \A c \in 0 .. m - 1 : c \in D /\ NextCorner(c) \in 0 .. m - 1 /\ PreviousCorner(c) \in 0 .. m - 1
                            /\ NextCorner(PreviousCorner(c)) = c
  BY RebuiltTable, NextAndPrevious
<1>4. a \in 0 .. m - 1 /\ b \in 0 .. m - 1 /\ d \in 0 .. m - 1
  BY <1>1 DEF IsOld
<1>5. /\ vc[vx] = PreviousCorner(d) /\ vx = cv[PreviousCorner(d)]
      /\ vc[vp] = PreviousCorner(a) /\ vp = cv[PreviousCorner(a)]
      /\ vc[vn] = PreviousCorner(b) /\ vn = cv[PreviousCorner(b)]
  <2>1. \A g \in N : g \in D /\ ~ (g < m) /\ RingDone(T, g, m)
    BY <1>1
  <2>2. \A g \in N : /\ vc[cv[NextCorner(T[NextCorner(g)])]] = PreviousCorner(T[PreviousCorner(g)])
                     /\ cv[NextCorner(T[NextCorner(g)])] = cv[PreviousCorner(T[PreviousCorner(g)])]
    BY <2>1, RingEnd
  <2> QED
    BY <1>1, <2>2
<1>6. NextCorner(vc[vn]) = b /\ NextCorner(vc[vx]) = d
  BY <1>3, <1>4, <1>5
<1>7. a # b /\ a # d /\ b # d
  <2>1. \A j \in N : T[T[j]] = j
    BY <1>2, CutGrows
  <2> QED
    BY <1>1, <2>1
<1>8. /\ \A j \in N : LeftEnd(q, j) <=> ~ IsOld(T[NextCorner(j)], m)
      /\ \A c \in 0 .. m - 1 :
           /\ LeftEnd(q, c) => LeftEnd(o, c)
           /\ LeftEnd(o, c) /\ ~ LeftEnd(q, c) =>
                \E j \in N : IsOld(T[j], m) /\ c = PreviousCorner(T[j])
      /\ \A j \in N : IsOld(T[j], m) => ~ LeftEnd(q, PreviousCorner(T[j]))
  BY <1>2, LeftEndsAfter
<1>9. \A j \in N : ~ LeftEnd(q, j)
  BY <1>1, <1>8
<1>11. vp \in 0 .. n - 1 /\ vn \in 0 .. n - 1 /\ vx \in 0 .. n - 1
  BY <1>2, <1>3, <1>4
<1>12. ASSUME NEW cv2, NEW hole2,
              \A c \in 0 .. m - 1 : cv2[c] = cv[c],
              cv2[m] = vx /\ cv2[m + 1] = vp /\ cv2[m + 2] = vn,
              \A c \in Corners(F) \ (0 .. m + 2) : cv2[c] = -1,
              hole2 = [v \in DOMAIN hole |-> hole[v] /\ v \notin {vx, vp, vn}]
       PROVE  Rebuilt(T, F, m + 3, q, cv2, vc, hole2, n)
  <2>1. /\ DOMAIN hole2 = DOMAIN hole
        /\ \A v \in DOMAIN hole : hole2[v] <=> hole[v] /\ v \notin {vx, vp, vn}
    BY <1>12
  <2>2. \A c \in 0 .. m + 2 : c \in {m, m + 1, m + 2} \/ c \in 0 .. m - 1
    BY <1>1 DEF IsOld
  <2>3. \A c \in 0 .. m + 2 : cv2[c] \in 0 .. n - 1 /\ cv2[c] \in DOMAIN vc
    BY <1>2, <1>11, <1>12, <2>2
  <2>4. \A c \in 0 .. m + 2 : \E e \in 0 .. m - 1 : cv2[c] = cv[e] /\ cv2[e] = cv[e]
    BY <1>3, <1>4, <1>12, <2>2
  <2>5. ASSUME NEW j \in N
        PROVE  /\ IsOld(T[NextCorner(j)], m) => cv2[j] = cv2[NextCorner(T[NextCorner(j)])]
               /\ IsOld(T[PreviousCorner(j)], m) => cv2[j] = cv2[PreviousCorner(T[PreviousCorner(j)])]
               /\ IsOld(T[NextCorner(j)], m)
    <3>1. /\ cv2[NextCorner(a)] = vn /\ cv2[PreviousCorner(a)] = vp
          /\ cv2[NextCorner(b)] = vx /\ cv2[PreviousCorner(b)] = vn
          /\ cv2[NextCorner(d)] = vp /\ cv2[PreviousCorner(d)] = vx
      BY <1>3, <1>4, <1>5, <1>12
    <3> QED
      BY <1>1, <1>12, <3>1
  <2>6. \A c \in 0 .. m + 2 : vc[cv2[c]] \in 0 .. m + 2
    BY <1>1, <1>2, <2>4
  <2>7. \A v \in DOMAIN vc : vc[v] # NoCorner => vc[v] \in 0 .. m + 2 /\ cv2[vc[v]] = v
    BY <1>1, <1>2, <1>12
  <2>8. \A c \in 0 .. m + 2 : LeftEnd(q, c) => vc[cv2[c]] = c
    BY <1>1, <1>2, <1>8, <1>9, <1>12, <2>2
  <2>9. ASSUME NEW c \in 0 .. m + 2
        PROVE  hole2[cv2[c]] <=> LeftEnd(q, vc[cv2[c]])
    <3>1. PICK e \in 0 .. m - 1 : cv2[c] = cv[e] /\ cv[e] \in DOMAIN hole
      BY <1>2, <2>4
    <3>2. CASE cv[e] \in {vx, vp, vn}
      BY <1>1, <1>5, <1>8, <2>1, <3>1, <3>2
    <3>3. CASE cv[e] \notin {vx, vp, vn}
      <4>1. hole2[cv2[c]] <=> hole[cv[e]]
        BY <2>1, <3>1, <3>3
      <4> DEFINE s == vc[cv[e]]
      <4>2. s \in 0 .. m - 1 /\ cv[s] = cv[e] /\ (hole[cv[e]] <=> LeftEnd(o, s))
        BY <1>2
      <4>3. s # PreviousCorner(a) /\ s # PreviousCorner(b) /\ s # PreviousCorner(d)
        BY <1>5, <3>3, <4>2
      <4> HIDE DEF s
      <4>4. LeftEnd(o, s) <=> LeftEnd(q, s)
        BY <1>1, <1>8, <4>2, <4>3
      <4> QED
        BY <3>1, <4>1, <4>2, <4>4 DEF s
    <3> QED
      BY <3>2, <3>3
  <2>10. \A v \in DOMAIN hole2 : v \notin 0 .. n - 1 => hole2[v]
    BY <1>2, <1>11, <2>1
  <2> HIDE DEF q
  <2>11. /\ \A c, e \in 0 .. m - 1 : cv[c] = cv[e] => cv2[c] = cv2[e]
         /\ \A c, e \in 0 .. m - 1 : cv2[c] = cv2[e] => cv[c] = cv[e] \/ e \in FanCorners(q, c)
    BY <1>12
  <2> QED
    BY <1>2, <1>12, <2>3, <2>5, <2>6, <2>7, <2>8, <2>9, <2>10, <2>11, FaceIsRebuilt DEF q
<1> QED
  BY <1>6, <1>7, <1>12

(* Two parts that an S joins have different vertices where they meet: one  *)
(* vertex there would already be a closed ring.                            *)
LEMMA PartsAreTwo ==
  ASSUME NEW F \in Nat, NEW T, IsWhole(T, F), NEW k, NEW m, NextFaceAt(F, k, m),
         NEW o, NEW cv, NEW vc, NEW hole, NEW n, Rebuilt(T, F, m, o, cv, vc, hole, n),
         NEW a, a = T[m + 2], NEW b, b = T[m + 1], IsOld(a, m), IsOld(b, m),
         cv[NextCorner(b)] = cv[PreviousCorner(a)]
  PROVE  RingDone(T, m, m)
<1> DEFINE D == Corners(F)
           N == NewFaceOf(m)
           S == FanCorners(o, NextCorner(b))
           q == Cut(T, m + 3)
<1>1. /\ m \in Nat /\ N = {m, m + 1, m + 2} /\ N \subseteq D
      /\ NextCorner(m) = m + 1 /\ NextCorner(m + 1) = m + 2 /\ NextCorner(m + 2) = m
      /\ PreviousCorner(m) = m + 2 /\ PreviousCorner(m + 1) = m /\ PreviousCorner(m + 2) = m + 1
  BY FaceOfNewCorners DEF NewFaceOf
<1>0. /\ o = Cut(T, m)
      /\ \A c \in 0 .. m - 1 : cv[c] \in 0 .. n - 1
      /\ \A c \in D \ (0 .. m - 1) : cv[c] = -1
  BY DEF Rebuilt
<1>2. /\ IsTable(o, D) /\ IsTable(T, D)
      /\ \A c \in 0 .. m - 1 : c \in D /\ NextCorner(c) \in 0 .. m - 1 /\ PreviousCorner(c) \in 0 .. m - 1
      /\ \A c \in D : o[c] # NoCorner => o[c] = T[c]
      /\ \A c, d \in 0 .. m - 1 : cv[c] = cv[d] => d \in FanCorners(o, c)
      /\ \A c \in 0 .. m - 1 : \A d \in FanCorners(o, c) : d \in D /\ cv[d] = cv[c]
  BY RebuiltTable
<1>3. \A c \in 0 .. m - 1 : cv[c] # -1
  BY <1>0
<1>4. \A c \in 0 .. m - 1 : \A d \in FanCorners(o, c) : d \in 0 .. m - 1
  BY <1>0, <1>2, <1>3
<1>5. a \in 0 .. m - 1 /\ b \in 0 .. m - 1 /\ a \in D /\ b \in D
  BY <1>2 DEF IsOld
<1>6. /\ LeftEnd(o, PreviousCorner(a)) /\ RightEnd(o, NextCorner(b)) /\ T[a] = m + 2 /\ T[b] = m + 1
      /\ a # NoCorner /\ b # NoCorner
  <2>1. \A j \in N : IsOld(T[j], m) => LeftEnd(o, PreviousCorner(T[j])) /\ RightEnd(o, NextCorner(T[j]))
    BY <1>0, LeftEndsAfter
  <2>2. \A j \in N : IsOld(T[j], m) => T[T[j]] = j
    BY <1>0, CutGrows
  <2>3. a # NoCorner /\ b # NoCorner
    BY <1>5, CornersAreFinite DEF NoCorner
  <2> QED
    BY <1>1, <2>1, <2>2, <2>3
<1>7. /\ NextCorner(b) \in S /\ PreviousCorner(a) \in S /\ S \subseteq 0 .. m - 1 /\ S \subseteq D
      /\ KeepsSwings(o, S)
      /\ \A d \in S : FanCorners(o, d) = S
  <2>1. NextCorner(b) \in 0 .. m - 1 /\ PreviousCorner(a) \in 0 .. m - 1
    BY <1>2, <1>5
  <2>2. S \subseteq 0 .. m - 1 /\ PreviousCorner(a) \in S
    BY <1>2, <1>4, <2>1
  <2> QED
    BY <1>2, <2>1, <2>2, FanKeepsSwings, FansAreDisjoint
<1> HIDE DEF S
<1>8. \A d \in S : /\ LeftEnd(o, d) => d = PreviousCorner(a)
                   /\ RightEnd(o, d) => d = NextCorner(b)
  <2> TAKE d \in S
  <2>1. d \in D /\ PreviousCorner(a) \in FanCorners(o, d) /\ NextCorner(b) \in FanCorners(o, d)
    BY <1>7
  <2> QED
    BY <1>2, <1>6, <2>1, FanEnds
<1>9. NextCorner(PreviousCorner(a)) = a /\ PreviousCorner(NextCorner(b)) = b
  BY <1>5, NextAndPrevious
<1>10. \A d \in S : d \in D /\ NextCorner(d) \in D /\ PreviousCorner(d) \in D
  BY <1>7, CornerArithmetic
<1>11. ASSUME NEW d \in S
       PROVE  T[NextCorner(d)] # NoCorner /\ SwingLeft(T, d) \in S \cup {m}
  <2>1. CASE LeftEnd(o, d)
    <3>1. NextCorner(d) = a
      BY <1>8, <1>9, <2>1
    <3>2. T[NextCorner(d)] = m + 2 /\ m + 2 # NoCorner
      BY <1>1, <1>6, <3>1 DEF NoCorner
    <3>3. SwingLeft(T, d) = m
      BY <1>1, <1>2, <1>10, <3>2, FanNeighbours
    <3> QED
      BY <3>2, <3>3
  <2>2. CASE ~ LeftEnd(o, d)
    <3>1. T[NextCorner(d)] = o[NextCorner(d)] /\ o[NextCorner(d)] # NoCorner
      BY <1>2, <1>10, <2>2 DEF LeftEnd
    <3>2. SwingLeft(T, d) = SwingLeft(o, d) /\ SwingLeft(o, d) \in FanCorners(o, d)
      BY <1>2, <1>10, <3>1, FanNeighbours
    <3> QED
      BY <1>7, <3>1, <3>2
  <2> QED
    BY <2>1, <2>2
<1>12. ASSUME NEW d \in S
       PROVE  T[PreviousCorner(d)] # NoCorner /\ SwingRight(T, d) \in S \cup {m}
  <2>1. CASE RightEnd(o, d)
    <3>1. PreviousCorner(d) = b
      BY <1>8, <1>9, <2>1
    <3>2. T[PreviousCorner(d)] = m + 1 /\ m + 1 # NoCorner
      BY <1>1, <1>6, <3>1 DEF NoCorner
    <3>3. SwingRight(T, d) = m
      BY <1>1, <1>2, <1>10, <3>2, FanNeighbours
    <3> QED
      BY <3>2, <3>3
  <2>2. CASE ~ RightEnd(o, d)
    <3>1. T[PreviousCorner(d)] = o[PreviousCorner(d)] /\ o[PreviousCorner(d)] # NoCorner
      BY <1>2, <1>10, <2>2 DEF RightEnd
    <3>2. SwingRight(T, d) = SwingRight(o, d) /\ SwingRight(o, d) \in FanCorners(o, d)
      BY <1>2, <1>10, <3>1, FanNeighbours
    <3> QED
      BY <1>7, <3>1, <3>2
  <2> QED
    BY <2>1, <2>2
<1>13. /\ T[NextCorner(m)] # NoCorner /\ SwingLeft(T, m) \in S
       /\ T[PreviousCorner(m)] # NoCorner /\ SwingRight(T, m) \in S
  <2>1. m \in D /\ T[NextCorner(m)] = b /\ T[PreviousCorner(m)] = a
    BY <1>1
  <2>2. SwingLeft(T, m) = NextCorner(b) /\ SwingRight(T, m) = PreviousCorner(a)
    BY <1>2, <1>6, <2>1, FanNeighbours
  <2> QED
    BY <1>6, <1>7, <2>1, <2>2
<1>14. FanCorners(T, m) \subseteq S \cup {m}
  <2>1. KeepsSwings(T, S \cup {m})
    BY <1>11, <1>12, <1>13 DEF KeepsSwings
  <2>2. S \cup {m} \subseteq D
    BY <1>1, <1>7
  <2> QED
    BY <1>1, <1>2, <2>1, <2>2, FanIsLeast
<1>15. \A d \in S : d < m
  BY <1>1, <1>7
<1> QED
  BY <1>11, <1>12, <1>13, <1>14, <1>15 DEF RingDone

(* S joins two parts, and two of their vertices into one.                  *)
LEMMA StepS ==
  ASSUME NEW F \in Nat, NEW T, IsWhole(T, F), NEW k, NEW m, NextFaceAt(F, k, m),
         NEW o, NEW cv, NEW vc, NEW hole, NEW n, Rebuilt(T, F, m, o, cv, vc, hole, n),
         0 .. n - 1 \subseteq DOMAIN vc, 0 .. n - 1 \subseteq DOMAIN hole,
         ~ IsOld(T[m], m), IsOld(T[m + 1], m), IsOld(T[m + 2], m), ~ RingDone(T, m, m),
         NEW a, a = T[m + 2], NEW b, b = T[m + 1],
         NEW p, p = cv[PreviousCorner(a)], NEW w, w = cv[NextCorner(b)],
         NEW va, va = cv[NextCorner(a)], NEW vb, vb = cv[PreviousCorner(b)]
  PROVE  /\ a # b /\ w # p /\ w # va /\ w # vb
         /\ \A cv2, vc2 :
              /\ \A c \in 0 .. m - 1 : cv2[c] = IF cv[c] = w THEN p ELSE cv[c]
              /\ cv2[m] = p /\ cv2[m + 1] = va /\ cv2[m + 2] = vb
              /\ \A c \in Corners(F) \ (0 .. m + 2) : cv2[c] = -1
              /\ vc2 = SetLeftMost(SetLeftMost(SetLeftMost(vc, vb, m + 2), p, vc[w]), w, NoCorner)
              => Rebuilt(T, F, m + 3, Cut(T, m + 3), cv2, vc2, hole, n)
<1> DEFINE D == Corners(F)
           N == NewFaceOf(m)
           q == Cut(T, m + 3)
<1>1. /\ m \in Nat /\ N = {m, m + 1, m + 2} /\ N \subseteq D
      /\ \A c \in N : ~ IsOld(c, m) /\ ~ (c < m) /\ c \in 0 .. m + 2
      /\ \A c \in 0 .. m + 2 : c \in N \/ IsOld(c, m)
      /\ 0 .. m - 1 \subseteq 0 .. m + 2
      /\ NextCorner(m) = m + 1 /\ NextCorner(m + 1) = m + 2 /\ NextCorner(m + 2) = m
      /\ PreviousCorner(m) = m + 2 /\ PreviousCorner(m + 1) = m /\ PreviousCorner(m + 2) = m + 1
      /\ m # m + 1 /\ m # m + 2 /\ m + 1 # m + 2
  BY FaceOfNewCorners DEF NewFaceOf
<1>2. /\ o = Cut(T, m) /\ n \in Nat
      /\ \A c \in 0 .. m - 1 : cv[c] \in 0 .. n - 1
      /\ \A v \in DOMAIN vc : vc[v] # NoCorner => vc[v] \in 0 .. m - 1 /\ cv[vc[v]] = v
      /\ \A c \in 0 .. m - 1 : vc[cv[c]] \in 0 .. m - 1 /\ cv[vc[cv[c]]] = cv[c]
      /\ \A c \in 0 .. m - 1 : LeftEnd(o, c) => vc[cv[c]] = c
      /\ \A c \in 0 .. m - 1 : hole[cv[c]] <=> LeftEnd(o, vc[cv[c]])
      /\ \A v \in DOMAIN hole : v \notin 0 .. n - 1 => hole[v]
  BY DEF Rebuilt
<1>3. /\ \A c \in 0 .. m - 1 : c \in D /\ NextCorner(c) \in 0 .. m - 1 /\ PreviousCorner(c) \in 0 .. m - 1
      /\ IsTable(o, D) /\ IsTable(T, D)
      /\ \A c \in D : o[c] # NoCorner => T[c] = o[c]
      /\ \A c, d \in 0 .. m - 1 : cv[c] = cv[d] => d \in FanCorners(o, c) /\ d \in FanCorners(T, c)
      /\ \A c \in 0 .. m - 1 : \A d \in FanCorners(o, c) : d \in D /\ cv[d] = cv[c]
  BY RebuiltTable
<1>4. a \in 0 .. m - 1 /\ b \in 0 .. m - 1 /\ a \in D /\ b \in D /\ a # NoCorner /\ b # NoCorner
  BY <1>1, <1>3 DEF IsOld, NoCorner
<1>5. /\ IsTable(q, D)
      /\ \A c \in D : o[c] # NoCorner => q[c] = o[c]
      /\ \A j \in N : /\ q[j] = IF IsOld(T[j], m) THEN T[j] ELSE NoCorner
                      /\ IsOld(T[j], m) => T[T[j]] = j
  BY <1>2, CutGrows
<1>6. w # p
  BY PartsAreTwo
<1>7. a # b
  BY <1>1, <1>5
<1>8. /\ NextCorner(b) \in FanCorners(T, m) /\ PreviousCorner(a) \in FanCorners(T, m)
      /\ NextCorner(a) \in FanCorners(T, m + 1) /\ PreviousCorner(b) \in FanCorners(T, m + 2)
  <2>1. m \in D /\ m + 1 \in D /\ m + 2 \in D
    BY <1>1
  <2>2. NextCorner(b) \in FanCorners(T, m) /\ PreviousCorner(a) \in FanCorners(T, m)
    <3>1. T[NextCorner(m)] = b /\ T[PreviousCorner(m)] = a
      BY <1>1
    <3> QED
      BY <1>3, <1>4, <2>1, <3>1, FanNeighbours
  <2>3. NextCorner(a) \in FanCorners(T, m + 1)
    <3>1. T[NextCorner(m + 1)] = a
      BY <1>1
    <3> QED
      BY <1>3, <1>4, <2>1, <3>1, FanNeighbours
  <2>4. PreviousCorner(b) \in FanCorners(T, m + 2)
    <3>1. T[PreviousCorner(m + 2)] = b
      BY <1>1
    <3> QED
      BY <1>3, <1>4, <2>1, <3>1, FanNeighbours
  <2> QED
    BY <2>2, <2>3, <2>4
<1>9. ASSUME NEW j \in N, NEW i \in N, i # j,
             NEW c \in 0 .. m - 1, c \in FanCorners(T, j),
             NEW d \in 0 .. m - 1, d \in FanCorners(T, i)
      PROVE  cv[c] # cv[d]
  <2> SUFFICES ASSUME cv[c] = cv[d] PROVE FALSE
    OBVIOUS
  <2>1. d \in FanCorners(T, c) /\ c \in D /\ d \in D /\ i \in D /\ j \in D
    BY <1>1, <1>3
  <2>2. FanCorners(T, c) = FanCorners(T, j) /\ FanCorners(T, d) = FanCorners(T, c)
        /\ FanCorners(T, d) = FanCorners(T, i) /\ i \in FanCorners(T, i)
    BY <1>3, <1>9, <2>1, FansAreDisjoint, FanKeepsSwings
  <2>3. Face(i) = k /\ Face(j) = k
    BY <2>1, FaceOfNewCorners
  <2>4. \A e \in FanCorners(T, j) : Face(e) = Face(j) => e = j
    BY <2>1, FansOfOneFace
  <2> QED
    BY <1>9, <2>2, <2>3, <2>4
<1>10. p # vb /\ w # vb /\ w # va /\ p # va
  <2>1. /\ NextCorner(a) \in 0 .. m - 1 /\ PreviousCorner(a) \in 0 .. m - 1
        /\ NextCorner(b) \in 0 .. m - 1 /\ PreviousCorner(b) \in 0 .. m - 1
        /\ m \in N /\ m + 1 \in N /\ m + 2 \in N
    BY <1>1, <1>3, <1>4
  <2>2. p # vb
    BY <1>1, <1>8, <1>9, <2>1
  <2>3. w # vb
    BY <1>1, <1>8, <1>9, <2>1
  <2>4. w # va
    BY <1>1, <1>8, <1>9, <2>1
  <2>5. p # va
    BY <1>1, <1>8, <1>9, <2>1
  <2> QED
    BY <2>2, <2>3, <2>4, <2>5
<1>11. /\ \A j \in N : LeftEnd(q, j) <=> ~ IsOld(T[NextCorner(j)], m)
       /\ \A c \in 0 .. m - 1 :
            /\ LeftEnd(q, c) => LeftEnd(o, c)
            /\ LeftEnd(o, c) /\ ~ LeftEnd(q, c) =>
                 \E j \in N : IsOld(T[j], m) /\ c = PreviousCorner(T[j])
       /\ \A j \in N : IsOld(T[j], m) => LeftEnd(o, PreviousCorner(T[j])) /\ ~ LeftEnd(q, PreviousCorner(T[j]))
       /\ \A j \in N : IsOld(T[j], m) => RightEnd(o, NextCorner(T[j]))
  BY <1>2, LeftEndsAfter
<1>12. /\ LeftEnd(o, PreviousCorner(a)) /\ LeftEnd(o, PreviousCorner(b)) /\ RightEnd(o, NextCorner(b))
       /\ ~ LeftEnd(q, PreviousCorner(a)) /\ ~ LeftEnd(q, PreviousCorner(b))
       /\ PreviousCorner(a) \in 0 .. m - 1 /\ PreviousCorner(b) \in 0 .. m - 1
       /\ NextCorner(a) \in 0 .. m - 1 /\ NextCorner(b) \in 0 .. m - 1
       /\ LeftEnd(q, m + 2) /\ ~ LeftEnd(q, m) /\ ~ LeftEnd(q, m + 1)
       /\ \A c \in 0 .. m - 1 : LeftEnd(o, c) /\ c # PreviousCorner(a) /\ c # PreviousCorner(b) => LeftEnd(q, c)
  BY <1>1, <1>3, <1>4, <1>11
<1>13. vc[p] = PreviousCorner(a) /\ hole[p] /\ vc[vb] = PreviousCorner(b) /\ hole[vb]
  BY <1>2, <1>12
<1>14. PICK e \in 0 .. m - 1 : vc[w] = e /\ cv[e] = w /\ LeftEnd(o, e) /\ LeftEnd(q, e)
  <2>1. PICK e \in FanCorners(o, NextCorner(b)) : LeftEnd(o, e)
    BY <1>3, <1>12, OpenFanHasLeftmost
  <2>2. e \in D /\ cv[e] = w /\ w \in 0 .. n - 1
    BY <1>2, <1>3, <1>12, <2>1
  <2>3. e \in 0 .. m - 1
    <3>1. e \notin 0 .. m - 1 => cv[e] = -1
      BY <2>2 DEF Rebuilt
    <3> QED
      BY <2>2, <3>1
  <2>4. vc[w] = e
    BY <1>2, <2>1, <2>2, <2>3
  <2>5. e # PreviousCorner(a) /\ e # PreviousCorner(b)
    BY <1>6, <1>10, <2>2
  <2> QED
    BY <1>12, <2>1, <2>2, <2>3, <2>4, <2>5
<1>15. p \in 0 .. n - 1 /\ va \in 0 .. n - 1 /\ vb \in 0 .. n - 1 /\ w \in 0 .. n - 1
  BY <1>2, <1>12
<1>16. \A c \in 0 .. m - 1 : cv[c] = w \/ cv[c] = p =>
         c \in D /\ FanCorners(q, c) = FanCorners(q, m) /\ c \in FanCorners(q, m)
  <2>1. q[NextCorner(m)] = b /\ q[PreviousCorner(m)] = a /\ m \in D
    BY <1>1, <1>5
  <2>2. FanCorners(q, NextCorner(b)) = FanCorners(q, m) /\ FanCorners(q, PreviousCorner(a)) = FanCorners(q, m)
    BY <1>4, <1>5, <2>1, FanNeighbours
  <2>3. \A c \in D : FanCorners(o, c) \subseteq FanCorners(q, c)
    BY <1>3, <1>5, FansGrow
  <2>4. \A c \in 0 .. m - 1 : cv[c] = w \/ cv[c] = p => c \in D /\ c \in FanCorners(q, m)
    <3> TAKE c \in 0 .. m - 1
    <3>1. c \in D /\ NextCorner(b) \in D /\ PreviousCorner(a) \in D
      BY <1>3, <1>12
    <3>2. cv[c] = w => c \in FanCorners(o, NextCorner(b))
      BY <1>3, <1>12
    <3>3. cv[c] = p => c \in FanCorners(o, PreviousCorner(a))
      BY <1>3, <1>12
    <3> QED
      BY <2>2, <2>3, <3>1, <3>2, <3>3
  <2> QED
    BY <1>5, <2>1, <2>4, FansAreDisjoint
<1>17. ASSUME NEW cv2, NEW vc2,
              \A c \in 0 .. m - 1 : cv2[c] = IF cv[c] = w THEN p ELSE cv[c],
              cv2[m] = p /\ cv2[m + 1] = va /\ cv2[m + 2] = vb,
              \A c \in Corners(F) \ (0 .. m + 2) : cv2[c] = -1,
              vc2 = SetLeftMost(SetLeftMost(SetLeftMost(vc, vb, m + 2), p, vc[w]), w, NoCorner)
       PROVE  Rebuilt(T, F, m + 3, q, cv2, vc2, hole, n)
  <2>1. /\ DOMAIN vc2 = DOMAIN vc
        /\ \A v \in DOMAIN vc : vc2[v] = IF v = w THEN NoCorner ELSE IF v = p THEN e
                                         ELSE IF v = vb THEN m + 2 ELSE vc[v]
    BY <1>14, <1>17 DEF SetLeftMost
  <2>2. \A c \in 0 .. m + 2 : c \in {m, m + 1, m + 2} \/ c \in 0 .. m - 1
    BY <1>1 DEF IsOld
  <2>3. \A c \in 0 .. m + 2 : cv2[c] \in 0 .. n - 1 /\ cv2[c] \in DOMAIN vc2 /\ cv2[c] \in DOMAIN hole
    BY <1>2, <1>15, <1>17, <2>1, <2>2
  <2>4. \A c \in 0 .. m + 2 : cv2[c] # w /\ \E d \in 0 .. m - 1 : cv2[c] = cv[d] /\ cv2[d] = cv[d]
    BY <1>6, <1>10, <1>12, <1>17, <2>2
  <2>5. ASSUME NEW j \in N
        PROVE  /\ IsOld(T[NextCorner(j)], m) => cv2[j] = cv2[NextCorner(T[NextCorner(j)])]
               /\ IsOld(T[PreviousCorner(j)], m) => cv2[j] = cv2[PreviousCorner(T[PreviousCorner(j)])]
               /\ IsOld(T[NextCorner(j)], m) \/ IsOld(T[PreviousCorner(j)], m)
    <3>1. cv2[NextCorner(a)] = va /\ cv2[PreviousCorner(a)] = p
          /\ cv2[NextCorner(b)] = p /\ cv2[PreviousCorner(b)] = vb
      BY <1>6, <1>10, <1>12, <1>17
    <3> QED
      BY <1>1, <1>17, <3>1
  <2>6. \A c \in 0 .. m + 2 : vc2[cv2[c]] \in 0 .. m + 2
    BY <1>1, <1>2, <1>14, <2>1, <2>3, <2>4
  <2>7. \A v \in DOMAIN vc2 : vc2[v] # NoCorner => vc2[v] \in 0 .. m + 2 /\ cv2[vc2[v]] = v
    BY <1>1, <1>2, <1>14, <1>17, <2>1
  <2>8. ASSUME NEW c \in 0 .. m + 2, LeftEnd(q, c)
        PROVE  vc2[cv2[c]] = c
    <3>1. CASE c \in 0 .. m - 1
      <4>1. vc[cv[c]] = c /\ cv[c] \in DOMAIN vc /\ c # PreviousCorner(a) /\ c # PreviousCorner(b)
        BY <1>2, <1>11, <1>12, <2>8, <3>1
      <4>2. cv[c] # p /\ cv[c] # vb
        BY <1>13, <4>1
      <4>3. CASE cv[c] = w
        <5>1. cv2[c] = p /\ p \in DOMAIN vc /\ c = e
          BY <1>14, <1>15, <1>17, <3>1, <4>1, <4>3
        <5> QED
          BY <1>6, <2>1, <5>1
      <4>4. CASE cv[c] # w
        BY <1>17, <2>1, <3>1, <4>1, <4>2, <4>4
      <4> QED
        BY <4>3, <4>4
    <3>2. CASE c \in {m, m + 1, m + 2}
      <4>1. c = m + 2
        BY <1>12, <2>8, <3>2
      <4> QED
        BY <1>10, <1>15, <1>17, <2>1, <4>1
    <3> QED
      BY <2>2, <3>1, <3>2
  <2>9. ASSUME NEW c \in 0 .. m + 2
        PROVE  hole[cv2[c]] <=> LeftEnd(q, vc2[cv2[c]])
    <3>1. PICK d \in 0 .. m - 1 : cv2[c] = cv[d] /\ cv[d] \in DOMAIN vc /\ cv[d] # w
      BY <1>2, <2>4
    <3>2. CASE cv[d] = p
      BY <1>6, <1>13, <1>14, <2>1, <3>1, <3>2
    <3>3. CASE cv[d] = vb
      BY <1>10, <1>12, <1>13, <2>1, <3>1, <3>3
    <3>4. CASE cv[d] # p /\ cv[d] # vb
      <4>1. vc2[cv2[c]] = vc[cv[d]]
        BY <2>1, <3>1, <3>4
      <4> DEFINE s == vc[cv[d]]
      <4>2. s \in 0 .. m - 1 /\ cv[s] = cv[d] /\ (hole[cv[d]] <=> LeftEnd(o, s))
        BY <1>2
      <4>3. s # PreviousCorner(a) /\ s # PreviousCorner(b)
        BY <3>4, <4>2
      <4> HIDE DEF s
      <4>4. LeftEnd(o, s) <=> LeftEnd(q, s)
        BY <1>11, <1>12, <4>2, <4>3
      <4> QED
        BY <3>1, <4>1, <4>2, <4>4 DEF s
    <3> QED
      BY <3>2, <3>3, <3>4
  <2> HIDE DEF q
  <2>10. \A c, d \in 0 .. m - 1 : cv[c] = cv[d] => cv2[c] = cv2[d]
    BY <1>17
  <2>11. \A c, d \in 0 .. m - 1 : cv2[c] = cv2[d] => cv[c] = cv[d] \/ d \in FanCorners(q, c)
    <3> TAKE c, d \in 0 .. m - 1
    <3> SUFFICES ASSUME cv2[c] = cv2[d], cv[c] # cv[d] PROVE d \in FanCorners(q, c)
      OBVIOUS
    <3>1. (cv[c] = w \/ cv[c] = p) /\ (cv[d] = w \/ cv[d] = p)
      BY <1>17
    <3> QED
      BY <1>16, <3>1
  <2> QED
    BY <1>2, <1>17, <2>3, <2>5, <2>6, <2>7, <2>8, <2>9, <2>10, <2>11, FaceIsRebuilt DEF q
<1> QED
  BY <1>6, <1>7, <1>10, <1>17

=============================================================================
