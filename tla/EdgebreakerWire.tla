--------------------------- MODULE EdgebreakerWire ---------------------------
(***************************************************************************)
(* The connectivity part of an edgebreaker stream, as the encoder hands it *)
(* to the decoder: the counts, the topology symbols, the start-face bits,  *)
(* the attribute seams and the split events.  Entropy coding and bit       *)
(* packing are left out; they keep each of these sequences.                *)
(***************************************************************************)
EXTENDS CornerTables, SequencesExt

TopologySymbols == {"C", "S", "L", "R", "E"}

(* A split event: while symbol `source` was encoded, the face across its   *)
(* left or right edge turned out to be the one symbol `split` split at.    *)
(* Symbols are counted from 0 in encoding order.                           *)
SplitEvents == [source : Nat, split : Nat, edge : {"left", "right"}]

VARIABLES
  symbols,        \* in encoding order; the traversal coder writes the last first
  startFaces,     \* per component in encoding order: does it start at an interior face?
  seams,          \* the edges whose seam bits are written, each named by a source corner
  splitEvents,
  numSplitSymbols,
  numEncodedVertices, numEncodedFaces, numAttributeData

wireVars == <<symbols, startFaces, seams, splitEvents, numSplitSymbols,
              numEncodedVertices, numEncodedFaces, numAttributeData>>

NumSymbols == Len(symbols)

(* encodeEdgebreakerSplitEvents writes differences of unsigned numbers:    *)
(* the sources must not decrease and no split may come after its source.   *)
EncodableSplitEvents(events) ==
  \A i \in DOMAIN events :
     /\ events[i].split <= events[i].source
     /\ i > 1 => events[i - 1].source <= events[i].source

=============================================================================
