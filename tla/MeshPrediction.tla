---------------------------- MODULE MeshPrediction ----------------------------
(***************************************************************************)
(* Predicting a value of a mesh attribute from the values before it        *)
(* (mesh_prediction.go): the fourth corner of a parallelogram whose other  *)
(* three are known, on a corner table of its own                           *)
(* (internal/topology/corner_table.go) that glues whatever shares an edge. *)
(*                                                                         *)
(* Values are functions from entries, 0 .. n-1, to numbers: of a value     *)
(* with several components, each is predicted alone.                       *)
(***************************************************************************)
EXTENDS CornerTables, WrapTransform, FiniteSets, SequencesExt

-----------------------------------------------------------------------------
(* The corner table.                                                       *)

EdgeFaced(mesh, c) ==
  {mesh.vertexAt[NextCorner(c)], mesh.vertexAt[PreviousCorner(c)]}

CornersFacing(mesh, edge) == {c \in Corners(mesh.numFaces) : EdgeFaced(mesh, c) = edge}

(* A degenerate face, or an edge with more than two faces.                 *)
TableIsRefused(mesh) ==
  \E c \in Corners(mesh.numFaces) :
     \/ Cardinality(EdgeFaced(mesh, c)) = 1
     \/ Cardinality(CornersFacing(mesh, EdgeFaced(mesh, c))) > 2

(* The two faces of an edge are glued, whichever way round they lie.       *)
GluedCorners(mesh) ==
  [c \in Corners(mesh.numFaces) |->
     LET others == CornersFacing(mesh, EdgeFaced(mesh, c)) \ {c}
     IN  IF others = {} THEN NoCorner ELSE CHOOSE d \in others : TRUE]

Least(S) == CHOOSE x \in S : \A y \in S : x <= y

LeftMostCorner(mesh, opposite, v) ==
  LET at == {c \in Corners(mesh.numFaces) : mesh.vertexAt[c] = v}
      open == {c \in at : SwingLeft(opposite, c) = NoCorner}
  IN  IF at = {} THEN NoCorner ELSE Least(IF open = {} THEN at ELSE open)

(* newMeshPredictionContext: which entry each corner has, and from which   *)
(* corner an entry is predicted: the leftmost of its first point that has  *)
(* one.  entryOf gives the entry of every point.                           *)
PredictionContext(mesh, entryOf, numEntries) ==
  LET opposite == GluedCorners(mesh)
      leftMost == [v \in DOMAIN entryOf |-> LeftMostCorner(mesh, opposite, v)]
      pointsOf(e) == {v \in DOMAIN entryOf : entryOf[v] = e /\ leftMost[v] # NoCorner}
  IN  [opposite |-> opposite,
       entryAt |-> [c \in Corners(mesh.numFaces) |-> entryOf[mesh.vertexAt[c]]],
       startAt |-> [e \in 0 .. numEntries - 1 |->
                      IF pointsOf(e) = {} THEN NoCorner ELSE leftMost[Least(pointsOf(e))]]]

-----------------------------------------------------------------------------
(* Parallelograms.                                                         *)

(* visitPredictionCorners: left from the first corner, and if that ends at *)
(* a boundary, right from it.                                              *)
VisitedCorners(ctx, entry) ==
  LET start == ctx.startAt[entry]
  IN  IF start = NoCorner THEN <<>>
      ELSE IF ClosedFan(ctx.opposite, start) THEN LeftFan(ctx.opposite, start)
      ELSE LeftFan(ctx.opposite, start) \o Tail(RightFan(ctx.opposite, start))

(* Three corners of a parallelogram are known if their entries come before *)
(* the entry that is predicted.                                            *)
Known(ctx, entry, c) ==
  /\ ctx.opposite[c] # NoCorner
  /\ \A d \in {ctx.opposite[c], NextCorner(ctx.opposite[c]), PreviousCorner(ctx.opposite[c])} :
        ctx.entryAt[d] \in 0 .. entry - 1

(* computeParallelogramPrediction, with what its result says of success:   *)
(* a corner offers one prediction or none.                                 *)
Offer(ctx, entry, values, c) ==
  LET o == ctx.opposite[c]
      next == values[ctx.entryAt[NextCorner(o)]]
      previous == values[ctx.entryAt[PreviousCorner(o)]]
  IN  IF Known(ctx, entry, c)
      THEN <<AsInt32(AsInt32(next + previous) - values[ctx.entryAt[o]])>>
      ELSE <<>>

Offers(ctx, entry, values) ==
  LET corners == VisitedCorners(ctx, entry)
  IN  [i \in DOMAIN corners |-> Offer(ctx, entry, values, corners[i])]

maxConstrainedMultiParallelograms == 4

FirstFour(s) == [i \in DOMAIN s \cap 1 .. maxConstrainedMultiParallelograms |-> s[i]]

HowMany(predictions) == Cardinality(DOMAIN predictions)

(* collectParallelogramPredictions.                                        *)
Predictions(ctx, entry, values) == FirstFour(FlattenSeq(Offers(ctx, entry, values)))

(* Sums turn over at every step, and division cuts towards zero.           *)
Sum32(s) == FoldLeft(LAMBDA x, y : AsInt32(x + y), 0, s)

Quotient(a, n) == IF a >= 0 THEN a \div n ELSE -((-a) \div n)

Average(s) == Quotient(Sum32(s), HowMany(s))

(* What is left of s when creases are taken out: crease[i] says so of s[i].*)
Uncreased(s, crease) ==
  LET kept == {i \in DOMAIN s : ~crease[i]}
  IN  [k \in 1 .. Cardinality(kept) |->
         s[CHOOSE i \in kept : Cardinality({j \in kept : j < i}) = k - 1]]

-----------------------------------------------------------------------------
(* What the methods make of it.  The first entry is predicted as zero, an  *)
(* entry nothing is known about as the one before it.                      *)

MeshMethods == {"parallelogram", "multi", "constrained"}

Previous(entry, values) == IF entry = 0 THEN 0 ELSE values[entry - 1]

Combined(method, predictions, crease) ==
  IF method = "parallelogram" THEN predictions[1]
  ELSE IF method = "multi" THEN Average(predictions)
  ELSE Average(Uncreased(predictions, crease))

(* With crease the flags of the constrained method for this entry.         *)
NothingToUse(method, predictions, crease) ==
  \/ predictions = <<>>
  \/ method = "constrained" /\ \A i \in DOMAIN predictions : crease[i]

PredictionsFor(method, ctx, entry, values) ==
  IF entry = 0 \/ method \notin MeshMethods THEN <<>> ELSE Predictions(ctx, entry, values)

Prediction(method, ctx, entry, values, crease) ==
  LET predictions == PredictionsFor(method, ctx, entry, values)
  IN  IF NothingToUse(method, predictions, crease) THEN Previous(entry, values)
      ELSE Combined(method, predictions, crease)

=============================================================================
