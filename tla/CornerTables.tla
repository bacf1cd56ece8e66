---------------------------- MODULE CornerTables ----------------------------
(***************************************************************************)
(* The corner arithmetic and the walks around a vertex that every part of  *)
(* the edgebreaker codec is written in (edgebreaker_topology.go).          *)
(*                                                                         *)
(* A mesh of F triangles has the corners 0 .. 3F-1; corner c belongs to    *)
(* face c \div 3 and faces the edge between NextIn(c) and PreviousIn(c).  A    *)
(* table gives every corner its vertex and its opposite corner, the one    *)
(* across the edge it faces, or NoCorner on the boundary.  The operators   *)
(* below take the two arrays they read, so that the source table, the      *)
(* decoded table and the tables the encoder simulates share them.          *)
(***************************************************************************)
EXTENDS Integers, Sequences

NoCorner == -1

Corners(numFaces) == 0 .. 3 * numFaces - 1

Face(c) == c \div 3

NextCorner(c) == IF c % 3 = 2 THEN c - 2 ELSE c + 1

PreviousCorner(c) == IF c % 3 = 0 THEN c + 2 ELSE c - 1

(* Methods of the table accept the invalid corner and hand it on.          *)
NextIn(c) == IF c < 0 THEN NoCorner ELSE NextCorner(c)
PreviousIn(c) == IF c < 0 THEN NoCorner ELSE PreviousCorner(c)
At(array, i) == IF i \in DOMAIN array THEN array[i] ELSE -1

RightCorner(opposite, c) == At(opposite, NextIn(c))
LeftCorner(opposite, c) == At(opposite, PreviousIn(c))

SwingRight(opposite, c) == PreviousIn(At(opposite, PreviousIn(c)))
SwingLeft(opposite, c) == NextIn(At(opposite, NextIn(c)))

(* The corners met swinging left (right) from c, c first: until the        *)
(* boundary, or until the walk is back at c.                               *)
LeftFan(opposite, c) ==
  LET fan[path \in Seq(DOMAIN opposite)] ==
        LET n == SwingLeft(opposite, path[Len(path)])
        IN  IF n < 0 \/ n = c THEN path ELSE fan[Append(path, n)]
  IN  fan[<<c>>]

RightFan(opposite, c) ==
  LET fan[path \in Seq(DOMAIN opposite)] ==
        LET n == SwingRight(opposite, path[Len(path)])
        IN  IF n < 0 \/ n = c THEN path ELSE fan[Append(path, n)]
  IN  fan[<<c>>]

LastOf(path) == path[Len(path)]

ClosedFan(opposite, c) == SwingLeft(opposite, LastOf(LeftFan(opposite, c))) = c

(* All corners of the fan c lies in.                                       *)
FanCorners(opposite, c) ==
  LET left == LeftFan(opposite, c)
      right == RightFan(opposite, c)
  IN  {left[i] : i \in DOMAIN left} \cup {right[i] : i \in DOMAIN right}

(* UpdateVertexToCornerMap: the leftmost corner of the fan, the corner     *)
(* itself when the fan is closed.                                          *)
LeftMostFrom(opposite, c) ==
  IF c < 0 \/ ClosedFan(opposite, c) THEN c ELSE LastOf(LeftFan(opposite, c))

(* IsBoundaryVertex: what the table concludes from the corner it stores.   *)
IsBoundaryVertex(opposite, vertexCorners, v) ==
  \/ vertexCorners[v] < 0
  \/ SwingLeft(opposite, vertexCorners[v]) < 0

(* SetOppositeCorners ignores corners outside the table.                   *)
Glue(opposite, a, b) ==
  IF a \in DOMAIN opposite /\ b \in DOMAIN opposite
  THEN [opposite EXCEPT ![a] = b, ![b] = a]
  ELSE opposite

-----------------------------------------------------------------------------
(* What a well-formed table is.                                            *)

IsPairing(opposite) ==
  \A c \in DOMAIN opposite : opposite[c] # NoCorner =>
      /\ opposite[c] \in DOMAIN opposite
      /\ opposite[c] # c
      /\ opposite[opposite[c]] = c

(* Opposite corners face the same edge, walked in opposite directions.     *)
FacesSameEdge(cornerVertex, c, d) ==
  /\ cornerVertex[NextCorner(c)] = cornerVertex[PreviousCorner(d)]
  /\ cornerVertex[PreviousCorner(c)] = cornerVertex[NextCorner(d)]

=============================================================================
