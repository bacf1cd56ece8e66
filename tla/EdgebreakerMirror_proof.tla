---------------------- MODULE EdgebreakerMirror_proof ----------------------
(***************************************************************************)
(* The round trip: the decoder accepts every stream the encoder writes,    *)
(* what it builds is the mesh that was encoded, boundaries included, and   *)
(* the pass over the holes renames no corner of it.                        *)
(*                                                                         *)
(* The decoder names corners in the order it decodes them, which is the    *)
(* order of the trace backwards.  The table it has to arrive at can        *)
(* therefore be written down from the encoder's state alone (WholeTable),  *)
(* and the inductive invariant says that at every moment the decoder holds *)
(* exactly the part of it between the corners decoded so far (Rebuilt),    *)
(* that its stack is the list of that part's open gates, that it has made  *)
(* as many vertices as the symbols stand for, and that the split corners   *)
(* it remembers are those of the S still to come.  What the trace says of  *)
(* the next symbol is then what the decoder's guards ask for.              *)
(***************************************************************************)
EXTENDS EdgebreakerRoundTrip_proof

-----------------------------------------------------------------------------
(* What was written, in the decoder's numbering: decoded face x is the     *)
(* face of step NumSymbols - x, start faces come after all others.         *)

(* What is known of the encoder's state once it has written.               *)
Sent == TraceIsKept /\ phase = "written"

(* The facts of a finished trace that the decoder's steps rest on.         *)
LEMMA SentInHand ==
  ASSUME Sent
  PROVE  /\ TableIsReady /\ TableIsFull /\ TableIsManifold
         /\ numEncodedFaces \in Nat /\ mesh.numFaces = numEncodedFaces
         /\ AllCorners = Corners(numEncodedFaces) /\ AllFaces = 0 .. numEncodedFaces - 1
         /\ NumSymbols \in Nat /\ NumSymbols = Len(symbols) /\ NumSymbols <= numEncodedFaces
         /\ symbols \in Seq(TopologySymbols)
         /\ processedCorners \in Seq(AllCorners) /\ initFaceCorners \in Seq(AllCorners)
         /\ OncePerFace(processedCorners) /\ FacesOf(processedCorners) = AllFaces
         /\ Len(processedCorners) = NumSymbols + Len(initFaceCorners)
         /\ \A q \in DOMAIN initFaceCorners : processedCorners[NumSymbols + q] = initFaceCorners[q]
         /\ startFaces \in Seq(BOOLEAN) /\ splitEvents \in Seq(SplitEvents)
         /\ WireTypeOK
<1>1. WalkInv /\ TraceInv /\ TableIsFull /\ phase = "written"
  BY DEF Sent, TraceIsKept, WalkPhases
<1>2. /\ TableIsReady /\ TraversalTypes
      /\ OncePerFace(processedCorners) /\ FacesOf(processedCorners) = visitedFaces
      /\ numEncodedFaces = mesh.numFaces /\ NumSymbols <= numEncodedFaces
  BY <1>1 DEF WalkInv, TableIsKept, FacesAreWalkedOnce
<1>3. OrderIsComplete
  BY <1>1 DEF TraceInv, WalkPhases
<1>4. /\ visitedFaces = AllFaces
      /\ Len(processedCorners) = NumSymbols + Len(initFaceCorners)
      /\ \A q \in DOMAIN initFaceCorners : processedCorners[NumSymbols + q] = initFaceCorners[q]
  BY <1>1, <1>3 DEF OrderIsComplete
<1>5. /\ mesh.numFaces \in Nat /\ WireTypeOK
      /\ processedCorners \in Seq(AllCorners) /\ initFaceCorners \in Seq(AllCorners)
  BY <1>2 DEF TraversalTypes
<1>6. /\ symbols \in Seq(TopologySymbols) /\ startFaces \in Seq(BOOLEAN)
      /\ splitEvents \in Seq(SplitEvents) /\ NumSymbols \in Nat
  BY <1>5 DEF WireTypeOK, NumSymbols
<1>7. AllCorners = Corners(numEncodedFaces) /\ TableIsManifold
  BY <1>2, TableInUse
<1> QED
  BY <1>1, <1>2, <1>4, <1>5, <1>6, <1>7 DEF AllFaces, NumSymbols

(* The sizes of the two ranges of n numbers.                               *)
LEMMA RangesAreFinite ==
  ASSUME NEW n \in Nat
  PROVE  /\ IsFiniteSet(1 .. n) /\ Cardinality(1 .. n) = n
         /\ IsFiniteSet(0 .. n - 1) /\ Cardinality(0 .. n - 1) = n
<1>1. \A a, b \in Int : IsFiniteSet(a .. b)
                         /\ Cardinality(a .. b) = IF a > b THEN 0 ELSE b - a + 1
  BY FS_Interval
<1>2. 0 \in Int /\ 1 \in Int /\ n \in Int /\ n - 1 \in Int
  OBVIOUS
<1>3. IsFiniteSet(1 .. n) /\ Cardinality(1 .. n) = IF 1 > n THEN 0 ELSE n - 1 + 1
  BY <1>1, <1>2
<1>4. IsFiniteSet(0 .. n - 1) /\ Cardinality(0 .. n - 1) = IF 0 > n - 1 THEN 0 ELSE n - 1 - 0 + 1
  BY <1>1, <1>2
<1> QED
  BY <1>3, <1>4

(* As many corners were processed as there are faces.                      *)
LEMMA EveryFaceIsSent ==
  ASSUME Sent
  PROVE  /\ Len(processedCorners) = numEncodedFaces
         /\ numEncodedFaces = NumSymbols + Len(initFaceCorners)
         /\ \A x \in 0 .. numEncodedFaces - 1 : x + 1 \in DOMAIN processedCorners
<1> DEFINE L == Len(processedCorners)
           F == numEncodedFaces
           f == [i \in 1 .. L |-> Face(processedCorners[i])]
<1>0. /\ F \in Nat /\ AllFaces = 0 .. F - 1 /\ L \in Nat /\ mesh.numFaces = F
      /\ DOMAIN processedCorners = 1 .. L
      /\ processedCorners \in Seq(AllCorners) /\ OncePerFace(processedCorners)
      /\ FacesOf(processedCorners) = AllFaces
      /\ L = NumSymbols + Len(initFaceCorners)
  BY SentInHand
<1>1. L <= F
  BY <1>0, NoMoreThanAllFaces
<1>2. IsFiniteSet(1 .. L) /\ Cardinality(1 .. L) = L /\ Cardinality(0 .. F - 1) = F
  BY <1>0, RangesAreFinite
<1>3. f \in Surjection(1 .. L, 0 .. F - 1)
  <2>1. \A i \in 1 .. L : f[i] \in 0 .. F - 1
    BY <1>0 DEF FacesOf
  <2>2. \A x \in 0 .. F - 1 : \E i \in 1 .. L : f[i] = x
    BY <1>0 DEF FacesOf
  <2> QED
    BY <2>1, <2>2 DEF Surjection
<1>4. F <= L
  <2>1. Cardinality(0 .. F - 1) <= Cardinality(1 .. L)
    BY <1>2, <1>3, FS_Surjection
  <2> QED
    BY <1>2, <2>1
<1> QED
  BY <1>0, <1>1, <1>4

(* The corner of step i is the first of its decoded face.                  *)
LEMMA DecodedCornerIs ==
  ASSUME Sent, NEW c \in Corners(numEncodedFaces)
  PROVE  LET s == processedCorners[Face(c) + 1]
         IN  /\ Face(c) \in 0 .. numEncodedFaces - 1 /\ Face(c) + 1 \in DOMAIN processedCorners
             /\ s \in AllCorners /\ c \in Nat /\ c % 3 \in 0 .. 2
             /\ c % 3 = 0 => c = 3 * Face(c) /\ SourceCorner(c) = s
             /\ c % 3 = 1 => c = 3 * Face(c) + 1 /\ SourceCorner(c) = NextCorner(s)
             /\ c % 3 = 2 => c = 3 * Face(c) + 2 /\ SourceCorner(c) = PreviousCorner(s)
<1> DEFINE s == processedCorners[Face(c) + 1]
<1>0. numEncodedFaces \in Nat /\ processedCorners \in Seq(AllCorners)
  BY SentInHand
<1>1. Face(c) \in 0 .. numEncodedFaces - 1
  BY <1>0, CornerArithmetic
<1>2. Face(c) + 1 \in DOMAIN processedCorners
  BY <1>1, EveryFaceIsSent
<1>3. s \in AllCorners
  BY <1>0, <1>2
<1>9. c \in Nat
  BY <1>0, CornersAreFinite
<1>4. /\ Face(c) \in Int /\ 3 * Face(c) <= c /\ c <= 3 * Face(c) + 2
      /\ c % 3 = c - 3 * Face(c)
  BY <1>9 DEF Face
<1>7. /\ c % 3 = 0 => SourceCorner(c) = s
      /\ c % 3 = 1 => SourceCorner(c) = NextCorner(s)
      /\ c % 3 = 2 => SourceCorner(c) = PreviousCorner(s)
  <2>1. 0 # 1 /\ 0 # 2 /\ 1 # 2
    OBVIOUS
  <2> QED
    BY <2>1 DEF SourceCorner
<1>8. /\ c % 3 = 0 => c = 3 * Face(c)
      /\ c % 3 = 1 => c = 3 * Face(c) + 1
      /\ c % 3 = 2 => c = 3 * Face(c) + 2
      /\ c % 3 \in 0 .. 2
  <2> HIDE DEF s
  <2> QED
    BY <1>4, <1>9
<1> QED
  BY <1>1, <1>2, <1>3, <1>7, <1>8, <1>9

(* Turning within a face, and the place of a corner in it.                 *)
LEMMA TurnsInAFace ==
  ASSUME NEW c \in Nat
  PROVE  /\ c % 3 = 0 => NextCorner(c) % 3 = 1 /\ PreviousCorner(c) % 3 = 2
         /\ c % 3 = 1 => NextCorner(c) % 3 = 2 /\ PreviousCorner(c) % 3 = 0
         /\ c % 3 = 2 => NextCorner(c) % 3 = 0 /\ PreviousCorner(c) % 3 = 1
BY DEF NextCorner, PreviousCorner

(* The three corners of a face.                                            *)
LEMMA PlacesInAFace ==
  ASSUME NEW x \in Nat
  PROVE  /\ Face(3 * x) = x /\ (3 * x) % 3 = 0
         /\ Face(3 * x + 1) = x /\ (3 * x + 1) % 3 = 1
         /\ Face(3 * x + 2) = x /\ (3 * x + 2) % 3 = 2
BY DEF Face

(* Decoded corners correspond in order to the corners they were sent from. *)
LEMMA SourceCornersTurn ==
  ASSUME Sent, NEW c \in Corners(numEncodedFaces)
  PROVE  /\ SourceCorner(c) \in AllCorners
         /\ Face(SourceCorner(c)) = Face(processedCorners[Face(c) + 1])
         /\ NextCorner(c) \in Corners(numEncodedFaces) /\ PreviousCorner(c) \in Corners(numEncodedFaces)
         /\ SourceCorner(NextCorner(c)) = NextCorner(SourceCorner(c))
         /\ SourceCorner(PreviousCorner(c)) = PreviousCorner(SourceCorner(c))
<1> DEFINE s == processedCorners[Face(c) + 1]
           n == NextCorner(c)
           p == PreviousCorner(c)
<1>0. TableIsManifold /\ AllCorners = Corners(numEncodedFaces)
  BY SentInHand
<1>1. n \in Corners(numEncodedFaces) /\ p \in Corners(numEncodedFaces) /\ Face(n) = Face(c) /\ Face(p) = Face(c)
  BY <1>0, ManifoldCorners
<1>2. /\ s \in AllCorners /\ c \in Nat /\ c % 3 \in 0 .. 2
      /\ c % 3 = 0 => SourceCorner(c) = s
      /\ c % 3 = 1 => SourceCorner(c) = NextCorner(s)
      /\ c % 3 = 2 => SourceCorner(c) = PreviousCorner(s)
  BY DecodedCornerIs
<1>3. /\ n % 3 = 0 => SourceCorner(n) = s
      /\ n % 3 = 1 => SourceCorner(n) = NextCorner(s)
      /\ n % 3 = 2 => SourceCorner(n) = PreviousCorner(s)
  BY <1>1, DecodedCornerIs
<1>4. /\ p % 3 = 0 => SourceCorner(p) = s
      /\ p % 3 = 1 => SourceCorner(p) = NextCorner(s)
      /\ p % 3 = 2 => SourceCorner(p) = PreviousCorner(s)
  BY <1>1, DecodedCornerIs
<1>5. /\ NextCorner(s) \in AllCorners /\ PreviousCorner(s) \in AllCorners
      /\ NextCorner(PreviousCorner(s)) = s /\ PreviousCorner(NextCorner(s)) = s
      /\ NextCorner(NextCorner(s)) = PreviousCorner(s)
      /\ PreviousCorner(PreviousCorner(s)) = NextCorner(s)
      /\ Face(NextCorner(s)) = Face(s) /\ Face(PreviousCorner(s)) = Face(s)
  BY <1>0, <1>2, ManifoldCorners
<1>6. /\ c % 3 = 0 => n % 3 = 1 /\ p % 3 = 2
      /\ c % 3 = 1 => n % 3 = 2 /\ p % 3 = 0
      /\ c % 3 = 2 => n % 3 = 0 /\ p % 3 = 1
  BY <1>2, TurnsInAFace
<1>7. c % 3 = 0 \/ c % 3 = 1 \/ c % 3 = 2
  BY <1>2
<1> HIDE DEF s, n, p
<1>8. CASE c % 3 = 0
  BY <1>1, <1>2, <1>3, <1>4, <1>5, <1>6, <1>8 DEF s, n, p
<1>9. CASE c % 3 = 1
  BY <1>1, <1>2, <1>3, <1>4, <1>5, <1>6, <1>9 DEF s, n, p
<1>10. CASE c % 3 = 2
  BY <1>1, <1>2, <1>3, <1>4, <1>5, <1>6, <1>10 DEF s, n, p
<1> QED
  BY <1>7, <1>8, <1>9, <1>10

(* Every corner is sent once.                                              *)
LEMMA SourceCornersAreOne ==
  ASSUME Sent
  PROVE  /\ \A c, d \in Corners(numEncodedFaces) : SourceCorner(c) = SourceCorner(d) => c = d
         /\ \A e \in AllCorners : \E c \in Corners(numEncodedFaces) : SourceCorner(c) = e
         /\ \A c, d \in Corners(numEncodedFaces) :
              Face(SourceCorner(c)) = Face(SourceCorner(d)) <=> Face(c) = Face(d)
<1> DEFINE F == numEncodedFaces
           Q == processedCorners
<1>0. /\ F \in Nat /\ TableIsManifold /\ AllCorners = Corners(F) /\ AllFaces = 0 .. F - 1
      /\ Q \in Seq(AllCorners) /\ OncePerFace(Q) /\ FacesOf(Q) = AllFaces
  BY SentInHand
<1>1. \A c, d \in Corners(F) : Face(SourceCorner(c)) = Face(SourceCorner(d)) <=> Face(c) = Face(d)
  <2> TAKE c, d \in Corners(F)
  <2>1. /\ Face(SourceCorner(c)) = Face(Q[Face(c) + 1])
        /\ Face(SourceCorner(d)) = Face(Q[Face(d) + 1])
    BY SourceCornersTurn
  <2>2. /\ Face(c) + 1 \in DOMAIN Q /\ Face(c) \in 0 .. F - 1
        /\ Face(d) + 1 \in DOMAIN Q /\ Face(d) \in 0 .. F - 1
    BY DecodedCornerIs
  <2>3. Face(Q[Face(c) + 1]) = Face(Q[Face(d) + 1]) => Face(c) + 1 = Face(d) + 1
    BY <1>0, <2>2 DEF OncePerFace
  <2> QED
    BY <2>1, <2>2, <2>3
<1>2. \A c, d \in Corners(F) : SourceCorner(c) = SourceCorner(d) => c = d
  <2> SUFFICES ASSUME NEW c \in Corners(F), NEW d \in Corners(F), SourceCorner(c) = SourceCorner(d)
               PROVE  c = d
    OBVIOUS
  <2>1. Face(c) = Face(d)
    BY <1>1
  <2>2. d \in {c, NextCorner(c), PreviousCorner(c)}
    BY <1>0, <2>1, CornersOfOneFace
  <2>3. /\ SourceCorner(c) \in AllCorners
        /\ SourceCorner(NextCorner(c)) = NextCorner(SourceCorner(c))
        /\ SourceCorner(PreviousCorner(c)) = PreviousCorner(SourceCorner(c))
    BY SourceCornersTurn
  <2>4. SourceCorner(c) # NextCorner(SourceCorner(c)) /\ SourceCorner(c) # PreviousCorner(SourceCorner(c))
    BY <1>0, <2>3, CornerArithmetic
  <2> QED
    BY <2>2, <2>3, <2>4
<1>3. \A e \in AllCorners : \E c \in Corners(F) : SourceCorner(c) = e
  <2> TAKE e \in AllCorners
  <2>1. Face(e) \in AllFaces
    BY <1>0, ManifoldCorners
  <2>2. PICK i \in DOMAIN Q : Face(Q[i]) = Face(e)
    BY <1>0, <2>1 DEF FacesOf
  <2> DEFINE x == i - 1
             s == Q[i]
  <2>3. x \in Nat /\ x + 1 = i /\ x \in 0 .. F - 1 /\ DOMAIN Q = 1 .. Len(Q)
    <3>1. Len(Q) = F /\ DOMAIN Q = 1 .. Len(Q)
      BY <1>0, EveryFaceIsSent
    <3> QED
      BY <1>0, <3>1
  <2>4. 3 * x \in Corners(F) /\ 3 * x + 1 \in Corners(F) /\ 3 * x + 2 \in Corners(F)
    <3> HIDE DEF x
    <3> QED
      BY <1>0, <2>3 DEF Corners
  <2>5. s \in AllCorners
    BY <1>0
  <2>6. e \in {s, NextCorner(s), PreviousCorner(s)}
    BY <1>0, <2>2, <2>5, CornersOfOneFace
  <2> HIDE DEF x
  <2>7. /\ Face(3 * x) + 1 = i /\ (3 * x) % 3 = 0
        /\ Face(3 * x + 1) + 1 = i /\ (3 * x + 1) % 3 = 1
        /\ Face(3 * x + 2) + 1 = i /\ (3 * x + 2) % 3 = 2
    BY <2>3, PlacesInAFace
  <2>8. SourceCorner(3 * x) = s
    <3> DEFINE c == 3 * x
    <3>1. c \in Corners(F) /\ Face(c) + 1 = i /\ c % 3 = 0
      BY <2>4, <2>7
    <3> HIDE DEF c
    <3> QED
      BY <3>1, DecodedCornerIs DEF c
  <2>9. SourceCorner(3 * x + 1) = NextCorner(s)
    <3> DEFINE c == 3 * x + 1
    <3>1. c \in Corners(F) /\ Face(c) + 1 = i /\ c % 3 = 1
      BY <2>4, <2>7
    <3> HIDE DEF c
    <3> QED
      BY <3>1, DecodedCornerIs DEF c
  <2>10. SourceCorner(3 * x + 2) = PreviousCorner(s)
    <3> DEFINE c == 3 * x + 2
    <3>1. c \in Corners(F) /\ Face(c) + 1 = i /\ c % 3 = 2
      BY <2>4, <2>7
    <3> HIDE DEF c
    <3> QED
      BY <3>1, DecodedCornerIs DEF c
  <2> QED
    BY <2>4, <2>6, <2>8, <2>9, <2>10
<1> QED
  BY <1>1, <1>2, <1>3

(* The swings of a corner, by the edges they cross.                        *)
LEMMA SwingsOverEdges ==
  ASSUME NEW F \in Nat, NEW o, IsTable(o, Corners(F)), NEW c \in Corners(F)
  PROVE  /\ o[NextCorner(c)] # NoCorner =>
              /\ o[NextCorner(c)] \in Corners(F) /\ NextCorner(o[NextCorner(c)]) \in Corners(F)
              /\ SwingLeft(o, c) = NextCorner(o[NextCorner(c)])
         /\ o[NextCorner(c)] = NoCorner => SwingLeft(o, c) = NoCorner
         /\ o[PreviousCorner(c)] # NoCorner =>
              /\ o[PreviousCorner(c)] \in Corners(F) /\ PreviousCorner(o[PreviousCorner(c)]) \in Corners(F)
              /\ SwingRight(o, c) = PreviousCorner(o[PreviousCorner(c)])
         /\ o[PreviousCorner(c)] = NoCorner => SwingRight(o, c) = NoCorner
BY FanNeighbours

(* Two tables of one shape have the same fans.                             *)
LEMMA FansOfOneShape ==
  ASSUME NEW F \in Nat, NEW o, IsTable(o, Corners(F)), NEW T, IsTable(T, Corners(F)),
         NEW s \in [Corners(F) -> Corners(F)],
         \A c, d \in Corners(F) : s[c] = s[d] => c = d,
         \A e \in Corners(F) : \E c \in Corners(F) : s[c] = e,
         \A c \in Corners(F) :
           /\ s[NextCorner(c)] = NextCorner(s[c])
           /\ s[PreviousCorner(c)] = PreviousCorner(s[c])
           /\ T[c] = NoCorner <=> o[s[c]] = NoCorner
           /\ T[c] # NoCorner => s[T[c]] = o[s[c]]
  PROVE  \A c, d \in Corners(F) : d \in FanCorners(T, c) <=> s[d] \in FanCorners(o, s[c])
<1> DEFINE D == Corners(F)
<1>0. D \in SUBSET Nat /\ NoCorner < 0
  BY CornersAreFinite DEF NoCorner
<1>1. \A c \in D :
        /\ SwingLeft(T, c) = NoCorner <=> SwingLeft(o, s[c]) = NoCorner
        /\ SwingRight(T, c) = NoCorner <=> SwingRight(o, s[c]) = NoCorner
        /\ SwingLeft(T, c) # NoCorner => SwingLeft(T, c) \in D /\ s[SwingLeft(T, c)] = SwingLeft(o, s[c])
        /\ SwingRight(T, c) # NoCorner => SwingRight(T, c) \in D /\ s[SwingRight(T, c)] = SwingRight(o, s[c])
  <2> TAKE c \in D
  <2> DEFINE n == NextCorner(c)
             p == PreviousCorner(c)
  <2>1. n \in D /\ p \in D /\ s[c] \in D
    BY CornerArithmetic
  <2>2. /\ T[n] # NoCorner => T[n] \in D /\ NextCorner(T[n]) \in D /\ SwingLeft(T, c) = NextCorner(T[n])
        /\ T[n] = NoCorner => SwingLeft(T, c) = NoCorner
        /\ T[p] # NoCorner => T[p] \in D /\ PreviousCorner(T[p]) \in D /\ SwingRight(T, c) = PreviousCorner(T[p])
        /\ T[p] = NoCorner => SwingRight(T, c) = NoCorner
    BY SwingsOverEdges
  <2>3. /\ o[NextCorner(s[c])] # NoCorner =>
             o[NextCorner(s[c])] \in D /\ SwingLeft(o, s[c]) = NextCorner(o[NextCorner(s[c])])
             /\ NextCorner(o[NextCorner(s[c])]) \in D
        /\ o[NextCorner(s[c])] = NoCorner => SwingLeft(o, s[c]) = NoCorner
        /\ o[PreviousCorner(s[c])] # NoCorner =>
             o[PreviousCorner(s[c])] \in D /\ SwingRight(o, s[c]) = PreviousCorner(o[PreviousCorner(s[c])])
             /\ PreviousCorner(o[PreviousCorner(s[c])]) \in D
        /\ o[PreviousCorner(s[c])] = NoCorner => SwingRight(o, s[c]) = NoCorner
    BY <2>1, SwingsOverEdges
  <2>4. /\ s[n] = NextCorner(s[c]) /\ s[p] = PreviousCorner(s[c])
        /\ T[n] = NoCorner <=> o[s[n]] = NoCorner
        /\ T[p] = NoCorner <=> o[s[p]] = NoCorner
        /\ T[n] # NoCorner => s[T[n]] = o[s[n]] /\ s[NextCorner(T[n])] = NextCorner(s[T[n]])
        /\ T[p] # NoCorner => s[T[p]] = o[s[p]] /\ s[PreviousCorner(T[p])] = PreviousCorner(s[T[p]])
    BY <2>1, <2>2
  <2>5. NoCorner \notin D
    BY <1>0
  <2> HIDE DEF n, p, D
  <2> QED
    BY <2>2, <2>3, <2>4, <2>5
<1>2. \A c \in D : /\ SwingLeft(T, c) \in D \cup {NoCorner} /\ SwingRight(T, c) \in D \cup {NoCorner}
                   /\ SwingLeft(o, c) \in D \cup {NoCorner} /\ SwingRight(o, c) \in D \cup {NoCorner}
  BY SwingsAreInverse
<1>3. \A x \in D \cup {NoCorner} : x >= 0 <=> x # NoCorner
  <2> HIDE DEF D
  <2> QED
    BY <1>0 DEF NoCorner
<1> TAKE c, d \in D
<1>4. s[c] \in D /\ s[d] \in D
  OBVIOUS
<1>5. d \in FanCorners(T, c) => s[d] \in FanCorners(o, s[c])
  <2> DEFINE P == {e \in D : s[e] \in FanCorners(o, s[c])}
  <2>1. KeepsSwings(o, FanCorners(o, s[c])) /\ s[c] \in FanCorners(o, s[c])
    BY <1>4, FanKeepsSwings
  <2>2. \A e \in P : /\ SwingLeft(T, e) >= 0 => SwingLeft(T, e) \in P
                     /\ SwingRight(T, e) >= 0 => SwingRight(T, e) \in P
    BY <1>1, <1>2, <1>3, <2>1 DEF KeepsSwings
  <2>3. KeepsSwings(T, P) /\ c \in P
    BY <2>1, <2>2 DEF KeepsSwings
  <2>4. FanCorners(T, c) \subseteq P
    BY <2>3, FanIsLeast
  <2> QED
    BY <2>4
<1>6. s[d] \in FanCorners(o, s[c]) => d \in FanCorners(T, c)
  <2> DEFINE P == {s[e] : e \in FanCorners(T, c)}
  <2>1. KeepsSwings(T, FanCorners(T, c)) /\ c \in FanCorners(T, c) /\ FanCorners(T, c) \subseteq D
    BY FanKeepsSwings
  <2>2. \A e \in FanCorners(T, c) :
          /\ SwingLeft(o, s[e]) >= 0 => SwingLeft(o, s[e]) \in P
          /\ SwingRight(o, s[e]) >= 0 => SwingRight(o, s[e]) \in P
    <3> TAKE e \in FanCorners(T, c)
    <3>1. e \in D /\ s[e] \in D
      BY <2>1
    <3>2. /\ SwingLeft(T, e) # NoCorner => SwingLeft(T, e) \in FanCorners(T, c)
          /\ SwingRight(T, e) # NoCorner => SwingRight(T, e) \in FanCorners(T, c)
      BY <1>2, <1>3, <2>1, <3>1 DEF KeepsSwings
    <3> QED
      BY <1>1, <1>2, <1>3, <3>1, <3>2
  <2>3. KeepsSwings(o, P) /\ s[c] \in P
    BY <2>1, <2>2 DEF KeepsSwings
  <2>4. FanCorners(o, s[c]) \subseteq P
    BY <1>4, <2>3, FanIsLeast
  <2> QED
    BY <2>1, <2>4
<1> QED
  BY <1>5, <1>6

(* The whole mesh in the decoder's numbering: what the decoder builds.     *)
WholeTable ==
  [c \in Corners(numEncodedFaces) |->
     IF opposite[SourceCorner(c)] = NoCorner THEN NoCorner
     ELSE CHOOSE d \in Corners(numEncodedFaces) : SourceCorner(d) = opposite[SourceCorner(c)]]

(* It has the shape of the source table.                                   *)
LEMMA WholeTableIsSent ==
  ASSUME Sent
  PROVE  /\ IsTable(WholeTable, Corners(numEncodedFaces))
         /\ \A c \in Corners(numEncodedFaces) :
              /\ WholeTable[c] = NoCorner <=> opposite[SourceCorner(c)] = NoCorner
              /\ WholeTable[c] # NoCorner =>
                   WholeTable[c] \in Corners(numEncodedFaces)
                   /\ SourceCorner(WholeTable[c]) = opposite[SourceCorner(c)]
         /\ \A c, d \in Corners(numEncodedFaces) :
              WholeTable[c] = d <=> opposite[SourceCorner(c)] = SourceCorner(d)
<1> DEFINE D == Corners(numEncodedFaces)
           T == WholeTable
<1>0. /\ AllCorners = D /\ D \in SUBSET Nat /\ IsTable(opposite, D) /\ NoCorner \notin D
      /\ \A x, y \in D : opposite[x] = y => opposite[y] = x
  BY SentInHand, TableInUse
<1>1. \A c \in D : SourceCorner(c) \in D
  BY <1>0, SourceCornersTurn
<1>2. /\ \A c, d \in D : SourceCorner(c) = SourceCorner(d) => c = d
      /\ \A e \in D : \E c \in D : SourceCorner(c) = e
  BY <1>0, SourceCornersAreOne
<1>3. \A x \in D : opposite[x] = NoCorner \/ opposite[x] \in D
  BY <1>0 DEF IsTable
<1>4. \A c \in D :
        /\ opposite[SourceCorner(c)] = NoCorner => T[c] = NoCorner
        /\ opposite[SourceCorner(c)] # NoCorner => T[c] \in D /\ SourceCorner(T[c]) = opposite[SourceCorner(c)]
  <2> TAKE c \in D
  <2>1. T[c] = IF opposite[SourceCorner(c)] = NoCorner THEN NoCorner
               ELSE CHOOSE d \in D : SourceCorner(d) = opposite[SourceCorner(c)]
    BY DEF WholeTable
  <2>2. opposite[SourceCorner(c)] # NoCorner => \E d \in D : SourceCorner(d) = opposite[SourceCorner(c)]
    BY <1>1, <1>2, <1>3
  <2> QED
    BY <2>1, <2>2
<1>5. DOMAIN T = D /\ T = [c \in D |-> T[c]]
  BY DEF WholeTable
<1> HIDE DEF T, D
<1>6. \A c, d \in D : T[c] = d <=> opposite[SourceCorner(c)] = SourceCorner(d)
  <2> TAKE c, d \in D
  <2>1. SourceCorner(d) \in D /\ SourceCorner(c) \in D
    BY <1>1
  <2>2. SourceCorner(d) # NoCorner /\ d # NoCorner
    BY <1>0, <2>1
  <2>3. CASE opposite[SourceCorner(c)] = NoCorner
    BY <1>4, <2>2, <2>3
  <2>4. CASE opposite[SourceCorner(c)] # NoCorner
    <3>1. T[c] \in D /\ SourceCorner(T[c]) = opposite[SourceCorner(c)]
      BY <1>4, <2>4
    <3> QED
      BY <1>2, <3>1
  <2> QED
    BY <2>3, <2>4
<1>7. \A c \in D : T[c] # NoCorner => /\ T[c] \in D /\ T[c] # c /\ T[T[c]] = c
  <2> SUFFICES ASSUME NEW c \in D, T[c] # NoCorner
               PROVE  T[c] \in D /\ T[c] # c /\ T[T[c]] = c
    OBVIOUS
  <2>1. T[c] \in D /\ SourceCorner(T[c]) = opposite[SourceCorner(c)]
    BY <1>4
  <2>2. opposite[SourceCorner(T[c])] = SourceCorner(c)
    BY <1>0, <1>1, <2>1
  <2>3. T[T[c]] = c
    BY <1>6, <2>1, <2>2
  <2>4. opposite[SourceCorner(c)] # SourceCorner(c)
    <3>1. \A x \in D : opposite[x] # NoCorner => opposite[x] # x
      BY <1>0 DEF IsTable, IsPairing
    <3>2. opposite[SourceCorner(c)] # NoCorner
      BY <1>4
    <3> QED
      BY <1>1, <3>1, <3>2
  <2> QED
    BY <2>1, <2>3, <2>4
<1>8. T \in [D -> D \cup {NoCorner}]
  <2>1. \A c \in D : T[c] \in D \cup {NoCorner}
    BY <1>7
  <2> QED
    BY <1>5, <2>1
<1>9. IsTable(T, D)
  BY <1>5, <1>7, <1>8 DEF IsTable, IsPairing
<1>10. \A c \in D : T[c] = NoCorner <=> opposite[SourceCorner(c)] = NoCorner
  BY <1>0, <1>4
<1> QED
  BY <1>4, <1>6, <1>9, <1>10 DEF T, D

(* Its fans are the source's vertices, and it is whole.                    *)
LEMMA WholeTableIsWhole ==
  ASSUME Sent
  PROVE  /\ IsWhole(WholeTable, numEncodedFaces)
         /\ \A c, d \in Corners(numEncodedFaces) :
              d \in FanCorners(WholeTable, c) <=> SourceVertex(c) = SourceVertex(d)
<1> DEFINE F == numEncodedFaces
           D == Corners(F)
           T == WholeTable
           s == [c \in D |-> SourceCorner(c)]
<1>0. /\ F \in Nat /\ AllCorners = D /\ IsTable(opposite, D) /\ TableIsReady /\ TableIsFull
      /\ \A x, y \in D : cornerVertex[y] = cornerVertex[x] <=> y \in FanCorners(opposite, x)
  BY SentInHand, TableInUse
<1>1. \A c \in D : /\ SourceCorner(c) \in D /\ NextCorner(c) \in D /\ PreviousCorner(c) \in D
                   /\ SourceCorner(NextCorner(c)) = NextCorner(SourceCorner(c))
                   /\ SourceCorner(PreviousCorner(c)) = PreviousCorner(SourceCorner(c))
  BY <1>0, SourceCornersTurn
<1>2. /\ IsTable(T, D)
      /\ \A c \in D : /\ T[c] = NoCorner <=> opposite[SourceCorner(c)] = NoCorner
                      /\ T[c] # NoCorner => T[c] \in D /\ SourceCorner(T[c]) = opposite[SourceCorner(c)]
  BY WholeTableIsSent
<1>3. \A c, d \in D : d \in FanCorners(T, c) <=> s[d] \in FanCorners(opposite, s[c])
  <2>1. \A c \in D : s[c] = SourceCorner(c)
    OBVIOUS
  <2>2. s \in [D -> D]
    BY <1>1
  <2> HIDE DEF s
  <2>3. /\ \A c, d \in D : s[c] = s[d] => c = d
        /\ \A e \in D : \E c \in D : s[c] = e
    BY <1>0, <2>1, SourceCornersAreOne
  <2>4. \A c \in D : /\ s[NextCorner(c)] = NextCorner(s[c])
                     /\ s[PreviousCorner(c)] = PreviousCorner(s[c])
                     /\ T[c] = NoCorner <=> opposite[s[c]] = NoCorner
                     /\ T[c] # NoCorner => s[T[c]] = opposite[s[c]]
    BY <1>1, <1>2, <2>1
  <2> HIDE DEF T
  <2> QED
    BY <1>0, <1>2, <2>2, <2>3, <2>4, FansOfOneShape
<1>4. \A c, d \in D : d \in FanCorners(T, c) <=> SourceVertex(c) = SourceVertex(d)
  <2> TAKE c, d \in D
  <2>1. s[c] = SourceCorner(c) /\ s[d] = SourceCorner(d) /\ s[c] \in D /\ s[d] \in D
    BY <1>1
  <2> HIDE DEF s, T
  <2> QED
    BY <1>0, <1>3, <2>1 DEF SourceVertex
<1>5. \A c \in D : T[c] # NoCorner => Face(T[c]) # Face(c)
  <2> SUFFICES ASSUME NEW c \in D, T[c] # NoCorner
               PROVE  Face(T[c]) # Face(c)
    OBVIOUS
  <2>1. T[c] \in D /\ SourceCorner(T[c]) = opposite[SourceCorner(c)] /\ opposite[SourceCorner(c)] # NoCorner
    BY <1>2
  <2>2. Face(opposite[SourceCorner(c)]) # Face(SourceCorner(c))
    BY <1>0, <1>1, <2>1 DEF TableIsReady
  <2>3. Face(T[c]) = Face(c) => Face(SourceCorner(T[c])) = Face(SourceCorner(c))
    BY <2>1, SourceCornersAreOne
  <2> QED
    BY <2>1, <2>2, <2>3
<1>6. \A c \in D : NextCorner(c) \notin FanCorners(T, c)
  <2> TAKE c \in D
  <2>1. cornerVertex[SourceCorner(c)] # cornerVertex[NextCorner(SourceCorner(c))]
    BY <1>0, <1>1 DEF TableIsFull
  <2>2. SourceVertex(c) # SourceVertex(NextCorner(c))
    BY <1>1, <2>1 DEF SourceVertex
  <2> QED
    BY <1>1, <1>4, <2>2
<1> QED
  BY <1>2, <1>4, <1>5, <1>6 DEF IsWhole

(* The face of step i is decoded face NumSymbols - i.                      *)
LEMMA FaceOfStep ==
  ASSUME Sent, NEW x \in 0 .. NumSymbols - 1, NEW i, i = NumSymbols - x
  PROVE  /\ i \in Steps /\ i \in Nat /\ x \in Nat /\ x = NumSymbols - i
         /\ Walked(i) \in AllCorners /\ Walked(i) = processedCorners[x + 1]
         /\ 3 * x \in Corners(numEncodedFaces) /\ SourceCorner(3 * x) = Walked(i)
         /\ 3 * x + 1 \in Corners(numEncodedFaces) /\ SourceCorner(3 * x + 1) = NextCorner(Walked(i))
         /\ 3 * x + 2 \in Corners(numEncodedFaces) /\ SourceCorner(3 * x + 2) = PreviousCorner(Walked(i))
<1>0. /\ numEncodedFaces \in Nat /\ NumSymbols \in Nat /\ NumSymbols <= numEncodedFaces
      /\ processedCorners \in Seq(AllCorners) /\ phase = "written"
  BY SentInHand DEF Sent
<1>1. i \in Steps /\ i \in Nat /\ x \in Nat /\ x = NumSymbols - i /\ x \in 0 .. numEncodedFaces - 1
      /\ NumSymbols - i + 1 = x + 1
  BY <1>0 DEF Steps
<1>2. x + 1 \in DOMAIN processedCorners
  BY <1>1, EveryFaceIsSent
<1>3. Walked(i) = processedCorners[x + 1] /\ Walked(i) \in AllCorners
  BY <1>0, <1>1, <1>2 DEF Walked
<1>4. 3 * x \in Corners(numEncodedFaces) /\ 3 * x + 1 \in Corners(numEncodedFaces) /\ 3 * x + 2 \in Corners(numEncodedFaces)
  BY <1>0, <1>1 DEF Corners
<1>5. /\ Face(3 * x) = x /\ (3 * x) % 3 = 0
      /\ Face(3 * x + 1) = x /\ (3 * x + 1) % 3 = 1
      /\ Face(3 * x + 2) = x /\ (3 * x + 2) % 3 = 2
  BY <1>1, PlacesInAFace
<1>6. SourceCorner(3 * x) = Walked(i)
  <2> DEFINE c == 3 * x
  <2>1. c \in Corners(numEncodedFaces) /\ Face(c) = x /\ c % 3 = 0
    BY <1>4, <1>5
  <2> HIDE DEF c
  <2> QED
    BY <1>3, <2>1, DecodedCornerIs DEF c
<1>7. SourceCorner(3 * x + 1) = NextCorner(Walked(i))
  <2> DEFINE c == 3 * x + 1
  <2>1. c \in Corners(numEncodedFaces) /\ Face(c) = x /\ c % 3 = 1
    BY <1>4, <1>5
  <2> HIDE DEF c
  <2> QED
    BY <1>3, <2>1, DecodedCornerIs DEF c
<1>8. SourceCorner(3 * x + 2) = PreviousCorner(Walked(i))
  <2> DEFINE c == 3 * x + 2
  <2>1. c \in Corners(numEncodedFaces) /\ Face(c) = x /\ c % 3 = 2
    BY <1>4, <1>5
  <2> HIDE DEF c
  <2> QED
    BY <1>3, <2>1, DecodedCornerIs DEF c
<1> QED
  BY <1>1, <1>3, <1>4, <1>6, <1>7, <1>8

(* A corner lies below the first corner of face x when its face does.      *)
LEMMA BelowAFace ==
  ASSUME NEW F \in Nat, NEW c \in Corners(F), NEW x \in Nat
  PROVE  Face(c) < x <=> c < 3 * x
<1>1. c \in Nat
  BY CornersAreFinite
<1>2. /\ Face(c) \in Int /\ 3 * Face(c) <= c /\ c <= 3 * Face(c) + 2
  BY <1>1 DEF Face
<1> QED
  BY <1>1, <1>2

(* The faces that are gone once the encoder has taken a step are the ones  *)
(* the decoder has not built yet, its own included.                        *)
LEMMA OldFacesComeLater ==
  ASSUME Sent, NEW x \in 0 .. NumSymbols - 1, NEW i, i = NumSymbols - x,
         NEW c \in Corners(numEncodedFaces)
  PROVE  Face(SourceCorner(c)) \in Old(i) <=> ~ (c < 3 * x)
<1> DEFINE N == NumSymbols
           F == numEncodedFaces
           y == Face(c)
<1>0. /\ F \in Nat /\ N \in Nat /\ N <= F /\ initFaceCorners \in Seq(AllCorners)
      /\ \A q \in DOMAIN initFaceCorners : processedCorners[N + q] = initFaceCorners[q]
      /\ F = N + Len(initFaceCorners) /\ DOMAIN initFaceCorners = 1 .. Len(initFaceCorners)
      /\ phase = "written" /\ OncePerFace(processedCorners)
      /\ Len(processedCorners) = F /\ processedCorners \in Seq(AllCorners)
  BY SentInHand, EveryFaceIsSent DEF Sent
<1>1. i \in 1 .. N /\ i \in Nat /\ x \in Nat /\ x = N - i /\ i = N - x
  BY <1>0, FaceOfStep DEF Steps
<1>2. y \in 0 .. F - 1 /\ Face(SourceCorner(c)) = Face(processedCorners[y + 1])
  BY <1>0, DecodedCornerIs, SourceCornersTurn
<1>3. ~ (c < 3 * x) <=> ~ (y < x)
  BY <1>0, <1>1, BelowAFace
<1>4. DOMAIN processedCorners = 1 .. F
  BY <1>0
<1> DEFINE g(h) == Face(processedCorners[h])
<1>5. \A h \in 1 .. i : Face(Walked(h)) = g(N - h + 1)
  BY <1>0, <1>1 DEF Walked
<1>6. \A q \in DOMAIN initFaceCorners : Face(initFaceCorners[q]) = g(N + q)
  BY <1>0
<1>7. \A h, k \in 1 .. F : g(h) = g(k) => h = k
  BY <1>0, <1>4 DEF OncePerFace
<1> HIDE DEF g, y
<1>8. Face(SourceCorner(c)) \in Old(i) => ~ (y < x)
  <2>1. CASE \E h \in 1 .. i : Face(SourceCorner(c)) = Face(Walked(h))
    <3>1. PICK h \in 1 .. i : Face(SourceCorner(c)) = Face(Walked(h))
      BY <2>1
    <3>2. N - h + 1 \in 1 .. F /\ y + 1 \in 1 .. F
      BY <1>0, <1>1, <1>2
    <3>3. g(y + 1) = g(N - h + 1)
      BY <1>2, <1>5, <3>1 DEF g
    <3>4. y + 1 = N - h + 1
      BY <1>7, <3>2, <3>3
    <3> QED
      BY <1>0, <1>1, <1>2, <3>4
  <2>2. CASE Face(SourceCorner(c)) \in FacesOf(initFaceCorners)
    <3>1. PICK q \in DOMAIN initFaceCorners : Face(SourceCorner(c)) = Face(initFaceCorners[q])
      BY <2>2 DEF FacesOf
    <3>2. N + q \in 1 .. F /\ y + 1 \in 1 .. F
      BY <1>0, <1>1, <1>2
    <3>3. g(y + 1) = g(N + q)
      BY <1>2, <1>6, <3>1 DEF g
    <3>4. y + 1 = N + q
      BY <1>7, <3>2, <3>3
    <3> QED
      BY <1>0, <1>1, <1>2, <3>4
  <2> QED
    BY <2>1, <2>2 DEF Old
<1>9. ~ (y < x) => Face(SourceCorner(c)) \in Old(i)
  <2>1. CASE ~ (y < x) /\ y < N
    <3> DEFINE h == N - y
    <3>1. h \in 1 .. i /\ N - h + 1 = y + 1
      BY <1>0, <1>1, <1>2, <2>1
    <3> HIDE DEF h
    <3>2. Face(SourceCorner(c)) = Face(Walked(h))
      BY <1>2, <1>5, <3>1 DEF g
    <3> QED
      BY <3>1, <3>2 DEF Old
  <2>2. CASE ~ (y < N)
    <3> DEFINE q == y + 1 - N
    <3>1. q \in DOMAIN initFaceCorners /\ N + q = y + 1
      BY <1>0, <1>2, <2>2
    <3> HIDE DEF q
    <3>2. Face(SourceCorner(c)) = Face(initFaceCorners[q])
      BY <1>2, <1>6, <3>1 DEF g
    <3> QED
      BY <3>1, <3>2 DEF Old, FacesOf
  <2> QED
    BY <2>1, <2>2
<1> QED
  BY <1>3, <1>8, <1>9

(* So are the faces the encoder started from.                              *)
LEMMA InitFacesComeLast ==
  ASSUME Sent, NEW c \in Corners(numEncodedFaces)
  PROVE  Face(SourceCorner(c)) \in FacesOf(initFaceCorners) <=> ~ (c < 3 * NumSymbols)
<1> DEFINE N == NumSymbols
           F == numEncodedFaces
           y == Face(c)
           g(h) == Face(processedCorners[h])
<1>0. /\ F \in Nat /\ N \in Nat /\ N <= F /\ initFaceCorners \in Seq(AllCorners)
      /\ \A q \in DOMAIN initFaceCorners : processedCorners[N + q] = initFaceCorners[q]
      /\ F = N + Len(initFaceCorners) /\ DOMAIN initFaceCorners = 1 .. Len(initFaceCorners)
      /\ OncePerFace(processedCorners)
      /\ Len(processedCorners) = F /\ processedCorners \in Seq(AllCorners)
  BY SentInHand, EveryFaceIsSent DEF Sent
<1>2. y \in 0 .. F - 1 /\ Face(SourceCorner(c)) = g(y + 1)
  BY <1>0, DecodedCornerIs, SourceCornersTurn
<1>3. ~ (c < 3 * N) <=> ~ (y < N)
  BY <1>0, BelowAFace
<1>4. \A q \in DOMAIN initFaceCorners : Face(initFaceCorners[q]) = g(N + q)
  BY <1>0
<1>5. \A h, k \in 1 .. F : g(h) = g(k) => h = k
  BY <1>0 DEF OncePerFace
<1> HIDE DEF g, y
<1>6. Face(SourceCorner(c)) \in FacesOf(initFaceCorners) => ~ (y < N)
  <2> SUFFICES ASSUME NEW q \in DOMAIN initFaceCorners, Face(SourceCorner(c)) = Face(initFaceCorners[q])
               PROVE  ~ (y < N)
    BY DEF FacesOf
  <2>1. N + q \in 1 .. F /\ y + 1 \in 1 .. F
    BY <1>0, <1>2
  <2>2. g(y + 1) = g(N + q)
    BY <1>2, <1>4
  <2>3. y + 1 = N + q
    BY <1>5, <2>1, <2>2
  <2> QED
    BY <1>0, <1>2, <2>3
<1>7. ~ (y < N) => Face(SourceCorner(c)) \in FacesOf(initFaceCorners)
  <2> SUFFICES ASSUME ~ (y < N)
               PROVE  Face(SourceCorner(c)) \in FacesOf(initFaceCorners)
    OBVIOUS
  <2> DEFINE q == y + 1 - N
  <2>1. q \in DOMAIN initFaceCorners /\ N + q = y + 1
    BY <1>0, <1>2
  <2> HIDE DEF q
  <2>2. Face(SourceCorner(c)) = Face(initFaceCorners[q])
    BY <1>2, <1>4, <2>1
  <2> QED
    BY <2>1, <2>2 DEF FacesOf
<1> QED
  BY <1>3, <1>6, <1>7

(* A set of the mesh's faces that the decoder builds from corner m on.     *)
ComesFrom(X, m) ==
  \A c \in Corners(numEncodedFaces) : Face(SourceCorner(c)) \in X <=> ~ (c < m)

(* An edge leads nowhere for the encoder when the decoder's edge leads to  *)
(* no older face.                                                          *)
LEMMA NowhereIsNotOld ==
  ASSUME Sent, NEW X, NEW m, ComesFrom(X, m), m \in Nat, NEW c \in Corners(numEncodedFaces)
  PROVE  LeadsNowhere(opposite[SourceCorner(c)], X) <=> ~ IsOld(WholeTable[c], m)
<1>1. /\ WholeTable[c] = NoCorner <=> opposite[SourceCorner(c)] = NoCorner
      /\ WholeTable[c] # NoCorner => WholeTable[c] \in Corners(numEncodedFaces)
                                     /\ SourceCorner(WholeTable[c]) = opposite[SourceCorner(c)]
  BY WholeTableIsSent
<1>2. Corners(numEncodedFaces) \in SUBSET Nat
  BY SentInHand, CornersAreFinite
<1>3. CASE WholeTable[c] = NoCorner
  <2>1. ~ IsOld(WholeTable[c], m)
    BY <1>3 DEF IsOld, NoCorner
  <2> QED
    BY <1>1, <1>3, <2>1 DEF LeadsNowhere
<1>4. CASE WholeTable[c] # NoCorner
  <2>1. WholeTable[c] \in Nat
    BY <1>1, <1>2, <1>4
  <2>2. IsOld(WholeTable[c], m) <=> WholeTable[c] < m
    BY <2>1 DEF IsOld
  <2>3. Face(opposite[SourceCorner(c)]) \in X <=> ~ (WholeTable[c] < m)
    BY <1>1, <1>4 DEF ComesFrom
  <2> QED
    BY <1>1, <1>4, <2>2, <2>3 DEF LeadsNowhere
<1> QED
  BY <1>3, <1>4

(* A vertex is fresh for the encoder when the decoder has built all of its *)
(* faces but the one.                                                      *)
LEMMA FreshIsRingDone ==
  ASSUME Sent, NEW X, NEW m, ComesFrom(X, m), m \in Nat, NEW g \in Corners(numEncodedFaces)
  PROVE  IsFresh(SourceCorner(g), X) <=> RingDone(WholeTable, g, m)
<1> DEFINE D == Corners(numEncodedFaces)
           T == WholeTable
<1>0. /\ TableIsReady /\ TableIsFull /\ AllCorners = D
      /\ D \in SUBSET Nat
  BY SentInHand, CornersAreFinite
<1>1. \A c \in D :
        /\ SourceCorner(c) \in D /\ NextCorner(c) \in D /\ PreviousCorner(c) \in D
        /\ SourceCorner(NextCorner(c)) = NextCorner(SourceCorner(c))
        /\ SourceCorner(PreviousCorner(c)) = PreviousCorner(SourceCorner(c))
        /\ T[c] = NoCorner <=> opposite[SourceCorner(c)] = NoCorner
  BY <1>0, SourceCornersTurn, WholeTableIsSent
<1>2. /\ \A c, d \in D : SourceCorner(c) = SourceCorner(d) => c = d
      /\ \A e \in D : \E c \in D : SourceCorner(c) = e
  BY <1>0, SourceCornersAreOne
<1>3. /\ \A c \in D : c \in FanCorners(T, g) <=> cornerVertex[SourceCorner(g)] = cornerVertex[SourceCorner(c)]
      /\ FanCorners(T, g) \subseteq D
  <2>1. IsTable(T, D) /\ numEncodedFaces \in Nat
    BY WholeTableIsWhole, SentInHand DEF IsWhole
  <2>2. FanCorners(T, g) \subseteq D
    BY <2>1, FanKeepsSwings
  <2> QED
    BY <2>2, WholeTableIsWhole DEF SourceVertex
<1> HIDE DEF T
<1>4. ASSUME IsFresh(SourceCorner(g), X)
      PROVE  RingDone(T, g, m)
  <2> SUFFICES ASSUME NEW d \in FanCorners(T, g)
               PROVE  /\ d < m \/ d = g
                      /\ T[NextCorner(d)] # NoCorner /\ T[PreviousCorner(d)] # NoCorner
    BY DEF RingDone
  <2>1. d \in D /\ cornerVertex[SourceCorner(d)] = cornerVertex[SourceCorner(g)]
    BY <1>3
  <2>2. vertexHoleID[cornerVertex[SourceCorner(d)]] = -1
    BY <1>4, <2>1 DEF IsFresh
  <2>3. opposite[NextCorner(SourceCorner(d))] # NoCorner /\ opposite[PreviousCorner(SourceCorner(d))] # NoCorner
    BY <1>0, <1>1, <2>1, <2>2, InteriorVertex
  <2>4. T[NextCorner(d)] # NoCorner /\ T[PreviousCorner(d)] # NoCorner
    BY <1>1, <2>1, <2>3
  <2>5. d # g => d < m
    <3> SUFFICES ASSUME d # g PROVE d < m
      OBVIOUS
    <3>1. SourceCorner(d) # SourceCorner(g) /\ SourceCorner(d) \in AllCorners /\ SourceCorner(g) \in AllCorners
      BY <1>0, <1>1, <1>2, <2>1
    <3>2. Face(SourceCorner(d)) # Face(SourceCorner(g))
      BY <1>0, <2>1, <3>1, OneCornerOfAFace
    <3>3. SourceCorner(d) \in Around(SourceCorner(g))
      BY <2>1, <3>1, <3>2 DEF Around
    <3>4. Face(SourceCorner(d)) \notin X
      BY <1>4, <3>3 DEF IsFresh
    <3> QED
      BY <2>1, <3>4 DEF ComesFrom
  <2> QED
    BY <2>4, <2>5
<1>5. ASSUME RingDone(T, g, m)
      PROVE  IsFresh(SourceCorner(g), X)
  <2>1. vertexHoleID[cornerVertex[SourceCorner(g)]] = -1
    <3> SUFFICES ASSUME vertexHoleID[cornerVertex[SourceCorner(g)]] # -1
                 PROVE  FALSE
      OBVIOUS
    <3> DEFINE v == cornerVertex[SourceCorner(g)]
    <3>0. v \in VertexIDs
      BY <1>0, <1>1, ManifoldCorners, TableInUse
    <3>1. PICK e \in AllCorners : cornerVertex[e] = v /\ opposite[PreviousCorner(e)] = NoCorner
      <4> HIDE DEF v
      <4>1. vertexHoleID[v] # -1
        BY DEF v
      <4> QED
        BY <1>0, <3>0, <4>1, BoundaryVertex
    <3>2. PICK d \in D : SourceCorner(d) = e
      BY <1>0, <1>2
    <3>3. d \in FanCorners(T, g) /\ T[PreviousCorner(d)] = NoCorner
      BY <1>1, <1>3, <3>1, <3>2
    <3> QED
      BY <1>5, <3>3 DEF RingDone
  <2>2. ASSUME NEW e \in Around(SourceCorner(g)) PROVE Face(e) \notin X
    <3>1. e \in AllCorners /\ cornerVertex[e] = cornerVertex[SourceCorner(g)] /\ Face(e) # Face(SourceCorner(g))
      BY <2>2 DEF Around
    <3>2. PICK d \in D : SourceCorner(d) = e
      BY <1>0, <1>2, <3>1
    <3>3. d \in FanCorners(T, g) /\ d # g
      BY <1>3, <3>1, <3>2
    <3>4. d < m
      BY <1>5, <3>3 DEF RingDone
    <3> QED
      BY <3>2, <3>4 DEF ComesFrom
  <2> QED
    BY <2>1, <2>2 DEF IsFresh
<1> QED
  BY <1>4, <1>5 DEF T

SymbolAt(x) == symbols[NumSymbols - x]
SymbolFaces == 0 .. NumSymbols - 1

(* The edges of a step, in the decoder's numbering.                        *)
LEMMA EdgesOfStep ==
  ASSUME Sent, NEW x \in SymbolFaces, NEW i, i = NumSymbols - x
  PROVE  /\ i \in Steps /\ x \in Nat /\ i \in Nat
         /\ 3 * x \in Corners(numEncodedFaces) /\ 3 * x + 1 \in Corners(numEncodedFaces)
         /\ 3 * x + 2 \in Corners(numEncodedFaces)
         /\ SourceCorner(3 * x) = Walked(i)
         /\ \A d \in Corners(numEncodedFaces) :
              /\ WholeTable[3 * x] = d <=> opposite[Walked(i)] = SourceCorner(d)
              /\ WholeTable[3 * x + 1] = d <=> RightOf(i) = SourceCorner(d)
              /\ WholeTable[3 * x + 2] = d <=> LeftOf(i) = SourceCorner(d)
              /\ WholeTable[d] = 3 * x <=> opposite[SourceCorner(d)] = Walked(i)
              /\ WholeTable[d] = 3 * x => WholeTable[3 * x] = d
              /\ WholeTable[d] = 3 * x + 1 <=> WholeTable[3 * x + 1] = d
              /\ WholeTable[d] = 3 * x + 2 <=> WholeTable[3 * x + 2] = d
<1>1. /\ i \in Steps /\ i \in Nat /\ x \in Nat
      /\ 3 * x \in Corners(numEncodedFaces) /\ SourceCorner(3 * x) = Walked(i)
      /\ 3 * x + 1 \in Corners(numEncodedFaces) /\ SourceCorner(3 * x + 1) = NextCorner(Walked(i))
      /\ 3 * x + 2 \in Corners(numEncodedFaces) /\ SourceCorner(3 * x + 2) = PreviousCorner(Walked(i))
  BY FaceOfStep DEF SymbolFaces
<1>2. \A c, d \in Corners(numEncodedFaces) :
        WholeTable[c] = d <=> opposite[SourceCorner(c)] = SourceCorner(d)
  BY WholeTableIsSent
<1>3. \A c, d \in Corners(numEncodedFaces) : WholeTable[c] = d => WholeTable[d] = c
  <2>1. IsPairing(WholeTable) /\ DOMAIN WholeTable = Corners(numEncodedFaces)
    BY WholeTableIsSent DEF IsTable
  <2>2. NoCorner \notin Corners(numEncodedFaces)
    BY DEF Corners, NoCorner
  <2> QED
    BY <2>1, <2>2 DEF IsPairing
<1> DEFINE p == 3 * x
           q == 3 * x + 1
           r == 3 * x + 2
<1>4. /\ p \in Corners(numEncodedFaces) /\ SourceCorner(p) = Walked(i)
      /\ q \in Corners(numEncodedFaces) /\ SourceCorner(q) = NextCorner(Walked(i))
      /\ r \in Corners(numEncodedFaces) /\ SourceCorner(r) = PreviousCorner(Walked(i))
  BY <1>1
<1> HIDE DEF p, q, r
<1>5. \A d \in Corners(numEncodedFaces) :
              /\ WholeTable[p] = d <=> opposite[Walked(i)] = SourceCorner(d)
              /\ WholeTable[q] = d <=> RightOf(i) = SourceCorner(d)
              /\ WholeTable[r] = d <=> LeftOf(i) = SourceCorner(d)
              /\ WholeTable[d] = p <=> opposite[SourceCorner(d)] = Walked(i)
              /\ WholeTable[d] = p => WholeTable[p] = d
              /\ WholeTable[d] = q <=> WholeTable[q] = d
              /\ WholeTable[d] = r <=> WholeTable[r] = d
  BY <1>2, <1>3, <1>4 DEF RightOf, LeftOf
<1> QED
  BY <1>1, <1>5 DEF p, q, r

(* What a symbol says of the face it stands for, to a reader who has built *)
(* the faces below corner m.                                               *)
Tells(s, T, m) ==
  /\ s \in TopologySymbols
  /\ ~ IsOld(T[m], m)
  /\ IsOld(T[m + 1], m) <=> s \in {"C", "L", "S"}
  /\ IsOld(T[m + 2], m) <=> s \in {"C", "R", "S"}
  /\ s = "C" => RingDone(T, m, m)
  /\ s = "S" => ~ RingDone(T, m, m)
  /\ s \in {"C", "L", "S"} => m >= 3 /\ T[m + 1] = m - 3
  /\ s = "R" => m >= 3 /\ T[m + 2] = m - 3

(* The facts of a finished walk.                                           *)
LEMMA WalkIsOver ==
  ASSUME Sent
  PROVE  /\ \A i \in Steps : Fits(symbols[i], Walked(i), Old(i)) /\ symbols[i] \in TopologySymbols
         /\ \A i \in Steps : symbols[i] # "E" => i < NumSymbols /\ Walked(i + 1) = NextStep(i)
         /\ BranchesNest /\ BitsAreOfRoots /\ InitFacesAreFree
         /\ EventsAreWritten /\ EventsAreTrue /\ VerticesAreCounted
         /\ Cardinality(Roots) = Len(startFaces)
         /\ visitedFaces = AllFaces /\ numEncodedVertices = Cardinality(StoredVertices)
<1>1. phase = "written" /\ TraceInv
  BY DEF Sent, TraceIsKept
<1>2. /\ SymbolsFit /\ BranchesNest /\ BitsAreOfRoots /\ RootIsAhead /\ InitFacesAreFree
      /\ EventsAreWritten /\ EventsAreTrue /\ VerticesAreCounted /\ OrderIsComplete
  BY <1>1 DEF TraceInv, WalkPhases
<1>3. ~ MidBranch /\ visitedFaces = AllFaces /\ numEncodedVertices = Cardinality(StoredVertices)
  BY <1>1, <1>2 DEF OrderIsComplete
<1>4. Cardinality(Roots) = Len(startFaces)
  BY <1>1, <1>2 DEF RootIsAhead, RootAhead
<1>5. /\ symbols \in Seq(TopologySymbols) /\ NumSymbols = Len(symbols) /\ NumSymbols \in Nat
  BY SentInHand
<1>6. \A i \in Steps : symbols[i] \in TopologySymbols
  BY <1>5 DEF Steps
<1>7. \A i \in Steps : symbols[i] # "E" => i < NumSymbols
  <2> TAKE i \in Steps
  <2>1. i \in Nat /\ i <= NumSymbols /\ NumSymbols > 0
    BY <1>5 DEF Steps
  <2>2. symbols[NumSymbols] = "E"
    BY <1>3, <2>1 DEF MidBranch
  <2> QED
    BY <1>5, <2>1, <2>2
<1> QED
  BY <1>2, <1>3, <1>4, <1>6, <1>7 DEF SymbolsFit

(* Every symbol tells the truth of its face.                               *)
LEMMA SymbolsTell ==
  ASSUME Sent, NEW x \in SymbolFaces
  PROVE  Tells(SymbolAt(x), WholeTable, 3 * x)
<1> DEFINE N == NumSymbols
           i == N - x
           m == 3 * x
           T == WholeTable
           s == symbols[i]
<1>0. N \in Nat /\ x \in Nat /\ x <= N - 1
  BY SentInHand DEF SymbolFaces
<1>1. /\ i \in Steps /\ i \in Nat /\ m \in Nat
      /\ m \in Corners(numEncodedFaces) /\ SourceCorner(m) = Walked(i)
      /\ m + 1 \in Corners(numEncodedFaces) /\ SourceCorner(m + 1) = NextCorner(Walked(i))
      /\ m + 2 \in Corners(numEncodedFaces) /\ SourceCorner(m + 2) = PreviousCorner(Walked(i))
  BY <1>0, FaceOfStep
<1>2. /\ Fits(s, Walked(i), Old(i)) /\ s \in TopologySymbols
      /\ s # "E" => i < N /\ Walked(i + 1) = NextStep(i)
  BY <1>1, WalkIsOver
<1>3. ComesFrom(Old(i), m)
  BY <1>0, OldFacesComeLater DEF ComesFrom
<1>4. SymbolAt(x) = s
  BY DEF SymbolAt
<1> HIDE DEF i, s
<1>5. /\ LeadsNowhere(opposite[Walked(i)], Old(i)) <=> ~ IsOld(T[m], m)
      /\ LeadsNowhere(opposite[NextCorner(Walked(i))], Old(i)) <=> ~ IsOld(T[m + 1], m)
      /\ LeadsNowhere(opposite[PreviousCorner(Walked(i))], Old(i)) <=> ~ IsOld(T[m + 2], m)
      /\ IsFresh(Walked(i), Old(i)) <=> RingDone(T, m, m)
  <2> HIDE DEF m, T
  <2>1. \A c \in Corners(numEncodedFaces) : LeadsNowhere(opposite[SourceCorner(c)], Old(i)) <=> ~ IsOld(T[c], m)
    BY <1>1, <1>3, NowhereIsNotOld DEF T
  <2>2. IsFresh(SourceCorner(m), Old(i)) <=> RingDone(T, m, m)
    BY <1>1, <1>3, FreshIsRingDone DEF T
  <2> QED
    BY <1>1, <2>1, <2>2
<1>6. s # "E" => m >= 3 /\ SourceCorner(m - 3) = NextStep(i) /\ m - 3 \in Corners(numEncodedFaces)
  <2> SUFFICES ASSUME s # "E" PROVE m >= 3 /\ SourceCorner(m - 3) = NextStep(i) /\ m - 3 \in Corners(numEncodedFaces)
    OBVIOUS
  <2>1. i < N /\ Walked(i + 1) = NextStep(i)
    BY <1>2
  <2> DEFINE y == x - 1
             h == i + 1
  <2>2. y \in 0 .. N - 1 /\ h = N - y /\ m - 3 = 3 * y /\ m >= 3
    BY <1>0, <2>1 DEF i
  <2> HIDE DEF y, h, m
  <2>3. 3 * y \in Corners(numEncodedFaces) /\ SourceCorner(3 * y) = Walked(h)
    BY <2>2, FaceOfStep
  <2> QED
    BY <2>1, <2>2, <2>3 DEF h
<1>7. /\ s \in {"C", "L", "S"} => T[m + 1] = m - 3
      /\ s = "R" => T[m + 2] = m - 3
  <2>1. \A c, d \in Corners(numEncodedFaces) : T[c] = d <=> opposite[SourceCorner(c)] = SourceCorner(d)
    BY WholeTableIsSent
  <2>2. /\ s \in {"C", "L", "S"} => NextStep(i) = opposite[NextCorner(Walked(i))]
        /\ s = "R" => NextStep(i) = opposite[PreviousCorner(Walked(i))]
    BY DEF s, NextStep, RightOf, LeftOf
  <2> DEFINE e == m - 3
             q == m + 1
             r == m + 2
  <2>3. /\ q \in Corners(numEncodedFaces) /\ SourceCorner(q) = NextCorner(Walked(i))
        /\ r \in Corners(numEncodedFaces) /\ SourceCorner(r) = PreviousCorner(Walked(i))
        /\ s # "E" => SourceCorner(e) = NextStep(i) /\ e \in Corners(numEncodedFaces)
    BY <1>1, <1>6
  <2> HIDE DEF e, q, r, T, m
  <2>4. /\ s \in {"C", "L", "S"} => T[q] = e
        /\ s = "R" => T[r] = e
    BY <2>1, <2>2, <2>3
  <2> QED
    BY <2>4 DEF e, q, r
<1> HIDE DEF m, T
<1>8. /\ LeadsNowhere(opposite[Walked(i)], Old(i))
      /\ LeadsNowhere(opposite[NextCorner(Walked(i))], Old(i)) <=> s \in {"R", "E"}
      /\ LeadsNowhere(opposite[PreviousCorner(Walked(i))], Old(i)) <=> s \in {"L", "E"}
      /\ s = "C" => IsFresh(Walked(i), Old(i))
      /\ s = "S" => ~ IsFresh(Walked(i), Old(i))
  BY <1>2 DEF Fits
<1>9. /\ s \in {"C", "L", "S"} <=> s \notin {"R", "E"}
      /\ s \in {"C", "R", "S"} <=> s \notin {"L", "E"}
      /\ s \in {"C", "L", "S"} => s # "E"
      /\ s = "R" => s # "E"
  BY <1>2 DEF TopologySymbols
<1> HIDE DEF T
<1>10. /\ ~ IsOld(T[m], m)
       /\ IsOld(T[m + 1], m) <=> s \in {"C", "L", "S"}
       /\ IsOld(T[m + 2], m) <=> s \in {"C", "R", "S"}
       /\ s = "C" => RingDone(T, m, m)
       /\ s = "S" => ~ RingDone(T, m, m)
  BY <1>5, <1>8, <1>9
<1>11. Tells(s, T, m)
  <2>1. /\ s \in {"C", "L", "S"} => m >= 3 /\ T[m + 1] = m - 3
        /\ s = "R" => m >= 3 /\ T[m + 2] = m - 3
    BY <1>6, <1>7, <1>9
  <2> QED
    BY <1>2, <1>10, <2>1 DEF Tells
<1> QED
  BY <1>4, <1>11 DEF m, T

(* The face a step left through is glued to the next one's first edge.     *)
LEMMA GateOfFace ==
  ASSUME Sent, NEW x \in SymbolFaces, ~ IsBranch(NumSymbols - x)
  PROVE  /\ x + 1 \in SymbolFaces
         /\ \/ SymbolAt(x + 1) = "R" /\ WholeTable[3 * x] = 3 * (x + 1) + 2
            \/ SymbolAt(x + 1) \in {"C", "L", "S"} /\ WholeTable[3 * x] = 3 * (x + 1) + 1
<1> DEFINE N == NumSymbols
           i == N - x
           y == x + 1
           T == WholeTable
<1>0. N \in Nat /\ x \in Nat /\ x <= N - 1 /\ i \in Steps
  BY SentInHand DEF SymbolFaces, Steps
<1>1. i # 1 /\ symbols[i - 1] # "E"
  BY <1>0 DEF IsBranch
<1>2. y \in SymbolFaces /\ N - y = i - 1 /\ y \in Nat /\ 3 * y - 3 = 3 * x /\ i - 1 \in Steps
  BY <1>0, <1>1 DEF SymbolFaces, Steps
<1>3. SymbolAt(y) # "E"
  BY <1>1, <1>2 DEF SymbolAt
<1> HIDE DEF y
<1>4. Tells(SymbolAt(y), T, 3 * y)
  BY <1>2, SymbolsTell
<1>5. /\ SymbolAt(y) \in {"C", "L", "S"} => T[3 * y + 1] = 3 * x
      /\ SymbolAt(y) = "R" => T[3 * y + 2] = 3 * x
      /\ SymbolAt(y) \in {"C", "L", "S", "R"}
  BY <1>2, <1>3, <1>4 DEF Tells, TopologySymbols
<1>6. 3 * x \in Corners(numEncodedFaces)
  BY EdgesOfStep
<1>7. \A d \in Corners(numEncodedFaces) :
        /\ T[d] = 3 * y + 1 <=> T[3 * y + 1] = d
        /\ T[d] = 3 * y + 2 <=> T[3 * y + 2] = d
  BY <1>2, EdgesOfStep
<1>8. /\ SymbolAt(y) \in {"C", "L", "S"} => T[3 * x] = 3 * y + 1
      /\ SymbolAt(y) = "R" => T[3 * x] = 3 * y + 2
  BY <1>5, <1>6, <1>7
<1>9. y \in SymbolFaces /\ \/ SymbolAt(y) = "R" /\ T[3 * x] = 3 * y + 2
                           \/ SymbolAt(y) \in {"C", "L", "S"} /\ T[3 * x] = 3 * y + 1
  BY <1>2, <1>5, <1>8
<1> QED
  BY <1>9 DEF y

(* A branch that waited on the stack is glued to the left of its S.        *)
LEMMA ChildIsGlued ==
  ASSUME Sent, NEW x \in SymbolFaces, NEW y \in SymbolFaces,
         IsChild(NumSymbols - x, NumSymbols - y)
  PROVE  SymbolAt(y) = "S" /\ WholeTable[3 * y + 2] = 3 * x /\ WholeTable[3 * x] = 3 * y + 2
<1> DEFINE j == NumSymbols - x
           h == NumSymbols - y
<1>1. symbols[h] = "S" /\ Walked(j) = LeftOf(h)
  BY DEF IsChild
<1>2. 3 * x \in Corners(numEncodedFaces) /\ SourceCorner(3 * x) = Walked(j)
  BY EdgesOfStep
<1>3. \A d \in Corners(numEncodedFaces) :
        /\ WholeTable[3 * y + 2] = d <=> LeftOf(h) = SourceCorner(d)
        /\ WholeTable[d] = 3 * y + 2 <=> WholeTable[3 * y + 2] = d
  BY EdgesOfStep
<1> QED
  BY <1>1, <1>2, <1>3 DEF SymbolAt

(* The faces of the roots are those whose first edge no symbol closes.     *)
LEMMA RootsAreOpen ==
  ASSUME Sent, NEW x \in SymbolFaces
  PROVE  NumSymbols - x \in Roots <=> ~ IsOld(WholeTable[3 * x], 3 * NumSymbols)
<1> DEFINE N == NumSymbols
           j == N - x
           T == WholeTable
           m == 3 * N
           c == 3 * x
<1>0. N \in Nat /\ x \in Nat /\ x <= N - 1 /\ j \in Steps /\ m \in Nat
  BY SentInHand DEF SymbolFaces, Steps
<1>1. c \in Corners(numEncodedFaces) /\ SourceCorner(c) = Walked(j)
  BY EdgesOfStep
<1> DEFINE X == FacesOf(initFaceCorners)
<1>2. ComesFrom(X, m)
  BY InitFacesComeLast DEF ComesFrom
<1>3. LeadsNowhere(opposite[Walked(j)], X) <=> ~ IsOld(T[c], m)
  <2> HIDE DEF X, m, c, T
  <2> QED
    BY <1>0, <1>1, <1>2, NowhereIsNotOld DEF T
<1>4. ~ IsBranch(j) => IsOld(T[c], m)
  <2> SUFFICES ASSUME ~ IsBranch(j) PROVE IsOld(T[c], m)
    OBVIOUS
  <2>1. x + 1 \in SymbolFaces /\ T[c] \in {3 * (x + 1) + 2, 3 * (x + 1) + 1}
    BY GateOfFace
  <2> HIDE DEF T, c
  <2> QED
    BY <1>0, <2>1 DEF SymbolFaces, IsOld
<1> QED
  BY <1>0, <1>3, <1>4 DEF Roots, IsRoot, IsBranch

(* A face whose first edge is closed by the left of another either follows *)
(* it, or has waited on the stack below faces closed in between.           *)
LEMMA BranchesAreStacked ==
  ASSUME Sent, NEW x \in SymbolFaces, NEW y \in SymbolFaces, WholeTable[3 * x] = 3 * y + 2
  PROVE  \/ SymbolAt(y) = "R" /\ y = x + 1
         \/ /\ SymbolAt(y) = "S"
            /\ \A z \in SymbolFaces : x < z /\ z <= y - 2 => IsOld(WholeTable[3 * z], 3 * y)
<1> DEFINE N == NumSymbols
           j == N - x
           i == N - y
           T == WholeTable
<1>0. /\ N \in Nat /\ x \in Nat /\ x <= N - 1 /\ j \in Steps /\ y \in Nat /\ y <= N - 1
      /\ i \in Steps
  BY SentInHand DEF SymbolFaces, Steps
<1>1. CASE ~ IsBranch(j)
  <2>1. \/ SymbolAt(x + 1) = "R" /\ T[3 * x] = 3 * (x + 1) + 2
        \/ T[3 * x] = 3 * (x + 1) + 1
    BY <1>1, GateOfFace
  <2>2. y = x + 1 /\ SymbolAt(x + 1) = "R"
    <3> HIDE DEF T
    <3>1. T[3 * x] = 3 * y + 2
      BY DEF T
    <3> QED
      BY <1>0, <2>1, <3>1
  <2> QED
    BY <2>2
<1>2. CASE IsBranch(j)
  <2>1. ~ IsRoot(j)
    <3>1. IsOld(T[3 * x], 3 * N)
      BY <1>0 DEF IsOld
    <3>2. j \notin Roots
      BY <3>1, RootsAreOpen
    <3> QED
      BY <1>0, <3>2 DEF Roots
  <2>2. PICK h \in 1 .. j - 2 : IsChild(j, h) /\ NestedIn(h, j - 1)
    <3>1. BranchesNest
      BY WalkIsOver
    <3> QED
      BY <1>0, <1>2, <2>1, <3>1 DEF BranchesNest
  <2> DEFINE u == N - h
  <2>3. u \in SymbolFaces /\ N - u = h /\ h \in Nat /\ u \in Nat
    BY <1>0, <2>2 DEF SymbolFaces, Steps
  <2> HIDE DEF u
  <2>4. SymbolAt(u) = "S" /\ T[3 * x] = 3 * u + 2
    BY <2>2, <2>3, ChildIsGlued
  <2>5. u = y
    <3> HIDE DEF T
    <3>1. T[3 * x] = 3 * y + 2
      BY DEF T
    <3> QED
      BY <1>0, <2>3, <2>4, <3>1
  <2>6. ASSUME NEW z \in SymbolFaces, x < z /\ z <= y - 2
        PROVE  IsOld(T[3 * z], 3 * y)
    <3> DEFINE b == N - z
    <3>1. b \in h + 2 .. j - 1 /\ z \in Nat
      BY <1>0, <2>3, <2>5, <2>6 DEF SymbolFaces
    <3>2. CASE IsBranch(b)
      <4>1. PICK g \in h + 1 .. N : IsChild(b, g)
        BY <2>2, <3>1, <3>2 DEF NestedIn
      <4> DEFINE w == N - g
      <4>2. w \in SymbolFaces /\ N - w = g /\ w \in Nat /\ w < y
        BY <1>0, <2>3, <2>5, <4>1 DEF SymbolFaces
      <4> HIDE DEF w
      <4>3. T[3 * z] = 3 * w + 2
        BY <4>1, <4>2, ChildIsGlued
      <4> HIDE DEF T
      <4> QED
        BY <1>0, <4>2, <4>3 DEF IsOld
    <3>3. CASE ~ IsBranch(b)
      <4>1. T[3 * z] \in {3 * (z + 1) + 2, 3 * (z + 1) + 1}
        BY <3>3, GateOfFace
      <4> HIDE DEF T
      <4> QED
        BY <1>0, <2>6, <3>1, <4>1 DEF IsOld
    <3> QED
      BY <3>2, <3>3
  <2> QED
    BY <2>4, <2>5, <2>6
<1> QED
  BY <1>1, <1>2

(* The root of a component is glued to its start face, or lies on the      *)
(* boundary, as its bit says.                                              *)
LEMMA RootIsGlued ==
  ASSUME Sent, NEW x \in SymbolFaces, NumSymbols - x \in Roots,
         NEW k, k = RankOf(NumSymbols - x)
  PROVE  /\ k \in DOMAIN startFaces
         /\ startFaces[k] => /\ InnerBits(k) \in DOMAIN initFaceCorners
                             /\ WholeTable[3 * x] = 3 * (NumSymbols + InnerBits(k) - 1)
         /\ ~ startFaces[k] => WholeTable[3 * x] = NoCorner
<1> DEFINE j == NumSymbols - x
           T == WholeTable
<1>1. /\ k \in DOMAIN startFaces
      /\ startFaces[k] <=> opposite[Walked(j)] # NoCorner
      /\ startFaces[k] => /\ InnerBits(k) \in DOMAIN initFaceCorners
                          /\ opposite[Walked(j)] = initFaceCorners[InnerBits(k)]
  BY WalkIsOver DEF BitsAreOfRoots
<1>2. 3 * x \in Corners(numEncodedFaces) /\ SourceCorner(3 * x) = Walked(j)
  BY EdgesOfStep
<1>3. ~ startFaces[k] => T[3 * x] = NoCorner
  BY <1>1, <1>2, WholeTableIsSent
<1>4. ASSUME startFaces[k]
      PROVE  T[3 * x] = 3 * (NumSymbols + InnerBits(k) - 1)
  <2> DEFINE q == InnerBits(k)
             y == NumSymbols + q - 1
             d == 3 * y
  <2>1. q \in DOMAIN initFaceCorners /\ opposite[Walked(j)] = initFaceCorners[q]
    BY <1>1, <1>4
  <2>2. /\ numEncodedFaces \in Nat /\ NumSymbols \in Nat /\ initFaceCorners \in Seq(AllCorners)
        /\ numEncodedFaces = NumSymbols + Len(initFaceCorners)
        /\ processedCorners[NumSymbols + q] = initFaceCorners[q]
    BY <2>1, SentInHand, EveryFaceIsSent
  <2> HIDE DEF q
  <2>3. y \in 0 .. numEncodedFaces - 1 /\ y + 1 = NumSymbols + q /\ y \in Nat
    BY <2>1, <2>2
  <2> HIDE DEF y
  <2>4. d \in Corners(numEncodedFaces) /\ Face(d) = y /\ d % 3 = 0
    <3>1. d \in Corners(numEncodedFaces)
      BY <2>2, <2>3 DEF Corners
    <3> QED
      BY <2>3, <3>1, PlacesInAFace
  <2> HIDE DEF d
  <2>5. SourceCorner(d) = initFaceCorners[q]
    BY <2>2, <2>3, <2>4, DecodedCornerIs
  <2>6. T[3 * x] = d
    BY <1>2, <2>1, <2>4, <2>5, WholeTableIsSent
  <2> QED
    BY <2>6 DEF d, y, q
<1> QED
  BY <1>1, <1>3, <1>4

(* The right and the left of a face that lead back to a split face are     *)
(* glued to the left of that face.                                         *)
LEMMA SplitIsGlued ==
  ASSUME Sent, NEW x \in SymbolFaces, NEW y \in SymbolFaces, x < y, SymbolAt(y) = "S",
         NEW c \in {3 * x + 1, 3 * x + 2},
         opposite[SourceCorner(c)] # NoCorner,
         Face(opposite[SourceCorner(c)]) = Face(Walked(NumSymbols - y))
  PROVE  WholeTable[3 * y + 2] = c /\ WholeTable[c] = 3 * y + 2
<1> DEFINE T == WholeTable
           F == numEncodedFaces
<1>0. x \in Nat /\ y \in Nat /\ F \in Nat /\ 3 * x + 1 \in Corners(F) /\ 3 * x + 2 \in Corners(F)
      /\ 3 * y \in Corners(F) /\ SourceCorner(3 * y) = Walked(NumSymbols - y)
  BY EdgesOfStep, SentInHand
<1>1. c \in Corners(F) /\ c \in Nat
  BY <1>0
<1>2. T[c] \in Corners(F) /\ SourceCorner(T[c]) = opposite[SourceCorner(c)]
  BY <1>1, WholeTableIsSent
<1>3. Face(T[c]) = Face(3 * y)
  <2> DEFINE t == T[c]
             e == 3 * y
  <2>1. t \in Corners(F) /\ e \in Corners(F) /\ Face(SourceCorner(t)) = Face(SourceCorner(e))
    BY <1>0, <1>2
  <2> HIDE DEF t, e
  <2>2. Face(t) = Face(e)
    BY <2>1, SourceCornersAreOne
  <2> QED
    BY <2>2 DEF t, e
<1>4. T[c] \in {3 * y, 3 * y + 1, 3 * y + 2}
  <2>1. Face(3 * y) = y
    BY <1>0, PlacesInAFace
  <2>2. T[c] \in Nat
    BY <1>0, <1>2, CornersAreFinite
  <2> DEFINE t == T[c]
  <2> HIDE DEF t
  <2>3. t \in Nat /\ Face(t) = y
    BY <1>3, <2>1, <2>2 DEF t
  <2>4. t \in {3 * y, 3 * y + 1, 3 * y + 2}
    <3>1. 3 * Face(t) <= t /\ t <= 3 * Face(t) + 2
      BY <2>3 DEF Face
    <3> QED
      BY <1>0, <2>3, <3>1
  <2> QED
    BY <2>4 DEF t
<1>5. /\ ~ IsOld(T[3 * y], 3 * y) /\ T[3 * y + 1] = 3 * y - 3
  <2>1. Tells(SymbolAt(y), T, 3 * y)
    BY SymbolsTell
  <2> QED
    BY <2>1 DEF Tells
<1>6. /\ T[c] = 3 * y => T[3 * y] = c
      /\ T[c] = 3 * y + 1 <=> T[3 * y + 1] = c
      /\ T[c] = 3 * y + 2 <=> T[3 * y + 2] = c
  BY <1>1, EdgesOfStep
<1>7. IsOld(c, 3 * y) /\ c # 3 * y - 3
  BY <1>0, <1>1 DEF IsOld
<1> QED
  BY <1>4, <1>5, <1>6, <1>7

(* The edge a split event names.                                           *)
NamedCorner(x, edge) == IF edge = "right" THEN 3 * x + 1 ELSE 3 * x + 2

(* Every split event names the corner that its S finds.                    *)
LEMMA EventIsTrue ==
  ASSUME Sent, NEW k \in DOMAIN splitEvents,
         NEW x, x = NumSymbols - splitEvents[k].source - 1,
         NEW y, y = NumSymbols - splitEvents[k].split - 1
  PROVE  /\ x \in SymbolFaces /\ y \in SymbolFaces /\ x < y
         /\ SymbolAt(y) = "S" /\ SymbolAt(x) \in {"R", "L", "E"}
         /\ WholeTable[3 * y + 2] = NamedCorner(x, splitEvents[k].edge)
<1> DEFINE e == splitEvents[k]
           m == e.source + 1
           i == e.split + 1
           T == WholeTable
<1>0. NumSymbols \in Nat /\ e \in SplitEvents /\ e.source \in Nat /\ e.split \in Nat
  <2>1. splitEvents \in Seq(SplitEvents) /\ NumSymbols \in Nat
    BY SentInHand
  <2>2. e \in SplitEvents
    BY <2>1
  <2> HIDE DEF e
  <2> QED
    BY <2>1, <2>2 DEF SplitEvents
<1>1. /\ m \in Steps /\ i \in 1 .. m - 1
      /\ e.edge = "right" => BackTo(i, RightOf(m))
      /\ e.edge # "right" => BackTo(i, LeftOf(m))
  <2>1. IsTrueEvent(e)
    BY WalkIsOver DEF EventsAreTrue
  <2> QED
    BY <2>1 DEF IsTrueEvent
<1>2. /\ x \in SymbolFaces /\ y \in SymbolFaces /\ x < y /\ NumSymbols - x = m /\ NumSymbols - y = i
      /\ x \in Nat /\ y \in Nat
  BY <1>0, <1>1 DEF SymbolFaces, Steps
<1> HIDE DEF m, i
<1> DEFINE c == NamedCorner(x, e.edge)
           n == IF e.edge = "right" THEN RightOf(m) ELSE LeftOf(m)
<1>3. symbols[i] = "S" /\ n # NoCorner /\ Face(n) = Face(Walked(i))
  BY <1>1 DEF BackTo
<1>4. SymbolAt(y) = "S"
  BY <1>2, <1>3 DEF SymbolAt
<1>5. c \in {3 * x + 1, 3 * x + 2} /\ opposite[SourceCorner(c)] = n
  <2>1. /\ SourceCorner(3 * x + 1) = NextCorner(Walked(m))
        /\ SourceCorner(3 * x + 2) = PreviousCorner(Walked(m))
    BY <1>2, FaceOfStep DEF SymbolFaces
  <2> QED
    BY <2>1 DEF NamedCorner, RightOf, LeftOf
<1> HIDE DEF n
<1>6. T[3 * y + 2] = c /\ T[c] = 3 * y + 2
  <2> HIDE DEF c
  <2> QED
    BY <1>2, <1>3, <1>4, <1>5, SplitIsGlued
<1>7. SymbolAt(x) \in {"R", "L", "E"}
  <2>1. Tells(SymbolAt(x), T, 3 * x)
    BY <1>2, SymbolsTell
  <2>2. ~ IsOld(3 * y + 2, 3 * x)
    BY <1>2 DEF IsOld
  <2>3. T[3 * x + 1] = 3 * y + 2 \/ T[3 * x + 2] = 3 * y + 2
    BY <1>6 DEF NamedCorner
  <2>4. ~ IsOld(T[3 * x + 1], 3 * x) \/ ~ IsOld(T[3 * x + 2], 3 * x)
    BY <2>2, <2>3
  <2> QED
    BY <2>1, <2>4 DEF Tells, TopologySymbols
<1> QED
  BY <1>2, <1>4, <1>6, <1>7

(* What an S finds on the right or the left of a face, a split event       *)
(* names.                                                                  *)
LEMMA EventIsThere ==
  ASSUME Sent, NEW x \in SymbolFaces, NEW y \in SymbolFaces, SymbolAt(y) = "S",
         NEW edge \in {"left", "right"}, WholeTable[3 * y + 2] = NamedCorner(x, edge)
  PROVE  \E k \in DOMAIN splitEvents :
           splitEvents[k] = [source |-> NumSymbols - x - 1, split |-> NumSymbols - y - 1, edge |-> edge]
<1> DEFINE T == WholeTable
           m == NumSymbols - x
           i == NumSymbols - y
           c == NamedCorner(x, edge)
<1>0. NumSymbols \in Nat /\ x \in Nat /\ y \in Nat /\ m \in Steps /\ i \in Steps /\ i \in Nat /\ m \in Nat
  BY SentInHand DEF SymbolFaces, Steps
<1>1. x < y
  <2>1. Tells(SymbolAt(y), T, 3 * y)
    BY SymbolsTell
  <2>2. IsOld(c, 3 * y)
    BY <2>1 DEF Tells
  <2> QED
    BY <1>0, <2>2 DEF IsOld, NamedCorner
<1>2. i \in 1 .. m - 1
  BY <1>0, <1>1 DEF Steps
<1>3. /\ 3 * x + 1 \in Corners(numEncodedFaces) /\ SourceCorner(3 * x + 1) = NextCorner(Walked(m))
      /\ 3 * x + 2 \in Corners(numEncodedFaces) /\ SourceCorner(3 * x + 2) = PreviousCorner(Walked(m))
      /\ 3 * y + 2 \in Corners(numEncodedFaces) /\ SourceCorner(3 * y + 2) = PreviousCorner(Walked(i))
      /\ Walked(i) \in AllCorners
  BY FaceOfStep DEF SymbolFaces
<1>4. /\ edge = "right" => RightOf(m) = PreviousCorner(Walked(i))
      /\ edge = "left" => LeftOf(m) = PreviousCorner(Walked(i))
  <2> DEFINE r == 3 * y + 2
             p == 3 * x + 1
             q == 3 * x + 2
  <2>1. /\ edge = "right" => T[r] = p
        /\ edge = "left" => T[r] = q
    BY DEF NamedCorner
  <2>2. /\ p \in Corners(numEncodedFaces) /\ SourceCorner(p) = NextCorner(Walked(m))
        /\ q \in Corners(numEncodedFaces) /\ SourceCorner(q) = PreviousCorner(Walked(m))
        /\ r \in Corners(numEncodedFaces) /\ SourceCorner(r) = PreviousCorner(Walked(i))
    BY <1>3
  <2>3. \A d \in Corners(numEncodedFaces) : T[d] = r <=> T[r] = d
    BY EdgesOfStep
  <2> HIDE DEF p, q, r, T
  <2>4. /\ edge = "right" => T[p] = r
        /\ edge = "left" => T[q] = r
    BY <2>1, <2>2, <2>3
  <2>5. \A a, b \in Corners(numEncodedFaces) : T[a] = b <=> opposite[SourceCorner(a)] = SourceCorner(b)
    BY WholeTableIsSent DEF T
  <2> QED
    BY <2>2, <2>4, <2>5 DEF RightOf, LeftOf
<1>5. Face(PreviousCorner(Walked(i))) = Face(Walked(i)) /\ PreviousCorner(Walked(i)) # NoCorner
  BY <1>3, SentInHand, ManifoldCorners
<1>6. /\ edge = "right" => BackTo(i, RightOf(m))
      /\ edge = "left" => BackTo(i, LeftOf(m))
  BY <1>4, <1>5 DEF BackTo, SymbolAt
<1>7. /\ BackTo(i, RightOf(m)) => \E k \in DOMAIN splitEvents :
           splitEvents[k] = [source |-> m - 1, split |-> i - 1, edge |-> "right"]
      /\ BackTo(i, LeftOf(m)) => \E k \in DOMAIN splitEvents :
           splitEvents[k] = [source |-> m - 1, split |-> i - 1, edge |-> "left"]
  <2>1. EventsAreWritten
    BY WalkIsOver
  <2> QED
    BY <1>0, <1>2, <2>1 DEF EventsAreWritten
<1>8. m - 1 = NumSymbols - x - 1 /\ i - 1 = NumSymbols - y - 1
  OBVIOUS
<1> HIDE DEF m, i
<1>9. edge = "right" \/ edge = "left"
  OBVIOUS
<1>10. \E k \in DOMAIN splitEvents :
           splitEvents[k] = [source |-> m - 1, split |-> i - 1, edge |-> edge]
  BY <1>6, <1>7, <1>9
<1> QED
  BY <1>8, <1>10

(* The vertices that the first k symbols read give birth to.               *)
BornAt(s, k) == {i \in NumSymbols - k + 1 .. NumSymbols : symbols[i] = s}
Born(k) ==
  Cardinality(BornAt("R", k)) + Cardinality(BornAt("L", k)) + 3 * Cardinality(BornAt("E", k))
NewVertices(s) == IF s = "E" THEN 3 ELSE IF s \in {"R", "L"} THEN 1 ELSE 0

(* How many vertices a symbol has given birth to.                          *)
LEMMA BornAtIsFinite ==
  ASSUME NumSymbols \in Nat, NEW s, NEW k \in 0 .. NumSymbols
  PROVE  /\ IsFiniteSet(BornAt(s, k)) /\ Cardinality(BornAt(s, k)) \in Nat
         /\ BornAt(s, k) \subseteq BornAt(s, NumSymbols)
         /\ Cardinality(BornAt(s, k)) <= Cardinality(BornAt(s, NumSymbols))
         /\ BornAt(s, NumSymbols) = Places({s})
         /\ BornAt(s, 0) = {}
<1>1. IsFiniteSet(1 .. NumSymbols)
  BY RangesAreFinite
<1>2. /\ BornAt(s, NumSymbols) \subseteq 1 .. NumSymbols
      /\ BornAt(s, k) \subseteq BornAt(s, NumSymbols)
      /\ BornAt(s, NumSymbols) = Places({s})
      /\ BornAt(s, 0) = {}
  BY DEF BornAt, Places, Steps
<1>3. IsFiniteSet(BornAt(s, NumSymbols))
  BY <1>1, <1>2, FS_Subset
<1>4. IsFiniteSet(BornAt(s, k)) /\ Cardinality(BornAt(s, k)) <= Cardinality(BornAt(s, NumSymbols))
  BY <1>2, <1>3, FS_Subset
<1> QED
  BY <1>2, <1>3, <1>4, FS_CardinalityType

(* One more for each time the symbol is read.                              *)
LEMMA BornAtStep ==
  ASSUME Sent, NEW s, NEW x \in SymbolFaces
  PROVE  Cardinality(BornAt(s, x + 1)) = Cardinality(BornAt(s, x)) + (IF SymbolAt(x) = s THEN 1 ELSE 0)
<1> DEFINE i == NumSymbols - x
<1>0. NumSymbols \in Nat /\ x \in Nat /\ x <= NumSymbols - 1
  BY SentInHand DEF SymbolFaces
<1>1. /\ BornAt(s, x + 1) = BornAt(s, x) \cup (IF symbols[i] = s THEN {i} ELSE {})
      /\ i \notin BornAt(s, x)
  <2>1. NumSymbols - (x + 1) + 1 .. NumSymbols = (NumSymbols - x + 1 .. NumSymbols) \cup {i}
    BY <1>0
  <2>2. i \notin NumSymbols - x + 1 .. NumSymbols
    BY <1>0
  <2> HIDE DEF i
  <2> QED
    BY <2>1, <2>2 DEF BornAt
<1>2. IsFiniteSet(BornAt(s, x)) /\ Cardinality(BornAt(s, x)) \in Nat
  <2>1. x \in 0 .. NumSymbols
    BY <1>0
  <2> QED
    BY <1>0, <2>1, BornAtIsFinite
<1>3. CASE symbols[i] = s
  <2>1. BornAt(s, x + 1) = BornAt(s, x) \cup {i}
    BY <1>1, <1>3
  <2>2. Cardinality(BornAt(s, x) \cup {i}) = Cardinality(BornAt(s, x)) + 1
    BY <1>1, <1>2, FS_AddElement
  <2> QED
    BY <1>3, <2>1, <2>2 DEF SymbolAt
<1>4. CASE symbols[i] # s
  <2>1. BornAt(s, x + 1) = BornAt(s, x)
    BY <1>1, <1>4
  <2> QED
    BY <1>2, <1>4, <2>1 DEF SymbolAt
<1> QED
  BY <1>3, <1>4

(* The count of vertices that was sent covers all that are born.           *)
LEMMA BornIsCounted ==
  ASSUME Sent
  PROVE  /\ Born(0) = 0 /\ Born(NumSymbols) = DecoderMaxVertices
         /\ DecoderMaxVertices \in Nat
         /\ numSplitSymbols \in Nat /\ numSplitSymbols <= NumSymbols
         /\ \A k \in 0 .. NumSymbols : Born(k) \in Nat /\ Born(k) <= DecoderMaxVertices
         /\ \A x \in SymbolFaces : Born(x + 1) = Born(x) + NewVertices(SymbolAt(x))
<1>0. /\ NumSymbols \in Nat /\ numSplitSymbols \in Nat /\ TableIsReady
      /\ numEncodedVertices \in Nat /\ mesh.numVertices \in Nat
  <2>1. TraversalTypes
    BY DEF Sent, TraceIsKept, WalkInv
  <2> QED
    BY <2>1, SentInHand DEF WireTypeOK, TraversalTypes
<1>1. Heads = {} /\ Rings = {}
  <2>1. visitedFaces = AllFaces /\ TableIsManifold
    BY WalkIsOver, SentInHand
  <2>2. \A c \in AllCorners : Face(c) \in visitedFaces
    BY <2>1, ManifoldCorners
  <2> QED
    BY <2>2 DEF Heads, Rings
<1>2. Cardinality(Heads) = 0 /\ Cardinality(Rings) = 0
  BY <1>1, FS_EmptySet
<1>3. /\ Cardinality(Places({"R"})) + Cardinality(Places({"L"})) + 3 * Cardinality(Places({"E"}))
         = numEncodedVertices + Cardinality(Places({"S"}))
      /\ numSplitSymbols = Cardinality(Places({"S"}))
  <2>1. VerticesAreCounted /\ numEncodedVertices = Cardinality(StoredVertices)
    BY WalkIsOver
  <2>2. \A s : Cardinality(Places(s)) \in Nat
    BY <1>0, CountedSets
  <2> QED
    BY <1>0, <1>2, <2>1, <2>2 DEF VerticesAreCounted
<1>4. Born(NumSymbols) = DecoderMaxVertices
  <2>0. NumSymbols \in 0 .. NumSymbols
    BY <1>0
  <2>1. \A s : BornAt(s, NumSymbols) = Places({s})
    BY <1>0, <2>0, BornAtIsFinite
  <2> QED
    BY <1>3, <2>1 DEF Born, DecoderMaxVertices
<1>5. Born(0) = 0
  <2>0. 0 \in 0 .. NumSymbols
    BY <1>0
  <2>1. \A s : BornAt(s, 0) = {}
    BY <1>0, <2>0, BornAtIsFinite
  <2>2. \A s : Cardinality(BornAt(s, 0)) = 0
    BY <2>1, FS_EmptySet
  <2> QED
    BY <2>2 DEF Born
<1>6. numSplitSymbols <= NumSymbols
  <2>1. IsFiniteSet(1 .. NumSymbols) /\ Cardinality(1 .. NumSymbols) = NumSymbols
    BY <1>0, RangesAreFinite
  <2>2. Places({"S"}) \subseteq 1 .. NumSymbols
    BY DEF Places, Steps
  <2>3. Cardinality(Places({"S"})) <= Cardinality(1 .. NumSymbols)
    BY <2>1, <2>2, FS_Subset
  <2> QED
    BY <1>3, <2>1, <2>3
<1>7. \A k \in 0 .. NumSymbols : Born(k) \in Nat /\ Born(k) <= DecoderMaxVertices
  <2> TAKE k \in 0 .. NumSymbols
  <2>1. \A s : /\ Cardinality(BornAt(s, k)) \in Nat
               /\ Cardinality(BornAt(s, k)) <= Cardinality(BornAt(s, NumSymbols))
    BY <1>0, BornAtIsFinite
  <2>0. NumSymbols \in 0 .. NumSymbols
    BY <1>0
  <2>2. \A s : Cardinality(BornAt(s, NumSymbols)) \in Nat
    BY <1>0, <2>0, BornAtIsFinite
  <2>3. Born(k) \in Nat /\ Born(k) <= Born(NumSymbols)
    BY <2>1, <2>2 DEF Born
  <2> QED
    BY <1>4, <2>3
<1>8. \A x \in SymbolFaces : Born(x + 1) = Born(x) + NewVertices(SymbolAt(x))
  <2> TAKE x \in SymbolFaces
  <2>1. \A s : Cardinality(BornAt(s, x + 1)) = Cardinality(BornAt(s, x)) + (IF SymbolAt(x) = s THEN 1 ELSE 0)
    BY BornAtStep
  <2>0. x \in 0 .. NumSymbols
    BY <1>0 DEF SymbolFaces
  <2>2. \A s : Cardinality(BornAt(s, x)) \in Nat
    BY <1>0, <2>0, BornAtIsFinite
  <2> DEFINE a == SymbolAt(x)
  <2> HIDE DEF a
  <2>3. /\ Cardinality(BornAt("R", x + 1)) = Cardinality(BornAt("R", x)) + (IF a = "R" THEN 1 ELSE 0)
        /\ Cardinality(BornAt("L", x + 1)) = Cardinality(BornAt("L", x)) + (IF a = "L" THEN 1 ELSE 0)
        /\ Cardinality(BornAt("E", x + 1)) = Cardinality(BornAt("E", x)) + (IF a = "E" THEN 1 ELSE 0)
    BY <2>1 DEF a
  <2>4. Born(x + 1) = Born(x) + NewVertices(a)
    BY <2>2, <2>3 DEF Born, NewVertices
  <2> QED
    BY <2>4 DEF a
<1>9. DecoderMaxVertices \in Nat
  BY <1>0 DEF DecoderMaxVertices
<1> QED
  BY <1>0, <1>4, <1>5, <1>6, <1>7, <1>8, <1>9

(* A start face closes the vertices of its corners, whose other faces are  *)
(* all of symbols.                                                         *)
LEMMA InitFaceIsFree ==
  ASSUME Sent, NEW y \in NumSymbols .. numEncodedFaces - 1, NEW m, m = 3 * y, NEW j \in NewFaceOf(m)
  PROVE  IsOld(WholeTable[j], m) /\ RingDone(WholeTable, j, m)
<1> DEFINE F == numEncodedFaces
           N == NumSymbols
           T == WholeTable
           n == 3 * N
           X == FacesOf(initFaceCorners)
<1>0. /\ F \in Nat /\ N \in Nat /\ y \in Nat /\ N <= y /\ n \in Nat /\ n <= m /\ m \in Nat
      /\ AllCorners = Corners(F) /\ Corners(F) \subseteq Nat
  BY SentInHand, CornersAreFinite
<1>1. y \in 0 .. F - 1 /\ NextFaceAt(F, y, m)
  BY <1>0 DEF NextFaceAt
<1>2. /\ NewFaceOf(m) \subseteq Corners(F)
      /\ \A c \in NewFaceOf(m) : NextCorner(c) \in NewFaceOf(m) /\ ~ (c < n)
      /\ \A c \in NewFaceOf(m) : PreviousCorner(NextCorner(c)) = c
      /\ \A c \in Corners(F) : Face(c) = y <=> c \in NewFaceOf(m)
  <2>1. /\ NextCorner(m) = m + 1 /\ NextCorner(m + 1) = m + 2 /\ NextCorner(m + 2) = m
        /\ PreviousCorner(m) = m + 2 /\ PreviousCorner(m + 1) = m /\ PreviousCorner(m + 2) = m + 1
        /\ NewFaceOf(m) \subseteq Corners(F)
        /\ \A c \in Corners(F) : Face(c) = y <=> c \in NewFaceOf(m)
    BY <1>0, <1>1, FaceOfNewCorners
  <2>2. \A c \in NewFaceOf(m) : ~ (c < n)
    BY <1>0 DEF NewFaceOf
  <2> QED
    BY <2>1, <2>2 DEF NewFaceOf
<1>3. ComesFrom(X, n)
  BY InitFacesComeLast DEF ComesFrom
<1>4. \A c \in NewFaceOf(m) : RingDone(T, c, n)
  <2> TAKE c \in NewFaceOf(m)
  <2>1. c \in Corners(F) /\ SourceCorner(c) \in AllCorners /\ Face(SourceCorner(c)) \in X
    BY <1>2, <1>3, SourceCornersTurn DEF ComesFrom
  <2>2. IsFresh(SourceCorner(c), X)
    BY <2>1, WalkIsOver DEF InitFacesAreFree
  <2> HIDE DEF X, n, T
  <2> QED
    BY <1>0, <1>3, <2>1, <2>2, FreshIsRingDone DEF T
<1>5. RingDone(T, j, m)
  <2>1. IsTable(T, Corners(F)) /\ FanCorners(T, j) \subseteq Corners(F)
    BY <1>0, <1>2, WholeTableIsSent, FanKeepsSwings
  <2> HIDE DEF T
  <2>2. \A d \in FanCorners(T, j) : d \in Nat /\ (d < n => d < m)
    BY <1>0, <2>1
  <2> QED
    BY <1>4, <2>2 DEF RingDone
<1>6. IsOld(T[j], m)
  <2> DEFINE p == NextCorner(j)
  <2>1. p \in NewFaceOf(m) /\ p \in Corners(F) /\ PreviousCorner(p) = j /\ j \in Corners(F)
    BY <1>2
  <2>2. IsWhole(T, F) /\ IsTable(T, Corners(F))
    BY WholeTableIsWhole, WholeTableIsSent
  <2> HIDE DEF p, T, n
  <2>3. p \in FanCorners(T, p) /\ RingDone(T, p, n)
    BY <1>0, <1>4, <2>1, <2>2, FanKeepsSwings
  <2>4. T[j] # NoCorner
    BY <2>1, <2>3 DEF RingDone
  <2> DEFINE r == PreviousCorner(T[j])
  <2>5. T[j] \in Corners(F) /\ r \in Corners(F) /\ r \in FanCorners(T, p)
    BY <1>0, <2>1, <2>2, <2>4, FanNeighbours
  <2>6. Face(r) = Face(T[j]) /\ Face(T[j]) # Face(j)
    <3>1. Face(r) = Face(T[j])
      BY <1>0, <2>5, SentInHand, ManifoldCorners
    <3>2. Face(T[j]) # Face(j)
      BY <2>1, <2>2, <2>4 DEF IsWhole
    <3> QED
      BY <3>1, <3>2
  <2>7. r # p
    BY <1>2, <2>1, <2>6
  <2>8. r < n
    BY <2>3, <2>5, <2>7 DEF RingDone
  <2>9. T[j] < n
    <3>1. Face(r) < N
      BY <1>0, <2>5, <2>8, BelowAFace DEF n
    <3>2. Face(T[j]) < N
      BY <2>6, <3>1
    <3> QED
      BY <1>0, <2>5, <3>2, BelowAFace DEF n
  <2> QED
    BY <1>0, <2>5, <2>9 DEF IsOld
<1> QED
  BY <1>5, <1>6

-----------------------------------------------------------------------------
(* The stack of the decoder: its parts, lowest first.                      *)

Ascends(s) == \A j, k \in DOMAIN s : j < k => s[j] < s[k]

(* The corners at which the parts built below corner m still grow.         *)
OpenGates(T, m) == {t \in 0 .. m - 1 : t % 3 = 0 /\ ~ IsOld(T[t], m)}

(* The top of an ascending stack is its greatest element.                  *)
LEMMA AscendingTop ==
  ASSUME NEW S \in SUBSET Int, NEW s \in Seq(S), s # <<>>, Ascends(s)
  PROVE  /\ Front(s) \in Seq(S) /\ Ascends(Front(s))
         /\ Last(s) \in ElementsOf(s) /\ Last(s) \in S /\ ElementsOf(s) \subseteq S
         /\ ElementsOf(Front(s)) = ElementsOf(s) \ {Last(s)}
         /\ \A e \in ElementsOf(Front(s)) : e < Last(s)
<1> DEFINE n == Len(s)
           f == Front(s)
<1>1. /\ f \in Seq(S) /\ Len(f) = n - 1 /\ n \in Nat
      /\ \A a \in 1 .. n - 1 : f[a] = s[a]
  BY FrontOf
<1>2. n >= 1 /\ Last(s) = s[n] /\ DOMAIN s = 1 .. n /\ DOMAIN f = 1 .. n - 1
  <2>1. n # 0
    BY EmptySeq
  <2> QED
    BY <1>1, <2>1 DEF Last
<1>6. \A a \in 1 .. n : s[a] \in S
  BY <1>2
<1> HIDE DEF n, f
<1>3. \A a \in 1 .. n - 1 : f[a] = s[a] /\ a \in 1 .. n /\ a < n
  BY <1>1
<1>4. n \in 1 .. n
  BY <1>1, <1>2
<1>5. \A a \in 1 .. n : a \in 1 .. n - 1 \/ a = n
  BY <1>1
<1>7. \A a \in 1 .. n - 1 : s[a] < s[n]
  BY <1>2, <1>3, <1>4 DEF Ascends
<1>8. Ascends(f)
  BY <1>2, <1>3 DEF Ascends
<1>9. ElementsOf(f) = {s[a] : a \in 1 .. n - 1}
  BY <1>2, <1>3 DEF ElementsOf
<1>10. ElementsOf(s) = {s[a] : a \in 1 .. n}
  BY <1>2 DEF ElementsOf
<1>11. s[n] \in S /\ s[n] \in Int
  BY <1>4, <1>6
<1>12. \A a \in 1 .. n - 1 : s[a] # s[n]
  BY <1>3, <1>6, <1>7, <1>11
<1>13. ElementsOf(f) = ElementsOf(s) \ {s[n]}
  BY <1>3, <1>5, <1>9, <1>10, <1>12
<1>14. s[n] \in ElementsOf(s) /\ ElementsOf(s) \subseteq S
  BY <1>4, <1>6, <1>10
<1>15. \A e \in ElementsOf(f) : e < s[n]
  BY <1>7, <1>9
<1> QED
  BY <1>1, <1>2, <1>8, <1>11, <1>13, <1>14, <1>15 DEF f

(* What is pushed above all elements keeps the stack ascending.            *)
LEMMA AscendingPush ==
  ASSUME NEW S \in SUBSET Int, NEW s \in Seq(S), Ascends(s), NEW e \in S,
         \A d \in ElementsOf(s) : d < e
  PROVE  /\ Pushed(s, e) \in Seq(S) /\ Ascends(Pushed(s, e))
         /\ ElementsOf(Pushed(s, e)) = ElementsOf(s) \cup {e}
         /\ Append(s, e) = Pushed(s, e)
<1> DEFINE n == Len(s)
           t == <<e>>
           p == s \o t
<1>1. /\ t \in Seq(S) /\ Len(t) = 1 /\ t[1] = e /\ DOMAIN t = 1 .. 1
  OBVIOUS
<1> HIDE DEF t
<1>2. /\ n \in Nat /\ p \in Seq(S) /\ DOMAIN p = 1 .. n + 1 /\ DOMAIN s = 1 .. n
      /\ \A a \in 1 .. n : p[a] = s[a]
      /\ p[n + 1] = e
  <2>1. n \in Nat /\ DOMAIN s = 1 .. n
    OBVIOUS
  <2>2. /\ p \in Seq(S) /\ Len(p) = n + 1
        /\ \A a \in 1 .. n + 1 : p[a] = IF a <= n THEN s[a] ELSE t[a - n]
    <3>1. /\ p \in Seq(S) /\ Len(p) = Len(s) + Len(t)
          /\ \A a \in 1 .. Len(s) + Len(t) : p[a] = IF a <= Len(s) THEN s[a] ELSE t[a - Len(s)]
      BY <1>1, ConcatProperties
    <3> HIDE DEF p
    <3> QED
      BY <1>1, <3>1
  <2>3. DOMAIN p = 1 .. n + 1
    BY <2>2
  <2> HIDE DEF p, n
  <2>4. \A a \in 1 .. n : p[a] = s[a]
    BY <2>1, <2>2
  <2>5. n + 1 - n = 1 /\ n + 1 \in 1 .. n + 1 /\ ~ (n + 1 <= n)
    BY <2>1
  <2>6. p[n + 1] = e
    <3> DEFINE b == n + 1
    <3>1. b \in 1 .. n + 1 /\ ~ (b <= n) /\ b - n = 1
      BY <2>1
    <3> HIDE DEF b
    <3>2. p[b] = t[b - n]
      BY <2>2, <3>1
    <3>3. p[b] = e
      BY <1>1, <3>1, <3>2
    <3> QED
      BY <3>3 DEF b
  <2> QED
    BY <2>1, <2>2, <2>3, <2>4, <2>6
<1>3. ElementsOf(t) = {e}
  BY <1>1 DEF ElementsOf
<1>4. ElementsOf(p) = ElementsOf(s) \cup {e}
  BY <1>1, <1>3, ElementsOfBoth
<1> HIDE DEF p, n
<1>5. \A a \in 1 .. n : p[a] < e
  BY <1>2 DEF ElementsOf
<1>6. \A j, k \in 1 .. n + 1 : j < k => j \in 1 .. n /\ (k \in 1 .. n \/ k = n + 1)
  BY <1>2
<1>7. Ascends(p)
  BY <1>2, <1>5, <1>6 DEF Ascends
<1>8. Append(s, e) = s \o <<e>>
  OBVIOUS
<1> QED
  BY <1>2, <1>4, <1>7, <1>8 DEF Pushed, p, t

(* An empty stack holds nothing.                                           *)
LEMMA NothingStacked ==
  ASSUME NEW S, NEW s \in Seq(S)
  PROVE  s = <<>> <=> ElementsOf(s) = {}
<1>1. s = <<>> => ElementsOf(s) = {}
  BY DEF ElementsOf
<1>2. s # <<>> => ElementsOf(s) # {}
  <2> SUFFICES ASSUME s # <<>> PROVE ElementsOf(s) # {}
    OBVIOUS
  <2>1. Len(s) # 0 /\ Len(s) \in Nat
    BY EmptySeq
  <2>2. 1 \in DOMAIN s
    BY <2>1
  <2> QED
    BY <2>2 DEF ElementsOf
<1> QED
  BY <1>1, <1>2

(* A new face is a gate of its own and closes the gates on its sides.      *)
LEMMA GatesAfter ==
  ASSUME NEW F \in Nat, NEW T, IsWhole(T, F), NEW k, NEW m, NextFaceAt(F, k, m),
         ~ IsOld(T[m], m)
  PROVE  /\ OpenGates(T, m + 3) = (OpenGates(T, m) \ {T[m + 1], T[m + 2]}) \cup {m}
         /\ \A t \in OpenGates(T, m) : t \in Nat /\ t < m
<1>0. /\ k \in Nat /\ m \in Nat /\ m = 3 * k /\ NewFaceOf(m) \subseteq Corners(F)
      /\ \A c \in Corners(F) : Face(c) = k <=> c \in NewFaceOf(m)
      /\ 0 .. m - 1 \subseteq Corners(F) /\ m \in Corners(F)
  <2>1. NextFaceAt(F, k, m) /\ m \in NewFaceOf(m)
    BY DEF NewFaceOf
  <2>2. k \in Nat /\ m = 3 * k
    BY <2>1 DEF NextFaceAt
  <2>3. /\ m \in Nat /\ NewFaceOf(m) \subseteq Corners(F)
        /\ \A c \in Corners(F) : Face(c) = k <=> c \in NewFaceOf(m)
        /\ 0 .. m - 1 \subseteq 0 .. m + 2 /\ 0 .. m + 2 \subseteq Corners(F)
    BY FaceOfNewCorners
  <2> QED
    BY <2>1, <2>2, <2>3
<1>1. \A c, d \in Corners(F) : T[c] = d => T[d] = c
  <2>1. IsPairing(T) /\ DOMAIN T = Corners(F)
    BY DEF IsWhole, IsTable
  <2>2. NoCorner \notin Corners(F)
    BY DEF Corners, NoCorner
  <2> QED
    BY <2>1, <2>2 DEF IsPairing
<1>2. T[m] \notin NewFaceOf(m)
  <2> SUFFICES ASSUME T[m] \in NewFaceOf(m) PROVE FALSE
    OBVIOUS
  <2>1. T[m] \in Corners(F) /\ T[m] # NoCorner
    BY <1>0 DEF Corners, NoCorner
  <2>2. Face(T[m]) # Face(m) /\ Face(m) = k
    BY <1>0, <2>1 DEF IsWhole, NewFaceOf
  <2> QED
    BY <1>0, <2>1, <2>2
<1>3. \A c : IsOld(c, m + 3) <=> IsOld(c, m) \/ c \in NewFaceOf(m)
  BY <1>0 DEF IsOld, NewFaceOf
<1>4. \A t \in 0 .. m - 1 : /\ T[t] = m + 1 <=> T[m + 1] = t
                            /\ T[t] = m + 2 <=> T[m + 2] = t
                            /\ T[t] # m
  <2> TAKE t \in 0 .. m - 1
  <2>1. t \in Corners(F) /\ m + 1 \in Corners(F) /\ m + 2 \in Corners(F)
    BY <1>0 DEF NewFaceOf
  <2>2. /\ T[t] = m + 1 <=> T[m + 1] = t
        /\ T[t] = m + 2 <=> T[m + 2] = t
    BY <1>1, <2>1
  <2>3. T[t] # m
    <3> SUFFICES ASSUME T[t] = m PROVE FALSE
      OBVIOUS
    <3>1. T[m] = t
      BY <1>0, <1>1, <2>1
    <3> QED
      BY <3>1 DEF IsOld
  <2> QED
    BY <2>2, <2>3
<1>5. \A t \in 0 .. m - 1 : IsOld(T[t], m + 3) <=> IsOld(T[t], m) \/ t \in {T[m + 1], T[m + 2]}
  BY <1>3, <1>4 DEF NewFaceOf
<1>6. ~ IsOld(T[m], m + 3)
  BY <1>2, <1>3
<1>7. m % 3 = 0 /\ (m + 1) % 3 = 1 /\ (m + 2) % 3 = 2
  BY <1>0, PlacesInAFace
<1>8. \A t : t \in 0 .. m + 2 <=> t \in 0 .. m - 1 \/ t = m \/ t = m + 1 \/ t = m + 2
  BY <1>0
<1>9. m + 3 - 1 = m + 2
  BY <1>0
<1>10. \A t : t \in OpenGates(T, m + 3) <=> (t \in OpenGates(T, m) /\ t \notin {T[m + 1], T[m + 2]}) \/ t = m
  <2>1. \A t : t \in OpenGates(T, m + 3) <=> t \in 0 .. m + 2 /\ t % 3 = 0 /\ ~ IsOld(T[t], m + 3)
    <3> DEFINE u == m + 3
    <3>1. u - 1 = m + 2
      BY <1>0
    <3> HIDE DEF u
    <3>2. \A t : t \in OpenGates(T, u) <=> t \in 0 .. m + 2 /\ t % 3 = 0 /\ ~ IsOld(T[t], u)
      BY <3>1 DEF OpenGates
    <3> QED
      BY <3>2 DEF u
  <2>2. \A t : t \in OpenGates(T, m) <=> t \in 0 .. m - 1 /\ t % 3 = 0 /\ ~ IsOld(T[t], m)
    BY DEF OpenGates
  <2>3. \A t : (t = m \/ t = m + 1 \/ t = m + 2) /\ t % 3 = 0 => t = m
    BY <1>7
  <2> QED
    BY <1>5, <1>6, <1>7, <1>8, <2>1, <2>2, <2>3
<1>11. \A t \in OpenGates(T, m) : t \in Nat /\ t < m
  BY <1>0 DEF OpenGates
<1> QED
  BY <1>10, <1>11

-----------------------------------------------------------------------------
(* The decoder's state mirrors the encoder's mesh.                         *)

TableIsRebuilt ==
  Rebuilt(WholeTable, numEncodedFaces, NewCorner, dOpposite, dCornerVertex,
          dVertexCorners, isVertHole, dNumVertices)

(* What a split event has left for the S of face y once all faces below    *)
(* corner m are built.                                                     *)
SplitLeft(y, m) ==
  IF /\ SymbolAt(y) = "S"
     /\ WholeTable[3 * y + 2] < m
     /\ WholeTable[3 * y + 2] % 3 # 0
  THEN WholeTable[3 * y + 2]
  ELSE NoCorner

SymbolsMirrored ==
  /\ TableIsRebuilt
  /\ Ascends(activeCorners) /\ ElementsOf(activeCorners) = OpenGates(WholeTable, NewCorner)
  /\ dNumVertices = Born(symbolID)
  /\ \A k \in DOMAIN splitEvents :
       k > splitIndex <=> splitEvents[k].source >= NumSymbols - symbolID
  /\ \A y \in SymbolFaces : y >= symbolID => topologySplitCorner[y] = SplitLeft(y, NewCorner)
  /\ startFacesRead = 0

(* The decoder reads the symbol of face x, whose first corner is m.        *)
Reading(x, m) ==
  /\ Sent /\ ReaderInv /\ decoderPhase = "symbols" /\ SymbolsMirrored
  /\ x = symbolID /\ x < NumSymbols /\ m = NewCorner

(* What the reader has in hand when it reads the symbol of face x.         *)
LEMMA InReading ==
  ASSUME NEW x, NEW m, Reading(x, m)
  PROVE  /\ Sent /\ WireTypeOK /\ SymbolsSoFar
         /\ numEncodedFaces \in Nat /\ x \in SymbolFaces /\ x \in Nat /\ m \in Nat /\ m = 3 * x
         /\ NewCorner = m /\ symbolID = x
         /\ NextFaceAt(numEncodedFaces, x, m)
         /\ IsWhole(WholeTable, numEncodedFaces)
         /\ Rebuilt(WholeTable, numEncodedFaces, m, dOpposite, dCornerVertex,
                    dVertexCorners, isVertHole, dNumVertices)
         /\ Tells(SymbolAt(x), WholeTable, m) /\ NextSymbol = SymbolAt(x)
         /\ x > 0 => activeCorners # <<>> /\ Top = m - 3
         /\ activeCorners \in Seq(0 .. m - 1) /\ Ascends(activeCorners)
         /\ ElementsOf(activeCorners) = OpenGates(WholeTable, m)
<1>1. /\ Sent /\ ReaderInv /\ decoderPhase = "symbols" /\ SymbolsMirrored
      /\ x = symbolID /\ x < NumSymbols /\ m = NewCorner
  BY DEF Reading
<1>2. WireTypeOK /\ SymbolsSoFar
  BY <1>1, InvGivesSymbolsSoFar DEF ReaderInv
<1>3. /\ numEncodedFaces \in Nat /\ symbolID \in Nat /\ NewCorner = 3 * symbolID /\ NumSymbols \in Nat
      /\ NumSymbols <= numEncodedFaces
  BY <1>1, <1>2, Numbers, SentInHand
<1>4. x \in SymbolFaces /\ x \in Nat /\ m \in Nat /\ m = 3 * x
  BY <1>1, <1>3 DEF SymbolFaces
<1>5. NextFaceAt(numEncodedFaces, x, m)
  BY <1>1, <1>3, <1>4 DEF NextFaceAt
<1>6. IsWhole(WholeTable, numEncodedFaces)
  BY <1>1, WholeTableIsWhole
<1>7. /\ Rebuilt(WholeTable, numEncodedFaces, m, dOpposite, dCornerVertex,
                    dVertexCorners, isVertHole, dNumVertices)
      /\ Ascends(activeCorners) /\ ElementsOf(activeCorners) = OpenGates(WholeTable, m)
  BY <1>1 DEF SymbolsMirrored, TableIsRebuilt
<1>8. Tells(SymbolAt(x), WholeTable, m) /\ NextSymbol = SymbolAt(x)
  BY <1>1, <1>4, SymbolsTell DEF NextSymbol, SymbolAt
<1>9. /\ x > 0 => activeCorners # <<>> /\ Top = m - 3
      /\ activeCorners \in Seq(0 .. m - 1)
  BY <1>1, <1>2 DEF SymbolsSoFar, Top
<1> QED
  BY <1>1, <1>2, <1>3, <1>4, <1>5, <1>6, <1>7, <1>8, <1>9

(* The sizes of the decoder's arrays, and the vertices of its faces.       *)
LEMMA ReadingNumbers ==
  ASSUME NEW x, NEW m, Reading(x, m)
  PROVE  /\ DOMAIN dVertexCorners = AllVertices /\ DOMAIN isVertHole = AllVertices
         /\ DecodedVertexIDs = AllVertices /\ AllVertices = 0 .. DecoderMaxVertices - 1
         /\ DecoderMaxVertices \in Nat /\ dNumVertices \in Nat
         /\ DOMAIN dCornerVertex = Corners(numEncodedFaces)
         /\ DOMAIN dOpposite = Corners(numEncodedFaces)
         /\ dNumVertices + NewVertices(SymbolAt(x)) <= DecoderMaxVertices
         /\ dNumVertices + NewVertices(SymbolAt(x)) = Born(x + 1)
         /\ 0 .. dNumVertices - 1 \subseteq AllVertices
         /\ \A c \in 0 .. m - 1 :
              /\ c \in Corners(numEncodedFaces) /\ c >= 0
              /\ NextIn(c) = NextCorner(c) /\ NextCorner(c) \in 0 .. m - 1
              /\ PreviousIn(c) = PreviousCorner(c) /\ PreviousCorner(c) \in 0 .. m - 1
              /\ VertexOf(NextIn(c)) = dCornerVertex[NextCorner(c)]
              /\ VertexOf(PreviousIn(c)) = dCornerVertex[PreviousCorner(c)]
              /\ dCornerVertex[c] \in 0 .. dNumVertices - 1
              /\ LeftMostCornerOf(dCornerVertex[c]) = dVertexCorners[dCornerVertex[c]]
<1>1. /\ Sent /\ WireTypeOK /\ SymbolsSoFar /\ x \in SymbolFaces /\ x \in Nat
      /\ NewCorner = m /\ symbolID = x /\ NextFaceAt(numEncodedFaces, x, m)
      /\ numEncodedFaces \in Nat /\ NumSymbols \in Nat
  BY InReading, SentInHand
<1>2. /\ DecoderMaxVertices \in Nat /\ dNumVertices \in Nat
      /\ 0 .. dNumVertices - 1 \subseteq AllVertices /\ DecodedVertexIDs = AllVertices
      /\ DOMAIN dCornerVertex = Corners(numEncodedFaces)
  BY <1>1, Numbers
<1>3. /\ dVertexCorners \in [AllVertices -> {NoCorner} \cup 0 .. NewCorner - 1]
      /\ isVertHole \in [AllVertices -> BOOLEAN]
      /\ IsTable(dOpposite, Corners(numEncodedFaces))
      /\ dCornerVertex \in [Corners(numEncodedFaces) -> AllVertices \cup {-1}]
      /\ \A c \in Corners(numEncodedFaces) :
            c < NewCorner => dCornerVertex[c] \in 0 .. dNumVertices - 1
  BY <1>1 DEF SymbolsSoFar
<1>4. /\ DOMAIN dVertexCorners = AllVertices /\ DOMAIN isVertHole = AllVertices
      /\ DOMAIN dOpposite = Corners(numEncodedFaces)
  BY <1>3 DEF IsTable
<1>5. /\ dNumVertices + NewVertices(SymbolAt(x)) = Born(x + 1)
      /\ Born(x + 1) <= DecoderMaxVertices
  <2>1. dNumVertices = Born(x)
    BY DEF Reading, SymbolsMirrored
  <2>2. x + 1 \in 0 .. NumSymbols
    BY <1>1 DEF SymbolFaces
  <2> QED
    BY <1>1, <2>1, <2>2, BornIsCounted
<1>6. 0 .. m - 1 \subseteq Corners(numEncodedFaces) /\ m \in Nat
  BY <1>1, FaceOfNewCorners
<1>7. ASSUME NEW c \in 0 .. m - 1
      PROVE   /\ c \in Corners(numEncodedFaces) /\ c >= 0
              /\ NextIn(c) = NextCorner(c) /\ NextCorner(c) \in 0 .. m - 1
              /\ PreviousIn(c) = PreviousCorner(c) /\ PreviousCorner(c) \in 0 .. m - 1
              /\ VertexOf(NextIn(c)) = dCornerVertex[NextCorner(c)]
              /\ VertexOf(PreviousIn(c)) = dCornerVertex[PreviousCorner(c)]
              /\ dCornerVertex[c] \in 0 .. dNumVertices - 1
              /\ LeftMostCornerOf(dCornerVertex[c]) = dVertexCorners[dCornerVertex[c]]
  <2>1. c \in Corners(numEncodedFaces) /\ c >= 0 /\ c < NewCorner
    BY <1>1, <1>6
  <2>2. /\ NextIn(c) = NextCorner(c) /\ NextCorner(c) \in 0 .. m - 1
        /\ PreviousIn(c) = PreviousCorner(c) /\ PreviousCorner(c) \in 0 .. m - 1
        /\ VertexOf(NextIn(c)) = dCornerVertex[NextCorner(c)]
        /\ VertexOf(PreviousIn(c)) = dCornerVertex[PreviousCorner(c)]
    BY <1>1, <2>1, DecodedFace
  <2>3. dCornerVertex[c] \in 0 .. dNumVertices - 1
    BY <1>3, <2>1
  <2>4. LeftMostCornerOf(dCornerVertex[c]) = dVertexCorners[dCornerVertex[c]]
    BY <1>2, <1>4, <2>3 DEF LeftMostCornerOf, At
  <2> QED
    BY <2>1, <2>2, <2>3, <2>4
<1>8. AllVertices = 0 .. DecoderMaxVertices - 1
  BY DEF AllVertices
<1> QED
  BY <1>1, <1>2, <1>4, <1>5, <1>7, <1>8

(* The vertices of a new face, in the table.                               *)
LEMMA FaceMapped ==
  ASSUME NEW x, NEW m, Reading(x, m),
         NEW f, DOMAIN f = NewFaceOf(m), \A c \in NewFaceOf(m) : f[c] \in AllVertices
  PROVE  /\ \A c \in 0 .. m - 1 : MapCorners(dCornerVertex, f)[c] = dCornerVertex[c]
         /\ \A c \in NewFaceOf(m) : MapCorners(dCornerVertex, f)[c] = f[c]
         /\ \A c \in Corners(numEncodedFaces) \ (0 .. m + 2) : MapCorners(dCornerVertex, f)[c] = -1
<1>1. /\ DecodedVertexIDs = AllVertices /\ DOMAIN dCornerVertex = Corners(numEncodedFaces)
  BY ReadingNumbers
<1>2. \A c \in Corners(numEncodedFaces) \ (0 .. m - 1) : dCornerVertex[c] = -1
  <2>1. Rebuilt(WholeTable, numEncodedFaces, m, dOpposite, dCornerVertex,
                    dVertexCorners, isVertHole, dNumVertices)
    BY InReading
  <2> QED
    BY <2>1 DEF Rebuilt
<1>3. /\ NewFaceOf(m) \subseteq Corners(numEncodedFaces)
      /\ \A c \in NewFaceOf(m) : ~ IsOld(c, m) /\ c \in 0 .. m + 2
      /\ 0 .. m - 1 \subseteq 0 .. m + 2 /\ 0 .. m + 2 \subseteq Corners(numEncodedFaces)
  BY InReading, FaceOfNewCorners
<1>4. \A c \in Corners(numEncodedFaces) :
        MapCorners(dCornerVertex, f)[c] = IF c \in NewFaceOf(m) THEN f[c] ELSE dCornerVertex[c]
  BY <1>1 DEF MapCorners
<1>5. \A c \in 0 .. m - 1 : c \notin NewFaceOf(m)
  BY <1>3 DEF IsOld
<1> QED
  BY <1>2, <1>3, <1>4, <1>5

(* No part but the top one grows at the left of a C.                       *)
LEMMA TipHasNoGate ==
  ASSUME NEW x, NEW m, Reading(x, m), SymbolAt(x) = "C"
  PROVE  WholeTable[m + 2] \notin OpenGates(WholeTable, m)
<1> DEFINE T == WholeTable
           t == T[m + 2]
<1>0. /\ Sent /\ x \in SymbolFaces /\ m = 3 * x /\ x \in Nat /\ NumSymbols \in Nat
  BY InReading, SentInHand
<1> SUFFICES ASSUME t \in OpenGates(T, m) PROVE FALSE
  OBVIOUS
<1>1. t \in 0 .. m - 1 /\ t % 3 = 0
  BY DEF OpenGates
<1> DEFINE z == t \div 3
<1> HIDE DEF t
<1>2. z \in SymbolFaces /\ 3 * z = t
  <2>1. z \in Int /\ t = 3 * z
    BY <1>0, <1>1
  <2> HIDE DEF z
  <2> QED
    BY <1>0, <1>1, <2>1 DEF SymbolFaces
<1> HIDE DEF z
<1>3. T[3 * x + 2] = 3 * z
  BY <1>0, <1>2 DEF t
<1>4. T[3 * z] = 3 * x + 2
  <2>1. 3 * z \in Corners(numEncodedFaces)
    BY <1>0, <1>2, EdgesOfStep
  <2> QED
    BY <1>0, <1>3, <2>1, EdgesOfStep
<1>5. SymbolAt(x) = "R" \/ SymbolAt(x) = "S"
  BY <1>0, <1>2, <1>4, BranchesAreStacked
<1> QED
  BY <1>5

(* C, L and R replace the top of the stack.                                *)
LEMMA PartReplaced ==
  ASSUME NEW x, NEW m, Reading(x, m), SymbolAt(x) \in {"C", "L", "R"}
  PROVE  /\ activeCorners # <<>> /\ Top = m - 3 /\ Top \in 0 .. m - 1
         /\ Ascends(ReplaceTop(m)) /\ ElementsOf(ReplaceTop(m)) = OpenGates(WholeTable, m + 3)
<1> DEFINE T == WholeTable
           s == SymbolAt(x)
           A == activeCorners
<1>0. /\ numEncodedFaces \in Nat /\ x \in Nat /\ m \in Nat /\ m = 3 * x
      /\ NextFaceAt(numEncodedFaces, x, m) /\ IsWhole(T, numEncodedFaces)
      /\ Tells(s, T, m)
      /\ x > 0 => A # <<>> /\ Top = m - 3
      /\ A \in Seq(0 .. m - 1) /\ Ascends(A)
      /\ ElementsOf(A) = OpenGates(T, m)
  BY InReading
<1>1. /\ ~ IsOld(T[m], m)
      /\ IsOld(T[m + 1], m) <=> s \in {"C", "L", "S"}
      /\ IsOld(T[m + 2], m) <=> s \in {"C", "R", "S"}
      /\ s \in {"C", "L", "S"} => m >= 3 /\ T[m + 1] = m - 3
      /\ s = "R" => m >= 3 /\ T[m + 2] = m - 3
  BY <1>0 DEF Tells
<1>2. m >= 3
  BY <1>1
<1>3. A # <<>> /\ Top = m - 3 /\ x > 0 /\ Top \in 0 .. m - 1
  <2>1. x > 0
    BY <1>0, <1>2
  <2> QED
    BY <1>0, <1>2, <2>1
<1>4. /\ OpenGates(T, m + 3) = (OpenGates(T, m) \ {T[m + 1], T[m + 2]}) \cup {m}
      /\ \A t \in OpenGates(T, m) : t \in Nat /\ t < m
  <2> HIDE DEF T
  <2>1. /\ numEncodedFaces \in Nat /\ NextFaceAt(numEncodedFaces, x, m)
        /\ IsWhole(T, numEncodedFaces) /\ ~ IsOld(T[m], m)
    BY <1>0, <1>1
  <2>2. OpenGates(T, m + 3) = (OpenGates(T, m) \ {T[m + 1], T[m + 2]}) \cup {m}
    BY <2>1, GatesAfter
  <2>3. \A t \in OpenGates(T, m) : t \in Nat /\ t < m
    BY <1>0 DEF OpenGates
  <2> QED
    BY <2>2, <2>3
<1>5. OpenGates(T, m) \ {T[m + 1], T[m + 2]} = OpenGates(T, m) \ {Top}
  <2>1. \A c : c \in OpenGates(T, m) => IsOld(c, m)
    BY DEF OpenGates, IsOld
  <2>2. CASE s = "C"
    <3>1. T[m + 2] \notin OpenGates(T, m)
      BY <2>2, TipHasNoGate
    <3> QED
      BY <1>1, <1>3, <2>2, <3>1
  <2>3. CASE s = "L"
    <3>1. T[m + 2] \notin OpenGates(T, m)
      BY <1>1, <2>1, <2>3
    <3> QED
      BY <1>1, <1>3, <2>3, <3>1
  <2>4. CASE s = "R"
    <3>1. T[m + 1] \notin OpenGates(T, m)
      BY <1>1, <2>1, <2>4
    <3> QED
      BY <1>1, <1>3, <2>4, <3>1
  <2> QED
    BY <2>2, <2>3, <2>4
<1> DEFINE S == 0 .. m
           f == Front(A)
<1>6. /\ f \in Seq(S) /\ Ascends(f)
      /\ ElementsOf(f) = OpenGates(T, m) \ {Top}
  <2>1. A \in Seq(0 .. m - 1) /\ 0 .. m - 1 \in SUBSET Int
    BY <1>0
  <2>2. f \in Seq(0 .. m - 1) /\ Ascends(f) /\ ElementsOf(f) = ElementsOf(A) \ {Last(A)}
    BY <1>0, <1>3, <2>1, AscendingTop
  <2> DEFINE B == 0 .. m - 1
  <2>3. B \subseteq S
    BY <1>0
  <2> HIDE DEF B, f, S
  <2>4. f \in Seq(S)
    <3>1. f \in Seq(B)
      BY <2>2 DEF B
    <3> QED
      BY <2>3, <3>1
  <2> QED
    BY <1>0, <2>2, <2>4 DEF Top
<1> HIDE DEF f
<1>7. m \in S /\ S \in SUBSET Int /\ \A d \in ElementsOf(f) : d < m
  BY <1>0, <1>4, <1>6
<1> HIDE DEF S
<1>8. Ascends(Pushed(f, m)) /\ ElementsOf(Pushed(f, m)) = ElementsOf(f) \cup {m}
  BY <1>6, <1>7, AscendingPush
<1>9. ReplaceTop(m) = Pushed(f, m)
  BY DEF ReplaceTop, Pushed, f
<1> QED
  BY <1>3, <1>4, <1>5, <1>6, <1>8, <1>9

(* E starts a part of its own.                                             *)
LEMMA PartAdded ==
  ASSUME NEW x, NEW m, Reading(x, m), SymbolAt(x) = "E"
  PROVE  Ascends(Append(activeCorners, m))
         /\ ElementsOf(Append(activeCorners, m)) = OpenGates(WholeTable, m + 3)
<1> DEFINE T == WholeTable
           s == SymbolAt(x)
           A == activeCorners
<1>0. /\ numEncodedFaces \in Nat /\ m \in Nat
      /\ NextFaceAt(numEncodedFaces, x, m) /\ IsWhole(T, numEncodedFaces)
      /\ Tells(s, T, m)
      /\ A \in Seq(0 .. m - 1) /\ Ascends(A)
      /\ ElementsOf(A) = OpenGates(T, m)
  BY InReading
<1>1. ~ IsOld(T[m], m) /\ ~ IsOld(T[m + 1], m) /\ ~ IsOld(T[m + 2], m)
  BY <1>0 DEF Tells
<1>2. /\ OpenGates(T, m + 3) = (OpenGates(T, m) \ {T[m + 1], T[m + 2]}) \cup {m}
      /\ \A t \in OpenGates(T, m) : t \in Nat /\ t < m
  BY <1>0, <1>1, GatesAfter
<1>3. OpenGates(T, m + 3) = OpenGates(T, m) \cup {m}
  <2>1. \A c : c \in OpenGates(T, m) => IsOld(c, m)
    BY DEF OpenGates, IsOld
  <2> QED
    BY <1>1, <1>2, <2>1
<1> DEFINE S == 0 .. m
<1>4. m \in S /\ S \in SUBSET Int /\ 0 .. m - 1 \subseteq S
  BY <1>0
<1> HIDE DEF S
<1>5. A \in Seq(S)
  BY <1>0, <1>4
<1>6. /\ Ascends(Pushed(A, m)) /\ ElementsOf(Pushed(A, m)) = ElementsOf(A) \cup {m}
      /\ Append(A, m) = Pushed(A, m)
  BY <1>0, <1>2, <1>4, <1>5, AscendingPush
<1> QED
  BY <1>0, <1>3, <1>6

(* What was pushed last comes off first.                                   *)
LEMMA PopsWhatWasPushed ==
  ASSUME NEW S, NEW s \in Seq(S), NEW e \in S
  PROVE  /\ Pushed(s, e) # <<>> /\ Last(Pushed(s, e)) = e /\ Front(Pushed(s, e)) = s
         /\ s \o <<>> = s
<1> DEFINE p == Pushed(s, e)
           f == Front(p)
           n == Len(s)
<1>1. p \in Seq(S) /\ p # <<>> /\ Last(p) = e
  BY PushOn
<1>2. n \in Nat /\ Len(p) = n + 1 /\ \A a \in 1 .. n : p[a] = s[a]
  <2> DEFINE t == <<e>>
             q == s \o t
  <2>1. t \in Seq(S) /\ Len(t) = 1
    OBVIOUS
  <2> HIDE DEF t
  <2>2. /\ q \in Seq(S) /\ Len(q) = Len(s) + Len(t)
        /\ \A i \in 1 .. Len(s) + Len(t) : q[i] = IF i <= Len(s) THEN s[i] ELSE t[i - Len(s)]
    BY <2>1, ConcatProperties
  <2>3. n \in Nat
    OBVIOUS
  <2> HIDE DEF q, n
  <2>4. Len(q) = n + 1 /\ \A a \in 1 .. n : q[a] = s[a]
    BY <2>1, <2>2, <2>3 DEF n
  <2> QED
    BY <2>3, <2>4 DEF Pushed, q, t
<1> HIDE DEF p
<1>3. f \in Seq(S) /\ Len(f) = Len(p) - 1 /\ \A a \in 1 .. Len(p) - 1 : f[a] = p[a]
  BY <1>1, FrontOf
<1> HIDE DEF f
<1>4. f = s
  <2>1. Len(f) = Len(s) /\ \A a \in 1 .. Len(s) : f[a] = s[a]
    BY <1>2, <1>3
  <2> QED
    BY <1>3, <2>1, SeqEqual
<1>5. s \o <<>> = s
  OBVIOUS
<1> QED
  BY <1>1, <1>4, <1>5 DEF p, f

(* S joins the top part with the one below it, or with the one a split     *)
(* event has left.                                                         *)
LEMMA PartsJoined ==
  ASSUME NEW x, NEW m, Reading(x, m), SymbolAt(x) = "S"
  PROVE  /\ activeCorners # <<>> /\ Top = WholeTable[m + 1] /\ Top \in 0 .. m - 1
         /\ OtherParts # <<>> /\ Last(OtherParts) = WholeTable[m + 2]
         /\ Ascends(Front(OtherParts) \o <<m>>)
         /\ ElementsOf(Front(OtherParts) \o <<m>>) = OpenGates(WholeTable, m + 3)
<1> DEFINE T == WholeTable
           A == activeCorners
           a == T[m + 2]
           S == 0 .. m
           f == Front(A)
<1>0. /\ numEncodedFaces \in Nat /\ x \in SymbolFaces /\ x \in Nat /\ m \in Nat /\ m = 3 * x
      /\ NextFaceAt(numEncodedFaces, x, m) /\ IsWhole(T, numEncodedFaces)
      /\ Tells("S", T, m) /\ Sent /\ symbolID = x
      /\ x > 0 => A # <<>> /\ Top = m - 3
      /\ A \in Seq(0 .. m - 1) /\ Ascends(A)
      /\ ElementsOf(A) = OpenGates(T, m)
  BY InReading
<1>1. /\ ~ IsOld(T[m], m) /\ IsOld(T[m + 1], m) /\ IsOld(T[m + 2], m)
      /\ m >= 3 /\ T[m + 1] = m - 3
  BY <1>0 DEF Tells
<1>2. A # <<>> /\ Top = m - 3 /\ Last(A) = m - 3 /\ m - 3 \in 0 .. m - 1
  <2>1. x > 0
    BY <1>0, <1>1
  <2> QED
    BY <1>0, <1>1, <2>1 DEF Top
<1>3. /\ OpenGates(T, m + 3) = (OpenGates(T, m) \ {m - 3, a}) \cup {m}
      /\ \A t \in OpenGates(T, m) : t \in Nat /\ t < m
  <2> HIDE DEF T
  <2>1. /\ numEncodedFaces \in Nat /\ NextFaceAt(numEncodedFaces, x, m)
        /\ IsWhole(T, numEncodedFaces) /\ ~ IsOld(T[m], m)
    BY <1>0, <1>1
  <2>2. OpenGates(T, m + 3) = (OpenGates(T, m) \ {T[m + 1], T[m + 2]}) \cup {m}
    BY <2>1, GatesAfter
  <2>3. \A t \in OpenGates(T, m) : t \in Nat /\ t < m
    BY <1>0 DEF OpenGates
  <2> QED
    BY <1>1, <2>2, <2>3
<1>4. /\ f \in Seq(0 .. m - 1) /\ Ascends(f) /\ ElementsOf(f) = OpenGates(T, m) \ {m - 3}
      /\ \A t \in ElementsOf(f) : t < m - 3
  <2>1. A \in Seq(0 .. m - 1) /\ 0 .. m - 1 \in SUBSET Int
    BY <1>0
  <2> QED
    BY <1>0, <1>2, <2>1, AscendingTop
<1>5. topologySplitCorner[x] = IF a < m /\ a % 3 # 0 THEN a ELSE NoCorner
  <2>1. topologySplitCorner[x] = SplitLeft(x, m)
    <3>1. /\ \A y \in SymbolFaces : y >= symbolID => topologySplitCorner[y] = SplitLeft(y, NewCorner)
          /\ m = NewCorner
      BY DEF Reading, SymbolsMirrored
    <3>2. x \in SymbolFaces /\ x >= symbolID
      BY <1>0
    <3> QED
      BY <3>1, <3>2
  <2> QED
    BY <1>0, <2>1 DEF SplitLeft
<1>6. a \in 0 .. m - 1 /\ a < m /\ a # NoCorner /\ a # m - 3
  <2>1. a \in 0 .. m - 1
    BY <1>1 DEF IsOld
  <2>2. a # m - 3
    <3> HIDE DEF T
    <3>1. m + 1 \in NewFaceOf(m) /\ m + 2 \in NewFaceOf(m) /\ m + 1 # m + 2
      BY <1>0 DEF NewFaceOf
    <3>2. \A j \in NewFaceOf(m) : IsOld(T[j], m) => T[T[j]] = j
      BY <1>0, CutGrows
    <3>3. T[T[m + 1]] = m + 1 /\ T[T[m + 2]] = m + 2
      BY <1>1, <3>1, <3>2
    <3> QED
      BY <1>1, <3>1, <3>3
  <2>3. a # NoCorner
    BY <2>1 DEF NoCorner
  <2> QED
    BY <1>0, <2>1, <2>2, <2>3
<1>7. OtherParts = f \o (IF a % 3 # 0 THEN <<a>> ELSE <<>>)
  <2>1. topologySplitCorner[x] = IF a % 3 # 0 THEN a ELSE NoCorner
    BY <1>5, <1>6
  <2>2. topologySplitCorner[symbolID] = topologySplitCorner[x]
    BY <1>0
  <2> HIDE DEF a
  <2> QED
    BY <1>6, <2>1, <2>2 DEF OtherParts
<1>8. m \in S /\ S \in SUBSET Int /\ 0 .. m - 1 \subseteq S
  BY <1>0
<1> DEFINE B == 0 .. m - 1
<1>9. f \in Seq(B) /\ B \subseteq S /\ B \in SUBSET Int
  BY <1>4, <1>8
<1>10. /\ OtherParts # <<>> /\ Last(OtherParts) = a
       /\ Front(OtherParts) \in Seq(B) /\ Ascends(Front(OtherParts))
       /\ ElementsOf(Front(OtherParts)) = OpenGates(T, m) \ {m - 3, a}
  <2>1. CASE a % 3 # 0
    <3>1. OtherParts = Pushed(f, a)
      BY <1>7, <2>1 DEF Pushed
    <3>2. a \in B
      BY <1>6
    <3> HIDE DEF f, B
    <3>3. OtherParts # <<>> /\ Last(OtherParts) = a /\ Front(OtherParts) = f
      BY <1>9, <3>1, <3>2, PopsWhatWasPushed
    <3>4. a \notin OpenGates(T, m)
      BY <2>1 DEF OpenGates
    <3> QED
      BY <1>4, <1>9, <3>3, <3>4
  <2>2. CASE a % 3 = 0
    <3>1. OtherParts = f
      BY <1>7, <1>9, <2>2, PopsWhatWasPushed
    <3> DEFINE z == a \div 3
    <3>2. a = 3 * z /\ z \in SymbolFaces
      <4> HIDE DEF a
      <4>1. z \in Int /\ a = 3 * z
        BY <1>6, <2>2
      <4>2. NumSymbols \in Nat
        BY <1>0, SentInHand
      <4> HIDE DEF z
      <4> QED
        BY <1>0, <1>6, <4>1, <4>2 DEF SymbolFaces
    <3> HIDE DEF z
    <3>3. T[3 * x + 2] = 3 * z
      BY <1>0, <3>2
    <3>4. T[3 * z] = 3 * x + 2
      <4>1. 3 * z \in Corners(numEncodedFaces)
        BY <1>0, <3>2, EdgesOfStep
      <4> QED
        BY <1>0, <3>3, <4>1, EdgesOfStep
    <3>5. a \in OpenGates(T, m)
      <4>1. T[a] = m + 2
        BY <1>0, <3>2, <3>4
      <4> HIDE DEF a
      <4>2. ~ IsOld(T[a], m)
        BY <1>0, <4>1 DEF IsOld
      <4> QED
        BY <1>6, <2>2, <4>2 DEF OpenGates
    <3>6. a \in ElementsOf(f)
      BY <1>4, <1>6, <3>5
    <3>7. f # <<>>
      BY <1>9, <3>6, NothingStacked
    <3> DEFINE t == Last(f)
    <3>8. /\ Front(f) \in Seq(B) /\ Ascends(Front(f)) /\ t \in ElementsOf(f)
          /\ ElementsOf(Front(f)) = ElementsOf(f) \ {t}
          /\ \A d \in ElementsOf(Front(f)) : d < t
      <4> HIDE DEF f, B
      <4> QED
        BY <1>4, <1>9, <3>7, AscendingTop
    <3> HIDE DEF t
    <3>9. t = a
      <4> SUFFICES ASSUME t # a PROVE FALSE
        OBVIOUS
      <4>1. a < t /\ t < m - 3 /\ t \in 0 .. m - 1 /\ t % 3 = 0 /\ ~ IsOld(T[t], m)
        BY <1>4, <3>6, <3>8 DEF OpenGates
      <4> DEFINE y == t \div 3
      <4>2. y \in Int /\ t = 3 * y
        BY <4>1
      <4>3. NumSymbols \in Nat /\ x < NumSymbols /\ z \in Nat
        BY <1>0, <3>2, SentInHand DEF SymbolFaces
      <4> HIDE DEF y
      <4>4. y \in SymbolFaces /\ z < y /\ y <= x - 2
        <5>1. a = 3 * z /\ a \in Int
          BY <1>6, <3>2
        <5> HIDE DEF a
        <5> QED
          BY <1>0, <4>1, <4>2, <4>3, <5>1 DEF SymbolFaces
      <4>5. IsOld(T[3 * y], 3 * x)
        BY <1>0, <3>2, <3>4, <4>4, BranchesAreStacked
      <4> QED
        BY <1>0, <4>1, <4>2, <4>5
    <3> HIDE DEF f, B, a
    <3> QED
      BY <1>4, <3>1, <3>7, <3>8, <3>9 DEF t
  <2> QED
    BY <2>1, <2>2
<1> DEFINE g == Front(OtherParts)
<1>11. g \in Seq(S)
  <2>1. g \in Seq(B) /\ B \subseteq S
    BY <1>9, <1>10
  <2> HIDE DEF B, S, g
  <2> QED
    BY <2>1
<1>12. \A d \in ElementsOf(g) : d < m
  BY <1>3, <1>10
<1> HIDE DEF g, S
<1>13. Ascends(Pushed(g, m)) /\ ElementsOf(Pushed(g, m)) = ElementsOf(g) \cup {m}
  BY <1>8, <1>10, <1>11, <1>12, AscendingPush DEF g
<1>14. Pushed(g, m) = Front(OtherParts) \o <<m>>
  BY DEF Pushed, g
<1>15. ElementsOf(Pushed(g, m)) = OpenGates(T, m + 3)
  BY <1>3, <1>10, <1>13 DEF g
<1> QED
  BY <1>1, <1>2, <1>10, <1>13, <1>14, <1>15

-----------------------------------------------------------------------------
(* The split events a symbol consumes.                                     *)

(* An upper part of a range starts where its size says.                    *)
LEMMA UpperPart ==
  ASSUME NEW n \in Nat, NEW H \in SUBSET (1 .. n), \A i \in H : i .. n \subseteq H
  PROVE  /\ Cardinality(H) \in Nat /\ Cardinality(H) <= n
         /\ \A i \in 1 .. n : i \in H <=> i > n - Cardinality(H)
<1> DEFINE k == Cardinality(H)
<1>1. IsFiniteSet(1 .. n) /\ Cardinality(1 .. n) = n
  BY RangesAreFinite
<1>2. IsFiniteSet(H) /\ k \in Nat /\ k <= n
  BY <1>1, FS_Subset, FS_CardinalityType
<1>3. ASSUME NEW i \in 1 .. n
      PROVE  i \in H <=> i > n - k
  <2>1. i \in H => k >= n - i + 1
    <3> SUFFICES ASSUME i \in H PROVE k >= n - i + 1
      OBVIOUS
    <3>1. Cardinality(i .. n) = n - i + 1
      BY FS_Interval
    <3>2. Cardinality(i .. n) <= Cardinality(H)
      BY <1>2, FS_Subset
    <3> QED
      BY <1>2, <3>1, <3>2
  <2>2. i \notin H => k <= n - i
    <3> SUFFICES ASSUME i \notin H PROVE k <= n - i
      OBVIOUS
    <3>1. IsFiniteSet(i + 1 .. n) /\ Cardinality(i + 1 .. n) = n - i
      BY FS_Interval
    <3>2. H \subseteq i + 1 .. n
      BY DEF k
    <3>3. Cardinality(H) <= Cardinality(i + 1 .. n)
      BY <3>1, <3>2, FS_Subset
    <3> QED
      BY <1>2, <3>1, <3>3
  <2> HIDE DEF k
  <2> QED
    BY <1>2, <2>1, <2>2
<1> QED
  BY <1>2, <1>3

(* The events are stored in the order of their sources.                    *)
LEMMA SourcesAscend ==
  ASSUME Sent, NEW i \in DOMAIN splitEvents, NEW j \in DOMAIN splitEvents, i <= j
  PROVE  /\ splitEvents[i].source \in Nat /\ splitEvents[i].split \in Nat
         /\ splitEvents[i].source <= splitEvents[j].source
<1> DEFINE n == Len(splitEvents)
           src(k) == splitEvents[k].source
<1>1. splitEvents \in Seq(SplitEvents)
  BY SentInHand
<1>2. n \in Nat /\ DOMAIN splitEvents = 1 .. n
      /\ \A k \in 1 .. n : splitEvents[k] \in SplitEvents
  BY <1>1
<1>3. \A k \in 1 .. n : src(k) \in Nat /\ splitEvents[k].split \in Nat
  BY <1>2 DEF SplitEvents
<1>4. \A k \in 1 .. n : k > 1 => src(k - 1) <= src(k)
  <2>1. EncodableSplitEvents(splitEvents)
    BY DEF Sent, TraceIsKept, WalkInv, EventsFollowTheWalk
  <2> QED
    BY <1>2, <2>1 DEF EncodableSplitEvents
<1>5. i \in 1 .. n /\ j \in 1 .. n
  BY <1>2
<1> HIDE DEF n, src
<1> SUFFICES ASSUME ~ (src(i) <= src(j)) PROVE FALSE
  BY <1>3, <1>5 DEF src
<1> DEFINE S == {k \in 1 .. n : i < k /\ src(k) < src(i)}
<1>6. S \in SUBSET Nat /\ j \in S
  <2>1. i # j
    BY <1>3, <1>5
  <2> QED
    BY <1>2, <1>3, <1>5, <2>1
<1>7. PICK k \in S : \A l \in S : k <= l
  BY <1>6, LeastNumber
<1>8. k - 1 \in 1 .. n /\ k > 1 /\ i <= k - 1 /\ k - 1 \notin S /\ k \in 1 .. n /\ src(k) < src(i)
  BY <1>2, <1>5, <1>7
<1>9. k - 1 = i \/ ~ (src(k - 1) < src(i))
  BY <1>2, <1>5, <1>8
<1>10. src(k - 1) <= src(k)
  BY <1>4, <1>8
<1>11. src(k - 1) \in Nat /\ src(k) \in Nat /\ src(i) \in Nat
  BY <1>3, <1>5, <1>8
<1> QED
  BY <1>8, <1>9, <1>10, <1>11

(* The events taken at a symbol are those written for its face.            *)
LEMMA EventsTaken ==
  ASSUME NEW x, NEW m, Reading(x, m)
  PROVE  /\ EventsHere = {i \in DOMAIN splitEvents : splitEvents[i].source = NumSymbols - x - 1}
         /\ EventsInRange
         /\ \A k \in DOMAIN splitEvents :
              k > splitIndex - Cardinality(EventsHere)
                <=> splitEvents[k].source >= NumSymbols - (x + 1)
<1> DEFINE n == splitIndex
           src(k) == splitEvents[k].source
           e == NumSymbols - x - 1
           D == DOMAIN splitEvents
<1>1. /\ Sent /\ SymbolsSoFar /\ x \in SymbolFaces /\ x \in Nat /\ symbolID = x /\ NumSymbols \in Nat
  BY InReading, SentInHand
<1>2. n \in 0 .. Len(splitEvents) /\ D = 1 .. Len(splitEvents) /\ Len(splitEvents) \in Nat
  <2>1. splitEvents \in Seq(SplitEvents)
    BY <1>1, SentInHand
  <2> QED
    BY <1>1, <2>1 DEF SymbolsSoFar
<1>3. \A k \in D : k > n <=> src(k) >= NumSymbols - x
  BY <1>1 DEF Reading, SymbolsMirrored
<1>4. \A k \in D : src(k) \in Nat
  BY <1>1, <1>2, SourcesAscend
<1>5. \A i, j \in D : i <= j => src(i) <= src(j)
  BY <1>1, SourcesAscend
<1>6. EventsHere = {i \in 1 .. n : \A j \in i .. n : src(j) = e}
  BY <1>1 DEF EventsHere, EncoderSymbolID
<1> DEFINE H == {i \in D : src(i) = e}
<1>7. H \subseteq 1 .. n
  <2> HIDE DEF src, D
  <2>1. \A k \in D : src(k) = e => ~ (src(k) >= NumSymbols - x)
    BY <1>1
  <2>2. \A k \in D : ~ (k > n) => k \in 1 .. n
    BY <1>2
  <2> QED
    BY <1>3, <2>1, <2>2
<1>8. \A i \in H : i .. n \subseteq H
  <2> SUFFICES ASSUME NEW i \in H, NEW j \in i .. n PROVE j \in D /\ src(j) = e
    OBVIOUS
  <2>1. i \in D /\ src(i) = e /\ i \in Nat
    BY <1>2
  <2>2. j \in D /\ i <= j /\ ~ (j > n)
    BY <1>2, <2>1
  <2>3. src(i) <= src(j) /\ ~ (src(j) >= NumSymbols - x) /\ src(j) \in Nat
    BY <1>3, <1>4, <1>5, <2>1, <2>2
  <2> HIDE DEF src, D
  <2> QED
    BY <1>1, <2>1, <2>2, <2>3
<1>9. EventsHere = H
  <2> HIDE DEF src
  <2>1. \A i \in H : i \in 1 .. n
    BY <1>7
  <2>2. \A i \in 1 .. n : i \in D /\ i \in i .. n
    BY <1>2
  <2> QED
    BY <1>6, <1>8, <2>1, <2>2
<1>10. EventsInRange
  <2>1. \A i \in H : NumSymbols - splitEvents[i].split - 1 \in SymbolFaces
    BY <1>1, EventIsTrue
  <2> QED
    BY <1>9, <2>1 DEF EventsInRange, DecoderSplitID, SymbolFaces
<1> DEFINE h == Cardinality(H)
<1>11. /\ h \in Nat /\ h <= n /\ \A i \in 1 .. n : i \in H <=> i > n - h
  <2>1. n \in Nat /\ H \in SUBSET (1 .. n) /\ \A i \in H : i .. n \subseteq H
    BY <1>2, <1>7, <1>8
  <2> HIDE DEF H
  <2> QED
    BY <2>1, UpperPart
<1> HIDE DEF h
<1>12. \A k \in D : k > n - h <=> src(k) >= NumSymbols - (x + 1)
  <2> SUFFICES ASSUME NEW k \in D PROVE k > n - h <=> src(k) >= NumSymbols - (x + 1)
    OBVIOUS
  <2>0. src(k) \in Nat /\ (k > n <=> src(k) >= NumSymbols - x) /\ k \in Nat
    BY <1>2, <1>3, <1>4
  <2>1. CASE k > n
    <3> HIDE DEF src
    <3> QED
      BY <1>1, <1>2, <1>11, <2>0, <2>1
  <2>2. CASE ~ (k > n)
    <3>1. k \in 1 .. n
      BY <1>2, <2>2
    <3>2. src(k) = e <=> k > n - h
      BY <1>11, <3>1
    <3> HIDE DEF src
    <3> QED
      BY <1>1, <2>0, <2>2, <3>2
  <2> QED
    BY <2>1, <2>2
<1> QED
  BY <1>9, <1>10, <1>12 DEF h

(* What the face of step x adds to what split events have left.            *)
LEMMA SplitLeftAfter ==
  ASSUME Sent, NEW x \in SymbolFaces, NEW m, m = 3 * x, NEW y \in SymbolFaces
  PROVE  /\ WholeTable[3 * y + 2] \in Int
         /\ SplitLeft(y, m + 3) =
              IF SymbolAt(y) = "S" /\ WholeTable[3 * y + 2] \in {m + 1, m + 2}
              THEN WholeTable[3 * y + 2] ELSE SplitLeft(y, m)
<1> DEFINE d == WholeTable[3 * y + 2]
<1>1. /\ IsTable(WholeTable, Corners(numEncodedFaces)) /\ numEncodedFaces \in Nat
      /\ 3 * y + 2 \in Corners(numEncodedFaces) /\ x \in Nat
  BY EdgesOfStep, SentInHand, WholeTableIsSent
<1>2. d \in Int
  BY <1>1 DEF IsTable, Corners, NoCorner
<1> HIDE DEF d
<1>3. d % 3 # 0 => (d < m + 3 <=> d < m \/ d \in {m + 1, m + 2})
  <2>1. m \in Nat /\ (d % 3 # 0 => d # m)
    BY <1>1
  <2> QED
    BY <1>2, <2>1
<1>4. d \in {m + 1, m + 2} => d % 3 # 0 /\ ~ (d < m)
  BY <1>1
<1>5. /\ SplitLeft(y, m) = IF SymbolAt(y) = "S" /\ d < m /\ d % 3 # 0 THEN d ELSE NoCorner
      /\ SplitLeft(y, m + 3) = IF SymbolAt(y) = "S" /\ d < m + 3 /\ d % 3 # 0 THEN d ELSE NoCorner
  BY DEF SplitLeft, d
<1> QED
  BY <1>2, <1>3, <1>4, <1>5 DEF d

(* C and S leave nothing: their edges are glued already.                   *)
LEMMA NothingIsLeft ==
  ASSUME NEW x, NEW m, Reading(x, m), SymbolAt(x) \in {"C", "S"}
  PROVE  /\ \A k \in DOMAIN splitEvents :
              k > splitIndex <=> splitEvents[k].source >= NumSymbols - (x + 1)
         /\ \A y \in SymbolFaces : y >= x + 1 => topologySplitCorner[y] = SplitLeft(y, m + 3)
<1> DEFINE T == WholeTable
<1>1. /\ Sent /\ x \in SymbolFaces /\ symbolID = x /\ NumSymbols \in Nat /\ m = 3 * x
      /\ x \in Nat /\ m \in Nat /\ NewCorner = m
      /\ Tells(SymbolAt(x), T, m)
  BY InReading, SentInHand
<1>2. IsOld(T[m + 1], m) /\ IsOld(T[m + 2], m)
  BY <1>1 DEF Tells
<1>3. /\ \A k \in DOMAIN splitEvents : k > splitIndex <=> splitEvents[k].source >= NumSymbols - x
      /\ \A y \in SymbolFaces : y >= x => topologySplitCorner[y] = SplitLeft(y, m)
  BY <1>1 DEF Reading, SymbolsMirrored
<1>4. ASSUME NEW k \in DOMAIN splitEvents
      PROVE  k > splitIndex <=> splitEvents[k].source >= NumSymbols - (x + 1)
  <2> DEFINE s == splitEvents[k].source
  <2>1. s # NumSymbols - x - 1
    <3> SUFFICES ASSUME s = NumSymbols - x - 1 PROVE FALSE
      OBVIOUS
    <3>1. x = NumSymbols - s - 1
      BY <1>1
    <3> HIDE DEF s
    <3>2. SymbolAt(x) \in {"R", "L", "E"}
      BY <1>1, <3>1, EventIsTrue DEF s
    <3> QED
      BY <3>2
  <2>2. s \in Nat
    <3>1. splitEvents \in Seq(SplitEvents)
      BY <1>1, SentInHand
    <3>2. splitEvents[k] \in SplitEvents
      BY <3>1
    <3> QED
      BY <3>2 DEF SplitEvents
  <2>3. k > splitIndex <=> s >= NumSymbols - x
    BY <1>3
  <2> HIDE DEF s
  <2>4. s >= NumSymbols - x <=> s >= NumSymbols - (x + 1)
    BY <1>1, <2>1, <2>2
  <2> QED
    BY <2>3, <2>4 DEF s
<1>5. ASSUME NEW y \in SymbolFaces, y >= x + 1
      PROVE  topologySplitCorner[y] = SplitLeft(y, m + 3)
  <2> DEFINE d == 3 * y + 2
  <2>1. d \in Corners(numEncodedFaces) /\ y \in Nat
    BY <1>1, EdgesOfStep
  <2>2. ~ IsOld(d, m)
    BY <1>1, <1>5, <2>1 DEF IsOld
  <2> HIDE DEF d
  <2>3. T[d] = 3 * x + 1 <=> T[3 * x + 1] = d
    BY <1>1, <2>1, EdgesOfStep
  <2>4. T[d] = 3 * x + 2 <=> T[3 * x + 2] = d
    BY <1>1, <2>1, EdgesOfStep
  <2>5. T[d] \notin {m + 1, m + 2}
    BY <1>1, <1>2, <2>2, <2>3, <2>4
  <2>6. SplitLeft(y, m + 3) = SplitLeft(y, m)
    BY <1>1, <2>5, SplitLeftAfter DEF d
  <2>7. y >= x
    BY <1>1, <1>5, <2>1
  <2> QED
    BY <1>3, <2>6, <2>7
<1> QED
  BY <1>4, <1>5

(* The other symbols leave the corners their events name.                  *)
LEMMA SplitsAreLeft ==
  ASSUME NEW x, NEW m, Reading(x, m), TakeSplitEvents(m)
  PROVE  /\ \A k \in DOMAIN splitEvents :
              k > splitIndex' <=> splitEvents[k].source >= NumSymbols - (x + 1)
         /\ \A y \in SymbolFaces : y >= x + 1 => topologySplitCorner'[y] = SplitLeft(y, m + 3)
<1> DEFINE T == WholeTable
           for(y) == {i \in EventsHere : DecoderSplitID(i) = y}
           cornerOf(i) == IF splitEvents[i].edge = "right" THEN NextCorner(m) ELSE PreviousCorner(m)
<1>1. /\ Sent /\ x \in SymbolFaces /\ symbolID = x /\ NumSymbols \in Nat /\ m = 3 * x
      /\ x \in Nat /\ m \in Nat /\ NewCorner = m /\ SymbolsSoFar
      /\ NextFaceAt(numEncodedFaces, x, m) /\ numEncodedFaces \in Nat
  BY InReading, SentInHand
<1>2. /\ EventsHere = {i \in DOMAIN splitEvents : splitEvents[i].source = NumSymbols - x - 1}
      /\ \A k \in DOMAIN splitEvents :
           k > splitIndex - Cardinality(EventsHere)
             <=> splitEvents[k].source >= NumSymbols - (x + 1)
  BY EventsTaken
<1>3. /\ topologySplitCorner' = [y \in DOMAIN topologySplitCorner |->
           IF for(y) = {} THEN topologySplitCorner[y]
           ELSE cornerOf(CHOOSE i \in for(y) : \A j \in for(y) : i <= j)]
      /\ splitIndex' = splitIndex - Cardinality(EventsHere)
  BY DEF TakeSplitEvents
<1>4. \A y \in SymbolFaces : y >= x => topologySplitCorner[y] = SplitLeft(y, m)
  BY <1>1 DEF Reading, SymbolsMirrored
<1>5. DOMAIN topologySplitCorner = SymbolFaces
  BY <1>1 DEF SymbolsSoFar, SymbolFaces
<1>6. NextCorner(m) = m + 1 /\ PreviousCorner(m) = m + 2
  BY <1>1, FaceOfNewCorners
<1> HIDE DEF for, cornerOf
<1>7. ASSUME NEW y \in SymbolFaces, y >= x + 1
      PROVE  topologySplitCorner'[y] = SplitLeft(y, m + 3)
  <2> DEFINE d == T[3 * y + 2]
  <2>0. y \in Nat /\ y >= x /\ d \in Int
    <3>1. d \in Int
      BY <1>1, SplitLeftAfter
    <3>2. y \in Nat /\ y >= x
      BY <1>1, <1>7 DEF SymbolFaces
    <3> QED
      BY <3>1, <3>2
  <2>1. SplitLeft(y, m + 3) =
          IF SymbolAt(y) = "S" /\ d \in {m + 1, m + 2} THEN d ELSE SplitLeft(y, m)
    BY <1>1, SplitLeftAfter
  <2>2. CASE for(y) = {}
    <3>1. ~ (SymbolAt(y) = "S" /\ d \in {m + 1, m + 2})
      <4> SUFFICES ASSUME SymbolAt(y) = "S", d \in {m + 1, m + 2} PROVE FALSE
        OBVIOUS
      <4>1. PICK edge \in {"left", "right"} : d = NamedCorner(x, edge)
        <5>1. d = 3 * x + 1 \/ d = 3 * x + 2
          BY <1>1
        <5> HIDE DEF d
        <5> QED
          BY <5>1 DEF NamedCorner
      <4>2. PICK k \in DOMAIN splitEvents :
              splitEvents[k] = [source |-> NumSymbols - x - 1, split |-> NumSymbols - y - 1, edge |-> edge]
        BY <1>1, <4>1, EventIsThere
      <4>3. splitEvents[k].source = NumSymbols - x - 1 /\ splitEvents[k].split = NumSymbols - y - 1
        BY <4>2
      <4>4. k \in EventsHere
        BY <1>2, <4>3
      <4>5. DecoderSplitID(k) = y
        BY <1>1, <2>0, <4>3 DEF DecoderSplitID
      <4> QED
        BY <2>2, <4>4, <4>5 DEF for
    <3>2. topologySplitCorner'[y] = topologySplitCorner[y]
      BY <1>3, <1>5, <2>2
    <3> HIDE DEF d
    <3> QED
      BY <1>4, <2>0, <2>1, <3>1, <3>2
  <2>3. CASE for(y) # {}
    <3>1. for(y) \in SUBSET Nat
      <4>1. \A i \in EventsHere : i \in Nat
        <5>1. splitEvents \in Seq(SplitEvents)
          BY <1>1, SentInHand
        <5> QED
          BY <1>2, <5>1
      <4> QED
        BY <4>1 DEF for
    <3> DEFINE i == CHOOSE k \in for(y) : \A j \in for(y) : k <= j
    <3>2. i \in for(y)
      BY <2>3, <3>1, LeastNumber
    <3> HIDE DEF i
    <3>3. i \in DOMAIN splitEvents /\ splitEvents[i].source = NumSymbols - x - 1 /\ DecoderSplitID(i) = y
      BY <1>2, <3>2 DEF for
    <3>4. splitEvents[i] \in SplitEvents /\ splitEvents[i].edge \in {"left", "right"}
      <4>1. splitEvents \in Seq(SplitEvents)
        BY <1>1, SentInHand
      <4>2. splitEvents[i] \in SplitEvents
        BY <3>3, <4>1
      <4> QED
        BY <4>2 DEF SplitEvents
    <3>5. x = NumSymbols - splitEvents[i].source - 1 /\ y = NumSymbols - splitEvents[i].split - 1
      BY <1>1, <3>3 DEF DecoderSplitID
    <3>6. SymbolAt(y) = "S" /\ d = NamedCorner(x, splitEvents[i].edge)
      BY <1>1, <3>3, <3>5, EventIsTrue
    <3>7. cornerOf(i) = d
      BY <1>1, <1>6, <3>4, <3>6 DEF cornerOf, NamedCorner
    <3>8. topologySplitCorner'[y] = cornerOf(i)
      BY <1>3, <1>5, <2>3 DEF i
    <3>9. d \in {m + 1, m + 2}
      <4>1. NamedCorner(x, splitEvents[i].edge) \in {m + 1, m + 2}
        BY <1>1 DEF NamedCorner
      <4> QED
        BY <3>6, <4>1
    <3> HIDE DEF d
    <3> QED
      BY <2>1, <3>6, <3>7, <3>8, <3>9
  <2> QED
    BY <2>2, <2>3
<1> QED
  BY <1>2, <1>3, <1>7

-----------------------------------------------------------------------------
(* One symbol is read: what it adds is the encoder's face.                 *)

FaceIsRead(x, m) ==
  /\ decoderPhase' = "symbols" /\ symbolID' = x + 1 /\ NewCorner' = m + 3
  /\ startFacesRead' = startFacesRead
  /\ Rebuilt(WholeTable, numEncodedFaces, m + 3, dOpposite', dCornerVertex',
             dVertexCorners', isVertHole', dNumVertices')
  /\ dNumVertices' = Born(x + 1)
  /\ Ascends(activeCorners') /\ ElementsOf(activeCorners') = OpenGates(WholeTable, m + 3)
  /\ \A k \in DOMAIN splitEvents :
       k > splitIndex' <=> splitEvents[k].source >= NumSymbols - (x + 1)
  /\ \A y \in SymbolFaces : y >= x + 1 => topologySplitCorner'[y] = SplitLeft(y, m + 3)

(* The edges the face is glued to are free.                                *)
LEMMA GatesAreFree ==
  ASSUME NEW x, NEW m, Reading(x, m), NEW j \in NewFaceOf(m), IsOld(WholeTable[j], m)
  PROVE  /\ WholeTable[j] \in 0 .. m - 1 /\ WholeTable[WholeTable[j]] = j
         /\ ~ Occupied(WholeTable[j]) /\ ~ (WholeTable[j] < 0)
<1> DEFINE T == WholeTable
<1>1. /\ numEncodedFaces \in Nat /\ IsWhole(T, numEncodedFaces)
      /\ NextFaceAt(numEncodedFaces, x, m)
      /\ Rebuilt(T, numEncodedFaces, m, dOpposite, dCornerVertex,
                 dVertexCorners, isVertHole, dNumVertices)
  BY InReading
<1>2. dOpposite = Cut(T, m)
  BY <1>1 DEF Rebuilt
<1>3. DOMAIN dOpposite = Corners(numEncodedFaces)
  BY ReadingNumbers
<1> HIDE DEF T
<1>4. /\ dOpposite[T[j]] = NoCorner /\ T[j] \in Corners(numEncodedFaces) /\ T[T[j]] = j
  BY <1>1, <1>2, CutGrows DEF T
<1>5. OppositeOf(T[j]) = -1
  BY <1>3, <1>4 DEF OppositeOf, At, NoCorner
<1>6. T[j] \in 0 .. m - 1
  BY DEF IsOld, T
<1> QED
  BY <1>4, <1>5, <1>6 DEF Occupied, T

(* What a symbol that adds a face does to the counters.                    *)
LEMMA FaceCounted ==
  ASSUME NEW x, NEW m, Reading(x, m), FaceAdded, UNCHANGED decoderPhase
  PROVE  /\ decoderPhase' = "symbols" /\ symbolID' = x + 1 /\ NewCorner' = m + 3
         /\ startFacesRead' = startFacesRead
<1>1. m = NewCorner /\ x = symbolID /\ decoderPhase = "symbols" /\ SymbolsSoFar /\ x \in Nat
  BY InReading DEF Reading
<1>2. numDecodedFaces = symbolID
  BY <1>1 DEF SymbolsSoFar
<1> QED
  BY <1>1, <1>2 DEF FaceAdded, NewCorner

(* A C that is read adds the face that was walked by C.                    *)
LEMMA ReadC ==
  ASSUME NEW x, NEW m, Reading(x, m), SymbolAt(x) = "C", DecodeC
  PROVE  FaceIsRead(x, m)
<1> DEFINE T == WholeTable
           F == numEncodedFaces
           a == T[m + 1]
           b == T[m + 2]
           v == dCornerVertex[NextCorner(a)]
           va == dCornerVertex[PreviousCorner(a)]
           vb == dCornerVertex[NextCorner(b)]
           cv2 == MapCorners(dCornerVertex, NewFace(v, vb, va))
           vc2 == SetLeftMost(dVertexCorners, va, m + 2)
           hole2 == ClosedVertices({v})
<1>0. /\ F \in Nat /\ m \in Nat /\ NewCorner = m /\ NextFaceAt(F, x, m) /\ IsWhole(T, F)
      /\ Rebuilt(T, F, m, dOpposite, dCornerVertex, dVertexCorners, isVertHole, dNumVertices)
      /\ Tells("C", T, m)
  BY InReading
<1>1. /\ ~ IsOld(T[m], m) /\ IsOld(a, m) /\ IsOld(b, m) /\ RingDone(T, m, m)
      /\ a = m - 3
  BY <1>0 DEF Tells
<1>2. /\ activeCorners # <<>> /\ Top = a /\ Ascends(ReplaceTop(m))
      /\ ElementsOf(ReplaceTop(m)) = OpenGates(T, m + 3)
  BY <1>1, PartReplaced
<1>3. m \in NewFaceOf(m) /\ m + 1 \in NewFaceOf(m) /\ m + 2 \in NewFaceOf(m)
      /\ m + 1 # m + 2 /\ NewFaceOf(m) \ {m + 1, m + 2} = {m}
  BY <1>0 DEF NewFaceOf
<1>4. /\ a \in 0 .. m - 1 /\ ~ Occupied(a) /\ ~ (a < 0) /\ T[a] = m + 1
      /\ b \in 0 .. m - 1 /\ ~ Occupied(b) /\ ~ (b < 0) /\ T[b] = m + 2
  BY <1>1, <1>3, GatesAreFree
<1>5. a # b
  BY <1>3, <1>4
<1>6. /\ 0 .. dNumVertices - 1 \subseteq DOMAIN dVertexCorners
      /\ 0 .. dNumVertices - 1 \subseteq DOMAIN isVertHole
      /\ 0 .. dNumVertices - 1 \subseteq AllVertices
      /\ dNumVertices = Born(x + 1)
  <2>1. dNumVertices + 0 = Born(x + 1) /\ dNumVertices \in Nat
    BY <1>0, ReadingNumbers DEF NewVertices
  <2> QED
    BY <2>1, ReadingNumbers
<1>7. /\ \A c \in 0 .. m - 1 :
           /\ NextIn(c) = NextCorner(c) /\ NextCorner(c) \in 0 .. m - 1
           /\ PreviousCorner(c) \in 0 .. m - 1
           /\ VertexOf(NextIn(c)) = dCornerVertex[NextCorner(c)]
           /\ VertexOf(PreviousIn(c)) = dCornerVertex[PreviousCorner(c)]
           /\ dCornerVertex[c] \in 0 .. dNumVertices - 1
           /\ LeftMostCornerOf(dCornerVertex[c]) = dVertexCorners[dCornerVertex[c]]
           /\ dVertexCorners[dCornerVertex[c]] \in 0 .. m - 1
  <2>1. \A c \in 0 .. m - 1 : dVertexCorners[dCornerVertex[c]] \in 0 .. m - 1
    BY <1>0 DEF Rebuilt
  <2> QED
    BY <2>1, ReadingNumbers
<1>8. /\ v \in AllVertices /\ va \in AllVertices /\ vb \in AllVertices
  BY <1>4, <1>6, <1>7
<1>9. /\ NextCorner(dVertexCorners[v]) = b /\ v # va /\ v # vb
      /\ \A cv3, vc3, hole3 :
              /\ \A c \in 0 .. m - 1 : cv3[c] = dCornerVertex[c]
              /\ cv3[m] = v /\ cv3[m + 1] = vb /\ cv3[m + 2] = va
              /\ \A c \in Corners(F) \ (0 .. m + 2) : cv3[c] = -1
              /\ vc3 = SetLeftMost(dVertexCorners, va, m + 2)
              /\ hole3 = [w \in DOMAIN isVertHole |-> isVertHole[w] /\ w # v]
              => Rebuilt(T, F, m + 3, Cut(T, m + 3), cv3, vc3, hole3, dNumVertices)
  <2> HIDE DEF T, F
  <2> QED
    BY <1>0, <1>1, <1>6, StepC
<1>10. NextIn(LeftMostCornerOf(v)) = b
  BY <1>4, <1>7, <1>9
<1>11. VertexOf(NextIn(a)) = v /\ VertexOf(PreviousIn(a)) = va /\ VertexOf(NextIn(b)) = vb
  BY <1>4, <1>7
<1>12. /\ dOpposite' = Glue(Glue(dOpposite, a, m + 1), b, m + 2)
       /\ dCornerVertex' = cv2 /\ dVertexCorners' = vc2 /\ isVertHole' = hole2
       /\ activeCorners' = ReplaceTop(m) /\ FaceAdded
       /\ UNCHANGED <<decoderPhase, dNumVertices, topologySplitCorner,
                             splitIndex, invalidVertices>>
  <2> HIDE DEF T, a, b, v, va, vb
  <2> QED
    BY <1>0, <1>2, <1>4, <1>5, <1>9, <1>10, <1>11 DEF DecodeC
<1>13. dOpposite' = Cut(T, m + 3)
  <2>1. dOpposite = Cut(T, m)
    BY <1>0 DEF Rebuilt
  <2>2. \A j \in NewFaceOf(m) \ {m + 1, m + 2} : ~ IsOld(T[j], m)
    BY <1>1, <1>3
  <2> HIDE DEF T, F
  <2>3. Cut(T, m + 3) = Glue(Glue(dOpposite, T[m + 1], m + 1), T[m + 2], m + 2)
    BY <1>0, <1>1, <1>3, <2>1, <2>2, CutIsGlued
  <2> QED
    BY <1>12, <2>3
<1>14. /\ \A c \in 0 .. m - 1 : cv2[c] = dCornerVertex[c]
       /\ cv2[m] = v /\ cv2[m + 1] = vb /\ cv2[m + 2] = va
       /\ \A c \in Corners(F) \ (0 .. m + 2) : cv2[c] = -1
  <2> DEFINE f == NewFace(v, vb, va)
  <2> HIDE DEF v, vb, va
  <2>1. /\ DOMAIN f = NewFaceOf(m) /\ f[m] = v /\ f[m + 1] = vb /\ f[m + 2] = va
        /\ \A c \in NewFaceOf(m) : f[c] \in AllVertices
    BY <1>0, <1>8 DEF NewFace, NewFaceOf
  <2> HIDE DEF f
  <2>2. /\ \A c \in 0 .. m - 1 : MapCorners(dCornerVertex, f)[c] = dCornerVertex[c]
        /\ \A c \in NewFaceOf(m) : MapCorners(dCornerVertex, f)[c] = f[c]
        /\ \A c \in Corners(F) \ (0 .. m + 2) : MapCorners(dCornerVertex, f)[c] = -1
    BY <2>1, FaceMapped
  <2> QED
    BY <1>3, <2>1, <2>2 DEF f
<1>15. hole2 = [w \in DOMAIN isVertHole |-> isVertHole[w] /\ w # v]
  BY DEF ClosedVertices
<1>16. Rebuilt(T, F, m + 3, dOpposite', dCornerVertex', dVertexCorners', isVertHole', dNumVertices')
  <2> HIDE DEF T, F, a, b, v, va, vb, cv2, hole2
  <2>1. Rebuilt(T, F, m + 3, Cut(T, m + 3), cv2, vc2, hole2, dNumVertices)
    BY <1>9, <1>14, <1>15
  <2> QED
    BY <1>12, <1>13, <2>1
<1>17. /\ decoderPhase' = "symbols" /\ symbolID' = x + 1 /\ NewCorner' = m + 3
       /\ startFacesRead' = startFacesRead
  BY <1>12, FaceCounted
<1>18. /\ \A k \in DOMAIN splitEvents :
              k > splitIndex' <=> splitEvents[k].source >= NumSymbols - (x + 1)
       /\ \A y \in SymbolFaces : y >= x + 1 => topologySplitCorner'[y] = SplitLeft(y, m + 3)
  BY <1>12, NothingIsLeft
<1> QED
  BY <1>2, <1>6, <1>12, <1>16, <1>17, <1>18 DEF FaceIsRead

(* The corners of the face of an R or an L, and the edge it is glued to.   *)
SideOfFace(symbol, m, p, cornerL, cornerR) ==
  \/ symbol = "R" /\ p = m + 2 /\ cornerL = m + 1 /\ cornerR = m
  \/ symbol = "L" /\ p = m + 1 /\ cornerL = m /\ cornerR = m + 2

(* So does an R or an L, whose faces differ only in their sides.           *)
LEMMA ReadSide ==
  ASSUME NEW x, NEW m, Reading(x, m), NEW symbol, SymbolAt(x) = symbol,
         NEW p, NEW cornerL, NEW cornerR, SideOfFace(symbol, m, p, cornerL, cornerR),
         DecodeSide(symbol, p, cornerL, cornerR)
  PROVE  FaceIsRead(x, m)
<1> DEFINE T == WholeTable
           F == numEncodedFaces
           n == dNumVertices
           a == T[p]
           vr == dCornerVertex[PreviousCorner(a)]
           vl == dCornerVertex[NextCorner(a)]
           f == [c \in {p, cornerL, cornerR} |->
                   IF c = p THEN n ELSE IF c = cornerR THEN vr ELSE vl]
           cv2 == MapCorners(dCornerVertex, f)
           vc2 == SetLeftMost(SetLeftMost(dVertexCorners, n, p), vr, cornerR)
<1>0. /\ F \in Nat /\ m \in Nat /\ NewCorner = m /\ NextFaceAt(F, x, m) /\ IsWhole(T, F)
      /\ Rebuilt(T, F, m, dOpposite, dCornerVertex, dVertexCorners, isVertHole, n)
      /\ Tells(symbol, T, m) /\ symbol \in {"R", "L"}
  BY InReading DEF SideOfFace
<1>1. /\ p \in NewFaceOf(m) /\ NewFaceOf(m) = {p, cornerL, cornerR}
      /\ cornerL = PreviousCorner(p) /\ cornerR = NextCorner(p)
      /\ p # cornerL /\ p # cornerR /\ cornerL # cornerR
  <2>1. /\ NextCorner(m + 1) = m + 2 /\ NextCorner(m + 2) = m
        /\ PreviousCorner(m + 1) = m /\ PreviousCorner(m + 2) = m + 1
    BY <1>0, FaceOfNewCorners
  <2>2. CASE symbol = "R"
    BY <1>0, <2>1, <2>2 DEF SideOfFace, NewFaceOf
  <2>3. CASE symbol = "L"
    BY <1>0, <2>1, <2>3 DEF SideOfFace, NewFaceOf
  <2> QED
    BY <1>0, <2>2, <2>3
<1>2. IsOld(a, m) /\ a = m - 3 /\ \A j \in NewFaceOf(m) \ {p} : ~ IsOld(T[j], m)
  <2>1. CASE symbol = "R"
    BY <1>0, <1>1, <2>1 DEF SideOfFace, Tells
  <2>2. CASE symbol = "L"
    BY <1>0, <1>1, <2>2 DEF SideOfFace, Tells
  <2> QED
    BY <1>0, <2>1, <2>2
<1>3. /\ activeCorners # <<>> /\ Top = a /\ Ascends(ReplaceTop(m))
      /\ ElementsOf(ReplaceTop(m)) = OpenGates(T, m + 3)
  BY <1>0, <1>2, PartReplaced
<1>4. a \in 0 .. m - 1 /\ ~ Occupied(a)
  BY <1>1, <1>2, GatesAreFree
<1>5. /\ n + 1 = Born(x + 1) /\ ~ NoRoomFor(1) /\ n \in Nat
      /\ 0 .. n \subseteq AllVertices /\ n \in AllVertices
      /\ 0 .. n \subseteq DOMAIN dVertexCorners /\ 0 .. n \subseteq DOMAIN isVertHole
  <2>1. /\ n + 1 <= DecoderMaxVertices /\ n + 1 = Born(x + 1) /\ n \in Nat
        /\ DecoderMaxVertices \in Nat /\ AllVertices = 0 .. DecoderMaxVertices - 1
        /\ DOMAIN dVertexCorners = AllVertices /\ DOMAIN isVertHole = AllVertices
    <3>1. NewVertices(SymbolAt(x)) = 1
      BY <1>0 DEF NewVertices
    <3> QED
      BY <3>1, ReadingNumbers
  <2> HIDE DEF n
  <2>2. 0 .. n \subseteq AllVertices /\ n \in AllVertices
    BY <2>1
  <2> QED
    BY <2>1, <2>2 DEF NoRoomFor, n
<1>6. EventsInRange
  BY EventsTaken
<1>7. /\ vr \in AllVertices /\ vl \in AllVertices
      /\ VertexOf(PreviousIn(a)) = vr /\ VertexOf(NextIn(a)) = vl
  BY <1>4, ReadingNumbers
<1>8. /\ dOpposite' = Glue(dOpposite, p, a)
      /\ dNumVertices' = n + 1 /\ dCornerVertex' = cv2 /\ dVertexCorners' = vc2
      /\ activeCorners' = ReplaceTop(m) /\ TakeSplitEvents(m) /\ FaceAdded
      /\ UNCHANGED <<decoderPhase, invalidVertices, isVertHole>>
  <2> HIDE DEF T, a, vr, vl
  <2> QED
    BY <1>0, <1>3, <1>4, <1>5, <1>6, <1>7 DEF DecodeSide
<1>9. dOpposite' = Cut(T, m + 3)
  <2>1. dOpposite = Cut(T, m)
    BY <1>0 DEF Rebuilt
  <2> HIDE DEF T, F
  <2>2. Cut(T, m + 3) = Glue(dOpposite, p, T[p])
    BY <1>0, <1>1, <1>2, <2>1, CutIsGlued
  <2> QED
    BY <1>8, <2>2
<1>10. /\ \A c \in 0 .. m - 1 : cv2[c] = dCornerVertex[c]
       /\ cv2[p] = n /\ cv2[NextCorner(p)] = vr /\ cv2[PreviousCorner(p)] = vl
       /\ \A c \in Corners(F) \ (0 .. m + 2) : cv2[c] = -1
  <2> HIDE DEF n, vr, vl
  <2>1. /\ DOMAIN f = NewFaceOf(m) /\ f[p] = n /\ f[cornerR] = vr /\ f[cornerL] = vl
        /\ \A c \in NewFaceOf(m) : f[c] \in AllVertices
        /\ cornerR \in NewFaceOf(m) /\ cornerL \in NewFaceOf(m)
    BY <1>1, <1>5, <1>7
  <2> HIDE DEF f
  <2>2. /\ \A c \in 0 .. m - 1 : MapCorners(dCornerVertex, f)[c] = dCornerVertex[c]
        /\ \A c \in NewFaceOf(m) : MapCorners(dCornerVertex, f)[c] = f[c]
        /\ \A c \in Corners(F) \ (0 .. m + 2) : MapCorners(dCornerVertex, f)[c] = -1
    BY <2>1, FaceMapped
  <2> QED
    BY <1>1, <2>1, <2>2
<1>11. Rebuilt(T, F, m + 3, dOpposite', dCornerVertex', dVertexCorners', isVertHole', dNumVertices')
  <2>1. vc2 = SetLeftMost(SetLeftMost(dVertexCorners, n, p), vr, NextCorner(p))
    BY <1>1
  <2> HIDE DEF T, F, cv2, vc2, n
  <2>2. \A cv3, vc3 :
           /\ \A c \in 0 .. m - 1 : cv3[c] = dCornerVertex[c]
           /\ cv3[p] = n /\ cv3[NextCorner(p)] = vr /\ cv3[PreviousCorner(p)] = vl
           /\ \A c \in Corners(F) \ (0 .. m + 2) : cv3[c] = -1
           /\ vc3 = SetLeftMost(SetLeftMost(dVertexCorners, n, p), vr, NextCorner(p))
           => Rebuilt(T, F, m + 3, Cut(T, m + 3), cv3, vc3, isVertHole, n + 1)
    BY <1>0, <1>1, <1>2, <1>5, StepSide
  <2>3. Rebuilt(T, F, m + 3, Cut(T, m + 3), cv2, vc2, isVertHole, n + 1)
    BY <1>10, <2>1, <2>2
  <2> QED
    BY <1>8, <1>9, <2>3
<1>12. /\ decoderPhase' = "symbols" /\ symbolID' = x + 1 /\ NewCorner' = m + 3
       /\ startFacesRead' = startFacesRead
  BY <1>8, FaceCounted
<1>13. /\ \A k \in DOMAIN splitEvents :
              k > splitIndex' <=> splitEvents[k].source >= NumSymbols - (x + 1)
       /\ \A y \in SymbolFaces : y >= x + 1 => topologySplitCorner'[y] = SplitLeft(y, m + 3)
  BY <1>8, SplitsAreLeft
<1> QED
  BY <1>3, <1>5, <1>8, <1>11, <1>12, <1>13 DEF FaceIsRead

(* Both cases of it.                                                       *)
LEMMA ReadRAndL ==
  ASSUME NEW x, NEW m, Reading(x, m), DecodeR \/ DecodeL
  PROVE  FaceIsRead(x, m)
<1>1. NewCorner = m /\ NextSymbol = SymbolAt(x)
  BY InReading
<1>2. CASE DecodeR
  <2>1. DecodeSide("R", m + 2, m + 1, m) /\ SymbolAt(x) = "R"
    BY <1>1, <1>2 DEF DecodeR, DecodeSide, ReadingSymbol
  <2>2. SideOfFace("R", m, m + 2, m + 1, m)
    BY DEF SideOfFace
  <2> QED
    BY <2>1, <2>2, ReadSide
<1>3. CASE DecodeL
  <2>1. DecodeSide("L", m + 1, m, m + 2) /\ SymbolAt(x) = "L"
    BY <1>1, <1>3 DEF DecodeL, DecodeSide, ReadingSymbol
  <2>2. SideOfFace("L", m, m + 1, m, m + 2)
    BY DEF SideOfFace
  <2> QED
    BY <2>1, <2>2, ReadSide
<1> QED
  BY <1>2, <1>3

(* So does an E.                                                           *)
LEMMA ReadE ==
  ASSUME NEW x, NEW m, Reading(x, m), SymbolAt(x) = "E", DecodeE
  PROVE  FaceIsRead(x, m)
<1> DEFINE T == WholeTable
           F == numEncodedFaces
           n == dNumVertices
           f == NewFace(n, n + 1, n + 2)
           cv2 == MapCorners(dCornerVertex, f)
           vc2 == [v \in DecodedVertexIDs |->
                     IF v \in n .. n + 2 THEN m + v - n ELSE dVertexCorners[v]]
<1>0. /\ F \in Nat /\ m \in Nat /\ NewCorner = m /\ NextFaceAt(F, x, m) /\ IsWhole(T, F)
      /\ Rebuilt(T, F, m, dOpposite, dCornerVertex, dVertexCorners, isVertHole, n)
      /\ Tells("E", T, m)
  BY InReading
<1>1. \A j \in NewFaceOf(m) : ~ IsOld(T[j], m)
  BY <1>0 DEF Tells, NewFaceOf
<1>2. /\ Ascends(Append(activeCorners, m))
      /\ ElementsOf(Append(activeCorners, m)) = OpenGates(T, m + 3)
  BY PartAdded
<1>3. /\ n + 3 = Born(x + 1) /\ ~ NoRoomFor(3) /\ n \in Nat
      /\ n \in AllVertices /\ n + 1 \in AllVertices /\ n + 2 \in AllVertices
      /\ 0 .. n + 2 \subseteq DOMAIN dVertexCorners /\ 0 .. n + 2 \subseteq DOMAIN isVertHole
      /\ DecodedVertexIDs = DOMAIN dVertexCorners
  <2>1. /\ n + 3 <= DecoderMaxVertices /\ n + 3 = Born(x + 1) /\ n \in Nat
        /\ DecoderMaxVertices \in Nat /\ AllVertices = 0 .. DecoderMaxVertices - 1
        /\ DOMAIN dVertexCorners = AllVertices /\ DOMAIN isVertHole = AllVertices
        /\ DecodedVertexIDs = AllVertices
    <3>1. NewVertices(SymbolAt(x)) = 3
      BY <1>0 DEF NewVertices
    <3> QED
      BY <3>1, ReadingNumbers
  <2> HIDE DEF n
  <2>2. /\ n \in AllVertices /\ n + 1 \in AllVertices /\ n + 2 \in AllVertices
        /\ 0 .. n + 2 \subseteq AllVertices
    BY <2>1
  <2> QED
    BY <2>1, <2>2 DEF NoRoomFor, n
<1>4. EventsInRange
  BY EventsTaken
<1>5. /\ dNumVertices' = n + 3 /\ dCornerVertex' = cv2 /\ dVertexCorners' = vc2
      /\ activeCorners' = Append(activeCorners, m) /\ TakeSplitEvents(m) /\ FaceAdded
      /\ UNCHANGED <<decoderPhase, dOpposite, invalidVertices, isVertHole>>
  BY <1>0, <1>3, <1>4 DEF DecodeE
<1>6. dOpposite' = Cut(T, m + 3)
  <2>1. dOpposite = Cut(T, m)
    BY <1>0 DEF Rebuilt
  <2> HIDE DEF T, F
  <2>2. Cut(T, m + 3) = dOpposite
    BY <1>0, <1>1, <2>1, CutIsGlued
  <2> QED
    BY <1>5, <2>2
<1>7. /\ \A c \in 0 .. m - 1 : cv2[c] = dCornerVertex[c]
      /\ cv2[m] = n /\ cv2[m + 1] = n + 1 /\ cv2[m + 2] = n + 2
      /\ \A c \in Corners(F) \ (0 .. m + 2) : cv2[c] = -1
  <2> HIDE DEF n
  <2>1. /\ DOMAIN f = NewFaceOf(m) /\ f[m] = n /\ f[m + 1] = n + 1 /\ f[m + 2] = n + 2
        /\ \A c \in NewFaceOf(m) : f[c] \in AllVertices
        /\ m \in NewFaceOf(m) /\ m + 1 \in NewFaceOf(m) /\ m + 2 \in NewFaceOf(m)
    BY <1>0, <1>3 DEF NewFace, NewFaceOf
  <2> HIDE DEF f
  <2>2. /\ \A c \in 0 .. m - 1 : MapCorners(dCornerVertex, f)[c] = dCornerVertex[c]
        /\ \A c \in NewFaceOf(m) : MapCorners(dCornerVertex, f)[c] = f[c]
        /\ \A c \in Corners(F) \ (0 .. m + 2) : MapCorners(dCornerVertex, f)[c] = -1
    BY <2>1, FaceMapped
  <2> QED
    BY <2>1, <2>2
<1>8. Rebuilt(T, F, m + 3, dOpposite', dCornerVertex', dVertexCorners', isVertHole', dNumVertices')
  <2>1. vc2 = StoredOfE(dVertexCorners, n, m)
    BY <1>3 DEF StoredOfE
  <2> HIDE DEF T, F, cv2, vc2, n
  <2>2. \A cv3, vc3 :
           /\ \A c \in 0 .. m - 1 : cv3[c] = dCornerVertex[c]
           /\ cv3[m] = n /\ cv3[m + 1] = n + 1 /\ cv3[m + 2] = n + 2
           /\ \A c \in Corners(F) \ (0 .. m + 2) : cv3[c] = -1
           /\ vc3 = StoredOfE(dVertexCorners, n, m)
           => Rebuilt(T, F, m + 3, Cut(T, m + 3), cv3, vc3, isVertHole, n + 3)
    BY <1>0, <1>1, <1>3, StepE
  <2>3. Rebuilt(T, F, m + 3, Cut(T, m + 3), cv2, vc2, isVertHole, n + 3)
    BY <1>7, <2>1, <2>2
  <2> QED
    BY <1>5, <1>6, <2>3
<1>9. /\ decoderPhase' = "symbols" /\ symbolID' = x + 1 /\ NewCorner' = m + 3
      /\ startFacesRead' = startFacesRead
  BY <1>5, FaceCounted
<1>10. /\ \A k \in DOMAIN splitEvents :
              k > splitIndex' <=> splitEvents[k].source >= NumSymbols - (x + 1)
       /\ \A y \in SymbolFaces : y >= x + 1 => topologySplitCorner'[y] = SplitLeft(y, m + 3)
  BY <1>5, SplitsAreLeft
<1> QED
  BY <1>2, <1>3, <1>5, <1>8, <1>9, <1>10 DEF FaceIsRead

(* So does an S, with the part its split event names or the one below on   *)
(* the stack.                                                              *)
LEMMA ReadS ==
  ASSUME NEW x, NEW m, Reading(x, m), SymbolAt(x) = "S", DecodeS
  PROVE  FaceIsRead(x, m)
<1> DEFINE T == WholeTable
           F == numEncodedFaces
           a == T[m + 2]
           b == T[m + 1]
           p == dCornerVertex[PreviousCorner(a)]
           w == dCornerVertex[NextCorner(b)]
           va == dCornerVertex[NextCorner(a)]
           vb == dCornerVertex[PreviousCorner(b)]
           cv1 == MapCorners(dCornerVertex, NewFace(p, va, vb))
           cv2 == MergeVertexFan(cv1, NextIn(b), w, p)
           vc1 == SetLeftMost(dVertexCorners, vb, m + 2)
           vc2 == SetLeftMost(SetLeftMost(vc1, p, At(vc1, w)), w, NoCorner)
<1>0. /\ F \in Nat /\ m \in Nat /\ NewCorner = m /\ NextFaceAt(F, x, m) /\ IsWhole(T, F)
      /\ Rebuilt(T, F, m, dOpposite, dCornerVertex, dVertexCorners, isVertHole, dNumVertices)
      /\ Tells("S", T, m)
  BY InReading
<1>1. ~ IsOld(T[m], m) /\ IsOld(a, m) /\ IsOld(b, m) /\ ~ RingDone(T, m, m)
  BY <1>0 DEF Tells
<1>2. /\ activeCorners # <<>> /\ Top = b /\ OtherParts # <<>> /\ Last(OtherParts) = a
      /\ Ascends(Front(OtherParts) \o <<m>>)
      /\ ElementsOf(Front(OtherParts) \o <<m>>) = OpenGates(T, m + 3)
  BY PartsJoined
<1>3. m \in NewFaceOf(m) /\ m + 1 \in NewFaceOf(m) /\ m + 2 \in NewFaceOf(m)
      /\ m + 1 # m + 2 /\ NewFaceOf(m) \ {m + 2, m + 1} = {m}
  BY <1>0 DEF NewFaceOf
<1>4. /\ a \in 0 .. m - 1 /\ ~ Occupied(a)
      /\ b \in 0 .. m - 1 /\ ~ Occupied(b)
  BY <1>1, <1>3, GatesAreFree
<1>6. /\ 0 .. dNumVertices - 1 \subseteq DOMAIN dVertexCorners
      /\ 0 .. dNumVertices - 1 \subseteq DOMAIN isVertHole
      /\ 0 .. dNumVertices - 1 \subseteq AllVertices
      /\ dNumVertices = Born(x + 1) /\ dNumVertices \in Nat
  <2>1. dNumVertices + 0 = Born(x + 1) /\ dNumVertices \in Nat
    BY <1>0, ReadingNumbers DEF NewVertices
  <2> QED
    BY <2>1, ReadingNumbers
<1>7. /\ VertexOf(PreviousIn(a)) = p /\ VertexOf(NextIn(b)) = w
      /\ VertexOf(NextIn(a)) = va /\ VertexOf(PreviousIn(b)) = vb
      /\ p \in 0 .. dNumVertices - 1 /\ w \in 0 .. dNumVertices - 1
      /\ va \in 0 .. dNumVertices - 1 /\ vb \in 0 .. dNumVertices - 1
  BY <1>4, ReadingNumbers
<1>8. /\ p \in AllVertices /\ va \in AllVertices /\ vb \in AllVertices
      /\ w # -1 /\ w \in DOMAIN dVertexCorners
  <2> HIDE DEF p, w, va, vb
  <2> QED
    BY <1>6, <1>7
<1>9. /\ a # b /\ w # p /\ w # va /\ w # vb
      /\ \A cv3, vc3 :
              /\ \A c \in 0 .. m - 1 : cv3[c] = IF dCornerVertex[c] = w THEN p ELSE dCornerVertex[c]
              /\ cv3[m] = p /\ cv3[m + 1] = va /\ cv3[m + 2] = vb
              /\ \A c \in Corners(F) \ (0 .. m + 2) : cv3[c] = -1
              /\ vc3 = SetLeftMost(SetLeftMost(SetLeftMost(dVertexCorners, vb, m + 2),
                                               p, dVertexCorners[w]), w, NoCorner)
              => Rebuilt(T, F, m + 3, Cut(T, m + 3), cv3, vc3, isVertHole, dNumVertices)
  <2> HIDE DEF T, F
  <2> QED
    BY <1>0, <1>1, <1>6, StepS
<1>10. VertexP = p /\ VertexN = w
  BY <1>2, <1>7 DEF VertexP, VertexN
<1>12. /\ dOpposite' = Glue(Glue(dOpposite, a, m + 2), b, m + 1)
       /\ dCornerVertex' = cv2 /\ dVertexCorners' = vc2
       /\ activeCorners' = Front(OtherParts) \o <<m>> /\ FaceAdded
       /\ UNCHANGED <<decoderPhase, dNumVertices, topologySplitCorner,
                             splitIndex, isVertHole>>
  <2> HIDE DEF T, a, b, p, w, va, vb
  <2> QED
    BY <1>0, <1>2, <1>4, <1>7, <1>9, <1>10 DEF DecodeS
<1>13. dOpposite' = Cut(T, m + 3)
  <2>1. dOpposite = Cut(T, m)
    BY <1>0 DEF Rebuilt
  <2>2. \A j \in NewFaceOf(m) \ {m + 2, m + 1} : ~ IsOld(T[j], m)
    BY <1>1, <1>3
  <2> HIDE DEF T, F
  <2>3. Cut(T, m + 3) = Glue(Glue(dOpposite, T[m + 2], m + 2), T[m + 1], m + 1)
    BY <1>0, <1>1, <1>3, <2>1, <2>2, CutIsGlued
  <2> QED
    BY <1>12, <2>3
<1>14. /\ \A c \in 0 .. m - 1 : cv2[c] = IF dCornerVertex[c] = w THEN p ELSE dCornerVertex[c]
       /\ cv2[m] = p /\ cv2[m + 1] = va /\ cv2[m + 2] = vb
       /\ \A c \in Corners(F) \ (0 .. m + 2) : cv2[c] = -1
  <2> DEFINE f == NewFace(p, va, vb)
  <2> HIDE DEF p, va, vb, w
  <2>1. /\ DOMAIN f = NewFaceOf(m) /\ f[m] = p /\ f[m + 1] = va /\ f[m + 2] = vb
        /\ \A c \in NewFaceOf(m) : f[c] \in AllVertices
    BY <1>0, <1>8 DEF NewFace, NewFaceOf
  <2> HIDE DEF f
  <2>2. /\ \A c \in 0 .. m - 1 : MapCorners(dCornerVertex, f)[c] = dCornerVertex[c]
        /\ \A c \in NewFaceOf(m) : MapCorners(dCornerVertex, f)[c] = f[c]
        /\ \A c \in Corners(F) \ (0 .. m + 2) : MapCorners(dCornerVertex, f)[c] = -1
    BY <2>1, FaceMapped
  <2>3. /\ DOMAIN cv1 = Corners(F) /\ cv1 = MapCorners(dCornerVertex, f)
    BY ReadingNumbers DEF MapCorners, f
  <2>4. 0 .. m - 1 \subseteq Corners(F) /\ NewFaceOf(m) \subseteq Corners(F)
    BY <1>0, FaceOfNewCorners
  <2> HIDE DEF cv1, F
  <2>5. \A c \in Corners(F) : cv2[c] = IF cv1[c] = w THEN p ELSE cv1[c]
    BY <2>3 DEF MergeVertexFan
  <2>6. cv1[m] = p /\ cv1[m + 1] = va /\ cv1[m + 2] = vb
    BY <1>3, <2>1, <2>2, <2>3
  <2> QED
    BY <1>3, <1>8, <1>9, <2>2, <2>3, <2>4, <2>5, <2>6
<1>15. vc2 = SetLeftMost(SetLeftMost(SetLeftMost(dVertexCorners, vb, m + 2),
                                               p, dVertexCorners[w]), w, NoCorner)
  <2>1. At(vc1, w) = dVertexCorners[w]
    <3> HIDE DEF w, vb
    <3> QED
      BY <1>8, <1>9 DEF At, SetLeftMost
  <2> QED
    BY <2>1
<1>16. Rebuilt(T, F, m + 3, dOpposite', dCornerVertex', dVertexCorners', isVertHole', dNumVertices')
  <2> HIDE DEF T, F, a, b, p, w, va, vb, cv2, vc2
  <2>1. Rebuilt(T, F, m + 3, Cut(T, m + 3), cv2, vc2, isVertHole, dNumVertices)
    BY <1>9, <1>14, <1>15
  <2> QED
    BY <1>12, <1>13, <2>1
<1>17. /\ decoderPhase' = "symbols" /\ symbolID' = x + 1 /\ NewCorner' = m + 3
       /\ startFacesRead' = startFacesRead
  BY <1>12, FaceCounted
<1>18. /\ \A k \in DOMAIN splitEvents :
              k > splitIndex' <=> splitEvents[k].source >= NumSymbols - (x + 1)
       /\ \A y \in SymbolFaces : y >= x + 1 => topologySplitCorner'[y] = SplitLeft(y, m + 3)
  BY <1>12, NothingIsLeft
<1> QED
  BY <1>2, <1>6, <1>12, <1>16, <1>17, <1>18 DEF FaceIsRead

-----------------------------------------------------------------------------
(* What the encoder has sent stays as it is while it is read.              *)
LEMMA WireStays ==
  ASSUME UNCHANGED encoderVars
  PROVE  /\ numEncodedFaces' = numEncodedFaces /\ NumSymbols' = NumSymbols /\ phase' = phase
         /\ symbols' = symbols /\ splitEvents' = splitEvents /\ startFaces' = startFaces
         /\ numEncodedVertices' = numEncodedVertices /\ numSplitSymbols' = numSplitSymbols
         /\ opposite' = opposite /\ cornerVertex' = cornerVertex /\ vertexHoleID' = vertexHoleID
         /\ processedCorners' = processedCorners /\ initFaceCorners' = initFaceCorners
         /\ UNCHANGED wireVars
         /\ WholeTable' = WholeTable /\ SymbolFaces' = SymbolFaces /\ Roots' = Roots
<1> USE DEF encoderVars, baseVars, tableVars, traversalVars, wireVars
<1>1. /\ numEncodedFaces' = numEncodedFaces /\ NumSymbols' = NumSymbols /\ phase' = phase
      /\ symbols' = symbols /\ splitEvents' = splitEvents /\ startFaces' = startFaces
      /\ numEncodedVertices' = numEncodedVertices /\ numSplitSymbols' = numSplitSymbols
      /\ opposite' = opposite /\ cornerVertex' = cornerVertex /\ vertexHoleID' = vertexHoleID
      /\ processedCorners' = processedCorners /\ initFaceCorners' = initFaceCorners
      /\ UNCHANGED wireVars
  BY DEF NumSymbols
<1>2. WholeTable' = WholeTable
  BY <1>1 DEF WholeTable, SourceCorner
<1>3. SymbolFaces' = SymbolFaces
  BY <1>1 DEF SymbolFaces
<1>4. Roots' = Roots
  BY <1>1 DEF Roots, Steps, IsRoot, IsBranch, Walked, LeadsNowhere, FacesOf
<1> QED
  BY <1>1, <1>2, <1>3, <1>4

(* With the face added the mirror stands for the next symbol.              *)
LEMMA FaceReadKeepsMirror ==
  ASSUME NEW x, NEW m, Reading(x, m), FaceIsRead(x, m), UNCHANGED encoderVars
  PROVE  SymbolsMirrored'
<1>1. /\ numEncodedFaces' = numEncodedFaces /\ NumSymbols' = NumSymbols
      /\ symbols' = symbols /\ splitEvents' = splitEvents
      /\ WholeTable' = WholeTable /\ SymbolFaces' = SymbolFaces
  BY WireStays
<1>2. /\ symbolID' = x + 1 /\ NewCorner' = m + 3
      /\ startFacesRead' = startFacesRead
      /\ Rebuilt(WholeTable, numEncodedFaces, m + 3, dOpposite', dCornerVertex',
                 dVertexCorners', isVertHole', dNumVertices')
      /\ dNumVertices' = Born(x + 1)
      /\ Ascends(activeCorners') /\ ElementsOf(activeCorners') = OpenGates(WholeTable, m + 3)
      /\ \A k \in DOMAIN splitEvents :
           k > splitIndex' <=> splitEvents[k].source >= NumSymbols - (x + 1)
      /\ \A y \in SymbolFaces : y >= x + 1 => topologySplitCorner'[y] = SplitLeft(y, m + 3)
  BY DEF FaceIsRead
<1>3. TableIsRebuilt'
  BY <1>1, <1>2 DEF TableIsRebuilt
<1>4. Ascends(activeCorners)' /\ (ElementsOf(activeCorners) = OpenGates(WholeTable, NewCorner))'
  BY <1>1, <1>2
<1>5. (dNumVertices = Born(symbolID))'
  BY <1>1, <1>2 DEF Born, BornAt
<1>6. (\A k \in DOMAIN splitEvents :
         k > splitIndex <=> splitEvents[k].source >= NumSymbols - symbolID)'
  BY <1>1, <1>2
<1>7. (\A y \in SymbolFaces : y >= symbolID => topologySplitCorner[y] = SplitLeft(y, NewCorner))'
  <2>1. ASSUME NEW y \in SymbolFaces, y >= x + 1
        PROVE  topologySplitCorner'[y] = (SplitLeft(y, NewCorner))'
    BY <1>1, <1>2, <2>1 DEF SplitLeft, SymbolAt
  <2> QED
    BY <1>1, <1>2, <2>1
<1>8. startFacesRead' = 0
  BY <1>2 DEF Reading, SymbolsMirrored
<1> QED
  BY <1>3, <1>4, <1>5, <1>6, <1>7, <1>8 DEF SymbolsMirrored

(* A symbol is always accepted, and read as it was meant.                  *)
LEMMA SymbolsAreRead ==
  ASSUME Sent, ReaderInv, decoderPhase = "symbols", SymbolsMirrored, UNCHANGED encoderVars,
         DecodeC \/ DecodeR \/ DecodeL \/ DecodeS \/ DecodeE
  PROVE  decoderPhase' = "symbols" /\ SymbolsMirrored'
<1> DEFINE x == symbolID
           m == NewCorner
<1>1. x < NumSymbols /\ Reading(x, m)
  BY DEF DecodeC, DecodeR, DecodeL, DecodeS, DecodeE, DecodeSide, ReadingSymbol, Reading
<1>2. NextSymbol = SymbolAt(x)
  BY <1>1, InReading
<1> HIDE DEF x, m
<1>3. PICK y, n : Reading(y, n) /\ NextSymbol = SymbolAt(y)
  BY <1>1, <1>2
<1>4. FaceIsRead(y, n)
  <2>1. CASE DecodeC
    <3>1. SymbolAt(y) = "C"
      BY <1>3, <2>1 DEF DecodeC, ReadingSymbol
    <3> QED
      BY <1>3, <2>1, <3>1, ReadC
  <2>2. CASE DecodeR \/ DecodeL
    BY <1>3, <2>2, ReadRAndL
  <2>3. CASE DecodeS
    <3>1. SymbolAt(y) = "S"
      BY <1>3, <2>3 DEF DecodeS, ReadingSymbol
    <3> QED
      BY <1>3, <2>3, <3>1, ReadS
  <2>4. CASE DecodeE
    <3>1. SymbolAt(y) = "E"
      BY <1>3, <2>4 DEF DecodeE, ReadingSymbol
    <3> QED
      BY <1>3, <2>4, <3>1, ReadE
  <2> QED
    BY <2>1, <2>2, <2>3, <2>4
<1>5. decoderPhase' = "symbols"
  BY <1>4 DEF FaceIsRead
<1> QED
  BY <1>3, <1>4, <1>5, FaceReadKeepsMirror

-----------------------------------------------------------------------------
(* The decoder begins with an empty table, and ends with the symbols.      *)

LEMMA EmptyTableIsRebuilt ==
  ASSUME NEW F \in Nat, NEW T, IsTable(T, Corners(F)),
         NEW o, o = [c \in Corners(F) |-> NoCorner],
         NEW cv, cv = [c \in Corners(F) |-> -1],
         NEW V, NEW vc, vc = [v \in V |-> NoCorner],
         NEW hole, hole = [v \in V |-> TRUE]
  PROVE  Rebuilt(T, F, 0, o, cv, vc, hole, 0)
<1>1. 0 .. 0 - 1 = {} /\ \A c \in Corners(F) : ~ (c < 0)
  BY DEF Corners
<1>2. o = Cut(T, 0)
  <2>1. Cut(T, 0) = [c \in Corners(F) |-> IF c < 0 /\ T[c] < 0 THEN T[c] ELSE NoCorner]
    BY DEF Cut, IsTable
  <2> QED
    BY <1>1, <2>1
<1>3. \E k \in 0 .. F : 0 = 3 * k
  OBVIOUS
<1>4. SharesItsEdges(o, cv, F, 0)
  BY DEF SharesItsEdges
<1>5. \A c \in Corners(F) \ (0 .. 0 - 1) : cv[c] = -1
  OBVIOUS
<1>6. /\ \A v \in DOMAIN vc : vc[v] # NoCorner => vc[v] \in 0 .. 0 - 1 /\ cv[vc[v]] = v
      /\ \A v \in DOMAIN hole : v \notin 0 .. 0 - 1 => hole[v]
  OBVIOUS
<1> QED
  BY <1>1, <1>2, <1>3, <1>4, <1>5, <1>6 DEF Rebuilt

(* It stands when reading begins.                                          *)
LEMMA ReadingBegins ==
  ASSUME Sent, ReaderInv, StartDecoding, UNCHANGED encoderVars
  PROVE  decoderPhase' = "symbols" /\ SymbolsMirrored'
<1> DEFINE T == WholeTable
           F == numEncodedFaces
           V == 0 .. DecoderMaxVertices - 1
<1>0. /\ F \in Nat /\ NumSymbols \in Nat /\ splitEvents \in Seq(SplitEvents)
      /\ IsTable(T, Corners(F))
  BY SentInHand, WholeTableIsSent
<1>1. /\ F' = F /\ NumSymbols' = NumSymbols /\ symbols' = symbols /\ splitEvents' = splitEvents
      /\ WholeTable' = WholeTable /\ SymbolFaces' = SymbolFaces
  BY WireStays
<1>2. symbolID = 0 /\ activeCorners = <<>> /\ numDecodedFaces = 0 /\ startFacesRead = 0
  BY DEF StartDecoding, ReaderInv, NothingRead
<1>3. ~ (numSplitSymbols > NumSymbols)
  BY <1>0, BornIsCounted
<1>4. /\ decoderPhase' = "symbols"
      /\ dCornerVertex' = [c \in Corners(F) |-> -1]
      /\ dOpposite' = [c \in Corners(F) |-> NoCorner]
      /\ dVertexCorners' = [v \in V |-> NoCorner]
      /\ dNumVertices' = 0
      /\ topologySplitCorner' = [id \in 0 .. NumSymbols - 1 |-> NoCorner]
      /\ splitIndex' = Len(splitEvents)
      /\ isVertHole' = [v \in V |-> TRUE]
      /\ UNCHANGED <<symbolID, activeCorners, invalidVertices, numDecodedFaces, startFacesRead>>
  BY <1>3 DEF StartDecoding
<1>5. NewCorner' = 0
  BY <1>2, <1>4 DEF NewCorner
<1>6. TableIsRebuilt'
  <2>1. Rebuilt(T, F, 0, dOpposite', dCornerVertex', dVertexCorners', isVertHole', 0)
    <3> HIDE DEF T, F, V
    <3> QED
      BY <1>0, <1>4, EmptyTableIsRebuilt
  <2> QED
    BY <1>1, <1>4, <1>5, <2>1 DEF TableIsRebuilt
<1>7. Ascends(activeCorners)' /\ (ElementsOf(activeCorners) = OpenGates(WholeTable, NewCorner))'
  <2>1. activeCorners' = <<>>
    BY <1>2, <1>4
  <2>2. Ascends(<<>>) /\ ElementsOf(<<>>) = {}
    BY DEF Ascends, ElementsOf
  <2>3. OpenGates(T, 0) = {}
    BY DEF OpenGates
  <2> QED
    BY <1>1, <1>5, <2>1, <2>2, <2>3
<1>8. (dNumVertices = Born(symbolID))'
  <2>1. Born(0) = 0
    BY BornIsCounted
  <2> QED
    BY <1>1, <1>2, <1>4, <2>1 DEF Born, BornAt
<1>9. (\A k \in DOMAIN splitEvents :
         k > splitIndex <=> splitEvents[k].source >= NumSymbols - symbolID)'
  <2>1. ASSUME NEW k \in DOMAIN splitEvents
        PROVE  k > splitIndex' <=> splitEvents[k].source >= NumSymbols
    <3>1. ~ (k > Len(splitEvents))
      BY <1>0
    <3> DEFINE s == splitEvents[k].source
    <3>2. NumSymbols - s - 1 \in SymbolFaces
      BY EventIsTrue
    <3>3. s \in Nat
      <4>1. splitEvents[k] \in SplitEvents
        BY <1>0
      <4> QED
        BY <4>1 DEF SplitEvents
    <3> HIDE DEF s
    <3>4. ~ (s >= NumSymbols)
      BY <1>0, <3>2, <3>3 DEF SymbolFaces
    <3> QED
      BY <1>4, <3>1, <3>4 DEF s
  <2>2. NumSymbols' - symbolID' = NumSymbols
    BY <1>0, <1>1, <1>2, <1>4
  <2> QED
    BY <1>1, <2>1, <2>2
<1>10. (\A y \in SymbolFaces : y >= symbolID => topologySplitCorner[y] = SplitLeft(y, NewCorner))'
  <2>1. ASSUME NEW y \in SymbolFaces
        PROVE  topologySplitCorner'[y] = (SplitLeft(y, NewCorner))'
    <3>1. topologySplitCorner'[y] = NoCorner
      BY <1>4 DEF SymbolFaces
    <3>2. (SplitLeft(y, NewCorner))' = SplitLeft(y, 0)
      BY <1>1, <1>5 DEF SplitLeft, SymbolAt
    <3> DEFINE d == T[3 * y + 2]
    <3>3. d = NoCorner \/ d \in Corners(F)
      <4>1. 3 * y + 2 \in Corners(F)
        BY EdgesOfStep
      <4> QED
        BY <1>0, <4>1 DEF IsTable
    <3>4. d < 0 => d = NoCorner
      <4> HIDE DEF d
      <4>1. \A e \in Corners(F) : ~ (e < 0)
        BY DEF Corners
      <4> QED
        BY <3>3, <4>1
    <3>5. SplitLeft(y, 0) = NoCorner
      BY <3>4 DEF SplitLeft
    <3> QED
      BY <3>1, <3>2, <3>5
  <2> QED
    BY <1>1, <2>1
<1>11. startFacesRead' = 0
  BY <1>2, <1>4
<1> QED
  BY <1>4, <1>6, <1>7, <1>8, <1>9, <1>10, <1>11 DEF SymbolsMirrored

-----------------------------------------------------------------------------
(* The start-face bits: the parts left on the stack are those of the roots,*)
(* the one of the last root lowest, and they are closed in the order in    *)
(* which the encoder wrote their bits.                                     *)

GateOfRoot(j) == 3 * (NumSymbols - j)

(* The parts that are closed when stack s is left.                         *)
Popped(s) == {j \in Roots : GateOfRoot(j) \notin ElementsOf(s)}

StackOfRoots(s) ==
  /\ Ascends(s)
  /\ \A t \in ElementsOf(s) : \E j \in Roots : t = GateOfRoot(j)
  /\ \A j \in Roots : \A t \in ElementsOf(s) :
       GateOfRoot(j) \in ElementsOf(s) \/ t < GateOfRoot(j)

StartsMirrored ==
  /\ TableIsRebuilt
  /\ StackOfRoots(activeCorners)
  /\ startFacesRead = Cardinality(Popped(activeCorners))
  /\ numDecodedFaces = NumSymbols + InnerBits(startFacesRead)

(* The roots are steps, and so have decoded faces.                         *)
LEMMA RootsAreSteps ==
  ASSUME Sent
  PROVE  \A j \in Roots : /\ j \in 1 .. NumSymbols /\ j \in Nat /\ NumSymbols - j \in SymbolFaces
                          /\ NumSymbols - (NumSymbols - j) = j
                          /\ GateOfRoot(j) \in Nat
<1>1. NumSymbols \in Nat
  BY SentInHand
<1>2. \A j \in Roots : j \in 1 .. NumSymbols
  BY DEF Roots, Steps
<1> QED
  BY <1>1, <1>2 DEF SymbolFaces, GateOfRoot

(* When all symbols are read, the stack holds the gates of the roots.      *)
LEMMA SymbolsEnd ==
  ASSUME Sent, ReaderInv, decoderPhase = "symbols", SymbolsMirrored, symbolID = NumSymbols
  PROVE  StartsMirrored
<1> DEFINE T == WholeTable
           N == NumSymbols
           E == ElementsOf(activeCorners)
<1>1. /\ SymbolsSoFar /\ WireTypeOK
      /\ TableIsRebuilt /\ Ascends(activeCorners) /\ E = OpenGates(T, NewCorner)
      /\ startFacesRead = 0
  BY InvGivesSymbolsSoFar DEF SymbolsMirrored, ReaderInv
<1>2. N \in Nat /\ numDecodedFaces = N /\ NewCorner = 3 * N
  BY <1>1, Numbers DEF SymbolsSoFar
<1>3. ASSUME NEW t \in E PROVE \E j \in Roots : t = GateOfRoot(j)
  <2>1. t \in 0 .. 3 * N - 1 /\ t % 3 = 0 /\ ~ IsOld(T[t], 3 * N)
    BY <1>1, <1>2 DEF OpenGates
  <2> DEFINE x == t \div 3
  <2>2. x \in Int /\ t = 3 * x
    BY <1>2, <2>1
  <2> HIDE DEF x
  <2>3. x \in SymbolFaces
    BY <1>2, <2>1, <2>2 DEF SymbolFaces
  <2>4. N - x \in Roots
    BY <2>1, <2>2, <2>3, RootsAreOpen
  <2>5. t = GateOfRoot(N - x)
    BY <1>2, <2>2 DEF GateOfRoot
  <2> QED
    BY <2>4, <2>5
<1>4. ASSUME NEW j \in Roots PROVE GateOfRoot(j) \in E
  <2> DEFINE x == N - j
  <2>1. x \in SymbolFaces /\ N - x \in Roots /\ GateOfRoot(j) = 3 * x
    BY RootsAreSteps DEF GateOfRoot
  <2>2. ~ IsOld(T[3 * x], 3 * N)
    BY <2>1, RootsAreOpen
  <2> HIDE DEF x
  <2>3. 3 * x \in 0 .. 3 * N - 1 /\ (3 * x) % 3 = 0
    BY <1>2, <2>1 DEF SymbolFaces
  <2> QED
    BY <1>1, <1>2, <2>1, <2>2, <2>3 DEF OpenGates
<1>5. Popped(activeCorners) = {} /\ StackOfRoots(activeCorners)
  BY <1>1, <1>3, <1>4 DEF Popped, StackOfRoots
<1>6. startFacesRead = Cardinality(Popped(activeCorners))
  BY <1>1, <1>5, FS_EmptySet
<1>7. InnerBits(startFacesRead) = 0
  <2>1. {i \in 1 .. startFacesRead : startFaces[i]} = {}
    BY <1>1
  <2> QED
    BY <2>1, FS_EmptySet DEF InnerBits
<1> QED
  BY <1>1, <1>2, <1>5, <1>6, <1>7 DEF StartsMirrored

(* What is said of the start faces looks at the decoder only.              *)
LEMMA StartsStay ==
  ASSUME StartsMirrored, UNCHANGED encoderVars,
         UNCHANGED <<decodedTable, activeCorners, isVertHole, numDecodedFaces, startFacesRead>>
  PROVE  StartsMirrored'
<1> USE DEF decodedTable
<1>1. /\ numEncodedFaces' = numEncodedFaces /\ NumSymbols' = NumSymbols /\ startFaces' = startFaces
      /\ WholeTable' = WholeTable /\ Roots' = Roots
  BY WireStays
<1>2. TableIsRebuilt'
  BY <1>1 DEF StartsMirrored, TableIsRebuilt, NewCorner
<1>3. StackOfRoots(activeCorners)'
  BY <1>1 DEF StartsMirrored, StackOfRoots, GateOfRoot
<1>4. Popped(activeCorners)' = Popped(activeCorners)
  BY <1>1 DEF Popped, GateOfRoot
<1>5. InnerBits(startFacesRead)' = InnerBits(startFacesRead)
  BY <1>1 DEF InnerBits
<1> QED
  BY <1>1, <1>2, <1>3, <1>4, <1>5 DEF StartsMirrored

(* The part on top is the one whose bit comes next, and there is a bit for *)
(* it.                                                                     *)
LEMMA NextPart ==
  ASSUME Sent, NEW s \in Seq(Nat), s # <<>>, StackOfRoots(s)
  PROVE  \E j \in Roots :
           /\ Last(s) = GateOfRoot(j)
           /\ StackOfRoots(Front(s)) /\ Front(s) \in Seq(Nat)
           /\ Cardinality(Popped(s)) \in Nat
           /\ RankOf(j) = Cardinality(Popped(s)) + 1
           /\ Cardinality(Popped(Front(s))) = Cardinality(Popped(s)) + 1
<1> DEFINE E == ElementsOf(s)
           f == Front(s)
           D == ElementsOf(f)
           t == Last(s)
<1>1. /\ Ascends(s)
      /\ \A e \in E : \E j \in Roots : e = GateOfRoot(j)
      /\ \A j \in Roots : \A e \in E : GateOfRoot(j) \in E \/ e < GateOfRoot(j)
  BY DEF StackOfRoots
<1>2. /\ f \in Seq(Nat) /\ Ascends(f) /\ t \in E /\ t \in Nat /\ E \subseteq Nat
      /\ D = E \ {t} /\ \A e \in D : e < t
  <2>1. Nat \in SUBSET Int
    OBVIOUS
  <2> QED
    BY <1>1, <2>1, AscendingTop
<1>3. PICK j \in Roots : t = GateOfRoot(j)
  BY <1>1, <1>2
<1>4. /\ NumSymbols \in Nat
      /\ \A i \in Roots : i \in 1 .. NumSymbols /\ i \in Nat /\ GateOfRoot(i) = 3 * (NumSymbols - i)
                          /\ GateOfRoot(i) \in Nat
  BY RootsAreSteps, SentInHand DEF GateOfRoot
<1> HIDE DEF E, D, t
<1>5. RootsUpTo(j) = Popped(s) \cup {j}
  <2>1. ASSUME NEW i \in Popped(s) PROVE i \in Roots /\ i <= j
    <3>1. i \in Roots /\ GateOfRoot(i) \notin E
      BY DEF Popped, E
    <3>2. t < GateOfRoot(i)
      BY <1>1, <1>2, <3>1
    <3> QED
      BY <1>3, <1>4, <3>1, <3>2
  <2>2. ASSUME NEW i \in Roots, i <= j, i \notin Popped(s) PROVE i = j
    <3>1. GateOfRoot(i) \in E
      BY <2>2 DEF Popped, E
    <3>2. GateOfRoot(i) = t \/ GateOfRoot(i) < t
      BY <1>2, <3>1
    <3> QED
      BY <1>3, <1>4, <2>2, <3>2
  <2>3. j <= j
    BY <1>4
  <2> QED
    BY <2>1, <2>2, <2>3 DEF RootsUpTo
<1>6. j \notin Popped(s)
  BY <1>2, <1>3 DEF Popped, E
<1>7. IsFiniteSet(Popped(s)) /\ Cardinality(Popped(s)) \in Nat
  <2>1. IsFiniteSet(1 .. NumSymbols)
    BY <1>4, RangesAreFinite
  <2>2. Popped(s) \subseteq 1 .. NumSymbols
    BY <1>4 DEF Popped
  <2> QED
    BY <2>1, <2>2, FS_Subset, FS_CardinalityType
<1>8. Cardinality(Popped(s) \cup {j}) = Cardinality(Popped(s)) + 1
  BY <1>6, <1>7, FS_AddElement
<1>9. Popped(f) = Popped(s) \cup {j}
  <2>1. \A i \in Roots : GateOfRoot(i) = t => i = j
    BY <1>3, <1>4
  <2>2. Popped(f) = {i \in Roots : GateOfRoot(i) \notin D} /\ Popped(s) = {i \in Roots : GateOfRoot(i) \notin E}
    BY DEF Popped, D, E
  <2> HIDE DEF f
  <2> QED
    BY <1>2, <1>3, <2>1, <2>2
<1>10. StackOfRoots(f)
  <2>1. \A e \in D : e \in E
    BY <1>2
  <2>2. \A e \in D : \E i \in Roots : e = GateOfRoot(i)
    BY <1>1, <2>1
  <2>3. \A i \in Roots : \A e \in D : GateOfRoot(i) \in D \/ e < GateOfRoot(i)
    BY <1>1, <1>2, <2>1
  <2> QED
    BY <1>2, <2>2, <2>3 DEF StackOfRoots, D
<1> QED
  BY <1>2, <1>3, <1>5, <1>7, <1>8, <1>9, <1>10 DEF RankOf, t

(* The state in which the next start-face bit is read.                     *)
LEMMA StartsInHand ==
  ASSUME Sent, ReaderInv, decoderPhase = "startFaces", StartsMirrored
  PROVE  /\ activeCorners \in Seq(Nat) /\ StackOfRoots(activeCorners)
         /\ TableIsRebuilt
         /\ startFacesRead = Cardinality(Popped(activeCorners)) /\ startFacesRead \in Nat
         /\ numDecodedFaces = NumSymbols + InnerBits(startFacesRead)
         /\ \A k \in Nat : InnerBits(k) \in Nat
<1>1. /\ StackOfRoots(activeCorners) /\ TableIsRebuilt
      /\ startFacesRead = Cardinality(Popped(activeCorners))
      /\ numDecodedFaces = NumSymbols + InnerBits(startFacesRead)
  BY DEF StartsMirrored
<1>2. activeCorners \in Seq(Nat)
  <2> DEFINE B == 0 .. NewCorner - 1
  <2>1. activeCorners \in Seq(B)
    BY DEF ReaderInv, CornersAreOfDecodedFaces, Building
  <2>2. B \subseteq Nat
    OBVIOUS
  <2> DEFINE S == Nat
  <2>3. B \subseteq S
    BY <2>2
  <2> HIDE DEF B, S
  <2>4. activeCorners \in Seq(S)
    BY <2>1, <2>3
  <2> QED
    BY <2>4 DEF S
<1>3. \A k \in Nat : InnerBits(k) \in Nat
  <2> SUFFICES ASSUME NEW k \in Nat PROVE InnerBits(k) \in Nat
    OBVIOUS
  <2>1. IsFiniteSet(1 .. k) /\ {i \in 1 .. k : startFaces[i]} \subseteq 1 .. k
    BY RangesAreFinite
  <2> QED
    BY <2>1, FS_Subset, FS_CardinalityType DEF InnerBits
<1>4. startFacesRead \in Nat
  <2>1. NumSymbols \in Nat /\ Roots \subseteq 1 .. NumSymbols
    BY RootsAreSteps, SentInHand
  <2>2. IsFiniteSet(1 .. NumSymbols) /\ Popped(activeCorners) \subseteq 1 .. NumSymbols
    BY <2>1, RangesAreFinite DEF Popped
  <2> QED
    BY <1>1, <2>2, FS_Subset, FS_CardinalityType
<1> QED
  BY <1>1, <1>2, <1>3, <1>4

(* Counting the start bits that are set.                                   *)
LEMMA InnerBitsStep ==
  ASSUME NEW k \in Nat
  PROVE  /\ InnerBits(k) \in Nat
         /\ InnerBits(k + 1) = InnerBits(k) + (IF startFaces[k + 1] THEN 1 ELSE 0)
<1> DEFINE n == k + 1
           A == {i \in 1 .. k : startFaces[i]}
           B == {i \in 1 .. n : startFaces[i]}
<1>1. 1 .. n = 1 .. k \cup {n} /\ n \notin 1 .. k
  OBVIOUS
<1>2. IsFiniteSet(A) /\ Cardinality(A) \in Nat
  <2>1. IsFiniteSet(1 .. k) /\ A \subseteq 1 .. k
    BY RangesAreFinite
  <2> QED
    BY <2>1, FS_Subset, FS_CardinalityType
<1> HIDE DEF n
<1>3. startFaces[n] => B = A \cup {n} /\ n \notin A
  BY <1>1
<1>4. ~ startFaces[n] => B = A
  BY <1>1
<1> HIDE DEF A, B
<1>5. startFaces[n] => Cardinality(B) = Cardinality(A) + 1
  BY <1>2, <1>3, FS_AddElement
<1>6. Cardinality(B) = Cardinality(A) + (IF startFaces[n] THEN 1 ELSE 0)
  BY <1>2, <1>4, <1>5
<1> QED
  BY <1>2, <1>6 DEF InnerBits, A, B, n

(* The bit that is read next belongs to the part on top.                   *)
LEMMA NextStart ==
  ASSUME Sent, ReaderInv, decoderPhase = "startFaces", StartsMirrored, activeCorners # <<>>,
         NEW r, r = startFacesRead
  PROVE  /\ r \in Nat /\ r + 1 \in DOMAIN startFaces /\ r # Len(startFaces)
         /\ StackOfRoots(Front(activeCorners))
         /\ Cardinality(Popped(Front(activeCorners))) = r + 1
         /\ \E j \in Roots : Top = GateOfRoot(j) /\ RankOf(j) = r + 1
<1> DEFINE s == activeCorners
<1>1. /\ s \in Seq(Nat) /\ s # <<>> /\ StackOfRoots(s) /\ r = Cardinality(Popped(s)) /\ r \in Nat
  BY StartsInHand
<1>2. PICK j \in Roots :
           /\ Last(s) = GateOfRoot(j)
           /\ StackOfRoots(Front(s))
           /\ RankOf(j) = Cardinality(Popped(s)) + 1
           /\ Cardinality(Popped(Front(s))) = Cardinality(Popped(s)) + 1
  <2> HIDE DEF s
  <2> QED
    BY <1>1, NextPart
<1>3. r + 1 \in DOMAIN startFaces
  <2>1. NumSymbols - j \in SymbolFaces /\ NumSymbols - (NumSymbols - j) = j
    BY RootsAreSteps
  <2> DEFINE x == NumSymbols - j
  <2>2. x \in SymbolFaces /\ NumSymbols - x = j
    BY <2>1
  <2> HIDE DEF x
  <2>3. RankOf(NumSymbols - x) \in DOMAIN startFaces
    BY <2>2, RootIsGlued
  <2> QED
    BY <1>1, <1>2, <2>2, <2>3
<1>4. r # Len(startFaces)
  <2>1. startFaces \in Seq(BOOLEAN)
    BY SentInHand
  <2> QED
    BY <1>1, <1>3, <2>1
<1> QED
  BY <1>1, <1>2, <1>3, <1>4 DEF Top

(* A start-face bit of an open part takes the part off the stack.          *)
LEMMA OpenPartsClose ==
  ASSUME Sent, ReaderInv, StartsMirrored, DecodeBoundaryStart, UNCHANGED encoderVars
  PROVE  StartsMirrored'
<1> DEFINE r == startFacesRead
           f == Front(activeCorners)
<1>1. /\ decoderPhase = "startFaces" /\ activeCorners # <<>> /\ ~ startFaces[r + 1]
      /\ startFacesRead' = r + 1 /\ activeCorners' = f
      /\ UNCHANGED <<decodedTable, isVertHole, numDecodedFaces>>
  BY DEF DecodeBoundaryStart
<1>2. /\ numEncodedFaces' = numEncodedFaces /\ NumSymbols' = NumSymbols /\ startFaces' = startFaces
      /\ WholeTable' = WholeTable /\ Roots' = Roots
  BY WireStays
<1>3. r \in Nat /\ StackOfRoots(f) /\ Cardinality(Popped(f)) = r + 1
  BY <1>1, NextStart
<1>4. /\ TableIsRebuilt /\ numDecodedFaces = NumSymbols + InnerBits(r)
  BY DEF StartsMirrored
<1>5. TableIsRebuilt'
  BY <1>1, <1>2, <1>4 DEF TableIsRebuilt, NewCorner, decodedTable
<1>6. StackOfRoots(activeCorners)'
  BY <1>1, <1>2, <1>3 DEF StackOfRoots, GateOfRoot
<1>7. (startFacesRead = Cardinality(Popped(activeCorners)))'
  <2>1. Popped(activeCorners)' = Popped(f)
    BY <1>1, <1>2 DEF Popped, GateOfRoot
  <2> QED
    BY <1>1, <1>3, <2>1
<1>8. (numDecodedFaces = NumSymbols + InnerBits(startFacesRead))'
  <2>1. InnerBits(startFacesRead)' = InnerBits(r + 1)
    BY <1>1, <1>2 DEF InnerBits
  <2>2. InnerBits(r + 1) = InnerBits(r) + 0 /\ InnerBits(r) \in Nat
    BY <1>1, <1>3, InnerBitsStep
  <2>3. InnerBits(r + 1) = InnerBits(r)
    BY <2>2
  <2> QED
    BY <1>1, <1>2, <1>4, <2>1, <2>3
<1> QED
  BY <1>5, <1>6, <1>7, <1>8 DEF StartsMirrored

(* The bits never run out.                                                 *)
LEMMA BitsSuffice ==
  ASSUME Sent, ReaderInv, decoderPhase = "startFaces", StartsMirrored
  PROVE  ~ TruncatedStartFaces
BY NextStart DEF TruncatedStartFaces

-----------------------------------------------------------------------------
(* A start face that closes a part.                                        *)

LEMMA ClosingNumbers ==
  ASSUME Sent, ReaderInv, decoderPhase = "startFaces", StartsMirrored, NEW m, m = NewCorner
  PROVE  /\ DOMAIN dVertexCorners = AllVertices /\ DOMAIN isVertHole = AllVertices
         /\ DecodedVertexIDs = AllVertices
         /\ DOMAIN dCornerVertex = Corners(numEncodedFaces)
         /\ DOMAIN dOpposite = Corners(numEncodedFaces)
         /\ dNumVertices \in Nat /\ 0 .. dNumVertices - 1 \subseteq AllVertices
         /\ m \in Nat /\ 0 .. m - 1 \subseteq Corners(numEncodedFaces)
         /\ \A c \in Corners(numEncodedFaces) \ (0 .. m - 1) : dCornerVertex[c] = -1
         /\ \A c \in 0 .. m - 1 :
              /\ NextIn(c) = NextCorner(c) /\ NextCorner(c) \in 0 .. m - 1
              /\ VertexOf(NextIn(c)) = dCornerVertex[NextCorner(c)]
              /\ dCornerVertex[c] \in 0 .. dNumVertices - 1
              /\ LeftMostCornerOf(dCornerVertex[c]) = dVertexCorners[dCornerVertex[c]]
              /\ dVertexCorners[dCornerVertex[c]] \in 0 .. m - 1
<1> DEFINE F == numEncodedFaces
<1>1. /\ F \in Nat /\ IsWhole(WholeTable, F) /\ WireTypeOK
      /\ Rebuilt(WholeTable, F, m, dOpposite, dCornerVertex, dVertexCorners, isVertHole, dNumVertices)
  BY SentInHand, WholeTableIsWhole DEF StartsMirrored, TableIsRebuilt
<1>2. /\ DecodedCorners = Corners(F) /\ DecodedVertexIDs = AllVertices
      /\ DOMAIN isVertHole = AllVertices
      /\ dCornerVertex \in [DecodedCorners -> DecodedVertexIDs \cup {-1}]
      /\ dNumVertices \in 0 .. DecoderMaxVertices
  BY DEF ReaderInv, TableHasItsSize, ReaderTypeOK
<1>3. /\ DOMAIN dVertexCorners = AllVertices /\ DOMAIN dCornerVertex = Corners(F)
      /\ DOMAIN dOpposite = Corners(F)
  BY <1>2 DEF DecodedCorners, DecodedVertexIDs
<1>4. dNumVertices \in Nat /\ 0 .. dNumVertices - 1 \subseteq AllVertices
  <2>1. DecoderMaxVertices \in Nat
    BY BornIsCounted
  <2> QED
    BY <1>2, <2>1 DEF AllVertices
<1> HIDE DEF F
<1>5. /\ m \in Nat /\ 0 .. m - 1 \subseteq Corners(F)
      /\ \A c \in 0 .. m - 1 : NextCorner(c) \in 0 .. m - 1 /\ c \in Nat
  BY <1>1, RebuiltTable
<1>6. /\ \A c \in 0 .. m - 1 : dCornerVertex[c] \in 0 .. dNumVertices - 1
      /\ \A c \in 0 .. m - 1 : dVertexCorners[dCornerVertex[c]] \in 0 .. m - 1
      /\ \A c \in Corners(F) \ (0 .. m - 1) : dCornerVertex[c] = -1
  BY <1>1 DEF Rebuilt
<1>7. ASSUME NEW c \in 0 .. m - 1
      PROVE  /\ NextIn(c) = NextCorner(c) /\ NextCorner(c) \in 0 .. m - 1
             /\ VertexOf(NextIn(c)) = dCornerVertex[NextCorner(c)]
             /\ LeftMostCornerOf(dCornerVertex[c]) = dVertexCorners[dCornerVertex[c]]
  <2>1. NextIn(c) = NextCorner(c) /\ NextCorner(c) \in 0 .. m - 1
    BY <1>5 DEF NextIn
  <2>2. VertexOf(NextIn(c)) = dCornerVertex[NextCorner(c)]
    BY <1>3, <1>5, <2>1 DEF VertexOf, At
  <2>3. LeftMostCornerOf(dCornerVertex[c]) = dVertexCorners[dCornerVertex[c]]
    BY <1>3, <1>4, <1>6 DEF LeftMostCornerOf, At
  <2> QED
    BY <2>1, <2>2, <2>3
<1> QED
  BY <1>2, <1>3, <1>4, <1>5, <1>6, <1>7 DEF F

(* The edge of the part on top leads to the face that is to be made.       *)
LEMMA ClosedPartIsGlued ==
  ASSUME Sent, ReaderInv, decoderPhase = "startFaces", StartsMirrored, activeCorners # <<>>,
         NEW r, r = startFacesRead, startFaces[r + 1], NEW m, m = NewCorner
  PROVE  /\ numDecodedFaces \in NumSymbols .. numEncodedFaces - 1
         /\ numDecodedFaces + 1 = NumSymbols + InnerBits(r + 1)
         /\ m = 3 * numDecodedFaces /\ NextFaceAt(numEncodedFaces, numDecodedFaces, m)
         /\ Top = WholeTable[m]
<1>1. r \in Nat /\ NumSymbols \in Nat /\ numDecodedFaces = NumSymbols + InnerBits(r)
  BY StartsInHand, SentInHand
<1>2. InnerBits(r) \in Nat /\ InnerBits(r + 1) = InnerBits(r) + 1
  BY <1>1, InnerBitsStep
<1>3. PICK j \in Roots : Top = GateOfRoot(j) /\ RankOf(j) = r + 1
  BY NextStart
<1> DEFINE x == NumSymbols - j
<1>4. x \in SymbolFaces /\ NumSymbols - x = j /\ Top = 3 * x
  BY <1>3, RootsAreSteps DEF GateOfRoot
<1> HIDE DEF x
<1>5. /\ InnerBits(r + 1) \in DOMAIN initFaceCorners
      /\ WholeTable[3 * x] = 3 * (NumSymbols + InnerBits(r + 1) - 1)
  <2> DEFINE k == RankOf(NumSymbols - x)
  <2>1. k = r + 1
    BY <1>3, <1>4
  <2>2. startFaces[k]
    BY <2>1
  <2>3. /\ InnerBits(k) \in DOMAIN initFaceCorners
        /\ WholeTable[3 * x] = 3 * (NumSymbols + InnerBits(k) - 1)
    BY <1>3, <1>4, <2>2, RootIsGlued
  <2> HIDE DEF k
  <2> QED
    BY <2>1, <2>3
<1>6. /\ numEncodedFaces = NumSymbols + Len(initFaceCorners) /\ Len(initFaceCorners) \in Nat
      /\ InnerBits(r + 1) <= Len(initFaceCorners) /\ numEncodedFaces \in Nat
  <2>1. initFaceCorners \in Seq(AllCorners)
    BY SentInHand
  <2> QED
    BY <1>5, <2>1, EveryFaceIsSent, SentInHand
<1>7. m = 3 * numDecodedFaces
  BY DEF NewCorner
<1> HIDE DEF NewCorner
<1>8. /\ numDecodedFaces \in NumSymbols .. numEncodedFaces - 1
      /\ numDecodedFaces + 1 = NumSymbols + InnerBits(r + 1)
      /\ NumSymbols + InnerBits(r + 1) - 1 = numDecodedFaces
  BY <1>1, <1>2, <1>6
<1>9. NextFaceAt(numEncodedFaces, numDecodedFaces, m)
  BY <1>1, <1>6, <1>7, <1>8 DEF NextFaceAt
<1>10. Top = WholeTable[m]
  <2>1. WholeTable[3 * x] = m
    BY <1>5, <1>7, <1>8
  <2>2. 3 * x \in Corners(numEncodedFaces) /\ m \in Corners(numEncodedFaces)
    <3>1. m \in NewFaceOf(m)
      BY DEF NewFaceOf
    <3> QED
      BY <1>4, <1>6, <1>9, <3>1, EdgesOfStep, FaceOfNewCorners
  <2>3. m # NoCorner
    BY <1>1, <1>2, <1>7, <1>8 DEF NoCorner
  <2>4. IsTable(WholeTable, Corners(numEncodedFaces))
    BY WholeTableIsSent
  <2> QED
    BY <1>4, <2>1, <2>2, <2>3, <2>4 DEF IsTable, IsPairing
<1> QED
  BY <1>7, <1>8, <1>9, <1>10

(* A start face is always accepted, and closes the part it was meant for.  *)
LEMMA ClosedPartsClose ==
  ASSUME Sent, ReaderInv, StartsMirrored, DecodeInteriorStart, UNCHANGED encoderVars
  PROVE  decoderPhase' = "startFaces" /\ StartsMirrored'
<1> DEFINE T == WholeTable
           F == numEncodedFaces
           m == NewCorner
           r == startFacesRead
           f == Front(activeCorners)
           y == numDecodedFaces
           a == T[m]
           b == T[m + 1]
           d == T[m + 2]
           vn == dCornerVertex[NextCorner(a)]
           vx == dCornerVertex[NextCorner(b)]
           vp == dCornerVertex[NextCorner(d)]
           g == NewFace(vx, vp, vn)
           cv2 == MapCorners(dCornerVertex, g)
           hole2 == ClosedVertices({vx, vp, vn})
<1>0. /\ decoderPhase = "startFaces" /\ activeCorners # <<>> /\ startFaces[r + 1]
  BY DEF DecodeInteriorStart
<1>1. /\ F \in Nat /\ IsWhole(T, F)
      /\ Rebuilt(T, F, m, dOpposite, dCornerVertex, dVertexCorners, isVertHole, dNumVertices)
  BY SentInHand, WholeTableIsWhole DEF StartsMirrored, TableIsRebuilt
<1>2. /\ y \in NumSymbols .. F - 1 /\ y + 1 = NumSymbols + InnerBits(r + 1)
      /\ m = 3 * y /\ NextFaceAt(F, y, m) /\ Top = a
  BY <1>0, ClosedPartIsGlued
<1>3. /\ DOMAIN dVertexCorners = AllVertices /\ DOMAIN isVertHole = AllVertices
      /\ DecodedVertexIDs = AllVertices
      /\ DOMAIN dCornerVertex = Corners(F) /\ DOMAIN dOpposite = Corners(F)
      /\ 0 .. dNumVertices - 1 \subseteq AllVertices
      /\ m \in Nat /\ 0 .. m - 1 \subseteq Corners(F)
      /\ \A c \in Corners(F) \ (0 .. m - 1) : dCornerVertex[c] = -1
      /\ \A c \in 0 .. m - 1 :
           /\ NextIn(c) = NextCorner(c) /\ NextCorner(c) \in 0 .. m - 1
           /\ VertexOf(NextIn(c)) = dCornerVertex[NextCorner(c)]
           /\ dCornerVertex[c] \in 0 .. dNumVertices - 1
           /\ LeftMostCornerOf(dCornerVertex[c]) = dVertexCorners[dCornerVertex[c]]
           /\ dVertexCorners[dCornerVertex[c]] \in 0 .. m - 1
  BY <1>0, ClosingNumbers
<1>4. \A j \in NewFaceOf(m) : IsOld(T[j], m) /\ RingDone(T, j, m)
  BY <1>2, InitFaceIsFree
<1>5. /\ m \in NewFaceOf(m) /\ m + 1 \in NewFaceOf(m) /\ m + 2 \in NewFaceOf(m)
      /\ NewFaceOf(m) = {m, m + 1, m + 2}
  BY DEF NewFaceOf
<1>6. dOpposite = Cut(T, m)
  BY <1>1 DEF Rebuilt
<1>7. \A j \in NewFaceOf(m) : T[j] \in 0 .. m - 1 /\ ~ Occupied(T[j])
  <2> SUFFICES ASSUME NEW j \in NewFaceOf(m) PROVE T[j] \in 0 .. m - 1 /\ ~ Occupied(T[j])
    OBVIOUS
  <2>1. IsOld(T[j], m)
    BY <1>4
  <2> HIDE DEF T, F, m, y
  <2>2. dOpposite[T[j]] = NoCorner /\ T[j] \in Corners(F)
    BY <1>1, <1>2, <1>6, <2>1, CutGrows
  <2>3. OppositeOf(T[j]) = -1
    BY <1>3, <2>2 DEF OppositeOf, At, NoCorner
  <2> QED
    BY <2>1, <2>3 DEF Occupied, IsOld
<1>8. /\ a \in 0 .. m - 1 /\ ~ Occupied(a) /\ b \in 0 .. m - 1 /\ ~ Occupied(b)
      /\ d \in 0 .. m - 1 /\ ~ Occupied(d)
  BY <1>5, <1>7
<1>9. /\ NextCorner(dVertexCorners[vn]) = b /\ NextCorner(dVertexCorners[vx]) = d
      /\ a # b /\ a # d /\ b # d
      /\ \A cv3, hole3 :
           /\ \A c \in 0 .. m - 1 : cv3[c] = dCornerVertex[c]
           /\ cv3[m] = vx /\ cv3[m + 1] = vp /\ cv3[m + 2] = vn
           /\ \A c \in Corners(F) \ (0 .. m + 2) : cv3[c] = -1
           /\ hole3 = [v \in DOMAIN isVertHole |-> isVertHole[v] /\ v \notin {vx, vp, vn}]
           => Rebuilt(T, F, m + 3, Cut(T, m + 3), cv3, dVertexCorners, hole3, dNumVertices)
  <2>1. /\ 0 .. dNumVertices - 1 \subseteq DOMAIN dVertexCorners
        /\ 0 .. dNumVertices - 1 \subseteq DOMAIN isVertHole
    BY <1>3
  <2> HIDE DEF T, F, m, y
  <2> QED
    BY <1>1, <1>2, <1>4, <2>1, StepInterior
<1>10. /\ vn \in AllVertices /\ vx \in AllVertices /\ vp \in AllVertices
       /\ VertexOf(NextIn(a)) = vn /\ VertexOf(NextIn(b)) = vx /\ VertexOf(NextIn(d)) = vp
  <2>1. \A c \in 0 .. m - 1 : dCornerVertex[NextCorner(c)] \in AllVertices
    BY <1>3
  <2> QED
    BY <1>3, <1>8, <2>1
<1>11. NextIn(LeftMostCornerOf(vn)) = b /\ NextIn(LeftMostCornerOf(vx)) = d
  BY <1>3, <1>8, <1>9
<1>12. ~ (numDecodedFaces >= numEncodedFaces)
  <2>1. NumSymbols \in Nat
    BY SentInHand
  <2> QED
    BY <1>1, <1>2, <2>1
<1>13. /\ dOpposite' = Glue(Glue(Glue(dOpposite, m, a), m + 1, b), m + 2, d)
       /\ dCornerVertex' = cv2 /\ isVertHole' = hole2
       /\ activeCorners' = f /\ numDecodedFaces' = y + 1 /\ startFacesRead' = r + 1
       /\ UNCHANGED <<decoderPhase, symbolID, dVertexCorners, dNumVertices>>
  <2> HIDE DEF T, m, a, b, d, vn, vx, vp
  <2> QED
    BY <1>2, <1>8, <1>9, <1>10, <1>11, <1>12 DEF DecodeInteriorStart, m
<1>14. dOpposite' = Cut(T, m + 3)
  <2> HIDE DEF T, F, m, y
  <2>1. Cut(T, m + 3) = Glue(Glue(Glue(dOpposite, m, T[m]), m + 1, T[m + 1]), m + 2, T[m + 2])
    BY <1>1, <1>2, <1>4, <1>6, CutIsGlued
  <2> QED
    BY <1>13, <2>1
<1>15. /\ \A c \in 0 .. m - 1 : cv2[c] = dCornerVertex[c]
       /\ cv2[m] = vx /\ cv2[m + 1] = vp /\ cv2[m + 2] = vn
       /\ \A c \in Corners(F) \ (0 .. m + 2) : cv2[c] = -1
  <2>0. /\ NewFaceOf(m) \subseteq Corners(F)
        /\ \A c \in NewFaceOf(m) : ~ IsOld(c, m) /\ c \in 0 .. m + 2
        /\ 0 .. m - 1 \subseteq 0 .. m + 2
    <3> HIDE DEF F, m, y
    <3> QED
      BY <1>1, <1>2, FaceOfNewCorners
  <2> HIDE DEF vx, vp, vn
  <2>1. /\ DOMAIN g = NewFaceOf(m) /\ g[m] = vx /\ g[m + 1] = vp /\ g[m + 2] = vn
        /\ \A c \in NewFaceOf(m) : g[c] \in AllVertices
    BY <1>3, <1>10 DEF NewFace, NewFaceOf
  <2> HIDE DEF g
  <2>2. \A c \in Corners(F) : cv2[c] = IF c \in NewFaceOf(m) THEN g[c] ELSE dCornerVertex[c]
    BY <1>3, <2>1 DEF MapCorners
  <2>3. \A c \in 0 .. m - 1 : c \notin NewFaceOf(m) /\ c \in Corners(F)
    BY <1>3, <2>0 DEF IsOld
  <2>4. \A c \in Corners(F) \ (0 .. m + 2) : c \notin NewFaceOf(m) /\ c \in Corners(F) \ (0 .. m - 1)
    BY <2>0
  <2> HIDE DEF cv2
  <2>5. cv2[m] = g[m] /\ cv2[m + 1] = g[m + 1] /\ cv2[m + 2] = g[m + 2]
    BY <1>5, <2>0, <2>2
  <2> QED
    BY <1>3, <2>1, <2>2, <2>3, <2>4, <2>5
<1>16. hole2 = [v \in DOMAIN isVertHole |-> isVertHole[v] /\ v \notin {vx, vp, vn}]
  BY DEF ClosedVertices
<1>17. Rebuilt(T, F, m + 3, dOpposite', dCornerVertex', dVertexCorners', isVertHole', dNumVertices')
  <2> HIDE DEF T, F, m, a, b, d, vx, vp, vn, cv2, hole2
  <2>1. Rebuilt(T, F, m + 3, Cut(T, m + 3), cv2, dVertexCorners, hole2, dNumVertices)
    BY <1>9, <1>15, <1>16
  <2> QED
    BY <1>13, <1>14, <2>1
<1>18. /\ numEncodedFaces' = numEncodedFaces /\ NumSymbols' = NumSymbols /\ startFaces' = startFaces
       /\ WholeTable' = WholeTable /\ Roots' = Roots
  BY WireStays
<1>19. NewCorner' = m + 3
  <2>1. y \in Nat
    <3>1. NumSymbols \in Nat
      BY SentInHand
    <3> QED
      BY <1>2, <3>1
  <2> QED
    BY <1>13, <2>1 DEF NewCorner
<1>20. TableIsRebuilt'
  BY <1>17, <1>18, <1>19 DEF TableIsRebuilt
<1>21. StackOfRoots(f) /\ Cardinality(Popped(f)) = r + 1
  BY <1>0, NextStart
<1>22. StackOfRoots(activeCorners)'
  BY <1>13, <1>18, <1>21 DEF StackOfRoots, GateOfRoot
<1>23. (startFacesRead = Cardinality(Popped(activeCorners)))'
  <2>1. Popped(activeCorners)' = Popped(f)
    BY <1>13, <1>18 DEF Popped, GateOfRoot
  <2> QED
    BY <1>13, <1>21, <2>1
<1>24. (numDecodedFaces = NumSymbols + InnerBits(startFacesRead))'
  <2>1. InnerBits(startFacesRead)' = InnerBits(r + 1)
    BY <1>13, <1>18 DEF InnerBits
  <2> QED
    BY <1>2, <1>13, <1>18, <2>1
<1>25. decoderPhase' = "startFaces"
  BY <1>0, <1>13
<1> QED
  BY <1>20, <1>22, <1>23, <1>24, <1>25 DEF StartsMirrored

(* In the end every face is there, and the table is the whole one.         *)
LEMMA CutAtTheEnd ==
  ASSUME NEW F \in Nat, NEW T, IsTable(T, Corners(F))
  PROVE  Cut(T, 3 * F) = T
<1>1. T \in [Corners(F) -> Corners(F) \cup {NoCorner}]
  BY DEF IsTable
<1>2. \A c \in Corners(F) : c < 3 * F
  BY DEF Corners
<1>3. NoCorner < 3 * F
  BY DEF NoCorner
<1>4. \A c \in Corners(F) : T[c] < 3 * F
  BY <1>1, <1>2, <1>3
<1> QED
  BY <1>1, <1>2, <1>4 DEF Cut

(* A corner no other corner of its fan is left of is the one the walk to   *)
(* the left comes to, or the one it comes back to.                         *)
LEMMA LeftmostStays ==
  ASSUME NEW F \in Nat, NEW T, IsTable(T, Corners(F)), NEW s \in Corners(F),
         \A e \in FanCorners(T, s) : LeftEnd(T, e) => LeftEnd(T, s)
  PROVE  LeftMostFrom(T, s) = s
<1> DEFINE l == LastOf(LeftFan(T, s))
<1>1. /\ l \in FanCorners(T, s) /\ l \in Corners(F)
      /\ SwingLeft(T, l) < 0 \/ SwingLeft(T, l) = s
      /\ SwingLeft(T, s) < 0 => LeftFan(T, s) = <<s>>
  BY LeftWalk, LeftMostOfFan, FanKeepsSwings
<1>2. Corners(F) \in SUBSET Nat
  BY CornersAreFinite
<1>3. CASE SwingLeft(T, l) = s
  BY <1>3 DEF LeftMostFrom, ClosedFan
<1>4. CASE SwingLeft(T, l) < 0
  <2>1. LeftEnd(T, l)
    <3>1. SUFFICES ASSUME T[NextCorner(l)] # NoCorner
                   PROVE  FALSE
      BY DEF LeftEnd
    <3>2. SwingLeft(T, l) \in Corners(F)
      BY <1>1, <3>1, SwingsOverEdges
    <3> QED
      BY <1>2, <1>4, <3>2
  <2>2. SwingLeft(T, s) = NoCorner
    <3>1. LeftEnd(T, s)
      BY <1>1, <2>1
    <3> QED
      BY <3>1, SwingsOverEdges DEF LeftEnd
  <2>3. LeftFan(T, s) = <<s>>
    BY <1>1, <2>2 DEF NoCorner
  <2>4. LastOf(LeftFan(T, s)) = s
    BY <2>3 DEF LastOf
  <2> QED
    BY <2>4 DEF LeftMostFrom
<1> QED
  BY <1>1, <1>3, <1>4

(* A table whose vertices are the fans, each stored with its leftmost      *)
(* corner and flagged when it has an end.                                  *)
Recovered(T, F, cv, vc, hole) ==
  /\ \A c, d \in Corners(F) : cv[c] = cv[d] <=> d \in FanCorners(T, c)
  /\ \A c \in Corners(F) :
       /\ vc[cv[c]] \in Corners(F) /\ cv[vc[cv[c]]] = cv[c]
       /\ hole[cv[c]] <=> \E d \in FanCorners(T, c) : LeftEnd(T, d)
  /\ \A v \in DOMAIN vc : LeftMostFrom(T, vc[v]) = vc[v]

(* A table rebuilt to its last corner is the whole table.                  *)
LEMMA MeshIsRecovered ==
  ASSUME NEW F \in Nat, NEW T, IsWhole(T, F), NEW m, m = 3 * F,
         NEW o, NEW cv, NEW vc, NEW hole, NEW n, Rebuilt(T, F, m, o, cv, vc, hole, n)
  PROVE  o = T /\ Recovered(T, F, cv, vc, hole)
<1> DEFINE D == Corners(F)
<1>1. IsTable(T, D) /\ 0 .. m - 1 = D
  BY DEF IsWhole, Corners
<1>2. o = T
  BY <1>1, CutAtTheEnd DEF Rebuilt
<1>a. /\ \A v \in DOMAIN vc : vc[v] # NoCorner => vc[v] \in 0 .. m - 1 /\ cv[vc[v]] = v
      /\ \A c \in 0 .. m - 1 : vc[cv[c]] \in 0 .. m - 1 /\ cv[vc[cv[c]]] = cv[c]
      /\ \A c \in 0 .. m - 1 : LeftEnd(o, c) => vc[cv[c]] = c
      /\ \A c \in 0 .. m - 1 : hole[cv[c]] <=> LeftEnd(o, vc[cv[c]])
  BY DEF Rebuilt
<1>b. /\ \A c, d \in 0 .. m - 1 : cv[c] = cv[d] => d \in FanCorners(o, c)
      /\ \A c \in 0 .. m - 1 : \A d \in FanCorners(o, c) : d \in Corners(F) /\ cv[d] = cv[c]
  BY RebuiltTable
<1> HIDE DEF D
<1>3. /\ \A v \in DOMAIN vc : vc[v] # NoCorner => vc[v] \in D /\ cv[vc[v]] = v
      /\ \A c \in D : vc[cv[c]] \in D /\ cv[vc[cv[c]]] = cv[c]
      /\ \A c \in D : LeftEnd(T, c) => vc[cv[c]] = c
      /\ \A c \in D : hole[cv[c]] <=> LeftEnd(T, vc[cv[c]])
  BY ONLY <1>1, <1>2, <1>a
<1>4. /\ \A c, d \in D : cv[c] = cv[d] => d \in FanCorners(T, c)
      /\ \A c \in D : \A d \in FanCorners(T, c) : d \in D /\ cv[d] = cv[c]
  BY ONLY <1>1, <1>2, <1>b DEF D
<1>5. \A c, d \in D : cv[c] = cv[d] <=> d \in FanCorners(T, c)
  BY <1>4
<1>6. ASSUME NEW c \in D, NEW d \in FanCorners(T, c), LeftEnd(T, d)
      PROVE  LeftEnd(T, vc[cv[c]]) /\ vc[cv[c]] = d
  BY <1>3, <1>4, <1>6
<1>7. \A c \in D : hole[cv[c]] <=> \E d \in FanCorners(T, c) : LeftEnd(T, d)
  <2> TAKE c \in D
  <2>1. vc[cv[c]] \in FanCorners(T, c)
    BY <1>3, <1>4
  <2> QED
    BY <1>3, <1>6, <2>1
<1>8. \A v \in DOMAIN vc : LeftMostFrom(T, vc[v]) = vc[v]
  <2> TAKE v \in DOMAIN vc
  <2>1. CASE vc[v] = NoCorner
    BY <2>1 DEF LeftMostFrom, NoCorner
  <2>2. CASE vc[v] # NoCorner
    <3> DEFINE s == vc[v]
    <3>1. s \in D /\ cv[s] = v
      BY <1>3, <2>2
    <3>2. \A e \in FanCorners(T, s) : LeftEnd(T, e) => LeftEnd(T, s)
      BY <1>6, <3>1
    <3> QED
      BY <1>1, <3>1, <3>2, LeftmostStays DEF D
  <2> QED
    BY <2>1, <2>2
<1> QED
  BY <1>2, <1>3, <1>5, <1>7, <1>8 DEF Recovered, D

(* Renumbering the vertices in the order the corners meet them keeps apart *)
(* what was apart: each old vertex is named by the first corner that uses  *)
(* it, and the new tables are read at that corner.                         *)
LEMMA CompactionRenames ==
  ASSUME NEW F \in Nat, DOMAIN dOpposite = Corners(F), IsTable(dOpposite, Corners(F)),
         dNumVertices \in Nat, NEW max \in Nat, dNumVertices <= max,
         dCornerVertex \in [Corners(F) -> 0 .. dNumVertices - 1],
         DecodedVertexIDs = 0 .. max - 1, isVertHole \in [0 .. max - 1 -> BOOLEAN],
         RemoveInvalidVertices
  PROVE  \E use \in [Corners(F) -> Corners(F)] :
           /\ \A c \in Corners(F) : dCornerVertex[use[c]] = dCornerVertex[c]
           /\ \A c, d \in Corners(F) :
                /\ dCornerVertex[c] = dCornerVertex[d] => dCornerVertex'[c] = dCornerVertex'[d]
                /\ dCornerVertex'[c] = dCornerVertex'[d] => use[c] = use[d]
           /\ \A c \in Corners(F) :
                /\ dVertexCorners'[dCornerVertex'[c]] = LeftMostFrom(dOpposite, use[c])
                /\ isVertHole'[dCornerVertex'[c]] = isVertHole[dCornerVertex[use[c]]]
           /\ \A v \in 0 .. max - 1 :
                \/ dVertexCorners'[v] = NoCorner
                \/ \E d \in Corners(F) : dVertexCorners'[v] = LeftMostFrom(dOpposite, d)
<1> DEFINE D == Corners(F)
           first == FirstUses(dCornerVertex)
           numUsed == Cardinality(first)
           rank(c) == Cardinality({d \in first : d < c})
           rankOf == [c \in first |-> rank(c)]
           firstUse(c) == CHOOSE d \in first : dCornerVertex[d] = dCornerVertex[c]
           met(v) == CHOOSE d \in first : rank(d) = v
           use == [c \in D |-> firstUse(c)]
<1>1. /\ D \in SUBSET Nat /\ IsFiniteSet(D) /\ DecodedCorners = D
      /\ DOMAIN dCornerVertex = D /\ D = 0 .. 3 * F - 1
  BY CornersAreFinite DEF DecodedCorners, Corners
<1>2. /\ dCornerVertex' = [c \in D |-> rank(firstUse(c))]
      /\ dNumVertices' = numUsed
      /\ dVertexCorners' = [v \in 0 .. max - 1 |->
            IF v < numUsed THEN LeftMostFrom(dOpposite, met(v)) ELSE NoCorner]
      /\ isVertHole' = [v \in 0 .. max - 1 |->
            IF v < numUsed THEN isVertHole[dCornerVertex[met(v)]] ELSE isVertHole[v]]
  BY <1>1 DEF RemoveInvalidVertices, StoredAfterCompaction
<1>3. /\ first = {c \in D : \A d \in 0 .. c - 1 : dCornerVertex[d] # dCornerVertex[c]}
      /\ first \in SUBSET D /\ first \in SUBSET Nat
  BY <1>1 DEF FirstUses
<1>4. IsFiniteSet(first) /\ numUsed \in Nat
  BY <1>1, <1>3, FS_Subset, FS_CardinalityType
<1>5. \A c \in D : \E d \in first : dCornerVertex[d] = dCornerVertex[c]
  <2> TAKE c \in D
  <2> DEFINE Uses == {d \in D : dCornerVertex[d] = dCornerVertex[c]}
  <2>1. Uses \in SUBSET Nat /\ Uses # {}
    BY <1>1
  <2>2. PICK d \in Uses : \A e \in Uses : d <= e
    BY <2>1, LeastNumber
  <2>3. d \in D /\ dCornerVertex[d] = dCornerVertex[c]
    BY <2>2
  <2>4. ASSUME NEW e \in 0 .. d - 1
        PROVE  dCornerVertex[e] # dCornerVertex[d]
    <3>1. e \in D /\ ~ (d <= e)
      BY <1>1, <2>3
    <3> QED
      BY <2>2, <2>3, <3>1
  <2> QED
    BY <1>3, <2>3, <2>4
<1>6. numUsed <= max /\ dCornerVertex' \in [D -> 0 .. numUsed - 1]
  <2>1. /\ dNumVertices' \in Nat /\ dNumVertices' <= dNumVertices
        /\ dCornerVertex' \in [Corners(F) -> 0 .. dNumVertices' - 1]
    BY CompactionIsSound
  <2>2. numUsed \in Nat /\ dNumVertices' = numUsed
    BY <1>2, <1>4
  <2> HIDE DEF first, numUsed, rank, rankOf, firstUse, met, use
  <2>3. dCornerVertex' \in [D -> 0 .. numUsed - 1]
    BY <2>1, <2>2
  <2>4. numUsed <= dNumVertices
    BY <2>1, <2>2
  <2>5. numUsed <= max
    BY ONLY <2>2, <2>4, dNumVertices \in Nat, max \in Nat, dNumVertices <= max
  <2> QED
    BY <2>3, <2>5
<1>7. /\ rankOf \in [first -> 0 .. numUsed - 1]
      /\ \A v \in 0 .. numUsed - 1 : \E c \in first : rankOf[c] = v
      /\ \A c, d \in first : rankOf[c] = rankOf[d] => c = d
  <2> DEFINE below == [c \in first |-> {d \in first : d < c}]
  <2>1. \A c \in first : below[c] = {d \in first : d < c} /\ below[c] \subseteq first
    OBVIOUS
  <2>2. \A c \in first : rankOf[c] = Cardinality(below[c])
    BY <2>1
  <2>3. \A c \in first : Cardinality(below[c]) \in Nat
    BY <1>4, <2>1, FS_Subset, FS_CardinalityType
  <2>4. rankOf \in [first -> Nat] /\ first \in SUBSET Nat /\ IsFiniteSet(first)
    BY <1>3, <1>4, <2>2, <2>3
  <2> HIDE DEF rankOf, first, below, rank, firstUse, met, D
  <2>5. \A c \in first : below[c] = {d \in first : d < c}
    BY <2>1
  <2>6. /\ rankOf \in [first -> 0 .. Cardinality(first) - 1]
        /\ \A v \in 0 .. Cardinality(first) - 1 : \E c \in first : rankOf[c] = v
        /\ \A c, d \in first : rankOf[c] = rankOf[d] => c = d
    BY ONLY <2>2, <2>4, <2>5, RanksCountUp
  <2> QED
    BY <2>6
<1>8. \A c \in first : rank(c) = rankOf[c]
  OBVIOUS
<1> HIDE DEF rankOf, rank, numUsed, first
<1>9. \A c \in D : firstUse(c) \in first /\ dCornerVertex[firstUse(c)] = dCornerVertex[c]
  BY <1>5
<1>10. \A v \in 0 .. numUsed - 1 : met(v) \in first /\ rank(met(v)) = v
  BY <1>7, <1>8
<1>11. \A c, d \in D : dCornerVertex[c] = dCornerVertex[d] => firstUse(c) = firstUse(d)
  OBVIOUS
<1> HIDE DEF firstUse, met, D
<1>12. \A c \in D : use[c] = firstUse(c) /\ use[c] \in first
  BY <1>9
<1>13. use \in [D -> D]
  BY <1>3, <1>12
<1> HIDE DEF use
<1>14. \A c \in D : /\ dCornerVertex'[c] = rank(use[c]) /\ dCornerVertex'[c] \in 0 .. numUsed - 1
                    /\ met(dCornerVertex'[c]) = use[c]
  <2> TAKE c \in D
  <2>1. dCornerVertex'[c] = rank(use[c]) /\ dCornerVertex'[c] \in 0 .. numUsed - 1
    BY <1>2, <1>6, <1>12
  <2>2. met(rank(use[c])) \in first /\ rank(met(rank(use[c]))) = rank(use[c])
    BY <1>10, <2>1
  <2> QED
    BY <1>7, <1>8, <1>12, <2>1, <2>2
<1>15. \A v \in 0 .. numUsed - 1 : v \in 0 .. max - 1 /\ v < numUsed
  BY <1>4, <1>6
<1>16. ASSUME NEW c \in D
       PROVE  /\ dVertexCorners'[dCornerVertex'[c]] = LeftMostFrom(dOpposite, use[c])
              /\ isVertHole'[dCornerVertex'[c]] = isVertHole[dCornerVertex[use[c]]]
  BY <1>2, <1>14, <1>15
<1>17. ASSUME NEW c \in D, NEW d \in D
       PROVE  /\ dCornerVertex[c] = dCornerVertex[d] => dCornerVertex'[c] = dCornerVertex'[d]
              /\ dCornerVertex'[c] = dCornerVertex'[d] => use[c] = use[d]
  BY <1>11, <1>12, <1>14
<1>18. ASSUME NEW v \in 0 .. max - 1
       PROVE  \/ dVertexCorners'[v] = NoCorner
              \/ \E d \in D : dVertexCorners'[v] = LeftMostFrom(dOpposite, d)
  <2>1. v < numUsed => v \in 0 .. numUsed - 1
    BY <1>4
  <2> QED
    BY <1>2, <1>3, <1>10, <2>1
<1>19. \A c \in D : dCornerVertex[use[c]] = dCornerVertex[c]
  BY <1>9, <1>12
<1> QED
  BY <1>13, <1>16, <1>17, <1>18, <1>19 DEF D

(* So the mesh stays recovered when the merged vertices are removed.       *)
LEMMA CompactionRecovers ==
  ASSUME NEW F \in Nat, DOMAIN dOpposite = Corners(F), IsTable(dOpposite, Corners(F)),
         dNumVertices \in Nat, NEW max \in Nat, dNumVertices <= max,
         dCornerVertex \in [Corners(F) -> 0 .. dNumVertices - 1],
         DecodedVertexIDs = 0 .. max - 1, isVertHole \in [0 .. max - 1 -> BOOLEAN],
         RemoveInvalidVertices,
         Recovered(dOpposite, F, dCornerVertex, dVertexCorners, isVertHole)
  PROVE  Recovered(dOpposite, F, dCornerVertex', dVertexCorners', isVertHole')
<1> DEFINE D == Corners(F)
<1>1. PICK use \in [D -> D] :
           /\ \A c \in D : dCornerVertex[use[c]] = dCornerVertex[c]
           /\ \A c, d \in D :
                /\ dCornerVertex[c] = dCornerVertex[d] => dCornerVertex'[c] = dCornerVertex'[d]
                /\ dCornerVertex'[c] = dCornerVertex'[d] => use[c] = use[d]
           /\ \A c \in D :
                /\ dVertexCorners'[dCornerVertex'[c]] = LeftMostFrom(dOpposite, use[c])
                /\ isVertHole'[dCornerVertex'[c]] = isVertHole[dCornerVertex[use[c]]]
           /\ \A v \in 0 .. max - 1 :
                \/ dVertexCorners'[v] = NoCorner
                \/ \E d \in D : dVertexCorners'[v] = LeftMostFrom(dOpposite, d)
  BY CompactionRenames
<1>2. /\ \A c, d \in D : dCornerVertex[c] = dCornerVertex[d] <=> d \in FanCorners(dOpposite, c)
      /\ \A c \in D : isVertHole[dCornerVertex[c]] <=>
                        \E d \in FanCorners(dOpposite, c) : LeftEnd(dOpposite, d)
  BY DEF Recovered
<1>3. \A c \in D : /\ LeftMostFrom(dOpposite, c) \in FanCorners(dOpposite, c)
                   /\ LeftMostFrom(dOpposite, c) \in D
                   /\ LeftMostFrom(dOpposite, LeftMostFrom(dOpposite, c)) = LeftMostFrom(dOpposite, c)
  BY LeftMostOfFan, FanKeepsSwings
<1>4. DOMAIN dVertexCorners' = 0 .. max - 1
  <2>1. dVertexCorners' \in [0 .. max - 1 -> {NoCorner} \cup Corners(F)]
    BY CompactionIsSound
  <2> QED
    BY <2>1
<1> HIDE DEF D
<1>5. \A c, d \in D : dCornerVertex'[c] = dCornerVertex'[d] <=> d \in FanCorners(dOpposite, c)
  BY <1>1, <1>2
<1>6. ASSUME NEW c \in D
      PROVE  /\ dVertexCorners'[dCornerVertex'[c]] \in D
             /\ dCornerVertex'[dVertexCorners'[dCornerVertex'[c]]] = dCornerVertex'[c]
             /\ isVertHole'[dCornerVertex'[c]] <=>
                  \E d \in FanCorners(dOpposite, c) : LeftEnd(dOpposite, d)
  <2> DEFINE l == LeftMostFrom(dOpposite, use[c])
  <2>1. use[c] \in D /\ dCornerVertex[use[c]] = dCornerVertex[c]
    BY <1>1
  <2>2. l \in D /\ dCornerVertex[use[c]] = dCornerVertex[l]
    BY <1>2, <1>3, <2>1
  <2>3. dVertexCorners'[dCornerVertex'[c]] = l
    BY <1>1
  <2>4. isVertHole'[dCornerVertex'[c]] = isVertHole[dCornerVertex[c]]
    BY <1>1, <2>1
  <2> HIDE DEF l
  <2>5. dCornerVertex'[l] = dCornerVertex'[c]
    BY <1>1, <2>1, <2>2
  <2> QED
    BY <1>2, <2>2, <2>3, <2>4, <2>5
<1>7. ASSUME NEW v \in 0 .. max - 1
      PROVE  LeftMostFrom(dOpposite, dVertexCorners'[v]) = dVertexCorners'[v]
  <2>1. CASE dVertexCorners'[v] = NoCorner
    BY <2>1 DEF LeftMostFrom, NoCorner
  <2>2. CASE dVertexCorners'[v] # NoCorner
    BY <1>1, <1>3, <2>2
  <2> QED
    BY <2>1, <2>2
<1> QED
  BY <1>4, <1>5, <1>6, <1>7 DEF Recovered, D

-----------------------------------------------------------------------------
(* The finished mesh.                                                      *)

MeshMirrored ==
  /\ dOpposite = WholeTable
  /\ Recovered(WholeTable, numEncodedFaces, dCornerVertex, dVertexCorners, isVertHole)

(* When the stack is empty every face has been read.                       *)
LEMMA PartsAllClosed ==
  ASSUME Sent, ReaderInv, decoderPhase = "startFaces", StartsMirrored, activeCorners = <<>>
  PROVE  /\ numDecodedFaces = numEncodedFaces /\ NewCorner = 3 * numEncodedFaces
         /\ ~ Incomplete
         /\ MeshMirrored
<1>1. /\ startFacesRead = Cardinality(Popped(activeCorners))
      /\ numDecodedFaces = NumSymbols + InnerBits(startFacesRead)
      /\ TableIsRebuilt
  BY DEF StartsMirrored
<1>2. Popped(activeCorners) = Roots
  BY DEF Popped, ElementsOf
<1>3. InnerBits(Len(startFaces)) = Len(initFaceCorners) /\ Cardinality(Roots) = Len(startFaces)
  BY WalkIsOver DEF BitsAreOfRoots
<1>4. numDecodedFaces = numEncodedFaces
  <2>1. startFacesRead = Len(startFaces)
    BY <1>1, <1>2, <1>3
  <2> QED
    BY <1>1, <1>3, <2>1, EveryFaceIsSent
<1>5. NewCorner = 3 * numEncodedFaces
  BY <1>4 DEF NewCorner
<1>6. /\ numEncodedFaces \in Nat /\ IsWhole(WholeTable, numEncodedFaces)
      /\ Rebuilt(WholeTable, numEncodedFaces, NewCorner, dOpposite, dCornerVertex, dVertexCorners,
                 isVertHole, dNumVertices)
  BY <1>1, SentInHand, WholeTableIsWhole DEF TableIsRebuilt
<1>7. MeshMirrored
  <2> DEFINE m == NewCorner
  <2>1. m = 3 * numEncodedFaces
    BY <1>5
  <2>2. Rebuilt(WholeTable, numEncodedFaces, m, dOpposite, dCornerVertex, dVertexCorners,
                isVertHole, dNumVertices)
    BY <1>6
  <2> HIDE DEF m
  <2> QED
    BY <1>6, <2>1, <2>2, MeshIsRecovered DEF MeshMirrored
<1>8. \A c \in DecodedCorners : dCornerVertex[c] \in 0 .. dNumVertices - 1
  <2>1. DecodedCorners = Corners(numEncodedFaces)
    BY DEF ReaderInv, TableHasItsSize
  <2>2. Corners(numEncodedFaces) = 0 .. NewCorner - 1
    BY <1>5 DEF Corners
  <2>3. \A c \in 0 .. NewCorner - 1 : dCornerVertex[c] \in 0 .. dNumVertices - 1
    BY <1>6 DEF Rebuilt
  <2> QED
    BY <2>1, <2>2, <2>3
<1> QED
  BY <1>4, <1>5, <1>7, <1>8 DEF Incomplete

(* What a finished mesh is made of.                                        *)
LEMMA MeshInHand ==
  ASSUME Sent, ReaderInv, decoderPhase \in {"startFaces", "connected", "decoded"}, MeshMirrored
  PROVE  /\ numEncodedFaces \in Nat /\ DOMAIN dOpposite = Corners(numEncodedFaces)
         /\ IsTable(dOpposite, Corners(numEncodedFaces))
         /\ DecodedCorners = Corners(numEncodedFaces)
         /\ DecodedVertexIDs = 0 .. DecoderMaxVertices - 1 /\ DecoderMaxVertices \in Nat
         /\ isVertHole \in [0 .. DecoderMaxVertices - 1 -> BOOLEAN]
         /\ dNumVertices \in Nat /\ dNumVertices <= DecoderMaxVertices
         /\ DOMAIN dCornerVertex = Corners(numEncodedFaces)
         /\ Recovered(dOpposite, numEncodedFaces, dCornerVertex, dVertexCorners, isVertHole)
<1>1. /\ numEncodedFaces \in Nat /\ DecoderMaxVertices \in Nat
  BY SentInHand, BornIsCounted
<1>2. /\ DecodedCorners = Corners(numEncodedFaces) /\ DecodedVertexIDs = AllVertices
      /\ DOMAIN isVertHole = AllVertices
      /\ dNumVertices \in 0 .. DecoderMaxVertices
      /\ isVertHole \in [DOMAIN isVertHole -> BOOLEAN]
      /\ dCornerVertex \in [DecodedCorners -> DecodedVertexIDs \cup {-1}]
  BY DEF ReaderInv, TableHasItsSize, ReaderTypeOK
<1>3. dNumVertices \in Nat /\ dNumVertices <= DecoderMaxVertices
  BY <1>1, <1>2
<1>4. IsTable(dOpposite, Corners(numEncodedFaces))
  BY WholeTableIsSent DEF MeshMirrored
<1> QED
  BY <1>1, <1>2, <1>3, <1>4 DEF MeshMirrored, DecodedCorners, AllVertices

(* The end of the connectivity: nothing is missing, and the mesh stands.   *)
LEMMA ConnectivityEnds ==
  ASSUME Sent, ReaderInv, StartsMirrored, FinishConnectivity, UNCHANGED encoderVars
  PROVE  decoderPhase' = "connected" /\ MeshMirrored'
<1>1. /\ decoderPhase = "startFaces" /\ activeCorners = <<>>
      /\ ~ Incomplete => /\ decoderPhase' = "connected"
                         /\ \/ UNCHANGED <<decodedTable, isVertHole>>
                            \/ RemoveInvalidVertices
  BY DEF FinishConnectivity
<1>2. MeshMirrored /\ ~ Incomplete
  BY <1>1, PartsAllClosed
<1>3. numEncodedFaces' = numEncodedFaces /\ WholeTable' = WholeTable
  BY WireStays
<1>4. CASE UNCHANGED <<decodedTable, isVertHole>>
  BY <1>1, <1>2, <1>3, <1>4 DEF MeshMirrored, decodedTable
<1>5. CASE RemoveInvalidVertices
  <2> DEFINE F == numEncodedFaces
             max == DecoderMaxVertices
  <2>1. /\ F \in Nat /\ DOMAIN dOpposite = Corners(F) /\ IsTable(dOpposite, Corners(F))
        /\ DecodedCorners = Corners(F) /\ DecodedVertexIDs = 0 .. max - 1 /\ max \in Nat
        /\ isVertHole \in [0 .. max - 1 -> BOOLEAN]
        /\ dNumVertices \in Nat /\ dNumVertices <= max
        /\ DOMAIN dCornerVertex = Corners(F)
        /\ Recovered(dOpposite, F, dCornerVertex, dVertexCorners, isVertHole)
    BY <1>1, <1>2, MeshInHand
  <2>2. dCornerVertex \in [Corners(F) -> 0 .. dNumVertices - 1]
    <3>1. \A c \in Corners(F) : dCornerVertex[c] \in 0 .. dNumVertices - 1
      BY <1>2, <2>1 DEF Incomplete
    <3>2. dCornerVertex \in [DecodedCorners -> DecodedVertexIDs \cup {-1}]
      BY DEF ReaderInv, ReaderTypeOK
    <3> QED
      BY <2>1, <3>1, <3>2
  <2> HIDE DEF F, max
  <2>3. Recovered(dOpposite, F, dCornerVertex', dVertexCorners', isVertHole')
    BY <1>5, <2>1, <2>2, CompactionRecovers
  <2>4. dOpposite' = dOpposite
    BY <1>5 DEF RemoveInvalidVertices
  <2> QED
    BY <1>1, <1>2, <1>3, <2>3, <2>4 DEF MeshMirrored, F
<1> QED
  BY <1>1, <1>2, <1>4, <1>5

(* The hole pass moves no corner: each is where it would be moved.         *)
LEMMA HolePassMovesNothing ==
  ASSUME Sent, ReaderInv, MeshMirrored, UpdateHoleCorners, UNCHANGED encoderVars
  PROVE  decoderPhase' = "decoded" /\ dVertexCorners' = dVertexCorners /\ MeshMirrored'
<1>1. /\ decoderPhase = "connected" /\ decoderPhase' = "decoded"
      /\ dVertexCorners' = [v \in DecodedVertexIDs |->
            IF v < dNumVertices /\ isVertHole[v]
            THEN LeftMostFrom(dOpposite, dVertexCorners[v]) ELSE dVertexCorners[v]]
      /\ UNCHANGED <<dCornerVertex, dOpposite, isVertHole>>
  BY DEF UpdateHoleCorners, HoleCorner
<1>2. \A v \in DecodedVertexIDs : LeftMostFrom(dOpposite, dVertexCorners[v]) = dVertexCorners[v]
  BY DEF MeshMirrored, Recovered, DecodedVertexIDs
<1>3. dVertexCorners = [v \in DecodedVertexIDs |-> dVertexCorners[v]]
  <2>1. dVertexCorners \in [DecodedVertexIDs -> Int]
    BY DEF ReaderInv, ReaderTypeOK
  <2> QED
    BY <2>1
<1>4. dVertexCorners' = dVertexCorners
  BY <1>1, <1>2, <1>3
<1>5. numEncodedFaces' = numEncodedFaces /\ WholeTable' = WholeTable
  BY WireStays
<1> QED
  BY <1>1, <1>4, <1>5 DEF MeshMirrored

-----------------------------------------------------------------------------
(* The whole of decoding.                                                  *)

DecoderMirror ==
  /\ decoderPhase # "failed"
  /\ decoderPhase = "symbols" => SymbolsMirrored
  /\ decoderPhase = "startFaces" => StartsMirrored
  /\ decoderPhase \in {"connected", "decoded"} => MeshMirrored

(* What is said of the symbols looks at the encoder and the decoder only.  *)
LEMMA SymbolsStay ==
  ASSUME SymbolsMirrored, UNCHANGED encoderVars, UNCHANGED decoderVars
  PROVE  SymbolsMirrored'
<1>1. /\ numEncodedFaces' = numEncodedFaces /\ NumSymbols' = NumSymbols /\ symbols' = symbols
      /\ splitEvents' = splitEvents /\ WholeTable' = WholeTable /\ SymbolFaces' = SymbolFaces
  BY WireStays
<1>2. UNCHANGED <<dCornerVertex, dOpposite, dVertexCorners, dNumVertices, activeCorners, symbolID,
                  topologySplitCorner, splitIndex, isVertHole, numDecodedFaces, startFacesRead>>
  BY DEF decoderVars, decodedTable
<1>3. TableIsRebuilt' /\ NewCorner' = NewCorner
  BY <1>1, <1>2 DEF SymbolsMirrored, TableIsRebuilt, NewCorner
<1>4. Born(symbolID)' = Born(symbolID)
  BY <1>1, <1>2 DEF Born, BornAt
<1>5. \A y : SplitLeft(y, NewCorner)' = SplitLeft(y, NewCorner)
  BY <1>1, <1>3 DEF SplitLeft, SymbolAt
<1> QED
  BY <1>1, <1>2, <1>3, <1>4, <1>5 DEF SymbolsMirrored

(* Every step of the decoder keeps the mirror.                             *)
LEMMA DecodeKeepsMirror ==
  ASSUME Sent, ReaderInv, DecoderMirror, DecoderNext, UNCHANGED encoderVars
  PROVE  DecoderMirror'
<1>1. CASE StartDecoding
  BY <1>1, ReadingBegins DEF DecoderMirror
<1>2. CASE DecodeC \/ DecodeR \/ DecodeL \/ DecodeS \/ DecodeE
  <2>1. decoderPhase = "symbols"
    BY <1>2 DEF DecodeC, DecodeR, DecodeL, DecodeSide, DecodeS, DecodeE, ReadingSymbol
  <2> QED
    BY <1>2, <2>1, SymbolsAreRead DEF DecoderMirror
<1>3. CASE SymbolsDone
  <2>1. /\ decoderPhase = "symbols" /\ symbolID = NumSymbols /\ decoderPhase' = "startFaces"
        /\ UNCHANGED <<decodedTable, activeCorners, isVertHole, numDecodedFaces, startFacesRead>>
    BY <1>3 DEF SymbolsDone
  <2>2. StartsMirrored
    BY <2>1, SymbolsEnd DEF DecoderMirror
  <2> QED
    BY <2>1, <2>2, StartsStay DEF DecoderMirror
<1>4. CASE DecodeBoundaryStart
  <2>1. decoderPhase = "startFaces" /\ decoderPhase' = "startFaces"
    BY <1>4 DEF DecodeBoundaryStart
  <2> QED
    BY <1>4, <2>1, OpenPartsClose DEF DecoderMirror
<1>5. CASE DecodeInteriorStart
  <2>1. decoderPhase = "startFaces"
    BY <1>5 DEF DecodeInteriorStart
  <2> QED
    BY <1>5, <2>1, ClosedPartsClose DEF DecoderMirror
<1>6. CASE TruncatedStartFaces
  <2>1. decoderPhase = "startFaces"
    BY <1>6 DEF TruncatedStartFaces
  <2> QED
    BY <1>6, <2>1, BitsSuffice DEF DecoderMirror
<1>7. CASE FinishConnectivity
  <2>1. decoderPhase = "startFaces"
    BY <1>7 DEF FinishConnectivity
  <2> QED
    BY <1>7, <2>1, ConnectivityEnds DEF DecoderMirror
<1>8. CASE UpdateHoleCorners
  <2>1. decoderPhase = "connected"
    BY <1>8 DEF UpdateHoleCorners
  <2> QED
    BY <1>8, <2>1, HolePassMovesNothing DEF DecoderMirror
<1> QED
  BY <1>1, <1>2, <1>3, <1>4, <1>5, <1>6, <1>7, <1>8 DEF DecoderNext

MirrorInv == TraceIsKept /\ RoundTripInv /\ (phase = "written" => DecoderMirror)

(* Once the stream is written the mirror stands.                           *)
LEMMA MirrorInHand ==
  ASSUME MirrorInv, phase = "written"
  PROVE  Sent /\ ReaderInv /\ DecoderMirror
BY DEF MirrorInv, Sent, RoundTripInv, ReadsWhatIsWritten

(* Every step keeps the invariant.                                         *)
LEMMA NextKeepsMirror == MirrorInv /\ [Next]_vars => MirrorInv'
<1> SUFFICES ASSUME MirrorInv, [Next]_vars PROVE MirrorInv'
  OBVIOUS
<1>1. RoundTripInv'
  BY NextKeepsRoundTripInv DEF MirrorInv
<1>2. CASE Encode
  <2>1. TraceIsKept'
    BY <1>2, EncoderKeepsTrace DEF MirrorInv, Encode
  <2>2. phase # "written"
    BY <1>2, EncoderNextKeepsWalkInv DEF MirrorInv, RoundTripInv, Encode
  <2>3. decoderPhase' = "idle"
    BY <1>2, <2>2 DEF MirrorInv, RoundTripInv, ReadsWhatIsWritten, Encode, DecoderInit, decoderVars
  <2> QED
    BY <1>1, <2>1, <2>3 DEF MirrorInv, DecoderMirror
<1>3. CASE Decode
  <2>1. phase = "written" /\ DecoderNext /\ UNCHANGED encoderVars
    BY <1>3 DEF Decode
  <2>2. TraceIsKept'
    BY <2>1, TraceStays DEF MirrorInv
  <2>3. DecoderMirror'
    BY <2>1, MirrorInHand, DecodeKeepsMirror
  <2> QED
    BY <1>1, <2>2, <2>3 DEF MirrorInv
<1>4. CASE UNCHANGED vars
  <2>1. UNCHANGED encoderVars /\ UNCHANGED decoderVars
    BY <1>4 DEF vars
  <2>2. TraceIsKept'
    BY <2>1, TraceStays DEF MirrorInv
  <2>3. phase' = phase
    BY <2>1, WireStays
  <2>4. phase = "written" => DecoderMirror'
    <3>1. SUFFICES ASSUME DecoderMirror PROVE DecoderMirror'
      BY DEF MirrorInv
    <3>2. decoderPhase' = decoderPhase
      BY <2>1 DEF decoderVars
    <3>3. SymbolsMirrored => SymbolsMirrored'
      BY <2>1, SymbolsStay
    <3>4. StartsMirrored => StartsMirrored'
      BY <2>1, StartsStay DEF decoderVars
    <3>5. MeshMirrored => MeshMirrored'
      <4>1. numEncodedFaces' = numEncodedFaces /\ WholeTable' = WholeTable
        BY <2>1, WireStays
      <4> QED
        BY <2>1, <4>1 DEF MeshMirrored, decoderVars, decodedTable
    <3> QED
      BY <3>1, <3>2, <3>3, <3>4, <3>5 DEF DecoderMirror
  <2> QED
    BY <1>1, <2>2, <2>3, <2>4 DEF MirrorInv
<1> QED
  BY <1>2, <1>3, <1>4 DEF Next

(* The invariant of the round trip holds of every behaviour.               *)
LEMMA MirrorInvariant == Spec => []MirrorInv
<1>1. Init => MirrorInv
  <2> SUFFICES ASSUME Init PROVE MirrorInv
    OBVIOUS
  <2>1. TraceIsKept
    BY InitBeginsTrace DEF Init
  <2>2. phase # "written" /\ RoundTripInv
    <3>1. phase # "written"
      BY DEF Init, EncoderInit, BaseInit
    <3> QED
      BY <3>1, InitEstablishesWalkInv DEF Init, RoundTripInv, ReadsWhatIsWritten
  <2> QED
    BY <2>1, <2>2 DEF MirrorInv
<1> QED
  BY <1>1, NextKeepsMirror, PTL DEF Spec

-----------------------------------------------------------------------------
(* What follows for the properties of the round trip.                      *)

(* The decoder is at work only on a stream that was written.               *)
LEMMA AtWorkOnAStream ==
  ASSUME MirrorInv, decoderPhase # "idle"
  PROVE  /\ Sent /\ ReaderInv /\ DecoderMirror
         /\ decoderPhase # "failed" /\ DecodedCorners = Corners(numEncodedFaces)
         /\ numEncodedFaces \in Nat
<1>1. phase = "written"
  BY DEF MirrorInv, RoundTripInv, ReadsWhatIsWritten, DecoderInit
<1>2. Sent /\ ReaderInv /\ DecoderMirror
  BY <1>1, MirrorInHand
<1>3. decoderPhase # "failed"
  BY <1>2 DEF DecoderMirror
<1>4. DecodedCorners = Corners(numEncodedFaces)
  BY <1>2, <1>3 DEF ReaderInv, TableHasItsSize
<1> QED
  BY <1>2, <1>3, <1>4, SentInHand

(* The decoder accepts what the encoder writes.                            *)
LEMMA NothingIsRefused == MirrorInv => DecoderAcceptsStream
BY AtWorkOnAStream DEF DecoderAcceptsStream

(* It never merges vertices that are not one.                              *)
LEMMA NothingMergesWrongly == MirrorInv => VerticesNeverMergeWrongly
<1> SUFFICES ASSUME MirrorInv, decoderPhase \notin {"idle", "failed"},
                    NEW c \in DecodedCorners, NEW d \in DecodedCorners,
                    dCornerVertex[c] = dCornerVertex[d], dCornerVertex[c] # -1
             PROVE  SourceVertex(c) = SourceVertex(d)
  BY DEF VerticesNeverMergeWrongly
<1>1. /\ Sent /\ ReaderInv /\ DecoderMirror
      /\ c \in Corners(numEncodedFaces) /\ d \in Corners(numEncodedFaces)
      /\ numEncodedFaces \in Nat
  BY AtWorkOnAStream
<1>2. /\ IsWhole(WholeTable, numEncodedFaces)
      /\ d \in FanCorners(WholeTable, c) => SourceVertex(c) = SourceVertex(d)
  BY <1>1, WholeTableIsWhole
<1>3. CASE decoderPhase \in {"symbols", "startFaces"}
  <2> DEFINE m == NewCorner
  <2>1. Rebuilt(WholeTable, numEncodedFaces, m, dOpposite, dCornerVertex, dVertexCorners,
                isVertHole, dNumVertices)
    BY <1>1, <1>3 DEF DecoderMirror, SymbolsMirrored, StartsMirrored, TableIsRebuilt
  <2> HIDE DEF m
  <2>2. \A e \in Corners(numEncodedFaces) \ (0 .. m - 1) : dCornerVertex[e] = -1
    BY <2>1 DEF Rebuilt
  <2>3. c \in 0 .. m - 1 /\ d \in 0 .. m - 1
    BY <1>1, <2>2
  <2>4. \A a, b \in 0 .. m - 1 : dCornerVertex[a] = dCornerVertex[b] => b \in FanCorners(WholeTable, a)
    BY <1>1, <1>2, <2>1, RebuiltTable
  <2> QED
    BY <1>2, <2>3, <2>4
<1>4. CASE decoderPhase \in {"connected", "decoded"}
  BY <1>1, <1>2, <1>4 DEF DecoderMirror, MeshMirrored, Recovered
<1> QED
  BY <1>1, <1>3, <1>4 DEF ReaderInv, ReaderTypeOK

(* What is decoded in the end.                                             *)
LEMMA DecodedMesh ==
  ASSUME MirrorInv, Decoded
  PROVE  /\ Sent /\ DecodedCorners = Corners(numEncodedFaces) /\ numEncodedFaces \in Nat
         /\ dOpposite = WholeTable
         /\ Recovered(WholeTable, numEncodedFaces, dCornerVertex, dVertexCorners, isVertHole)
BY AtWorkOnAStream DEF Decoded, DecoderMirror, MeshMirrored

(* All of the mesh comes back.                                             *)
LEMMA AllComesBack == MirrorInv => RoundTrip
<1> SUFFICES ASSUME MirrorInv, Decoded
             PROVE  /\ {SourceCorner(c) : c \in DecodedCorners} = AllCorners
                    /\ \A c, d \in DecodedCorners :
                         /\ dOpposite[c] = d <=> opposite[SourceCorner(c)] = SourceCorner(d)
                         /\ dCornerVertex[c] = dCornerVertex[d] <=> SourceVertex(c) = SourceVertex(d)
  BY DEF RoundTrip
<1>1. /\ Sent /\ DecodedCorners = Corners(numEncodedFaces)
      /\ dOpposite = WholeTable
      /\ Recovered(WholeTable, numEncodedFaces, dCornerVertex, dVertexCorners, isVertHole)
  BY DecodedMesh
<1>2. {SourceCorner(c) : c \in DecodedCorners} = AllCorners
  <2>1. \A c \in Corners(numEncodedFaces) : SourceCorner(c) \in AllCorners
    BY <1>1, SourceCornersTurn
  <2>2. \A e \in AllCorners : \E c \in Corners(numEncodedFaces) : SourceCorner(c) = e
    BY <1>1, SourceCornersAreOne
  <2> QED
    BY <1>1, <2>1, <2>2
<1>3. \A c, d \in Corners(numEncodedFaces) :
        WholeTable[c] = d <=> opposite[SourceCorner(c)] = SourceCorner(d)
  BY <1>1, WholeTableIsSent
<1>4. \A c, d \in Corners(numEncodedFaces) :
        dCornerVertex[c] = dCornerVertex[d] <=> SourceVertex(c) = SourceVertex(d)
  BY <1>1, WholeTableIsWhole DEF Recovered
<1> QED
  BY <1>1, <1>2, <1>3, <1>4

(* A vertex of the source lies on the boundary when its fan has an end.    *)
LEMMA BoundaryVerticesHaveEnds ==
  ASSUME Sent, NEW c \in Corners(numEncodedFaces)
  PROVE  vertexHoleID[SourceVertex(c)] # -1 <=>
           \E d \in FanCorners(WholeTable, c) : LeftEnd(WholeTable, d)
<1> DEFINE F == numEncodedFaces
           T == WholeTable
<1>1. /\ F \in Nat /\ IsTable(T, Corners(F)) /\ TableIsReady /\ AllCorners = Corners(F)
      /\ IsWhole(T, F)
      /\ \A x, y \in Corners(F) : y \in FanCorners(T, x) <=> SourceVertex(x) = SourceVertex(y)
  BY SentInHand, WholeTableIsWhole, WholeTableIsSent
<1>2. SourceCorner(c) \in AllCorners /\ SourceVertex(c) = cornerVertex[SourceCorner(c)]
  BY SourceCornersTurn DEF SourceVertex
<1>3. ASSUME NEW d \in FanCorners(T, c), LeftEnd(T, d)
      PROVE  vertexHoleID[SourceVertex(c)] # -1
  <2>1. d \in Corners(F) /\ SourceVertex(d) = SourceVertex(c)
    BY <1>1, FanKeepsSwings
  <2>2. /\ SourceCorner(d) \in AllCorners /\ NextCorner(d) \in Corners(F)
        /\ SourceCorner(NextCorner(d)) = NextCorner(SourceCorner(d))
    BY <2>1, SourceCornersTurn
  <2>3. opposite[NextCorner(SourceCorner(d))] = NoCorner
    <3>1. T[NextCorner(d)] = NoCorner
      BY <1>3 DEF LeftEnd
    <3> QED
      BY <2>2, <3>1, WholeTableIsSent
  <2> QED
    BY <1>1, <2>1, <2>2, <2>3, MissingFaceIsABoundary DEF SourceVertex
<1>4. ASSUME vertexHoleID[SourceVertex(c)] # -1
      PROVE  \E d \in FanCorners(T, c) : LeftEnd(T, d)
  <2>1. SourceVertex(c) \in VertexIDs
    BY <1>1, <1>2, ManifoldCorners, SentInHand
  <2>2. PICK b \in BoundaryCorners : BoundaryVertexOf(b) = SourceVertex(c)
    BY <1>1, <1>4, <2>1 DEF TableIsReady
  <2>3. b \in AllCorners /\ opposite[b] = NoCorner /\ cornerVertex[NextCorner(b)] = SourceVertex(c)
    BY <2>2 DEF BoundaryCorners, BoundaryVertexOf
  <2>4. PICK e \in Corners(F) : SourceCorner(e) = b
    BY <2>3, SourceCornersAreOne
  <2> DEFINE n == NextCorner(e)
  <2>5. n \in Corners(F) /\ SourceCorner(n) = NextCorner(b) /\ PreviousCorner(n) = e
    BY <1>1, <2>4, SourceCornersTurn, NextAndPrevious
  <2>6. RightEnd(T, n)
    BY <2>3, <2>4, <2>5, WholeTableIsSent DEF RightEnd
  <2>7. n \in FanCorners(T, c)
    BY <1>1, <2>3, <2>5 DEF SourceVertex
  <2> HIDE DEF F, T, n
  <2>8. \E d \in FanCorners(T, n) : LeftEnd(T, d)
    BY <1>1, <2>5, <2>6, OpenFanHasLeftmost
  <2>9. FanCorners(T, n) = FanCorners(T, c)
    <3>1. c \in Corners(F)
      BY DEF F
    <3> QED
      BY <1>1, <2>7, <3>1, FansAreDisjoint
  <2> QED
    BY <2>8, <2>9
<1> QED
  BY <1>3, <1>4

(* The hole flags are those of boundary vertices.                          *)
LEMMA FlagsAreExact == MirrorInv => HoleFlagsAreExact
<1> SUFFICES ASSUME MirrorInv, Decoded, NEW c \in DecodedCorners
             PROVE  isVertHole[dCornerVertex[c]] <=> vertexHoleID[SourceVertex(c)] # -1
  BY DEF HoleFlagsAreExact
<1>1. /\ Sent /\ c \in Corners(numEncodedFaces)
      /\ Recovered(WholeTable, numEncodedFaces, dCornerVertex, dVertexCorners, isVertHole)
  BY DecodedMesh
<1> QED
  BY <1>1, BoundaryVerticesHaveEnds DEF Recovered

(* The corners stored for vertices are leftmost.                           *)
LEMMA CornersAreLeftmost == MirrorInv => DecodedCornersAreLeftmost
<1> SUFFICES ASSUME MirrorInv, Decoded, NEW c \in DecodedCorners, NEW v, v = dCornerVertex[c]
             PROVE  /\ dVertexCorners[v] # NoCorner
                    /\ dCornerVertex[dVertexCorners[v]] = v
                    /\ LeftMostFrom(dOpposite, dVertexCorners[v]) = dVertexCorners[v]
  BY DEF DecodedCornersAreLeftmost
<1>1. /\ Sent /\ c \in Corners(numEncodedFaces) /\ numEncodedFaces \in Nat
      /\ dOpposite = WholeTable
      /\ Recovered(WholeTable, numEncodedFaces, dCornerVertex, dVertexCorners, isVertHole)
  BY DecodedMesh
<1>2. dVertexCorners[v] \in Corners(numEncodedFaces) /\ dCornerVertex[dVertexCorners[v]] = v
  BY <1>1 DEF Recovered
<1>3. dVertexCorners[v] # NoCorner
  BY <1>1, <1>2, CornersAreFinite DEF NoCorner
<1>4. LeftMostFrom(dOpposite, dVertexCorners[v]) = dVertexCorners[v]
  <2>1. v \in DOMAIN dVertexCorners
    <3>1. DecodedVertexIDs = AllVertices /\ dCornerVertex \in [DecodedCorners -> DecodedVertexIDs \cup {-1}]
      BY AtWorkOnAStream DEF Decoded, ReaderInv, TableHasItsSize, ReaderTypeOK
    <3>2. \A a \in DecodedCorners : dCornerVertex[a] \in 0 .. dNumVertices - 1
      BY AtWorkOnAStream DEF Decoded, ReaderInv, DecodedMeshIsComplete
    <3>3. v # -1
      <4>1. v \in 0 .. dNumVertices - 1
        BY <3>2
      <4> QED
        BY <4>1
    <3> QED
      BY <3>1, <3>3 DEF DecodedVertexIDs
  <2> QED
    BY <1>1, <2>1 DEF Recovered
<1> QED
  BY <1>2, <1>3, <1>4

(* For every mesh the decoder takes what the encoder wrote to the end: no  *)
(* symbol finds an occupied edge, an empty stack or too few vertices, no   *)
(* part is without its start-face bit, and no face is missing.  With the   *)
(* order of the split events, what can be written can be read.             *)
THEOREM StreamsAreAlwaysAccepted == Spec => []StreamIsAccepted
<1>1. RoundTripInv => SplitEventsAreEncodable
  BY DEF RoundTripInv, WalkInv, EventsFollowTheWalk, SplitEventsAreEncodable
<1>2. MirrorInv => StreamIsAccepted
  BY <1>1, NothingIsRefused DEF MirrorInv, StreamIsAccepted
<1> QED
  BY <1>2, MirrorInvariant, PTL

(* For every mesh the decoded connectivity is the encoded one: the same    *)
(* faces, glued at the same edges, sharing the same vertices; and no two   *)
(* corners share a vertex on the way that do not in the end.               *)
THEOREM MeshesAlwaysComeBack == Spec => []MeshComesBack
<1>1. MirrorInv => MeshComesBack
  BY NothingMergesWrongly, AllComesBack DEF MeshComesBack
<1> QED
  BY <1>1, MirrorInvariant, PTL

(* For every mesh the flags the decoder keeps say in the end which         *)
(* vertices lie on the boundary of the source, and every vertex is stored  *)
(* with the corner its fan starts at.                                      *)
THEOREM BoundariesAreAlwaysExact == Spec => []BoundaryIsExact
<1>1. MirrorInv => BoundaryIsExact
  BY FlagsAreExact, CornersAreLeftmost DEF BoundaryIsExact
<1> QED
  BY <1>1, MirrorInvariant, PTL

(* For every mesh the pass over the boundary vertices moves no corner, so  *)
(* the table from which the encoder lays out the attributes is the table   *)
(* from which the reader does.                                             *)
THEOREM HolePassNeverMovesACorner == Spec => SimulatedTableIsTheReaders
<1>1. MirrorInv /\ [Next]_vars =>
        [decoderPhase = "connected" => UNCHANGED dVertexCorners]_vars
  <2> SUFFICES ASSUME MirrorInv, [Next]_vars, decoderPhase = "connected"
               PROVE  UNCHANGED dVertexCorners
    OBVIOUS
  <2>1. CASE Encode \/ UNCHANGED vars
    BY <2>1 DEF Encode, vars, decoderVars, decodedTable
  <2>2. CASE Decode
    <3>1. DecoderNext /\ UNCHANGED encoderVars
      BY <2>2 DEF Decode
    <3>2. UpdateHoleCorners
      BY <3>1 DEF DecoderNext, StartDecoding, DecodeC, DecodeR, DecodeL, DecodeSide, DecodeS,
         DecodeE, ReadingSymbol, SymbolsDone, DecodeBoundaryStart, DecodeInteriorStart,
         TruncatedStartFaces, FinishConnectivity
    <3>3. Sent /\ ReaderInv /\ MeshMirrored
      BY AtWorkOnAStream DEF DecoderMirror
    <3> QED
      BY <3>1, <3>2, <3>3, HolePassMovesNothing
  <2> QED
    BY <2>1, <2>2 DEF Next
<1> QED
  BY <1>1, MirrorInvariant, PTL DEF Spec, SimulatedTableIsTheReaders

-----------------------------------------------------------------------------
(* The steps of MeshTransfer.                                              *)

(* Before it starts the decoder has no table.                              *)
NoTableYet == decoderPhase = "idle" => dOpposite = <<>>

(* Only the first step of the decoder finds it idle, and none leaves it so.*)
LEMMA StepsOfTheDecoder ==
  ASSUME DecoderNext
  PROVE  /\ decoderPhase = "idle" => StartDecoding
         /\ decoderPhase' = "idle" => FALSE
<1>1. CASE StartDecoding
  BY <1>1 DEF StartDecoding
<1>2. CASE DecodeC \/ DecodeR \/ DecodeL \/ DecodeS \/ DecodeE
  <2>1. decoderPhase = "symbols"
    BY <1>2 DEF DecodeC, DecodeR, DecodeL, DecodeSide, DecodeS, DecodeE, ReadingSymbol
  <2>2. decoderPhase' = decoderPhase \/ decoderPhase' = "failed"
    BY <1>2 DEF DecodeC, DecodeR, DecodeL, DecodeSide, DecodeS, DecodeE, Fail
  <2> QED
    BY <2>1, <2>2
<1>3. CASE SymbolsDone \/ DecodeBoundaryStart \/ DecodeInteriorStart \/ TruncatedStartFaces
           \/ FinishConnectivity \/ UpdateHoleCorners
  BY <1>3 DEF SymbolsDone, DecodeBoundaryStart, DecodeInteriorStart, TruncatedStartFaces,
              FinishConnectivity, UpdateHoleCorners, Fail
<1> QED
  BY <1>1, <1>2, <1>3 DEF DecoderNext

(* This holds of every behaviour.                                          *)
LEMMA NoTableInvariant == Spec => []NoTableYet
<1>1. Init => NoTableYet
  BY DEF Init, DecoderInit, NoTableYet
<1>2. NoTableYet /\ [Next]_vars => NoTableYet'
  <2> SUFFICES ASSUME NoTableYet, [Next]_vars PROVE NoTableYet'
    OBVIOUS
  <2>1. CASE Decode
    BY <2>1, StepsOfTheDecoder DEF Decode, NoTableYet
  <2>2. CASE Encode \/ UNCHANGED vars
    BY <2>2 DEF Encode, vars, decoderVars, decodedTable, NoTableYet
  <2> QED
    BY <2>1, <2>2 DEF Next
<1> QED
  BY <1>1, <1>2, PTL DEF Spec

TransferInv == MirrorInv /\ NoTableYet

(* A pair the decoder has glued is one of the whole mesh.                  *)
LEMMA GluedIsOfTheMesh ==
  ASSUME TransferInv, NEW c \in DecodedCorners, dOpposite[c] # NoCorner
  PROVE  /\ Sent /\ DecodedCorners = Corners(numEncodedFaces) /\ decoderPhase # "idle"
         /\ WholeTable[c] = dOpposite[c]
<1>1. decoderPhase # "idle"
  <2> SUFFICES ASSUME dOpposite = <<>> PROVE FALSE
    BY DEF TransferInv, NoTableYet
  <2> QED
    BY DEF DecodedCorners
<1>2. /\ Sent /\ ReaderInv /\ DecoderMirror /\ decoderPhase # "failed"
      /\ DecodedCorners = Corners(numEncodedFaces) /\ numEncodedFaces \in Nat
  BY <1>1, AtWorkOnAStream DEF TransferInv
<1>3. CASE decoderPhase \in {"symbols", "startFaces"}
  <2>1. dOpposite = Cut(WholeTable, NewCorner)
    BY <1>2, <1>3 DEF DecoderMirror, SymbolsMirrored, StartsMirrored, TableIsRebuilt, Rebuilt
  <2>2. c \in DOMAIN WholeTable
    BY <1>2 DEF WholeTable
  <2> QED
    BY <1>1, <1>2, <2>1, <2>2 DEF Cut
<1>4. CASE decoderPhase \in {"connected", "decoded"}
  BY <1>1, <1>2, <1>4 DEF DecoderMirror, MeshMirrored
<1> QED
  BY <1>1, <1>2, <1>3, <1>4 DEF ReaderInv, ReaderTypeOK

(* The faces decoded are never fewer.                                      *)
LEMMA FacesAreOnlyAdded ==
  ASSUME DecoderNext, numDecodedFaces \in Nat
  PROVE  /\ numDecodedFaces' \in Nat /\ numDecodedFaces' >= numDecodedFaces
         /\ decoderPhase \in {"connected", "decoded"} => decoderPhase' \in {"connected", "decoded"}
<1>1. CASE StartDecoding \/ SymbolsDone \/ DecodeBoundaryStart \/ TruncatedStartFaces
           \/ FinishConnectivity \/ UpdateHoleCorners
  BY <1>1 DEF StartDecoding, SymbolsDone, DecodeBoundaryStart, TruncatedStartFaces,
              FinishConnectivity, UpdateHoleCorners, Fail
<1>2. CASE DecodeC \/ DecodeR \/ DecodeL \/ DecodeS \/ DecodeE
  <2>1. decoderPhase = "symbols"
    BY <1>2 DEF DecodeC, DecodeR, DecodeL, DecodeSide, DecodeS, DecodeE, ReadingSymbol
  <2>2. numDecodedFaces' = numDecodedFaces \/ numDecodedFaces' = numDecodedFaces + 1
    BY <1>2 DEF DecodeC, DecodeR, DecodeL, DecodeSide, DecodeS, DecodeE, Fail, FaceAdded
  <2> QED
    BY <2>1, <2>2
<1>3. CASE DecodeInteriorStart
  BY <1>3 DEF DecodeInteriorStart, Fail
<1> QED
  BY <1>1, <1>2, <1>3 DEF DecoderNext

(* What has been glued stays glued.                                        *)
LEMMA GluedStaysGlued ==
  ASSUME TransferInv, TransferInv', Decode, NEW c \in DecodedCorners, dOpposite[c] # NoCorner
  PROVE  c \in DecodedCorners' /\ dOpposite'[c] = dOpposite[c]
<1>1. /\ Sent /\ DecodedCorners = Corners(numEncodedFaces) /\ WholeTable[c] = dOpposite[c]
      /\ decoderPhase # "idle" /\ phase = "written" /\ DecoderNext /\ UNCHANGED encoderVars
  BY GluedIsOfTheMesh DEF Decode
<1>2. /\ numEncodedFaces' = numEncodedFaces /\ WholeTable' = WholeTable /\ phase' = "written"
      /\ DOMAIN WholeTable = Corners(numEncodedFaces)
  BY <1>1, WireStays DEF WholeTable
<1>3. /\ ReaderInv /\ DecoderMirror /\ ReaderInv' /\ DecoderMirror'
  BY <1>1, <1>2 DEF TransferInv, MirrorInv, RoundTripInv, ReadsWhatIsWritten
<1>4. decoderPhase' # "idle" /\ decoderPhase' # "failed"
  BY <1>1, <1>3, StepsOfTheDecoder DEF DecoderMirror
<1>5. c \in DecodedCorners'
  BY <1>1, <1>2, <1>3, <1>4 DEF ReaderInv, TableHasItsSize
<1>6. /\ decoderPhase \in {"symbols", "startFaces", "connected", "decoded"}
      /\ decoderPhase' \in {"symbols", "startFaces", "connected", "decoded"}
      /\ numDecodedFaces \in Nat
  BY <1>1, <1>3, <1>4 DEF ReaderInv, ReaderTypeOK, DecoderMirror
<1>7. CASE decoderPhase' \in {"connected", "decoded"}
  BY <1>1, <1>2, <1>3, <1>5, <1>7 DEF DecoderMirror, MeshMirrored
<1>8. CASE decoderPhase' \in {"symbols", "startFaces"}
  <2>1. decoderPhase \in {"symbols", "startFaces"}
    BY <1>1, <1>6, <1>8, FacesAreOnlyAdded
  <2>2. dOpposite = Cut(WholeTable, NewCorner)
    BY <1>3, <2>1 DEF DecoderMirror, SymbolsMirrored, StartsMirrored, TableIsRebuilt, Rebuilt
  <2>3. dOpposite' = Cut(WholeTable, NewCorner')
    BY <1>2, <1>3, <1>8 DEF DecoderMirror, SymbolsMirrored, StartsMirrored, TableIsRebuilt, Rebuilt
  <2>4. NewCorner \in Nat /\ NewCorner' \in Nat /\ NewCorner <= NewCorner'
    BY <1>1, <1>6, FacesAreOnlyAdded DEF NewCorner
  <2>5. /\ c < NewCorner /\ WholeTable[c] < NewCorner
        /\ c \in Nat /\ (WholeTable[c] \in Nat \/ WholeTable[c] = NoCorner)
    <3>1. c < NewCorner /\ WholeTable[c] < NewCorner
      BY <1>1, <1>2, <2>2 DEF Cut
    <3>2. WholeTable[c] \in Corners(numEncodedFaces) \cup {NoCorner}
      BY <1>1, WholeTableIsSent
    <3> QED
      BY <1>1, <3>1, <3>2 DEF Corners
  <2>6. c < NewCorner' /\ WholeTable[c] < NewCorner'
    BY <2>4, <2>5 DEF NoCorner
  <2> QED
    BY <1>1, <1>2, <1>5, <2>3, <2>6 DEF Cut
<1> QED
  BY <1>5, <1>6, <1>7, <1>8

(* What is glued on the decoder's side was glued on the encoder's.         *)
LEMMA PairsWereSent ==
  ASSUME TransferInv
  PROVE  /\ ReceivedPairs \subseteq SentPairs
         /\ phase # "written" => ReceivedPairs = {} /\ ~ Decoded
<1>1. ASSUME NEW c \in DecodedCorners, dOpposite[c] # NoCorner
      PROVE  /\ phase = "written"
             /\ SourceCorner(c) \in AllCorners /\ opposite[SourceCorner(c)] # NoCorner
             /\ SourceCorner(dOpposite[c]) = opposite[SourceCorner(c)]
  <2>1. /\ Sent /\ c \in Corners(numEncodedFaces) /\ WholeTable[c] = dOpposite[c]
    BY <1>1, GluedIsOfTheMesh
  <2>2. SourceCorner(c) \in AllCorners
    BY <2>1, SourceCornersTurn
  <2>3. /\ opposite[SourceCorner(c)] # NoCorner
        /\ SourceCorner(WholeTable[c]) = opposite[SourceCorner(c)]
    BY <1>1, <2>1, WholeTableIsSent
  <2> QED
    BY <2>1, <2>2, <2>3 DEF Sent
<1>2. ReceivedPairs \subseteq SentPairs
  BY <1>1 DEF ReceivedPairs, SentPairs
<1>3. phase # "written" => ReceivedPairs = {}
  BY <1>2 DEF SentPairs
<1>4. phase # "written" => ~ Decoded
  BY DEF TransferInv, MirrorInv, RoundTripInv, ReadsWhatIsWritten, DecoderInit, Decoded
<1> QED
  BY <1>2, <1>3, <1>4

(* The same as a statement about a state.                                  *)
LEMMA NoWrongPairs == TransferInv => ReceivedPairs \subseteq SentPairs
BY PairsWereSent

(* When the connectivity is there, all of it is.                           *)
LEMMA AllPairsArrived ==
  ASSUME TransferInv, decoderPhase = "connected"
  PROVE  ReceivedPairs = SentPairs
<1>1. /\ Sent /\ DecodedCorners = Corners(numEncodedFaces) /\ dOpposite = WholeTable
  BY AtWorkOnAStream DEF TransferInv, DecoderMirror, MeshMirrored
<1>2. ASSUME NEW s \in AllCorners, opposite[s] # NoCorner
      PROVE  \E c \in DecodedCorners : /\ dOpposite[c] # NoCorner /\ SourceCorner(c) = s
                                       /\ SourceCorner(dOpposite[c]) = opposite[s]
  <2>1. PICK c \in Corners(numEncodedFaces) : SourceCorner(c) = s
    BY <1>1, SourceCornersAreOne
  <2>2. WholeTable[c] # NoCorner /\ SourceCorner(WholeTable[c]) = opposite[s]
    BY <1>1, <1>2, <2>1, WholeTableIsSent
  <2> QED
    BY <1>1, <2>1, <2>2
<1>3. SentPairs \subseteq ReceivedPairs
  BY <1>2 DEF ReceivedPairs, SentPairs
<1> QED
  BY <1>3, PairsWereSent

(* What is sent is a gluing: pairs of corners, both ways.                  *)
LEMMA AGluingIsSent == TransferInv => Transfer!IsGluing(SentPairs)
<1>1. CASE phase = "written"
  <2> SUFFICES ASSUME TransferInv PROVE Transfer!IsGluing(SentPairs)
    OBVIOUS
  <2>1. /\ AllCorners \subseteq Nat /\ IsTable(opposite, AllCorners)
    <3>1. TableIsReady /\ AllCorners = Corners(numEncodedFaces) /\ numEncodedFaces \in Nat
      BY <1>1, SentInHand DEF TransferInv, MirrorInv, Sent
    <3> QED
      BY <3>1, TableInUse DEF Corners
  <2>2. \A c \in AllCorners : opposite[c] # NoCorner =>
          opposite[c] \in AllCorners /\ opposite[opposite[c]] = c /\ c # NoCorner
    <3>1. \A c \in AllCorners : c # NoCorner
      BY <2>1 DEF NoCorner
    <3> QED
      BY <2>1, <3>1 DEF IsTable, IsPairing
  <2>3. SentPairs = {<<c, opposite[c]>> : c \in {d \in AllCorners : opposite[d] # NoCorner}}
    BY <1>1 DEF SentPairs
  <2>4. SentPairs \subseteq Nat \X Nat
    <3>1. \A c \in AllCorners : opposite[c] # NoCorner => c \in Nat /\ opposite[c] \in Nat
      BY <2>1, <2>2
    <3> QED
      BY <2>3, <3>1
  <2>5. \A p \in SentPairs : <<p[2], p[1]>> \in SentPairs
    <3> SUFFICES ASSUME NEW c \in AllCorners, opposite[c] # NoCorner
                 PROVE  <<opposite[c], c>> \in SentPairs
      BY <2>3
    <3> DEFINE d == opposite[c]
    <3>1. d \in AllCorners /\ opposite[d] = c /\ opposite[d] # NoCorner
      BY <2>2
    <3>2. <<d, opposite[d]>> \in SentPairs
      BY <2>3, <3>1
    <3> QED
      BY <3>1, <3>2
  <2> QED
    BY <2>4, <2>5 DEF Transfer!IsGluing
<1>2. CASE phase # "written"
  BY <1>2 DEF SentPairs, Transfer!IsGluing
<1> QED
  BY <1>1, <1>2

(* An encoder that has refused a mesh has ended.                           *)
LEMMA RefusalIsFinal ==
  ASSUME EncoderNext
  PROVE  phase # "rejected"
<1>1. CASE BaseNext
  BY <1>1 DEF BaseNext, LoadFaces, MatchHalfEdge, OpenHalfEdge, OppositesDone, VisitFan,
         OutOfVertices, SkipVisitedCorner, VerticesDone, NumberHole, SkipHoleCorner, HolesDone
<1>2. CASE TraversalNext
  <2>1. ASSUME NEW f \in AllFaces, SeedInteriorFace(f) \/ SeedBoundaryFace(f)
        PROVE  phase # "rejected"
    BY <2>1 DEF SeedInteriorFace, SeedBoundaryFace
  <2>2. CASE DropVisitedBranch \/ EnterBranch \/ ComponentDone \/ WriteStream
    BY <2>2 DEF DropVisitedBranch, EnterBranch, ComponentDone, WriteStream
  <2>3. CASE SymbolC \/ SymbolR \/ SymbolL \/ SymbolE \/ SymbolS
    BY <2>3 DEF SymbolC, SymbolR, SymbolL, SymbolE, SymbolS, ReachCorner
  <2> QED
    BY <1>2, <2>1, <2>2, <2>3 DEF TraversalNext
<1> QED
  BY <1>1, <1>2 DEF EncoderNext

TransferStep == Transfer!TransferNext \/ UNCHANGED Transfer!transferVars

(* The encoder sends, refuses, or works on.                                *)
LEMMA EncodeIsATransferStep ==
  ASSUME TransferInv, TransferInv', Encode
  PROVE  TransferStep
<1>1. phase # "written" /\ phase # "rejected" /\ decoderPhase' = decoderPhase /\ dOpposite' = dOpposite
  BY EncoderNextKeepsWalkInv, RefusalIsFinal
     DEF TransferInv, MirrorInv, RoundTripInv, Encode, decoderVars, decodedTable
<1>2. ~ Decoded /\ ~ Decoded' /\ TransferStatus = "open" /\ SentPairs = {} /\ ReceivedPairs = {}
  BY <1>1, PairsWereSent DEF Decoded, TransferStatus, SentPairs
<1>3. dOpposite = <<>>
  BY <1>1 DEF TransferInv, MirrorInv, RoundTripInv, ReadsWhatIsWritten, DecoderInit
<1>4. ReceivedPairs' = {}
  <2>1. DOMAIN dOpposite' = {}
    BY <1>1, <1>3
  <2> QED
    BY <2>1 DEF ReceivedPairs, DecodedCorners
<1>5. CASE phase' = "written"
  <2>1. TransferStatus' = "sent"
    BY <1>2, <1>5 DEF TransferStatus
  <2>2. (Transfer!IsGluing(SentPairs))'
    BY AGluingIsSent, PTL
  <2> QED
    BY <1>2, <1>4, <2>1, <2>2 DEF TransferStep, Transfer!TransferNext, Transfer!Send, Transfer!IsGluing
<1>6. CASE phase' = "rejected"
  <2>1. TransferStatus' = "refused" /\ SentPairs' = {}
    BY <1>2, <1>6 DEF TransferStatus, SentPairs
  <2> QED
    BY <1>2, <1>4, <2>1 DEF TransferStep, Transfer!TransferNext, Transfer!Refuse
<1>7. CASE phase' \notin {"written", "rejected"}
  <2>1. TransferStatus' = "open" /\ SentPairs' = {}
    BY <1>2, <1>7 DEF TransferStatus, SentPairs
  <2> QED
    BY <1>2, <1>4, <2>1 DEF TransferStep, Transfer!transferVars
<1> QED
  BY <1>5, <1>6, <1>7

(* The decoder receives some pairs more, or, with all of them, delivers.   *)
LEMMA DecodeIsATransferStep ==
  ASSUME TransferInv, TransferInv', Decode
  PROVE  TransferStep
<1>1. /\ phase = "written" /\ phase' = "written" /\ DecoderNext /\ UNCHANGED encoderVars
      /\ Sent /\ opposite' = opposite /\ processedCorners' = processedCorners
      /\ numEncodedFaces' = numEncodedFaces /\ AllCorners' = AllCorners
  <2>1. phase = "written" /\ DecoderNext /\ UNCHANGED encoderVars
    BY DEF Decode
  <2>2. Sent
    BY <2>1 DEF TransferInv, MirrorInv, Sent
  <2>3. mesh' = mesh
    BY <2>1 DEF encoderVars, baseVars, tableVars
  <2>4. AllCorners' = AllCorners
    BY <2>3 DEF AllCorners
  <2> QED
    BY <2>1, <2>2, <2>4, WireStays
<1>2. SentPairs' = SentPairs
  BY <1>1 DEF SentPairs
<1>3. \A c : SourceCorner(c)' = SourceCorner(c)
  BY <1>1 DEF SourceCorner
<1>4. ReceivedPairs \subseteq ReceivedPairs'
  BY <1>3, GluedStaysGlued DEF ReceivedPairs
<1>5. ReceivedPairs' \subseteq SentPairs'
  <2>1. (ReceivedPairs \subseteq SentPairs)'
    BY NoWrongPairs, PTL
  <2> QED
    BY <2>1
<1>6. ~ Decoded
  BY <1>1 DEF DecoderNext, StartDecoding, DecodeC, DecodeR, DecodeL, DecodeSide, DecodeS,
         DecodeE, ReadingSymbol, SymbolsDone, DecodeBoundaryStart, DecodeInteriorStart,
         TruncatedStartFaces, FinishConnectivity, UpdateHoleCorners, Decoded
<1>7. TransferStatus = "sent"
  BY <1>1, <1>6 DEF TransferStatus
<1>8. CASE decoderPhase' # "decoded"
  <2>1. TransferStatus' = "sent"
    BY <1>1, <1>8 DEF TransferStatus, Decoded
  <2> QED
    BY <1>2, <1>4, <1>5, <1>7, <2>1 DEF TransferStep, Transfer!TransferNext, Transfer!Receive
<1>9. CASE decoderPhase' = "decoded"
  <2>1. UpdateHoleCorners
    <3>1. decoderPhase # "decoded"
      BY <1>6 DEF Decoded
    <3>2. CASE DecodeC \/ DecodeR \/ DecodeL \/ DecodeS \/ DecodeE
      BY <1>9, <3>1, <3>2 DEF DecodeC, DecodeR, DecodeL, DecodeSide, DecodeS, DecodeE, Fail
    <3> QED
      BY <1>1, <1>9, <3>1, <3>2 DEF DecoderNext, StartDecoding, SymbolsDone, DecodeBoundaryStart,
         DecodeInteriorStart, TruncatedStartFaces, FinishConnectivity, Fail
  <2>2. ReceivedPairs = SentPairs
    BY <2>1, AllPairsArrived DEF UpdateHoleCorners
  <2>3. ReceivedPairs' = ReceivedPairs
    BY <1>2, <1>4, <1>5, <2>2
  <2>4. TransferStatus' = "delivered"
    BY <1>1, <1>9 DEF TransferStatus, Decoded
  <2> QED
    BY <1>2, <1>7, <2>2, <2>3, <2>4 DEF TransferStep, Transfer!TransferNext, Transfer!Deliver
<1> QED
  BY <1>8, <1>9

(* For every mesh the codec does nothing MeshTransfer does not allow: a    *)
(* mesh is refused before anything is written; of one that was sent the    *)
(* decoder glues only edges that were glued and unglues none; it never     *)
(* gives up, and is done only when all of them are there.  That it gets    *)
(* there is liveness, and is left to the runs.                             *)
THEOREM TransferIsImplemented ==
  Spec => Transfer!TransferInit /\ [][Transfer!TransferNext]_(Transfer!transferVars)
<1>1. Init => Transfer!TransferInit
  <2> SUFFICES ASSUME Init PROVE Transfer!TransferInit
    OBVIOUS
  <2>1. phase = "faces" /\ decoderPhase = "idle" /\ DOMAIN dOpposite = {}
    BY DEF Init, EncoderInit, BaseInit, DecoderInit
  <2>2. TransferStatus = "open" /\ SentPairs = {} /\ ReceivedPairs = {}
    BY <2>1 DEF TransferStatus, Decoded, SentPairs, ReceivedPairs, DecodedCorners
  <2> QED
    BY <2>2 DEF Transfer!TransferInit
<1>2. TransferInv /\ TransferInv' /\ [Next]_vars => [Transfer!TransferNext]_(Transfer!transferVars)
  <2> SUFFICES ASSUME TransferInv, TransferInv', [Next]_vars PROVE TransferStep
    BY DEF TransferStep
  <2>1. CASE Encode
    BY <2>1, EncodeIsATransferStep
  <2>2. CASE Decode
    BY <2>2, DecodeIsATransferStep
  <2>3. CASE UNCHANGED vars
    <3>1. UNCHANGED <<phase, opposite, mesh, processedCorners, decoderPhase, dOpposite>>
      BY <2>3 DEF vars, encoderVars, baseVars, tableVars, traversalVars, decoderVars, decodedTable
    <3>2. SentPairs' = SentPairs /\ Decoded' = Decoded
      BY <3>1 DEF SentPairs, AllCorners, Decoded
    <3>3. TransferStatus' = TransferStatus
      BY <3>1, <3>2 DEF TransferStatus
    <3>4. ReceivedPairs' = ReceivedPairs
      BY <3>1 DEF ReceivedPairs, SourceCorner, DecodedCorners
    <3> QED
      BY <3>2, <3>3, <3>4 DEF TransferStep, Transfer!transferVars
  <2> QED
    BY <2>1, <2>2, <2>3 DEF Next
<1>3. Spec => []TransferInv
  BY MirrorInvariant, NoTableInvariant, PTL DEF TransferInv
<1> QED
  BY <1>1, <1>2, <1>3, PTL DEF Spec

(***************************************************************************)
(* The seam bits.  Writer and reader each loop over three corners of a     *)
(* face after the other and take some of them.                             *)
(***************************************************************************)

(* A loop over the first n places that takes the name of each place in K.  *)
Takes(f, n, K, name) ==
  f = [p \in 0 .. n |-> IF p = 0 THEN <<>>
                        ELSE IF p - 1 \in K THEN Append(f[p - 1], name[p - 1])
                             ELSE f[p - 1]]

(* Such a loop runs, whatever it takes.                                    *)
LEMMA LoopsRun ==
  ASSUME NEW n \in Nat, NEW K, NEW name
  PROVE  \E f : Takes(f, n, K, name)
<1> DEFINE Stuck == {m \in Nat : ~ \E f : Takes(f, m, K, name)}
<1>1. SUFFICES ASSUME Stuck # {} PROVE FALSE
  OBVIOUS
<1>2. PICK m \in Stuck : \A k \in Stuck : m <= k
  <2>1. Stuck \in SUBSET Nat
    OBVIOUS
  <2> QED
    BY <1>1, <2>1, LeastNumber
<1>3. m \in Nat /\ ~ \E f : Takes(f, m, K, name)
  BY <1>2
<1>4. m # 0
  <2> DEFINE f == [p \in 0 .. 0 |-> <<>>]
  <2>1. Takes(f, 0, K, name)
    <3>1. f = [p \in 0 .. 0 |-> IF p = 0 THEN <<>>
                                ELSE IF p - 1 \in K THEN Append(f[p - 1], name[p - 1])
                                     ELSE f[p - 1]]
      OBVIOUS
    <3> HIDE DEF f
    <3> QED
      BY <3>1 DEF Takes
  <2> HIDE DEF f
  <2> QED
    BY <1>3, <2>1
<1>5. PICK g : Takes(g, m - 1, K, name)
  <2>1. m - 1 \in Nat /\ m - 1 \notin Stuck
    BY <1>2, <1>3, <1>4
  <2> QED
    BY <2>1
<1> DEFINE top == IF m - 1 \in K THEN Append(g[m - 1], name[m - 1]) ELSE g[m - 1]
           f == [p \in 0 .. m |-> IF p = m THEN top ELSE g[p]]
<1>6. \A p \in 0 .. m - 1 : g[p] = IF p = 0 THEN <<>>
                                   ELSE IF p - 1 \in K THEN Append(g[p - 1], name[p - 1])
                                        ELSE g[p - 1]
  BY <1>5 DEF Takes
<1>7. f[m] = top /\ \A p \in 0 .. m - 1 : f[p] = g[p]
  BY <1>3
<1>8. f \in [0 .. m -> {f[p] : p \in 0 .. m}]
  OBVIOUS
<1> HIDE DEF f
<1>9. \A p \in 0 .. m : f[p] = IF p = 0 THEN <<>>
                               ELSE IF p - 1 \in K THEN Append(f[p - 1], name[p - 1])
                                    ELSE f[p - 1]
  <2> SUFFICES ASSUME NEW p \in 0 .. m
               PROVE  f[p] = IF p = 0 THEN <<>>
                             ELSE IF p - 1 \in K THEN Append(f[p - 1], name[p - 1])
                                  ELSE f[p - 1]
    OBVIOUS
  <2>1. CASE p = m
    <3>1. f[p - 1] = g[p - 1]
      BY <1>3, <1>4, <1>7, <2>1
    <3> QED
      BY <1>3, <1>4, <1>7, <2>1, <3>1
  <2>2. CASE p # m
    <3>1. p \in 0 .. m - 1
      BY <1>3, <2>2
    <3>2. f[p] = g[p] /\ (p # 0 => f[p - 1] = g[p - 1])
      BY <1>3, <1>7, <3>1
    <3> QED
      BY <1>6, <3>1, <3>2
  <2> QED
    BY <2>1, <2>2
<1>10. Takes(f, m, K, name)
  BY <1>8, <1>9 DEF Takes
<1> QED
  BY <1>3, <1>10

(* The names a loop takes are the names of the places it takes.            *)
LEMMA LoopsAgree ==
  ASSUME NEW n \in Nat, NEW K, NEW name, NEW f, NEW places,
         Takes(f, n, K, name), Takes(places, n, K, [p \in 0 .. n - 1 |-> p])
  PROVE  \A p \in 0 .. n :
            /\ places[p] \in Seq(0 .. n - 1)
            /\ f[p] = [i \in 1 .. Len(places[p]) |-> name[places[p][i]]]
<1> DEFINE Good(p) == /\ places[p] \in Seq(0 .. n - 1)
                      /\ f[p] = [i \in 1 .. Len(places[p]) |-> name[places[p][i]]]
           Bad == {p \in 0 .. n : ~ Good(p)}
<1>1. SUFFICES ASSUME Bad # {} PROVE FALSE
  OBVIOUS
<1>2. PICK p \in Bad : \A k \in Bad : p <= k
  <2>1. Bad \in SUBSET Nat
    OBVIOUS
  <2> QED
    BY <1>1, <2>1, LeastNumber
<1>3. p \in 0 .. n /\ p \in Nat /\ ~ Good(p)
  BY <1>2
<1>4. /\ f[p] = IF p = 0 THEN <<>>
                ELSE IF p - 1 \in K THEN Append(f[p - 1], name[p - 1]) ELSE f[p - 1]
      /\ places[p] = IF p = 0 THEN <<>>
                     ELSE IF p - 1 \in K THEN Append(places[p - 1], p - 1) ELSE places[p - 1]
  <2>1. p # 0 => p - 1 \in 0 .. n - 1
    BY <1>3
  <2> QED
    BY <1>3, <2>1 DEF Takes
<1>5. p # 0
  <2>1. ASSUME p = 0 PROVE Good(p)
    <3>1. f[p] = <<>> /\ places[p] = <<>>
      BY <1>4, <2>1
    <3> QED
      BY <3>1
  <2> QED
    BY <1>3, <2>1
<1>6. Good(p - 1) /\ p - 1 \in 0 .. n - 1
  <2>1. p - 1 \in 0 .. n /\ p - 1 \in 0 .. n - 1 /\ ~ (p <= p - 1)
    BY <1>3, <1>5
  <2> QED
    BY <1>2, <2>1
<1>7. p - 1 \in K
  BY <1>3, <1>4, <1>5, <1>6
<1> DEFINE q == places[p - 1]
           s == f[p - 1]
           x == p - 1
<1>8. /\ q \in Seq(0 .. n - 1) /\ x \in 0 .. n - 1
      /\ s = [i \in 1 .. Len(q) |-> name[q[i]]]
      /\ f[p] = Append(s, name[x]) /\ places[p] = Append(q, x)
  BY <1>4, <1>5, <1>6, <1>7
<1> HIDE DEF q, s, x
<1>9. /\ Append(q, x) \in Seq(0 .. n - 1) /\ Len(Append(q, x)) = Len(q) + 1 /\ Len(q) \in Nat
      /\ Append(q, x)[Len(q) + 1] = x
      /\ \A i \in 1 .. Len(q) : Append(q, x)[i] = q[i]
  BY <1>8
<1>10. Append(s, name[x]) = [i \in 1 .. Len(q) + 1 |-> name[Append(q, x)[i]]]
  <2> DEFINE S == {name[k] : k \in 0 .. n - 1}
  <2>1. s \in Seq(S) /\ Len(s) = Len(q) /\ name[x] \in S
    <3>1. \A i \in 1 .. Len(q) : name[q[i]] \in S
      BY <1>8
    <3>2. name[x] \in S
      BY <1>8
    <3> HIDE DEF S
    <3>3. s \in [1 .. Len(q) -> S]
      BY <1>8, <3>1
    <3>4. s \in Seq(S)
      <4> DEFINE l == Len(q)
      <4>1. l \in Nat /\ s \in [1 .. l -> S]
        BY <1>9, <3>3
      <4> HIDE DEF l
      <4> QED
        BY <4>1
    <3>5. DOMAIN s = 1 .. Len(q) /\ DOMAIN s = 1 .. Len(s) /\ Len(s) \in Nat
      BY <3>3, <3>4, LenProperties
    <3>6. Len(s) = Len(q)
      BY <1>9, <3>5
    <3> QED
      BY <3>2, <3>4, <3>6
  <2> HIDE DEF S
  <2>2. /\ DOMAIN Append(s, name[x]) = 1 .. Len(q) + 1
        /\ Append(s, name[x]) \in Seq(S) /\ Len(Append(s, name[x])) = Len(q) + 1
        /\ Append(s, name[x])[Len(q) + 1] = name[x]
        /\ \A i \in 1 .. Len(q) : Append(s, name[x])[i] = s[i]
    BY <1>9, <2>1
  <2>3. \A i \in 1 .. Len(q) + 1 : Append(s, name[x])[i] = name[Append(q, x)[i]]
    <3> SUFFICES ASSUME NEW i \in 1 .. Len(q) + 1
                 PROVE  Append(s, name[x])[i] = name[Append(q, x)[i]]
      OBVIOUS
    <3>1. CASE i = Len(q) + 1
      BY <1>9, <2>2, <3>1
    <3>2. CASE i # Len(q) + 1
      <4>1. i \in 1 .. Len(q)
        BY <1>9, <3>2
      <4> QED
        BY <1>8, <1>9, <2>2, <4>1
    <3> QED
      BY <3>1, <3>2
  <2>4. Append(s, name[x]) \in [1 .. Len(q) + 1 -> S]
    BY <2>2, LenProperties
  <2> QED
    BY <2>3, <2>4
<1> QED
  BY <1>3, <1>8, <1>9, <1>10

(* The places at which the writer takes a seam bit, and the corners there. *)
SeamPlaces(order) == {p \in 0 .. 3 * Len(order) - 1 : TakesSeamBit(order, p)}
CornersAlong(order) == [p \in 0 .. 3 * Len(order) - 1 |-> CornerAt(order, p)]
QueryPlaces == {c \in 0 .. Cardinality(DecodedCorners) - 1 : dOpposite[c] > c}

SeamsInOrder ==
  phase = "written" /\ numAttributeData > 0 =>
    \E f : /\ Takes(f, 3 * Len(processedCorners), SeamPlaces(processedCorners),
                    CornersAlong(processedCorners))
           /\ seams = f[3 * Len(processedCorners)]

SeamInv == MirrorInv /\ SeamsInOrder

(* The writer's loop is such a loop.                                       *)
LEMMA SeamOrderTakes ==
  ASSUME NEW order, Len(order) \in Nat
  PROVE  \E f : /\ Takes(f, 3 * Len(order), SeamPlaces(order), CornersAlong(order))
                /\ SeamOrder(order) = f[3 * Len(order)]
<1> DEFINE n == 3 * Len(order)
           B(f) == f = [place \in 0 .. 3 * Len(order) |->
                          IF place = 0 THEN <<>>
                          ELSE IF TakesSeamBit(order, place - 1)
                               THEN Append(f[place - 1], CornerAt(order, place - 1))
                               ELSE f[place - 1]]
<1>1. SeamOrder(order) = (CHOOSE f : B(f))[3 * Len(order)]
  BY DEF SeamOrder
<1>2. PICK g : Takes(g, n, SeamPlaces(order), CornersAlong(order))
  BY LoopsRun
<1>3. \A f : Takes(f, n, SeamPlaces(order), CornersAlong(order)) <=> B(f)
  <2> SUFFICES ASSUME NEW f
               PROVE  Takes(f, n, SeamPlaces(order), CornersAlong(order)) <=> B(f)
    OBVIOUS
  <2>1. \A p \in 0 .. n :
          (IF p = 0 THEN <<>>
           ELSE IF p - 1 \in SeamPlaces(order) THEN Append(f[p - 1], CornersAlong(order)[p - 1])
                ELSE f[p - 1])
          = (IF p = 0 THEN <<>>
             ELSE IF TakesSeamBit(order, p - 1) THEN Append(f[p - 1], CornerAt(order, p - 1))
                  ELSE f[p - 1])
    <3> SUFFICES ASSUME NEW p \in 0 .. n, p # 0
                 PROVE  /\ p - 1 \in SeamPlaces(order) <=> TakesSeamBit(order, p - 1)
                        /\ CornersAlong(order)[p - 1] = CornerAt(order, p - 1)
      OBVIOUS
    <3>1. p - 1 \in 0 .. 3 * Len(order) - 1
      OBVIOUS
    <3> QED
      BY <3>1 DEF SeamPlaces, CornersAlong
  <2> QED
    BY <2>1 DEF Takes
<1>4. B(CHOOSE f : B(f))
  <2>1. B(g)
    BY <1>2, <1>3
  <2> HIDE DEF B
  <2> QED
    BY <2>1
<1> HIDE DEF B
<1> QED
  BY <1>1, <1>3, <1>4

(* So is the reader's.                                                     *)
LEMMA SeamQueriesTake ==
  ASSUME Cardinality(DecodedCorners) \in Nat
  PROVE  \E f : /\ Takes(f, Cardinality(DecodedCorners), QueryPlaces,
                         [c \in 0 .. Cardinality(DecodedCorners) - 1 |-> c])
                /\ SeamQueries = f[Cardinality(DecodedCorners)]
<1> DEFINE n == Cardinality(DecodedCorners)
           name == [c \in 0 .. n - 1 |-> c]
           B(f) == f = [c \in 0 .. Cardinality(DecodedCorners) |->
                          IF c = 0 THEN <<>>
                          ELSE IF dOpposite[c - 1] > c - 1 THEN Append(f[c - 1], c - 1)
                               ELSE f[c - 1]]
<1>1. SeamQueries = (CHOOSE f : B(f))[Cardinality(DecodedCorners)]
  BY DEF SeamQueries
<1>2. PICK g : Takes(g, n, QueryPlaces, name)
  BY LoopsRun
<1>3. \A f : Takes(f, n, QueryPlaces, name) <=> B(f)
  <2> SUFFICES ASSUME NEW f
               PROVE  Takes(f, n, QueryPlaces, name) <=> B(f)
    OBVIOUS
  <2>1. \A p \in 0 .. n :
          (IF p = 0 THEN <<>>
           ELSE IF p - 1 \in QueryPlaces THEN Append(f[p - 1], name[p - 1])
                ELSE f[p - 1])
          = (IF p = 0 THEN <<>>
             ELSE IF dOpposite[p - 1] > p - 1 THEN Append(f[p - 1], p - 1)
                  ELSE f[p - 1])
    <3> SUFFICES ASSUME NEW p \in 0 .. n, p # 0
                 PROVE  /\ p - 1 \in QueryPlaces <=> dOpposite[p - 1] > p - 1
                        /\ name[p - 1] = p - 1
      OBVIOUS
    <3>1. p - 1 \in 0 .. Cardinality(DecodedCorners) - 1
      OBVIOUS
    <3> QED
      BY <3>1 DEF QueryPlaces
  <2> QED
    BY <2>1 DEF Takes
<1>4. B(CHOOSE f : B(f))
  <2>1. B(g)
    BY <1>2, <1>3
  <2> HIDE DEF B
  <2> QED
    BY <2>1
<1> HIDE DEF B
<1> QED
  BY <1>1, <1>3, <1>4

(* Only the last step of the encoder makes a stream of its trace.          *)
LEMMA OnlyWriteStreamWrites ==
  ASSUME EncoderNext, phase' = "written"
  PROVE  WriteStream
<1>1. CASE BaseNext /\ UNCHANGED <<traversalVars, wireVars>>
  <2>1. phase' \in BasePhases \cup {"ready", "rejected"}
    BY <1>1 DEF BaseNext, LoadFaces, MatchHalfEdge, OpenHalfEdge, OppositesDone, VisitFan,
           OutOfVertices, SkipVisitedCorner, VerticesDone, NumberHole, SkipHoleCorner, HolesDone,
           UnchangedByMatching, BasePhases
  <2> QED
    BY <2>1 DEF BasePhases
<1>2. CASE TraversalNext
  <2>1. WriteStream \/ phase' \in {"ready", "branch", "walk"}
    BY <1>2 DEF TraversalNext, SeedInteriorFace, SeedBoundaryFace, DropVisitedBranch, EnterBranch,
           ComponentDone, SymbolC, SymbolR, SymbolL, SymbolE, SymbolS, ReachCorner,
           EncodeConnectivityFrom
  <2> QED
    BY <2>1
<1> QED
  BY <1>1, <1>2 DEF EncoderNext

(* The places and the corners depend on the table and the order only.      *)
LEMMA SeamsStay ==
  ASSUME SeamsInOrder, UNCHANGED encoderVars
  PROVE  SeamsInOrder'
<1>1. UNCHANGED <<phase, numAttributeData, processedCorners, seams, opposite>>
  BY DEF encoderVars, baseVars, tableVars, traversalVars, wireVars
<1>2. /\ SeamPlaces(processedCorners)' = SeamPlaces(processedCorners)
      /\ CornersAlong(processedCorners)' = CornersAlong(processedCorners)
  BY <1>1 DEF SeamPlaces, CornersAlong, TakesSeamBit, CornerAt
<1> QED
  BY <1>1, <1>2 DEF SeamsInOrder

(* The order that is sent is a sequence.                                   *)
LEMMA OrderHasALength == Sent => Len(processedCorners) \in Nat
BY SentInHand

(* The last step of the encoder puts the seams in order.                   *)
LEMMA WriteStreamOrdersSeams ==
  ASSUME MirrorInv, MirrorInv', WriteStream, phase' = "written"
  PROVE  SeamsInOrder'
<1> DEFINE order == Reverse(processedCorners) \o initFaceCorners
<1>1. SUFFICES ASSUME numAttributeData' > 0
               PROVE  \E f : /\ Takes(f, 3 * Len(processedCorners'), SeamPlaces(processedCorners)',
                                      CornersAlong(processedCorners)')
                             /\ seams' = f[3 * Len(processedCorners')]
  BY DEF SeamsInOrder
<1>2. /\ processedCorners' = order /\ opposite' = opposite
      /\ numAttributeData > 0 /\ seams' = SeamOrder(order)
  BY <1>1 DEF WriteStream, tableVars
<1> HIDE DEF order
<1>3. Len(order) \in Nat
  <2>1. Len(processedCorners)' \in Nat
    <3>1. Sent' => (Len(processedCorners) \in Nat)'
      BY OrderHasALength, PTL
    <3> QED
      BY <3>1 DEF MirrorInv, Sent
  <2> QED
    BY <1>2, <2>1
<1>4. /\ SeamPlaces(processedCorners)' = SeamPlaces(order)
      /\ CornersAlong(processedCorners)' = CornersAlong(order)
  BY <1>2 DEF SeamPlaces, CornersAlong, TakesSeamBit, CornerAt
<1>5. PICK f : /\ Takes(f, 3 * Len(order), SeamPlaces(order), CornersAlong(order))
               /\ SeamOrder(order) = f[3 * Len(order)]
  BY <1>3, SeamOrderTakes
<1> QED
  BY <1>2, <1>4, <1>5

(* Every step keeps the seams in order.                                    *)
LEMMA NextKeepsSeams == SeamInv /\ [Next]_vars => SeamInv'
<1> SUFFICES ASSUME SeamInv, [Next]_vars PROVE SeamInv'
  OBVIOUS
<1>1. MirrorInv /\ SeamsInOrder /\ MirrorInv'
  BY NextKeepsMirror DEF SeamInv
<1>2. CASE Encode
  <2>1. EncoderNext
    BY <1>2 DEF Encode
  <2>2. CASE phase' = "written"
    BY <1>1, <2>1, <2>2, OnlyWriteStreamWrites, WriteStreamOrdersSeams DEF SeamInv
  <2>3. CASE phase' # "written"
    BY <1>1, <2>3 DEF SeamInv, SeamsInOrder
  <2> QED
    BY <2>2, <2>3
<1>3. CASE Decode \/ UNCHANGED vars
  <2>1. UNCHANGED encoderVars
    BY <1>3 DEF Decode, vars
  <2> QED
    BY <1>1, <2>1, SeamsStay DEF SeamInv
<1> QED
  BY <1>2, <1>3 DEF Next

(* The corner at a place of the order is the one the decoded corner of     *)
(* that number was sent from.                                              *)
LEMMA CornersAlongAreSources ==
  ASSUME Sent, NEW p \in Corners(numEncodedFaces)
  PROVE  CornerAt(processedCorners, p) = SourceCorner(p)
<1>1. p \in Nat /\ p % 3 \in {0, 1, 2}
  <2>1. p \in Nat
    BY SentInHand, CornersAreFinite
  <2> QED
    BY <2>1
<1> DEFINE s == processedCorners[Face(p) + 1]
<1>2. CornerAt(processedCorners, p) = <<s, NextCorner(s), PreviousCorner(s)>>[(p % 3) + 1]
  BY DEF CornerAt, FaceOrder
<1>3. SourceCorner(p) = CASE p % 3 = 0 -> s [] p % 3 = 1 -> NextCorner(s) [] p % 3 = 2 -> PreviousCorner(s)
  BY DEF SourceCorner
<1> HIDE DEF s
<1>4. CASE p % 3 = 0
  BY <1>2, <1>3, <1>4
<1>5. CASE p % 3 = 1
  BY <1>2, <1>3, <1>5
<1>6. CASE p % 3 = 2
  BY <1>2, <1>3, <1>6
<1> QED
  BY <1>1, <1>4, <1>5, <1>6

(* The writer takes a bit at exactly the places at which the reader asks   *)
(* for one: an edge is written at the first of its two faces, and that is  *)
(* the one whose decoded corners have the smaller numbers.                 *)
LEMMA BitsAreAskedFor ==
  ASSUME Sent, dOpposite = WholeTable, NEW p \in Corners(numEncodedFaces)
  PROVE  TakesSeamBit(processedCorners, p) <=> dOpposite[p] > p
<1> DEFINE F == numEncodedFaces
           Q == processedCorners
           e == SourceCorner(p)
<1>1. /\ F \in Nat /\ AllCorners = Corners(F) /\ TableIsReady
      /\ e \in AllCorners /\ Face(e) = Face(Q[Face(p) + 1])
      /\ IsTable(opposite, AllCorners)
  BY SentInHand, SourceCornersTurn DEF TableIsManifold
<1>2. /\ p \in Nat /\ Face(p) \in Nat /\ WholeTable[p] \in Corners(F) \cup {NoCorner}
      /\ opposite[e] \in AllCorners \cup {NoCorner}
  <2>1. p \in Nat
    BY <1>1, CornersAreFinite
  <2>2. Face(p) \in Nat
    BY <2>1 DEF Face
  <2>3. WholeTable[p] \in Corners(F) \cup {NoCorner}
    BY WholeTableIsSent DEF IsTable
  <2>4. opposite[e] \in AllCorners \cup {NoCorner}
    BY <1>1 DEF IsTable
  <2> QED
    BY <2>1, <2>2, <2>3, <2>4
<1>3. TakesSeamBit(Q, p) <=>
        /\ opposite[e] >= 0
        /\ \A i \in 1 .. Face(p) + 1 : Face(Q[i]) # Face(opposite[e])
  BY CornersAlongAreSources DEF TakesSeamBit
<1>4. CASE WholeTable[p] = NoCorner
  <2>1. opposite[e] = NoCorner
    BY <1>4, WholeTableIsSent
  <2>2. ~ (opposite[e] >= 0) /\ ~ (dOpposite[p] > p)
    BY <1>2, <1>4, <2>1 DEF NoCorner
  <2> QED
    BY <1>3, <2>2
<1>5. CASE WholeTable[p] # NoCorner
  <2> DEFINE d == WholeTable[p]
  <2>1. d \in Corners(F) /\ SourceCorner(d) = opposite[e]
    BY <1>5, WholeTableIsSent
  <2>2. d \in Nat /\ opposite[e] \in AllCorners /\ opposite[e] \in Nat
    BY <1>1, <2>1, SourceCornersTurn, CornersAreFinite
  <2>3. Face(opposite[e]) = Face(Q[Face(d) + 1]) /\ Face(opposite[e]) # Face(e)
    <3>1. Face(SourceCorner(d)) = Face(Q[Face(d) + 1])
      BY <2>1, SourceCornersTurn
    <3>2. opposite[e] # NoCorner
      BY <2>2 DEF NoCorner
    <3> QED
      BY <1>1, <2>1, <3>1, <3>2 DEF TableIsReady
  <2>4. /\ Face(d) + 1 \in DOMAIN Q /\ Face(d) \in 0 .. F - 1
        /\ Face(p) + 1 \in DOMAIN Q /\ Face(p) \in 0 .. F - 1
        /\ OncePerFace(Q) /\ DOMAIN Q = 1 .. F
    <3>1. OncePerFace(Q) /\ DOMAIN Q = 1 .. Len(Q)
      BY SentInHand
    <3> QED
      BY <1>1, <2>1, <3>1, DecodedCornerIs, EveryFaceIsSent
  <2> HIDE DEF e, d, Q, F
  <2>5. Face(d) # Face(p)
    BY <1>1, <2>3
  <2>6. (\A i \in 1 .. Face(p) + 1 : Face(Q[i]) # Face(opposite[e])) <=> Face(d) > Face(p)
    <3>1. \A i \in DOMAIN Q : Face(Q[i]) = Face(opposite[e]) => i = Face(d) + 1
      BY <2>3, <2>4 DEF OncePerFace
    <3>2. ASSUME Face(d) > Face(p), NEW i \in 1 .. Face(p) + 1, Face(Q[i]) = Face(opposite[e])
          PROVE  FALSE
      <4>1. i \in Nat /\ i >= 1 /\ i <= Face(p) + 1 /\ Face(p) <= F - 1 /\ Face(p) \in Int
        BY <1>2, <2>4, <3>2
      <4>2. i # Face(d) + 1
        BY <2>4, <3>2, <4>1
      <4>3. i \in 1 .. F
        BY <1>1, <4>1
      <4>4. i \in DOMAIN Q /\ i # Face(d) + 1
        BY <2>4, <4>2, <4>3
      <4> QED
        BY <3>1, <3>2, <4>4
    <3>3. ASSUME ~ (Face(d) > Face(p))
          PROVE  Face(d) + 1 \in 1 .. Face(p) + 1
      BY <2>4, <3>3
    <3> QED
      BY <2>3, <3>2, <3>3
  <2>7. Face(d) > Face(p) <=> d > p
    <3>1. Face(d) > Face(p) => d > p
      BY <1>2, <2>2 DEF Face
    <3>2. d > p => Face(d) >= Face(p)
      BY <1>2, <2>2 DEF Face
    <3> QED
      BY <2>4, <2>5, <3>1, <3>2
  <2>8. opposite[e] >= 0
    BY <2>2
  <2> QED
    BY <1>3, <2>6, <2>7, <2>8 DEF d, Q
<1> QED
  BY <1>4, <1>5

(* So the bits come in the order they are asked for.                       *)
LEMMA BitsArrive == SeamInv => SeamBitsReachTheirEdges
<1> SUFFICES ASSUME SeamInv, Decoded, numAttributeData > 0
             PROVE  /\ Len(SeamQueries) = Len(seams)
                    /\ \A i \in DOMAIN seams : SourceCorner(SeamQueries[i]) = seams[i]
  BY DEF SeamBitsReachTheirEdges
<1> DEFINE F == numEncodedFaces
           n == 3 * numEncodedFaces
           Q == processedCorners
           K == SeamPlaces(Q)
           name == CornersAlong(Q)
<1>1. /\ MirrorInv /\ SeamsInOrder /\ Sent /\ phase = "written"
      /\ DecodedCorners = Corners(F) /\ F \in Nat /\ dOpposite = WholeTable
  BY DecodedMesh DEF SeamInv, Sent
<1>2. Len(Q) = F /\ n \in Nat /\ Corners(F) = 0 .. n - 1
  BY <1>1, EveryFaceIsSent DEF Corners
<1>3. Cardinality(DecodedCorners) = n
  <2>1. Cardinality(0 .. n - 1) = n
    <3>1. Cardinality(0 .. n - 1) = IF 0 > n - 1 THEN 0 ELSE (n - 1) - 0 + 1
      <4> HIDE DEF n
      <4>1. 0 \in Int /\ n - 1 \in Int
        BY <1>2
      <4> QED
        BY <4>1, FS_Interval
    <3> QED
      BY <1>2, <3>1
  <2> QED
    BY <1>1, <1>2, <2>1
<1>4. K = QueryPlaces
  <2>1. \A p \in 0 .. n - 1 : TakesSeamBit(Q, p) <=> dOpposite[p] > p
    BY <1>1, <1>2, BitsAreAskedFor
  <2> QED
    BY <1>2, <1>3, <2>1 DEF SeamPlaces, QueryPlaces
<1>5. PICK f : Takes(f, n, K, name) /\ seams = f[n]
  BY <1>1, <1>2 DEF SeamsInOrder
<1>6. PICK h : Takes(h, n, QueryPlaces, [c \in 0 .. n - 1 |-> c]) /\ SeamQueries = h[n]
  BY <1>2, <1>3, SeamQueriesTake
<1>7. /\ SeamQueries \in Seq(0 .. n - 1)
      /\ seams = [i \in 1 .. Len(SeamQueries) |-> name[SeamQueries[i]]]
  <2> HIDE DEF n, K, name
  <2>1. n \in 0 .. n /\ n \in Nat
    BY <1>2
  <2>2. /\ h[n] \in Seq(0 .. n - 1)
        /\ f[n] = [i \in 1 .. Len(h[n]) |-> name[h[n][i]]]
    BY <1>4, <1>5, <1>6, <2>1, LoopsAgree
  <2> QED
    BY <1>5, <1>6, <2>2
<1>8. \A p \in 0 .. n - 1 : name[p] = SourceCorner(p)
  BY <1>1, <1>2, CornersAlongAreSources DEF CornersAlong
<1> HIDE DEF n, name, K, Q
<1>9. Len(SeamQueries) \in Nat /\ \A i \in 1 .. Len(SeamQueries) : SeamQueries[i] \in 0 .. n - 1
  BY <1>7, LenProperties, ElementOfSeq
<1>10. DOMAIN seams = 1 .. Len(SeamQueries)
  BY <1>7
<1>11. Len(seams) = Len(SeamQueries)
  <2> DEFINE S == {name[p] : p \in 0 .. n - 1}
             l == Len(SeamQueries)
  <2>1. \A i \in 1 .. l : name[SeamQueries[i]] \in S
    BY <1>9
  <2>2. l \in Nat /\ seams = [i \in 1 .. l |-> name[SeamQueries[i]]]
    BY <1>7, <1>9
  <2> HIDE DEF S, l
  <2>3. seams \in [1 .. l -> S]
    BY <2>1, <2>2
  <2>4. seams \in Seq(S)
    BY <2>2, <2>3
  <2>5. DOMAIN seams = 1 .. Len(seams) /\ Len(seams) \in Nat /\ DOMAIN seams = 1 .. l
    BY <2>2, <2>4, LenProperties
  <2>6. Len(seams) = l
    BY <2>2, <2>5
  <2> QED
    BY <2>6 DEF l
<1>12. \A i \in DOMAIN seams : SourceCorner(SeamQueries[i]) = seams[i]
  BY <1>7, <1>8, <1>9, <1>10
<1> QED
  BY <1>11, <1>12

(* For every mesh the reader asks for the seam bits of the inner edges in  *)
(* the order in which they were written, and for as many: each bit says    *)
(* something of the edge it was written for.                               *)
THEOREM SeamBitsAlwaysReachTheirEdges == Spec => []SeamBitsReachTheirEdges
<1>1. Init => SeamsInOrder
  BY DEF Init, EncoderInit, BaseInit, SeamsInOrder
<1>2. Spec => []SeamInv
  <2>1. Init /\ []MirrorInv => SeamInv
    BY <1>1, PTL DEF SeamInv
  <2> QED
    BY <2>1, MirrorInvariant, NextKeepsSeams, PTL DEF Spec
<1> QED
  BY <1>2, BitsArrive, PTL

=============================================================================
