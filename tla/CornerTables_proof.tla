------------------------- MODULE CornerTables_proof -------------------------
(***************************************************************************)
(* The walks around a vertex, for every table of paired corners: they end, *)
(* they meet no corner twice, and the corners they meet are the whole fan; *)
(* and the turns around a boundary vertex, which lead from one boundary    *)
(* corner to the next.                                                     *)
(***************************************************************************)
EXTENDS CornerTables, FiniteSetTheorems, SequenceTheorems, TLAPS

(* Every set of numbers that is not empty has a least one.                 *)
LEMMA LeastNumber ==
  ASSUME NEW S \in SUBSET Nat, S # {}
  PROVE  \E n \in S : \A m \in S : n <= m
<1> DEFINE R == {ss \in Nat \X Nat : ss[1] < ss[2]}
<1>1. IsWellFoundedOn(R, Nat)
  BY NatLessThanWellFounded DEF OpToRel
<1>2. PICK n \in S : \A m \in S : ~(<<m, n>> \in R)
  <2> HIDE DEF R
  <2> QED BY <1>1, WFMin
<1>3. \A m \in S : ~(m < n)
  BY <1>2
<1> QED
  BY <1>2, <1>3

-----------------------------------------------------------------------------
(* Walks from one corner, for any step that no two corners share.          *)

IsStep(step, D) ==
  /\ step \in [D -> D \cup {-1}]
  /\ \A d, e \in D : step[d] = step[e] /\ step[d] >= 0 => d = e

IsWalk(step, D, c, w) ==
  /\ w \in Seq(D)
  /\ Len(w) >= 1
  /\ w[1] = c
  /\ \A i \in 1 .. Len(w) - 1 : w[i + 1] = step[w[i]] /\ w[i + 1] # c

IsOver(step, c, w) == step[w[Len(w)]] < 0 \/ step[w[Len(w)]] = c

(* A walk meets no corner twice: two corners that met would have met one   *)
(* step before.                                                            *)
LEMMA WalkMeetsCornersOnce ==
  ASSUME NEW D \in SUBSET Nat, NEW step, IsStep(step, D), NEW c \in D,
         NEW w, IsWalk(step, D, c, w)
  PROVE  \A i, j \in 1 .. Len(w) : w[i] = w[j] => i = j
<1> DEFINE Twice == {i \in 1 .. Len(w) : \E j \in 1 .. Len(w) : i < j /\ w[i] = w[j]}
<1>1. w \in [1 .. Len(w) -> D] /\ Len(w) \in Nat
  BY DEF IsWalk
<1>2. Twice = {}
  <2> SUFFICES ASSUME Twice # {} PROVE FALSE
    OBVIOUS
  <2>1. Twice \in SUBSET Nat
    BY <1>1
  <2>2. PICK i \in Twice : \A k \in Twice : i <= k
    <3> HIDE DEF Twice
    <3> QED BY <2>1, LeastNumber
  <2>3. PICK j \in 1 .. Len(w) : i < j /\ w[i] = w[j]
    OBVIOUS
  <2>4. j - 1 \in 1 .. Len(w) - 1 /\ w[j] = step[w[j - 1]] /\ w[j] # c
    <3>1. j - 1 \in 1 .. Len(w) - 1
      BY <1>1, <2>3
    <3>2. (j - 1) + 1 = j
      BY <3>1
    <3> QED
      BY <3>1, <3>2 DEF IsWalk
  <2>5. i # 1
    BY <2>3, <2>4 DEF IsWalk
  <2>6. i - 1 \in 1 .. Len(w) - 1 /\ w[i] = step[w[i - 1]]
    <3>1. i - 1 \in 1 .. Len(w) - 1
      BY <1>1, <2>3, <2>5
    <3>2. (i - 1) + 1 = i
      BY <3>1
    <3> QED
      BY <3>1, <3>2 DEF IsWalk
  <2>7. w[i - 1] = w[j - 1]
    <3>1. i - 1 \in 1 .. Len(w) /\ j - 1 \in 1 .. Len(w)
      BY <1>1, <2>3, <2>4, <2>6
    <3>2. w[i - 1] \in D /\ w[j - 1] \in D /\ w[i] \in D
      BY <1>1, <3>1
    <3>3. step[w[i - 1]] = step[w[j - 1]] /\ step[w[i - 1]] >= 0
      <4>1. step[w[i - 1]] = w[i] /\ step[w[j - 1]] = w[i]
        BY <2>3, <2>4, <2>6
      <4>2. w[i] \in Nat
        BY <3>2
      <4> QED
        BY <4>1, <4>2
    <3> QED
      BY <3>2, <3>3 DEF IsStep
  <2>8. i - 1 \in Twice
    BY <1>1, <2>3, <2>4, <2>6, <2>7
  <2> QED
    BY <1>1, <2>2, <2>8
<1> QED
  <2> SUFFICES ASSUME NEW i \in 1 .. Len(w), NEW j \in 1 .. Len(w), w[i] = w[j], i # j
               PROVE FALSE
    OBVIOUS
  <2>1. i < j \/ j < i
    BY <1>1
  <2> QED
    BY <1>2, <2>1

(* So a walk is no longer than there are corners,                          *)
LEMMA WalkIsShort ==
  ASSUME NEW D \in SUBSET Nat, IsFiniteSet(D), NEW step, IsStep(step, D), NEW c \in D,
         NEW w, IsWalk(step, D, c, w)
  PROVE  Len(w) \in Nat /\ Len(w) <= Cardinality(D)
<1>1. w \in [1 .. Len(w) -> D] /\ Len(w) \in Nat
  BY DEF IsWalk
<1>2. w \in Injection(1 .. Len(w), D)
  <2>1. \A i, j \in 1 .. Len(w) : w[i] = w[j] => i = j
    BY WalkMeetsCornersOnce
  <2> QED
    BY <1>1, <2>1 DEF Injection, IsInjective
<1>3. Cardinality(1 .. Len(w)) = Len(w)
  <2>1. \A a, b \in Int : Cardinality(a .. b) = IF a > b THEN 0 ELSE b - a + 1
    BY FS_Interval
  <2>2. Len(w) \in Int /\ 1 \in Int /\ Len(w) >= 0
    BY <1>1
  <2>3. Cardinality(1 .. Len(w)) = IF 1 > Len(w) THEN 0 ELSE Len(w) - 1 + 1
    BY <2>1, <2>2
  <2> QED
    BY <2>2, <2>3
<1> QED
  BY <1>1, <1>2, <1>3, FS_Injection

(* and the longest walk is over.                                           *)
LEMMA SomeWalkIsOver ==
  ASSUME NEW D \in SUBSET Nat, IsFiniteSet(D), NEW step, IsStep(step, D), NEW c \in D
  PROVE  \E w : IsWalk(step, D, c, w) /\ IsOver(step, c, w)
<1> DEFINE n == Cardinality(D)
           Room == {k \in Nat : \E w : IsWalk(step, D, c, w) /\ Len(w) = n - k}
<1>1. n \in Nat
  BY FS_CardinalityType
<1>2. IsWalk(step, D, c, <<c>>)
  BY DEF IsWalk
<1>3. n - 1 \in Room
  <2>1. Len(<<c>>) <= n
    BY <1>2, WalkIsShort
  <2>2. Len(<<c>>) = n - (n - 1) /\ n - 1 \in Nat
    BY <1>1, <2>1
  <2> QED
    BY <1>2, <2>2
<1>4. PICK k \in Room : \A m \in Room : k <= m
  <2>1. Room \in SUBSET Nat /\ Room # {}
    BY <1>3
  <2> HIDE DEF Room
  <2> QED BY <2>1, LeastNumber
<1>5. PICK w : IsWalk(step, D, c, w) /\ Len(w) = n - k
  BY <1>4
<1>6. IsOver(step, c, w)
  <2> SUFFICES ASSUME ~ IsOver(step, c, w) PROVE FALSE
    OBVIOUS
  <2> DEFINE next == step[w[Len(w)]]
             longer == Append(w, next)
  <2>1. w \in Seq(D) /\ Len(w) \in Nat /\ Len(w) >= 1 /\ w[Len(w)] \in D
    BY <1>5 DEF IsWalk
  <2>2. next \in D /\ next # c
    BY <2>1 DEF IsStep, IsOver
  <2>3. /\ longer \in Seq(D) /\ Len(longer) = Len(w) + 1
        /\ \A i \in 1 .. Len(w) : longer[i] = w[i]
        /\ longer[Len(w) + 1] = next
    BY <2>1, <2>2
  <2>4. ASSUME NEW i \in 1 .. Len(longer) - 1
        PROVE  longer[i + 1] = step[longer[i]] /\ longer[i + 1] # c
    <3>1. CASE i = Len(w)
      BY <2>1, <2>2, <2>3, <3>1
    <3>2. CASE i \in 1 .. Len(w) - 1
      <4>1. w[i + 1] = step[w[i]] /\ w[i + 1] # c
        BY <1>5, <3>2 DEF IsWalk
      <4>2. i + 1 \in 1 .. Len(w) /\ i \in 1 .. Len(w)
        BY <2>1, <3>2
      <4> QED
        BY <2>3, <4>1, <4>2
    <3> QED
      BY <2>1, <2>3, <3>1, <3>2
  <2>5. IsWalk(step, D, c, longer)
    <3>1. longer[1] = c /\ Len(longer) >= 1
      BY <1>5, <2>1, <2>3 DEF IsWalk
    <3> HIDE DEF longer
    <3> QED
      BY <2>3, <2>4, <3>1 DEF IsWalk
  <2>6. Len(longer) <= n
    BY <2>5, WalkIsShort
  <2>7. k - 1 \in Nat /\ Len(longer) = n - (k - 1)
    BY <1>1, <1>4, <1>5, <2>1, <2>3, <2>6
  <2>8. k - 1 \in Room
    BY <2>5, <2>7
  <2> QED
    BY <1>4, <2>7, <2>8
<1> QED
  BY <1>5, <1>6

-----------------------------------------------------------------------------
(* The recursive functions of LeftFan and RightFan.  A path may be any     *)
(* sequence of corners; next tells where it goes on.                       *)

GoesOn(next, path, c) == ~ (next[path] < 0 \/ next[path] = c)

IsFanFunction(f, next, D, c) ==
  f = [path \in Seq(D) |-> IF next[path] < 0 \/ next[path] = c
                           THEN path ELSE f[Append(path, next[path])]]

IsNext(next, step, D) ==
  /\ next \in [Seq(D) -> D \cup {-1}]
  /\ \A path \in Seq(D) : path # <<>> => next[path] = step[path[Len(path)]]

(* A path continued to where its walk is over.                             *)
Continues(step, D, c, path, q) ==
  /\ q \in Seq(D)
  /\ Len(q) >= Len(path)
  /\ \A i \in 1 .. Len(path) : q[i] = path[i]
  /\ \A i \in Len(path) .. Len(q) - 1 : q[i + 1] = step[q[i]] /\ q[i + 1] # c
  /\ IsOver(step, c, q)

Ends(step, D, c, path) == {q \in Seq(D) : Continues(step, D, c, path, q)}

(* There is such a function, for the steps of a walk and any path.         *)
LEMMA FanFunctionExists ==
  ASSUME NEW D \in SUBSET Nat, NEW step \in [D -> D \cup {-1}], NEW c \in D,
         NEW next, IsNext(next, step, D)
  PROVE  \E f : IsFanFunction(f, next, D, c)
<1> DEFINE h(path) == IF Ends(step, D, c, path) = {} THEN <<>>
                      ELSE CHOOSE q \in Ends(step, D, c, path) : TRUE
           f == [path \in Seq(D) |->
                   IF path # <<>> THEN h(path)
                   ELSE IF GoesOn(next, path, c) THEN h(Append(path, next[path])) ELSE path]
<1>1. ASSUME NEW path \in Seq(D), path # <<>>, ~ GoesOn(next, path, c)
      PROVE  h(path) = path
  <2>1. Len(path) \in Nat /\ Len(path) >= 1 /\ next[path] = step[path[Len(path)]]
    BY <1>1 DEF IsNext
  <2>2. Continues(step, D, c, path, path)
    BY <1>1, <2>1 DEF Continues, IsOver, GoesOn
  <2>3. ASSUME NEW q \in Seq(D), Continues(step, D, c, path, q) PROVE q = path
    <3>1. Len(q) \in Nat /\ Len(q) >= Len(path) /\ q[Len(path)] = path[Len(path)]
      BY <2>1, <2>3 DEF Continues
    <3>2. Len(q) = Len(path)
      <4> SUFFICES ASSUME Len(q) # Len(path) PROVE FALSE
        OBVIOUS
      <4>1. Len(path) \in Len(path) .. Len(q) - 1 /\ Len(path) + 1 \in 1 .. Len(q)
        BY <2>1, <3>1
      <4>2. q[Len(path) + 1] = step[q[Len(path)]] /\ q[Len(path) + 1] # c
        BY <2>3, <4>1 DEF Continues
      <4>3. q[Len(path) + 1] \in Nat
        BY <4>1
      <4> QED
        BY <1>1, <2>1, <3>1, <4>2, <4>3 DEF GoesOn
    <3> QED
      BY <2>3, <3>2, SeqEqual DEF Continues
  <2>4. Ends(step, D, c, path) = {path}
    BY <2>2, <2>3 DEF Ends
  <2> QED
    BY <2>4
<1>2. ASSUME NEW path \in Seq(D), path # <<>>, GoesOn(next, path, c)
      PROVE  h(path) = h(Append(path, next[path]))
  <2> DEFINE m == Len(path)
             longer == Append(path, next[path])
  <2>1. m \in Nat /\ m >= 1 /\ next[path] = step[path[m]] /\ next[path] \in D /\ next[path] # c
    BY <1>2 DEF IsNext, GoesOn
  <2>2. /\ longer \in Seq(D) /\ Len(longer) = m + 1
        /\ \A i \in 1 .. m : longer[i] = path[i]
        /\ longer[m + 1] = next[path]
    BY <2>1
  <2>3. ASSUME NEW q \in Seq(D), Continues(step, D, c, path, q)
        PROVE  Continues(step, D, c, longer, q)
    <3>1. Len(q) \in Nat /\ Len(q) >= m /\ q[m] = path[m]
      BY <2>1, <2>3 DEF Continues
    <3>2. Len(q) # m
      <4>1. Len(q) = m => step[path[m]] < 0 \/ step[path[m]] = c
        BY <2>3, <3>1 DEF Continues, IsOver
      <4> QED
        BY <1>2, <2>1, <4>1 DEF GoesOn
    <3>3. q[m + 1] = next[path]
      <4>1. m \in m .. Len(q) - 1
        BY <2>1, <3>1, <3>2
      <4> QED
        BY <2>1, <2>3, <3>1, <4>1 DEF Continues
    <3>4. \A i \in 1 .. m + 1 : q[i] = longer[i]
      <4>1. \A i \in 1 .. m + 1 : i = m + 1 \/ i \in 1 .. m
        BY <2>1
      <4> HIDE DEF longer
      <4> QED
        BY <2>2, <2>3, <3>3, <4>1 DEF Continues
    <3>5. \A i \in m + 1 .. Len(q) - 1 : i \in m .. Len(q) - 1
      BY <2>1, <3>1
    <3> HIDE DEF longer
    <3> QED
      BY <2>1, <2>2, <2>3, <3>1, <3>2, <3>4, <3>5 DEF Continues
  <2>4. ASSUME NEW q \in Seq(D), Continues(step, D, c, longer, q)
        PROVE  Continues(step, D, c, path, q)
    <3> HIDE DEF longer
    <3>1. Len(q) \in Nat /\ Len(q) >= m + 1 /\ \A i \in 1 .. m + 1 : q[i] = longer[i]
      BY <2>2, <2>4 DEF Continues
    <3>2. q[m] = path[m] /\ q[m + 1] = next[path]
      BY <2>1, <2>2, <3>1
    <3>3. \A i \in m .. Len(q) - 1 : i = m \/ i \in m + 1 .. Len(q) - 1
      BY <2>1, <3>1
    <3>4. \A i \in 1 .. m : i \in 1 .. m + 1
      BY <2>1
    <3> QED
      BY <2>1, <2>2, <2>4, <3>1, <3>2, <3>3, <3>4 DEF Continues
  <2>5. Ends(step, D, c, path) = Ends(step, D, c, longer)
    BY <2>3, <2>4 DEF Ends
  <2> QED
    BY <2>5
<1>3. \A path \in Seq(D) : GoesOn(next, path, c) =>
          Append(path, next[path]) \in Seq(D) /\ Append(path, next[path]) # <<>>
  <2> SUFFICES ASSUME NEW path \in Seq(D), GoesOn(next, path, c)
               PROVE  Append(path, next[path]) \in Seq(D) /\ Append(path, next[path]) # <<>>
    OBVIOUS
  <2>1. next[path] \in D
    BY DEF IsNext, GoesOn
  <2>2. Append(path, next[path]) \in Seq(D) /\ Len(Append(path, next[path])) = Len(path) + 1
    BY <2>1
  <2>3. Len(path) + 1 # 0 /\ Len(<<>>) = 0
    OBVIOUS
  <2> QED
    BY <2>2, <2>3
<1>4. \A path \in Seq(D) : f[path] = IF ~ GoesOn(next, path, c)
                                     THEN path ELSE f[Append(path, next[path])]
  <2> HIDE DEF h
  <2> QED
    BY <1>1, <1>2, <1>3
<1>5. IsFanFunction(f, next, D, c)
  <2>1. \A path \in Seq(D) : f[path] = IF next[path] < 0 \/ next[path] = c
                                     THEN path ELSE f[Append(path, next[path])]
    <3> HIDE DEF f
    <3> QED BY <1>4 DEF GoesOn
  <2>2. f = [path \in Seq(D) |-> f[path]]
    BY DEF f
  <2> HIDE DEF f
  <2> QED
    BY <2>1, <2>2 DEF IsFanFunction
<1> QED
  BY <1>5

(* Whatever it is, from c alone it returns the walk of c that is over.     *)
LEMMA FanFunctionWalks ==
  ASSUME NEW D \in SUBSET Nat, IsFiniteSet(D), NEW step, IsStep(step, D), NEW c \in D,
         NEW next, IsNext(next, step, D), NEW f, IsFanFunction(f, next, D, c)
  PROVE  IsWalk(step, D, c, f[<<c>>]) /\ IsOver(step, c, f[<<c>>])
<1>1. PICK w : IsWalk(step, D, c, w) /\ IsOver(step, c, w)
  BY SomeWalkIsOver
<1>2. w \in Seq(D) /\ Len(w) \in Nat /\ Len(w) >= 1 /\ w[1] = c
  BY <1>1 DEF IsWalk
<1> DEFINE part(k) == SubSeq(w, 1, k)
           Differs == {k \in 1 .. Len(w) : f[part(k)] # f[<<c>>]}
<1>3. ASSUME NEW k \in 1 .. Len(w)
      PROVE  /\ part(k) \in Seq(D) /\ Len(part(k)) = k
             /\ \A i \in 1 .. k : part(k)[i] = w[i]
  <2>1. \A i \in 1 .. k : w[i] \in D
    BY <1>2
  <2>2. k \in Int /\ 1 <= k /\ k - 1 + 1 = k
    BY <1>2
  <2>3. \A i \in 1 .. k : 1 + i - 1 = i
    BY <2>2
  <2> QED
    BY <2>1, <2>2, <2>3, SubSeqProperties
<1>4. part(1) = <<c>>
  <2>1. 1 \in 1 .. Len(w)
    BY <1>2
  <2>2. /\ part(1) \in Seq(D) /\ Len(part(1)) = 1
        /\ \A i \in 1 .. 1 : part(1)[i] = w[i]
    BY <1>3, <2>1
  <2> HIDE DEF part
  <2>3. <<c>> \in Seq(D) /\ Len(<<c>>) = 1 /\ \A i \in 1 .. 1 : part(1)[i] = <<c>>[i]
    BY <1>2, <2>2
  <2> QED
    BY <2>2, <2>3, SeqEqual
<1>5. ASSUME NEW k \in 1 .. Len(w) - 1
      PROVE  f[part(k)] = f[part(k + 1)]
  <2>1. k \in 1 .. Len(w) /\ k + 1 \in 1 .. Len(w)
    BY <1>2
  <2>2. w[k + 1] = step[w[k]] /\ w[k + 1] # c /\ w[k + 1] \in D
    BY <1>1, <1>2, <2>1 DEF IsWalk
  <2>3. /\ part(k) \in Seq(D) /\ Len(part(k)) = k
        /\ \A i \in 1 .. k : part(k)[i] = w[i]
        /\ part(k + 1) \in Seq(D) /\ Len(part(k + 1)) = k + 1
        /\ \A i \in 1 .. k + 1 : part(k + 1)[i] = w[i]
    BY <1>3, <2>1
  <2> HIDE DEF part
  <2>4. next[part(k)] = w[k + 1]
    BY <2>1, <2>2, <2>3 DEF IsNext
  <2>5. part(k + 1) = Append(part(k), w[k + 1])
    <3>1. Append(part(k), w[k + 1]) \in Seq(D) /\ Len(Append(part(k), w[k + 1])) = k + 1
      BY <2>2, <2>3
    <3>2. \A i \in 1 .. k + 1 : part(k + 1)[i] = Append(part(k), w[k + 1])[i]
      BY <2>1, <2>2, <2>3
    <3> QED
      BY <2>3, <3>1, <3>2, SeqEqual
  <2>6. f[part(k)] = IF next[part(k)] < 0 \/ next[part(k)] = c
                     THEN part(k) ELSE f[Append(part(k), next[part(k)])]
    BY <2>3 DEF IsFanFunction
  <2>7. ~ (w[k + 1] < 0 \/ w[k + 1] = c)
    <3>1. w[k + 1] \in Nat
      BY <2>2
    <3> QED BY <2>2, <3>1
  <2> QED
    BY <2>4, <2>5, <2>6, <2>7
<1>6. Differs = {}
  <2> SUFFICES ASSUME Differs # {} PROVE FALSE
    OBVIOUS
  <2>1. Differs \in SUBSET Nat
    BY <1>2
  <2>2. PICK k \in Differs : \A m \in Differs : k <= m
    <3> HIDE DEF Differs
    <3> QED BY <2>1, LeastNumber
  <2>3. k \in 1 .. Len(w) /\ k # 1
    BY <1>4, <2>2
  <2>4. k - 1 \in 1 .. Len(w) - 1 /\ (k - 1) + 1 = k /\ k - 1 \in 1 .. Len(w) /\ ~ (k <= k - 1)
    BY <1>2, <2>3
  <2>5. f[part(k - 1)] = f[part(k)]
    <3> HIDE DEF part
    <3> QED BY <1>5, <2>4
  <2>6. k - 1 \in Differs
    <3> HIDE DEF part
    <3> QED BY <2>2, <2>4, <2>5
  <2> QED
    BY <2>2, <2>4, <2>6
<1>7. part(Len(w)) = w
  BY <1>2, SubSeqFull
<1>8. f[w] = f[<<c>>]
  <2>1. Len(w) \in 1 .. Len(w)
    BY <1>2
  <2> HIDE DEF part
  <2> QED
    BY <1>6, <1>7, <2>1
<1>9. f[w] = w
  <2>1. w # <<>>
    BY <1>2
  <2>2. next[w] = step[w[Len(w)]]
    BY <1>2, <2>1 DEF IsNext
  <2>3. f[w] = IF next[w] < 0 \/ next[w] = c THEN w ELSE f[Append(w, next[w])]
    BY <1>2 DEF IsFanFunction
  <2> QED
    BY <1>1, <2>2, <2>3 DEF IsOver
<1> QED
  BY <1>1, <1>8, <1>9

-----------------------------------------------------------------------------
(* Closed walks: a step that always goes on, such as the turn from one     *)
(* boundary corner to the next, comes back to where it began.              *)

LoopOf(w) == {w[i] : i \in 1 .. Len(w)}

LEMMA WalkGoesRound ==
  ASSUME NEW B \in SUBSET Nat, NEW step \in [B -> B], IsStep(step, B), NEW c \in B,
         NEW w, IsWalk(step, B, c, w), IsOver(step, c, w)
  PROVE  /\ Len(w) \in Nat /\ Len(w) >= 1 /\ step[w[Len(w)]] = c
         /\ c \in LoopOf(w) /\ LoopOf(w) \subseteq B
         /\ \A d \in LoopOf(w) : step[d] \in LoopOf(w)
         /\ \A d \in B : step[d] \in LoopOf(w) => d \in LoopOf(w)
<1> DEFINE n == Len(w)
<1>1. /\ w \in [1 .. n -> B] /\ n \in Nat /\ n >= 1 /\ w[1] = c
      /\ \A i \in 1 .. n - 1 : w[i + 1] = step[w[i]]
  BY DEF IsWalk
<1>2. \A d \in B : step[d] \in B /\ ~ (step[d] < 0) /\ step[d] >= 0
  <2>1. \A d \in B : d \in Nat /\ ~ (d < 0) /\ d >= 0
    OBVIOUS
  <2>2. \A d \in B : step[d] \in B
    OBVIOUS
  <2> QED
    BY <2>1, <2>2
<1>3. \A d, e \in B : step[d] = step[e] => d = e
  BY <1>2 DEF IsStep
<1>4. w[n] \in B /\ step[w[n]] = c
  <2>1. n \in 1 .. n
    BY <1>1
  <2> QED
    BY <1>1, <1>2, <2>1 DEF IsOver
<1> HIDE DEF n
<1>5. \A i \in 1 .. n : w[i] \in LoopOf(w)
  BY DEF LoopOf, n
<1>6. c \in LoopOf(w) /\ LoopOf(w) \subseteq B
  <2>1. 1 \in 1 .. n
    BY <1>1
  <2>2. w[1] \in LoopOf(w)
    BY <1>5, <2>1
  <2>3. \A i \in 1 .. n : w[i] \in B
    BY <1>1
  <2>4. LoopOf(w) \subseteq B
    BY <2>3 DEF LoopOf, n
  <2> QED
    BY <1>1, <2>2, <2>4
<1>7. ASSUME NEW i \in 1 .. n PROVE step[w[i]] \in LoopOf(w)
  <2>1. CASE i = n
    BY <1>4, <1>6, <2>1
  <2>2. CASE i # n
    <3>1. i \in 1 .. n - 1 /\ i + 1 \in 1 .. n
      BY <1>1, <2>2
    <3> QED
      BY <1>1, <1>5, <3>1
  <2> QED
    BY <2>1, <2>2
<1>8. ASSUME NEW d \in B, NEW i \in 1 .. n, step[d] = w[i] PROVE d \in LoopOf(w)
  <2>1. CASE i = 1
    <3>1. d = w[n]
      BY <1>1, <1>3, <1>4, <1>8, <2>1
    <3>2. n \in 1 .. n
      BY <1>1
    <3> QED
      BY <1>5, <3>1, <3>2
  <2>2. CASE i # 1
    <3>1. i - 1 \in 1 .. n - 1 /\ i - 1 \in 1 .. n /\ (i - 1) + 1 = i
      BY <1>1, <2>2
    <3>2. w[i] = step[w[i - 1]] /\ w[i - 1] \in B
      BY <1>1, <3>1
    <3>3. d = w[i - 1]
      BY <1>3, <1>8, <3>2
    <3> QED
      BY <1>5, <3>1, <3>3
  <2> QED
    BY <2>1, <2>2
<1> QED
  BY <1>1, <1>4, <1>6, <1>7, <1>8 DEF LoopOf, n

(* Where steps stay within S, so does a walk from where it meets S.        *)
LEMMA WalkStaysWithin ==
  ASSUME NEW B \in SUBSET Nat, NEW step, NEW c \in B,
         NEW w, IsWalk(step, B, c, w),
         NEW S, \A d \in S : step[d] \in S,
         NEW j \in 1 .. Len(w), w[j] \in S
  PROVE  \A i \in j .. Len(w) : w[i] \in S
<1> DEFINE n == Len(w)
           Outside == {i \in j .. n : w[i] \notin S}
<1>1. n \in Nat /\ j \in 1 .. n /\ \A i \in 1 .. n - 1 : w[i + 1] = step[w[i]]
  BY DEF IsWalk
<1> HIDE DEF n
<1>2. Outside = {}
  <2> SUFFICES ASSUME Outside # {} PROVE FALSE
    OBVIOUS
  <2>1. Outside \in SUBSET Nat
    BY <1>1
  <2>2. PICK i \in Outside : \A k \in Outside : i <= k
    <3> HIDE DEF Outside
    <3> QED BY <2>1, LeastNumber
  <2>3. i \in j .. n /\ i # j
    BY <2>2
  <2>4. i - 1 \in j .. n /\ i - 1 \in 1 .. n - 1 /\ (i - 1) + 1 = i /\ ~ (i <= i - 1)
    BY <1>1, <2>3
  <2>5. w[i - 1] \in S
    BY <2>2, <2>4
  <2>6. w[i] = step[w[i - 1]]
    BY <1>1, <2>4
  <2>7. w[i] \in S
    BY <2>5, <2>6
  <2> QED
    BY <2>2, <2>7
<1> QED
  BY <1>2 DEF n

(* The corners of a closed walk are the least set its steps stay within.   *)
LEMMA LoopIsLeast ==
  ASSUME NEW B \in SUBSET Nat, NEW step \in [B -> B], IsStep(step, B), NEW c \in B,
         NEW w, IsWalk(step, B, c, w), IsOver(step, c, w),
         NEW S, \A d \in S : step[d] \in S,
         NEW e \in LoopOf(w), e \in S
  PROVE  LoopOf(w) \subseteq S
<1>1. Len(w) \in Nat /\ Len(w) >= 1 /\ step[w[Len(w)]] = c /\ w[1] = c
  BY WalkGoesRound DEF IsWalk
<1>2. PICK j \in 1 .. Len(w) : w[j] = e
  BY DEF LoopOf
<1>3. \A i \in j .. Len(w) : w[i] \in S
  BY <1>2, WalkStaysWithin
<1>4. w[Len(w)] \in S
  <2>1. Len(w) \in j .. Len(w)
    BY <1>1, <1>2
  <2> QED
    BY <1>3, <2>1
<1>5. 1 \in 1 .. Len(w) /\ w[1] \in S
  BY <1>1, <1>4
<1>6. \A i \in 1 .. Len(w) : w[i] \in S
  BY <1>5, WalkStaysWithin
<1> QED
  BY <1>6 DEF LoopOf

(* The recursive function that walks until a path halts.                   *)
Paths(B) == Seq(B) \ {<<>>}

IsLoopFunction(f, step, B, Halts) ==
  f = [path \in Paths(B) |->
         IF path \in Halts THEN path ELSE f[Append(path, step[path[Len(path)]])]]

Completes(step, B, Halts, path, q) ==
  /\ q \in Seq(B)
  /\ Len(q) >= Len(path)
  /\ \A i \in 1 .. Len(path) : q[i] = path[i]
  /\ \A i \in Len(path) .. Len(q) - 1 : q[i + 1] = step[q[i]] /\ SubSeq(q, 1, i) \notin Halts
  /\ q \in Halts

LEMMA PathsInHand ==
  ASSUME NEW B, NEW path \in Paths(B)
  PROVE  /\ path \in Seq(B) /\ Len(path) \in Nat /\ Len(path) >= 1
         /\ path[Len(path)] \in B
<1>1. path \in Seq(B) /\ path # <<>>
  BY DEF Paths
<1> QED
  BY <1>1

LEMMA PrefixIs ==
  ASSUME NEW B, NEW q \in Seq(B), NEW path \in Seq(B), Len(path) >= 1, Len(q) >= Len(path),
         \A i \in 1 .. Len(path) : q[i] = path[i]
  PROVE  SubSeq(q, 1, Len(path)) = path
<1> DEFINE m == Len(path)
<1>1. m \in Nat /\ m >= 1 /\ Len(q) \in Nat /\ Len(q) >= m
  OBVIOUS
<1>2. \A i \in 1 .. m : q[i] \in B
  BY <1>1
<1>3. 1 \in Int /\ m \in Int /\ 1 <= m /\ m - 1 + 1 = m /\ \A i \in 1 .. m : 1 + i - 1 = i
  BY <1>1
<1>4. /\ SubSeq(q, 1, m) \in Seq(B) /\ Len(SubSeq(q, 1, m)) = m
      /\ \A i \in 1 .. m : SubSeq(q, 1, m)[i] = q[i]
  BY <1>2, <1>3, SubSeqProperties
<1> QED
  BY <1>4, SeqEqual

LEMMA LoopFunctionExists ==
  ASSUME NEW B \in SUBSET Nat, NEW step \in [B -> B], NEW Halts
  PROVE  \E f : IsLoopFunction(f, step, B, Halts)
<1> DEFINE All(path) == {q \in Seq(B) : Completes(step, B, Halts, path, q)}
           AnyOf(X) == CHOOSE q \in X : TRUE
           f == [path \in Paths(B) |-> AnyOf(All(path))]
<1>1. ASSUME NEW path \in Paths(B), path \in Halts PROVE f[path] = path
  <2>1. path \in Seq(B) /\ Len(path) \in Nat /\ Len(path) >= 1
    BY PathsInHand
  <2>2. Completes(step, B, Halts, path, path)
    BY <1>1, <2>1 DEF Completes
  <2>3. ASSUME NEW q \in Seq(B), Completes(step, B, Halts, path, q) PROVE q = path
    <3>1. Len(q) \in Nat /\ Len(q) >= Len(path) /\ \A i \in 1 .. Len(path) : q[i] = path[i]
      BY <2>3 DEF Completes
    <3>2. Len(q) = Len(path)
      <4> SUFFICES ASSUME Len(q) # Len(path) PROVE FALSE
        OBVIOUS
      <4>1. Len(path) \in Len(path) .. Len(q) - 1
        BY <2>1, <3>1
      <4>2. SubSeq(q, 1, Len(path)) = path
        BY <2>1, <3>1, PrefixIs
      <4> QED
        BY <1>1, <2>3, <4>1, <4>2 DEF Completes
    <3> QED
      BY <2>1, <3>1, <3>2, SeqEqual
  <2>4. All(path) = {path}
    BY <2>1, <2>2, <2>3
  <2>5. AnyOf({path}) = path
    OBVIOUS
  <2> HIDE DEF All, AnyOf
  <2> QED
    BY <2>4, <2>5
<1>2. ASSUME NEW path \in Paths(B), path \notin Halts
      PROVE  /\ Append(path, step[path[Len(path)]]) \in Paths(B)
             /\ f[path] = f[Append(path, step[path[Len(path)]])]
  <2> DEFINE m == Len(path)
             e == step[path[m]]
             longer == Append(path, e)
  <2>1. path \in Seq(B) /\ m \in Nat /\ m >= 1 /\ e \in B
    BY PathsInHand
  <2> HIDE DEF e
  <2>2. /\ longer \in Seq(B) /\ Len(longer) = m + 1
        /\ \A i \in 1 .. m : longer[i] = path[i]
        /\ longer[m + 1] = e
    BY <2>1
  <2>3. longer \in Paths(B)
    <3> HIDE DEF longer
    <3>1. Len(longer) # 0
      BY <2>1, <2>2
    <3> QED
      BY <2>2, <3>1 DEF Paths
  <2> HIDE DEF longer
  <2>4. ASSUME NEW q \in Seq(B), Completes(step, B, Halts, path, q)
        PROVE  Completes(step, B, Halts, longer, q)
    <3>1. Len(q) \in Nat /\ Len(q) >= m /\ \A i \in 1 .. m : q[i] = path[i]
      BY <2>1, <2>4 DEF Completes
    <3>2. Len(q) # m
      <4>1. Len(q) = m => q = path
        BY <2>1, <3>1, SeqEqual
      <4> QED
        BY <1>2, <2>4, <4>1 DEF Completes
    <3>3. q[m + 1] = e
      <4>1. m \in m .. Len(q) - 1 /\ m \in 1 .. m
        BY <2>1, <3>1, <3>2
      <4> QED
        BY <2>4, <3>1, <4>1 DEF Completes, e
    <3>4. \A i \in 1 .. m + 1 : q[i] = longer[i]
      <4>1. \A i \in 1 .. m + 1 : i = m + 1 \/ i \in 1 .. m
        BY <2>1
      <4> QED
        BY <2>2, <3>1, <3>3, <4>1
    <3>5. \A i \in m + 1 .. Len(q) - 1 : i \in m .. Len(q) - 1
      BY <2>1, <3>1
    <3> QED
      BY <2>1, <2>2, <2>4, <3>1, <3>2, <3>4, <3>5 DEF Completes
  <2>5. ASSUME NEW q \in Seq(B), Completes(step, B, Halts, longer, q)
        PROVE  Completes(step, B, Halts, path, q)
    <3>1. Len(q) \in Nat /\ Len(q) >= m + 1 /\ \A i \in 1 .. m + 1 : q[i] = longer[i]
      BY <2>2, <2>5 DEF Completes
    <3>2. (\A i \in 1 .. m : i \in 1 .. m + 1) /\ m \in 1 .. m /\ m + 1 \in 1 .. m + 1
      BY <2>1
    <3>3. (\A i \in 1 .. m : q[i] = path[i]) /\ q[m + 1] = e
      BY <2>2, <3>1, <3>2
    <3>4. q[m + 1] = step[q[m]]
      BY <3>2, <3>3 DEF e
    <3>5. SubSeq(q, 1, m) = path
      BY <2>1, <3>1, <3>3, PrefixIs
    <3>6. \A i \in m .. Len(q) - 1 : i = m \/ i \in m + 1 .. Len(q) - 1
      BY <2>1, <3>1
    <3>7. \A i \in m .. Len(q) - 1 : q[i + 1] = step[q[i]] /\ SubSeq(q, 1, i) \notin Halts
      BY <1>2, <2>2, <2>5, <3>4, <3>5, <3>6 DEF Completes
    <3> QED
      BY <2>1, <2>5, <3>1, <3>3, <3>7 DEF Completes
  <2>6. All(path) = All(longer)
    BY <2>4, <2>5
  <2> HIDE DEF All, AnyOf
  <2>7. f[path] = f[longer]
    BY <2>3, <2>6
  <2> QED
    BY <2>3, <2>7 DEF longer, e
<1> HIDE DEF f
<1>3. f = [path \in Paths(B) |-> f[path]]
  BY DEF f
<1>4. \A path \in Paths(B) : f[path] = IF path \in Halts THEN path
                                       ELSE f[Append(path, step[path[Len(path)]])]
  BY <1>1, <1>2
<1>5. IsLoopFunction(f, step, B, Halts)
  BY <1>3, <1>4 DEF IsLoopFunction
<1> QED
  BY <1>5

HaltsAtItsEnd(w, Halts) ==
  w \in Halts /\ \A k \in 1 .. Len(w) - 1 : SubSeq(w, 1, k) \notin Halts

(* Where a walk halts at its end and not before, it is the walk found.     *)
LEMMA LoopFunctionWalks ==
  ASSUME NEW B \in SUBSET Nat, NEW step, NEW c \in B, NEW Halts,
         NEW f, IsLoopFunction(f, step, B, Halts),
         NEW w, IsWalk(step, B, c, w), HaltsAtItsEnd(w, Halts)
  PROVE  f[<<c>>] = w
<1> DEFINE n == Len(w)
           part(k) == SubSeq(w, 1, k)
           Differs == {k \in 1 .. n : f[part(k)] # f[<<c>>]}
<1>1. /\ w \in Seq(B) /\ n \in Nat /\ n >= 1 /\ w[1] = c
      /\ w \in Halts /\ \A k \in 1 .. n - 1 : part(k) \notin Halts
  BY DEF IsWalk, HaltsAtItsEnd
<1>2. ASSUME NEW k \in 1 .. n
      PROVE  /\ part(k) \in Seq(B) /\ Len(part(k)) = k
             /\ \A i \in 1 .. k : part(k)[i] = w[i]
  <2>1. \A i \in 1 .. k : w[i] \in B
    BY <1>1
  <2>2. k \in Int /\ 1 <= k /\ k - 1 + 1 = k
    BY <1>1
  <2>3. \A i \in 1 .. k : 1 + i - 1 = i
    BY <2>2
  <2> QED
    BY <2>1, <2>2, <2>3, SubSeqProperties
<1> HIDE DEF n
<1>3. part(1) = <<c>>
  <2>1. 1 \in 1 .. n
    BY <1>1
  <2>2. /\ part(1) \in Seq(B) /\ Len(part(1)) = 1
        /\ \A i \in 1 .. 1 : part(1)[i] = w[i]
    BY <1>2, <2>1
  <2> HIDE DEF part
  <2>3. <<c>> \in Seq(B) /\ Len(<<c>>) = 1 /\ \A i \in 1 .. 1 : part(1)[i] = <<c>>[i]
    BY <1>1, <2>2
  <2> QED
    BY <2>2, <2>3, SeqEqual
<1>4. part(n) = w
  BY <1>1, SubSeqFull DEF n
<1> HIDE DEF part
<1>5. ASSUME NEW k \in 1 .. n - 1
      PROVE  f[part(k)] = f[part(k + 1)]
  <2>1. k \in 1 .. n /\ k + 1 \in 1 .. n /\ k >= 1 /\ k \in Nat
    BY <1>1
  <2>2. w[k + 1] = step[w[k]] /\ w[k + 1] \in B
    BY <1>1, <2>1 DEF IsWalk, n
  <2>3. /\ part(k) \in Seq(B) /\ Len(part(k)) = k
        /\ \A i \in 1 .. k : part(k)[i] = w[i]
        /\ part(k + 1) \in Seq(B) /\ Len(part(k + 1)) = k + 1
        /\ \A i \in 1 .. k + 1 : part(k + 1)[i] = w[i]
    BY <1>2, <2>1
  <2>4. k \in 1 .. k
    BY <2>1
  <2>5. step[part(k)[Len(part(k))]] = w[k + 1]
    BY <2>2, <2>3, <2>4
  <2>6. part(k + 1) = Append(part(k), w[k + 1])
    <3>1. Append(part(k), w[k + 1]) \in Seq(B) /\ Len(Append(part(k), w[k + 1])) = k + 1
      BY <2>2, <2>3
    <3>2. \A i \in 1 .. k + 1 : part(k + 1)[i] = Append(part(k), w[k + 1])[i]
      BY <2>1, <2>2, <2>3
    <3> QED
      BY <2>3, <3>1, <3>2, SeqEqual
  <2>7. part(k) \in Paths(B)
    <3>1. Len(part(k)) # 0
      BY <2>1, <2>3
    <3> QED
      BY <2>3, <3>1 DEF Paths
  <2>8. f[part(k)] = f[Append(part(k), step[part(k)[Len(part(k))]])]
    BY <1>1, <2>7 DEF IsLoopFunction
  <2> QED
    BY <2>5, <2>6, <2>8
<1>6. Differs = {}
  <2> SUFFICES ASSUME Differs # {} PROVE FALSE
    OBVIOUS
  <2>1. Differs \in SUBSET Nat
    BY <1>1
  <2>2. PICK k \in Differs : \A m \in Differs : k <= m
    <3> HIDE DEF Differs
    <3> QED BY <2>1, LeastNumber
  <2>3. k \in 1 .. n /\ k # 1
    BY <1>3, <2>2
  <2>4. k - 1 \in 1 .. n - 1 /\ (k - 1) + 1 = k /\ k - 1 \in 1 .. n /\ ~ (k <= k - 1)
    BY <1>1, <2>3
  <2>5. f[part(k - 1)] = f[part(k)]
    BY <1>5, <2>4
  <2>6. k - 1 \in Differs
    BY <2>2, <2>4, <2>5
  <2> QED
    BY <2>2, <2>4, <2>6
<1>7. n \in 1 .. n
  BY <1>1
<1>8. f[w] = f[<<c>>]
  BY <1>4, <1>6, <1>7
<1>9. w \in Paths(B)
  <2>1. Len(w) # 0
    BY <1>1 DEF n
  <2> QED
    BY <1>1, <2>1 DEF Paths
<1>10. f[w] = w
  BY <1>1, <1>9 DEF IsLoopFunction
<1> QED
  BY <1>8, <1>10

-----------------------------------------------------------------------------
(* The corners of a table and its swings.                                  *)

(* The corner arithmetic stays within the table and within the face, and   *)
(* tells the three corners of a face apart.                                *)
LEMMA CornerArithmetic ==
  ASSUME NEW F \in Nat, NEW c \in Corners(F)
  PROVE  /\ NextCorner(c) \in Corners(F)
         /\ PreviousCorner(c) \in Corners(F)
         /\ c \in Int /\ Face(c) \in 0 .. F - 1
         /\ {c, NextCorner(c), PreviousCorner(c)}
              = {3 * Face(c), 3 * Face(c) + 1, 3 * Face(c) + 2}
         /\ c # NextCorner(c) /\ c # PreviousCorner(c)
         /\ NextCorner(c) # PreviousCorner(c)
<1> DEFINE f == Face(c)
<1>1. /\ c \in Int /\ c >= 0 /\ c <= 3 * F - 1
  BY DEF Corners
<1>2. /\ f \in Int /\ 3 * f <= c /\ c <= 3 * f + 2
      /\ c % 3 = c - 3 * f
  BY <1>1 DEF Face
<1>3. f >= 0 /\ f <= F - 1
  BY <1>1, <1>2
<1> QED
  BY <1>1, <1>2, <1>3 DEF Corners, NextCorner, PreviousCorner

(* Gluing two corners that have no partner keeps a pairing a pairing.      *)
LEMMA GlueKeepsPairing ==
  ASSUME NEW S, NEW o \in [S -> S \cup {NoCorner}], IsPairing(o),
         NEW c \in S, NEW d \in S, c # d, NoCorner \notin S,
         o[c] = NoCorner, o[d] = NoCorner
  PROVE  /\ Glue(o, c, d) \in [S -> S \cup {NoCorner}]
         /\ \A x \in S : Glue(o, c, d)[x] = IF x = c THEN d ELSE IF x = d THEN c ELSE o[x]
         /\ IsPairing(Glue(o, c, d))
<1> DEFINE g == Glue(o, c, d)
<1>1. g = [o EXCEPT ![c] = d, ![d] = c]
  BY DEF Glue
<1>2. g \in [S -> S \cup {NoCorner}]
  BY <1>1
<1>3. \A x \in S : g[x] = IF x = c THEN d ELSE IF x = d THEN c ELSE o[x]
  BY <1>1
<1>4. \A x \in S : o[x] # NoCorner => o[x] \in S /\ o[x] # x /\ o[o[x]] = x
  BY DEF IsPairing
<1>5. ASSUME NEW x \in S, g[x] # NoCorner
      PROVE  g[x] \in S /\ g[x] # x /\ g[g[x]] = x
  <2>1. CASE x = c \/ x = d
    BY <1>3, <2>1
  <2>2. CASE x # c /\ x # d
    BY <1>3, <1>4, <1>5, <2>2
  <2> QED
    BY <2>1, <2>2
<1>6. DOMAIN g = S
  BY <1>2
<1>7. IsPairing(g)
  BY <1>5, <1>6 DEF IsPairing
<1> QED
  BY <1>2, <1>3, <1>7

IsTable(opposite, D) ==
  /\ opposite \in [D -> D \cup {NoCorner}]
  /\ IsPairing(opposite)

LEMMA CornersAreFinite ==
  ASSUME NEW F \in Nat
  PROVE  Corners(F) \in SUBSET Nat /\ IsFiniteSet(Corners(F))
  BY FS_Interval DEF Corners

(* NextCorner and PreviousCorner undo each other.                          *)
LEMMA NextAndPrevious ==
  ASSUME NEW F \in Nat, NEW c \in Corners(F)
  PROVE  /\ NextCorner(PreviousCorner(c)) = c
         /\ PreviousCorner(NextCorner(c)) = c
         /\ NextCorner(NextCorner(c)) = PreviousCorner(c)
         /\ PreviousCorner(PreviousCorner(c)) = NextCorner(c)
  BY DEF Corners, NextCorner, PreviousCorner

(* A swing stays in the table, and swinging back returns.                  *)
LEMMA SwingsAreInverse ==
  ASSUME NEW F \in Nat, NEW o, IsTable(o, Corners(F)), NEW c \in Corners(F)
  PROVE  /\ SwingLeft(o, c) \in Corners(F) \cup {NoCorner}
         /\ SwingRight(o, c) \in Corners(F) \cup {NoCorner}
         /\ SwingLeft(o, c) >= 0 => SwingRight(o, SwingLeft(o, c)) = c
         /\ SwingRight(o, c) >= 0 => SwingLeft(o, SwingRight(o, c)) = c
<1> DEFINE D == Corners(F)
<1>1. \A d \in D : /\ d \in Nat /\ NextCorner(d) \in D /\ PreviousCorner(d) \in D
                   /\ NextCorner(PreviousCorner(d)) = d /\ PreviousCorner(NextCorner(d)) = d
  BY CornerArithmetic, NextAndPrevious, CornersAreFinite
<1>2. /\ DOMAIN o = D /\ NoCorner = -1 /\ NoCorner \notin D
      /\ \A d \in D : o[d] \in D \cup {NoCorner}
      /\ \A d \in D : o[d] \in D => o[o[d]] = d
  BY <1>1 DEF IsTable, IsPairing, NoCorner
<1> HIDE DEF D
<1>3. \A d \in D : NextIn(d) = NextCorner(d) /\ PreviousIn(d) = PreviousCorner(d) /\ At(o, d) = o[d]
  BY <1>1, <1>2 DEF NextIn, PreviousIn, At
<1>4. NextIn(NoCorner) = NoCorner /\ PreviousIn(NoCorner) = NoCorner
  BY <1>2 DEF NextIn, PreviousIn
<1>5. SwingLeft(o, c) = IF o[NextCorner(c)] \in D THEN NextCorner(o[NextCorner(c)]) ELSE NoCorner
  BY <1>1, <1>2, <1>3, <1>4 DEF SwingLeft, D
<1>6. SwingRight(o, c) = IF o[PreviousCorner(c)] \in D
                         THEN PreviousCorner(o[PreviousCorner(c)]) ELSE NoCorner
  BY <1>1, <1>2, <1>3, <1>4 DEF SwingRight, D
<1>7. SwingLeft(o, c) >= 0 => SwingRight(o, SwingLeft(o, c)) = c
  <2> SUFFICES ASSUME SwingLeft(o, c) >= 0 PROVE SwingRight(o, SwingLeft(o, c)) = c
    OBVIOUS
  <2> DEFINE e == o[NextCorner(c)]
  <2>1. e \in D /\ SwingLeft(o, c) = NextCorner(e) /\ o[e] = NextCorner(c)
    BY <1>1, <1>2, <1>5 DEF D
  <2>2. PreviousIn(NextCorner(e)) = e /\ At(o, e) = NextCorner(c) /\ PreviousIn(NextCorner(c)) = c
    BY <1>1, <1>3, <2>1 DEF D
  <2> QED
    BY <2>1, <2>2 DEF SwingRight
<1>8. SwingRight(o, c) >= 0 => SwingLeft(o, SwingRight(o, c)) = c
  <2> SUFFICES ASSUME SwingRight(o, c) >= 0 PROVE SwingLeft(o, SwingRight(o, c)) = c
    OBVIOUS
  <2> DEFINE e == o[PreviousCorner(c)]
  <2>1. e \in D /\ SwingRight(o, c) = PreviousCorner(e) /\ o[e] = PreviousCorner(c)
    BY <1>1, <1>2, <1>6 DEF D
  <2>2. NextIn(PreviousCorner(e)) = e /\ At(o, e) = PreviousCorner(c) /\ NextIn(PreviousCorner(c)) = c
    BY <1>1, <1>3, <2>1 DEF D
  <2> QED
    BY <2>1, <2>2 DEF SwingLeft
<1> QED
  BY <1>1, <1>2, <1>5, <1>6, <1>7, <1>8 DEF D

LeftStep(o) == [d \in DOMAIN o |-> SwingLeft(o, d)]
RightStep(o) == [d \in DOMAIN o |-> SwingRight(o, d)]

LEMMA SwingsAreSteps ==
  ASSUME NEW F \in Nat, NEW o, IsTable(o, Corners(F))
  PROVE  IsStep(LeftStep(o), Corners(F)) /\ IsStep(RightStep(o), Corners(F))
<1>1. DOMAIN o = Corners(F) /\ NoCorner = -1
  BY DEF IsTable, NoCorner
<1>2. \A c \in Corners(F) :
         /\ SwingLeft(o, c) \in Corners(F) \cup {NoCorner}
         /\ SwingRight(o, c) \in Corners(F) \cup {NoCorner}
         /\ SwingLeft(o, c) >= 0 => SwingRight(o, SwingLeft(o, c)) = c
         /\ SwingRight(o, c) >= 0 => SwingLeft(o, SwingRight(o, c)) = c
  BY SwingsAreInverse
<1> QED
  BY <1>1, <1>2 DEF IsStep, LeftStep, RightStep

(* LeftFan is the whole walk to the left, RightFan the one to the right.   *)
LEMMA LeftFanIsAWalk ==
  ASSUME NEW F \in Nat, NEW o, IsTable(o, Corners(F)), NEW c \in Corners(F)
  PROVE  /\ IsWalk(LeftStep(o), Corners(F), c, LeftFan(o, c))
         /\ IsOver(LeftStep(o), c, LeftFan(o, c))
<1> DEFINE D == Corners(F)
           next == [path \in Seq(D) |-> SwingLeft(o, path[Len(path)])]
           fan == CHOOSE f : IsFanFunction(f, next, D, c)
<1>1. DOMAIN o = D /\ NoCorner = -1 /\ D \in SUBSET Nat /\ IsFiniteSet(D)
  BY CornersAreFinite DEF IsTable, NoCorner
<1>2. IsStep(LeftStep(o), D)
  BY SwingsAreSteps
<1>3. IsNext(next, LeftStep(o), D)
  <2>1. ASSUME NEW x PROVE SwingLeft(o, x) \in D \cup {-1}
    <3>1. At(o, NextIn(x)) \in D \cup {-1}
      BY <1>1 DEF At, IsTable
    <3> QED
      BY <1>1, <3>1, CornerArithmetic DEF SwingLeft, NextIn
  <2>2. ASSUME NEW path \in Seq(D), path # <<>>
        PROVE  next[path] = LeftStep(o)[path[Len(path)]]
    <3>1. path[Len(path)] \in D
      BY <2>2
    <3> QED
      BY <1>1, <3>1 DEF LeftStep
  <2> QED
    BY <2>1, <2>2 DEF IsNext
<1>4. LeftFan(o, c) = fan[<<c>>]
  <2>1. ASSUME NEW f
        PROVE  IsFanFunction(f, next, D, c) <=>
                 f = [path \in Seq(DOMAIN o) |->
                        LET n == SwingLeft(o, path[Len(path)])
                        IN  IF n < 0 \/ n = c THEN path ELSE f[Append(path, n)]]
    BY <1>1 DEF IsFanFunction
  <2> HIDE DEF next, D
  <2> QED
    BY <2>1 DEF LeftFan
<1> HIDE DEF next, D
<1>5. IsFanFunction(fan, next, D, c)
  <2>1. c \in D /\ LeftStep(o) \in [D -> D \cup {-1}]
    BY <1>2 DEF D, IsStep
  <2>2. \E f : IsFanFunction(f, next, D, c)
    BY <1>1, <1>3, <2>1, FanFunctionExists
  <2> QED
    BY <2>2
<1> HIDE DEF fan
<1>6. IsWalk(LeftStep(o), D, c, fan[<<c>>]) /\ IsOver(LeftStep(o), c, fan[<<c>>])
  BY <1>1, <1>2, <1>3, <1>5, FanFunctionWalks DEF D
<1> QED
  BY <1>4, <1>6 DEF D

LEMMA RightFanIsAWalk ==
  ASSUME NEW F \in Nat, NEW o, IsTable(o, Corners(F)), NEW c \in Corners(F)
  PROVE  /\ IsWalk(RightStep(o), Corners(F), c, RightFan(o, c))
         /\ IsOver(RightStep(o), c, RightFan(o, c))
<1> DEFINE D == Corners(F)
           next == [path \in Seq(D) |-> SwingRight(o, path[Len(path)])]
           fan == CHOOSE f : IsFanFunction(f, next, D, c)
<1>1. DOMAIN o = D /\ NoCorner = -1 /\ D \in SUBSET Nat /\ IsFiniteSet(D)
  BY CornersAreFinite DEF IsTable, NoCorner
<1>2. IsStep(RightStep(o), D)
  BY SwingsAreSteps
<1>3. IsNext(next, RightStep(o), D)
  <2>1. ASSUME NEW x PROVE SwingRight(o, x) \in D \cup {-1}
    <3>1. At(o, PreviousIn(x)) \in D \cup {-1}
      BY <1>1 DEF At, IsTable
    <3> QED
      BY <1>1, <3>1, CornerArithmetic DEF SwingRight, PreviousIn
  <2>2. ASSUME NEW path \in Seq(D), path # <<>>
        PROVE  next[path] = RightStep(o)[path[Len(path)]]
    <3>1. path[Len(path)] \in D
      BY <2>2
    <3> QED
      BY <1>1, <3>1 DEF RightStep
  <2> QED
    BY <2>1, <2>2 DEF IsNext
<1>4. RightFan(o, c) = fan[<<c>>]
  <2>1. ASSUME NEW f
        PROVE  IsFanFunction(f, next, D, c) <=>
                 f = [path \in Seq(DOMAIN o) |->
                        LET n == SwingRight(o, path[Len(path)])
                        IN  IF n < 0 \/ n = c THEN path ELSE f[Append(path, n)]]
    BY <1>1 DEF IsFanFunction
  <2> HIDE DEF next, D
  <2> QED
    BY <2>1 DEF RightFan
<1> HIDE DEF next, D
<1>5. IsFanFunction(fan, next, D, c)
  <2>1. c \in D /\ RightStep(o) \in [D -> D \cup {-1}]
    BY <1>2 DEF D, IsStep
  <2>2. \E f : IsFanFunction(f, next, D, c)
    BY <1>1, <1>3, <2>1, FanFunctionExists
  <2> QED
    BY <2>2
<1> HIDE DEF fan
<1>6. IsWalk(RightStep(o), D, c, fan[<<c>>]) /\ IsOver(RightStep(o), c, fan[<<c>>])
  BY <1>1, <1>2, <1>3, <1>5, FanFunctionWalks DEF D
<1> QED
  BY <1>4, <1>6 DEF D

-----------------------------------------------------------------------------
(* What the two walks meet.                                                *)

LeftCorners(o, c) == {LeftFan(o, c)[i] : i \in DOMAIN LeftFan(o, c)}
RightCorners(o, c) == {RightFan(o, c)[i] : i \in DOMAIN RightFan(o, c)}

(* The walk to the left meets c, corners of the table, only corners a left *)
(* swing leads to and, from each corner it meets, the next one.            *)
LEMMA LeftWalk ==
  ASSUME NEW F \in Nat, NEW o, IsTable(o, Corners(F)), NEW c \in Corners(F)
  PROVE  /\ c \in LeftCorners(o, c)
         /\ LeftCorners(o, c) \subseteq Corners(F)
         /\ LastOf(LeftFan(o, c)) \in LeftCorners(o, c)
         /\ \/ SwingLeft(o, LastOf(LeftFan(o, c))) < 0
            \/ SwingLeft(o, LastOf(LeftFan(o, c))) = c
         /\ \A d \in LeftCorners(o, c) :
               /\ d # LastOf(LeftFan(o, c)) => SwingLeft(o, d) \in LeftCorners(o, c)
               /\ d # c => SwingRight(o, d) \in LeftCorners(o, c)
         /\ SwingLeft(o, c) < 0 => LeftFan(o, c) = <<c>>
<1> DEFINE w == LeftFan(o, c)
           D == Corners(F)
           S == LeftCorners(o, c)
<1>1. IsWalk(LeftStep(o), D, c, w) /\ IsOver(LeftStep(o), c, w)
  BY LeftFanIsAWalk
<1>2. /\ w \in Seq(D) /\ Len(w) \in Nat /\ Len(w) >= 1 /\ w[1] = c
      /\ DOMAIN w = 1 .. Len(w) /\ \A i \in 1 .. Len(w) : w[i] \in D
  BY <1>1 DEF IsWalk
<1>3. D \in SUBSET Nat /\ DOMAIN o = D
  BY CornersAreFinite DEF IsTable
<1>4. \A d \in D : LeftStep(o)[d] = SwingLeft(o, d)
  BY <1>3 DEF LeftStep
<1>5. S = {w[i] : i \in 1 .. Len(w)}
  BY <1>2 DEF LeftCorners
<1> HIDE DEF w, S
<1>6. LastOf(w) = w[Len(w)] /\ w[Len(w)] \in D /\ Len(w) \in 1 .. Len(w) /\ 1 \in 1 .. Len(w)
  BY <1>2 DEF LastOf
<1>7. ASSUME NEW i \in 1 .. Len(w) - 1
      PROVE  /\ i \in 1 .. Len(w) /\ i + 1 \in 1 .. Len(w)
             /\ w[i + 1] = SwingLeft(o, w[i])
             /\ SwingRight(o, w[i + 1]) = w[i]
  <2>1. i \in 1 .. Len(w) /\ i + 1 \in 1 .. Len(w)
    BY <1>2
  <2>2. w[i] \in D /\ w[i + 1] \in D
    BY <1>2, <2>1
  <2>3. w[i + 1] = SwingLeft(o, w[i])
    BY <1>1, <1>4, <2>2 DEF IsWalk
  <2>4. SwingLeft(o, w[i]) >= 0
    BY <1>3, <2>2, <2>3
  <2> QED
    BY <2>1, <2>2, <2>3, <2>4, SwingsAreInverse
<1>8. ASSUME NEW d \in S
      PROVE  /\ d # LastOf(w) => SwingLeft(o, d) \in S
             /\ d # c => SwingRight(o, d) \in S
  <2>1. PICK i \in 1 .. Len(w) : d = w[i]
    BY <1>5
  <2>2. ASSUME d # LastOf(w) PROVE SwingLeft(o, d) \in S
    <3>1. i \in 1 .. Len(w) - 1
      BY <1>2, <1>6, <2>1, <2>2
    <3> QED
      BY <1>5, <1>7, <2>1, <3>1
  <2>3. ASSUME d # c PROVE SwingRight(o, d) \in S
    <3>1. i - 1 \in 1 .. Len(w) - 1 /\ (i - 1) + 1 = i
      BY <1>2, <2>1, <2>3
    <3> QED
      BY <1>5, <1>7, <2>1, <3>1
  <2> QED
    BY <2>2, <2>3
<1>9. SwingLeft(o, c) < 0 => w = <<c>>
  <2> SUFFICES ASSUME SwingLeft(o, c) < 0 PROVE w = <<c>>
    OBVIOUS
  <2>1. Len(w) = 1
    <3> SUFFICES ASSUME Len(w) # 1 PROVE FALSE
      OBVIOUS
    <3>1. 1 \in 1 .. Len(w) - 1
      BY <1>2
    <3>2. w[1 + 1] = SwingLeft(o, c) /\ w[1 + 1] \in D
      BY <1>2, <1>7, <3>1
    <3> QED
      BY <1>3, <3>2
  <2> QED
    BY <1>2, <2>1
<1>10. SwingLeft(o, LastOf(w)) < 0 \/ SwingLeft(o, LastOf(w)) = c
  BY <1>1, <1>4, <1>6 DEF IsOver
<1>11. c \in S /\ S \subseteq D /\ LastOf(w) \in S
  BY <1>2, <1>5, <1>6
<1> QED
  BY <1>8, <1>9, <1>10, <1>11 DEF w, S

LEMMA RightWalk ==
  ASSUME NEW F \in Nat, NEW o, IsTable(o, Corners(F)), NEW c \in Corners(F)
  PROVE  /\ c \in RightCorners(o, c)
         /\ RightCorners(o, c) \subseteq Corners(F)
         /\ LastOf(RightFan(o, c)) \in RightCorners(o, c)
         /\ \/ SwingRight(o, LastOf(RightFan(o, c))) < 0
            \/ SwingRight(o, LastOf(RightFan(o, c))) = c
         /\ \A d \in RightCorners(o, c) :
               /\ d # LastOf(RightFan(o, c)) => SwingRight(o, d) \in RightCorners(o, c)
               /\ d # c => SwingLeft(o, d) \in RightCorners(o, c)
<1> DEFINE w == RightFan(o, c)
           D == Corners(F)
           S == RightCorners(o, c)
<1>1. IsWalk(RightStep(o), D, c, w) /\ IsOver(RightStep(o), c, w)
  BY RightFanIsAWalk
<1>2. /\ w \in Seq(D) /\ Len(w) \in Nat /\ Len(w) >= 1 /\ w[1] = c
      /\ DOMAIN w = 1 .. Len(w) /\ \A i \in 1 .. Len(w) : w[i] \in D
  BY <1>1 DEF IsWalk
<1>3. D \in SUBSET Nat /\ DOMAIN o = D
  BY CornersAreFinite DEF IsTable
<1>4. \A d \in D : RightStep(o)[d] = SwingRight(o, d)
  BY <1>3 DEF RightStep
<1>5. S = {w[i] : i \in 1 .. Len(w)}
  BY <1>2 DEF RightCorners
<1> HIDE DEF w, S
<1>6. LastOf(w) = w[Len(w)] /\ w[Len(w)] \in D /\ Len(w) \in 1 .. Len(w) /\ 1 \in 1 .. Len(w)
  BY <1>2 DEF LastOf
<1>7. ASSUME NEW i \in 1 .. Len(w) - 1
      PROVE  /\ i \in 1 .. Len(w) /\ i + 1 \in 1 .. Len(w)
             /\ w[i + 1] = SwingRight(o, w[i])
             /\ SwingLeft(o, w[i + 1]) = w[i]
  <2>1. i \in 1 .. Len(w) /\ i + 1 \in 1 .. Len(w)
    BY <1>2
  <2>2. w[i] \in D /\ w[i + 1] \in D
    BY <1>2, <2>1
  <2>3. w[i + 1] = SwingRight(o, w[i])
    BY <1>1, <1>4, <2>2 DEF IsWalk
  <2>4. SwingRight(o, w[i]) >= 0
    BY <1>3, <2>2, <2>3
  <2> QED
    BY <2>1, <2>2, <2>3, <2>4, SwingsAreInverse
<1>8. ASSUME NEW d \in S
      PROVE  /\ d # LastOf(w) => SwingRight(o, d) \in S
             /\ d # c => SwingLeft(o, d) \in S
  <2>1. PICK i \in 1 .. Len(w) : d = w[i]
    BY <1>5
  <2>2. ASSUME d # LastOf(w) PROVE SwingRight(o, d) \in S
    <3>1. i \in 1 .. Len(w) - 1
      BY <1>2, <1>6, <2>1, <2>2
    <3> QED
      BY <1>5, <1>7, <2>1, <3>1
  <2>3. ASSUME d # c PROVE SwingLeft(o, d) \in S
    <3>1. i - 1 \in 1 .. Len(w) - 1 /\ (i - 1) + 1 = i
      BY <1>2, <2>1, <2>3
    <3> QED
      BY <1>5, <1>7, <2>1, <3>1
  <2> QED
    BY <2>2, <2>3
<1>9. SwingRight(o, LastOf(w)) < 0 \/ SwingRight(o, LastOf(w)) = c
  BY <1>1, <1>4, <1>6 DEF IsOver
<1>10. c \in S /\ S \subseteq D /\ LastOf(w) \in S
  BY <1>2, <1>5, <1>6
<1> QED
  BY <1>8, <1>9, <1>10 DEF w, S

(* A set of corners that no swing leaves.                                  *)
KeepsSwings(o, S) ==
  \A d \in S :
     /\ SwingLeft(o, d) >= 0 => SwingLeft(o, d) \in S
     /\ SwingRight(o, d) >= 0 => SwingRight(o, d) \in S

(* The fan of a corner: no swing leaves it, the corner is in it,           *)
LEMMA FanKeepsSwings ==
  ASSUME NEW F \in Nat, NEW o, IsTable(o, Corners(F)), NEW c \in Corners(F)
  PROVE  /\ c \in FanCorners(o, c)
         /\ FanCorners(o, c) \subseteq Corners(F)
         /\ KeepsSwings(o, FanCorners(o, c))
<1>1. FanCorners(o, c) = LeftCorners(o, c) \cup RightCorners(o, c)
  BY DEF FanCorners, LeftCorners, RightCorners
<1>0. FanCorners(o, c) \subseteq Corners(F)
  BY <1>1, LeftWalk, RightWalk
<1>2. ASSUME NEW d \in FanCorners(o, c), SwingLeft(o, d) >= 0
      PROVE  SwingLeft(o, d) \in FanCorners(o, c)
  <2>1. CASE d \in LeftCorners(o, c)
    <3>1. CASE d = LastOf(LeftFan(o, c))
      <4>1. SwingLeft(o, d) < 0 \/ SwingLeft(o, d) = c
        BY <3>1, LeftWalk
      <4>2. SwingLeft(o, d) # NoCorner /\ SwingLeft(o, d) \in Corners(F) \cup {NoCorner}
        BY <1>0, <1>2, SwingsAreInverse DEF NoCorner
      <4>3. SwingLeft(o, d) \in Nat
        BY <4>2, CornersAreFinite
      <4> QED
        BY <1>1, <4>1, <4>3, LeftWalk
    <3>2. CASE d # LastOf(LeftFan(o, c))
      BY <1>1, <2>1, <3>2, LeftWalk
    <3> QED
      BY <3>1, <3>2
  <2>2. CASE d \in RightCorners(o, c) /\ d # c
    BY <1>1, <2>2, RightWalk
  <2>3. c \in LeftCorners(o, c)
    BY LeftWalk
  <2> QED
    BY <1>1, <2>1, <2>2, <2>3
<1>3. ASSUME NEW d \in FanCorners(o, c), SwingRight(o, d) >= 0
      PROVE  SwingRight(o, d) \in FanCorners(o, c)
  <2>1. CASE d \in RightCorners(o, c)
    <3>1. CASE d = LastOf(RightFan(o, c))
      <4>1. SwingRight(o, d) < 0 \/ SwingRight(o, d) = c
        BY <3>1, RightWalk
      <4>2. SwingRight(o, d) # NoCorner /\ SwingRight(o, d) \in Corners(F) \cup {NoCorner}
        BY <1>0, <1>3, SwingsAreInverse DEF NoCorner
      <4>3. SwingRight(o, d) \in Nat
        BY <4>2, CornersAreFinite
      <4> QED
        BY <1>1, <4>1, <4>3, RightWalk
    <3>2. CASE d # LastOf(RightFan(o, c))
      BY <1>1, <2>1, <3>2, RightWalk
    <3> QED
      BY <3>1, <3>2
  <2>2. CASE d \in LeftCorners(o, c) /\ d # c
    BY <1>1, <2>2, LeftWalk
  <2>3. c \in RightCorners(o, c)
    BY RightWalk
  <2> QED
    BY <1>1, <2>1, <2>2, <2>3
<1> QED
  BY <1>1, <1>2, <1>3, LeftWalk, RightWalk DEF KeepsSwings

(* and it is within every such set: the first corner on a walk outside     *)
(* would be a swing away from one inside.                                  *)
LEMMA FanIsLeast ==
  ASSUME NEW F \in Nat, NEW o, IsTable(o, Corners(F)), NEW c \in Corners(F),
         NEW S, c \in S, KeepsSwings(o, S)
  PROVE  FanCorners(o, c) \subseteq S
<1> DEFINE D == Corners(F)
<1>1. D \in SUBSET Nat /\ DOMAIN o = D
  BY CornersAreFinite DEF IsTable
<1>2. \A d \in D : LeftStep(o)[d] = SwingLeft(o, d) /\ RightStep(o)[d] = SwingRight(o, d)
  BY <1>1 DEF LeftStep, RightStep
<1>3. ASSUME NEW step \in {LeftStep(o), RightStep(o)}, NEW w, IsWalk(step, D, c, w)
      PROVE  \A i \in 1 .. Len(w) : w[i] \in S
  <2> DEFINE Outside == {i \in 1 .. Len(w) : w[i] \notin S}
  <2>1. /\ Len(w) \in Nat /\ w[1] = c /\ \A i \in 1 .. Len(w) : w[i] \in D
        /\ \A i \in 1 .. Len(w) - 1 : w[i + 1] = step[w[i]]
    BY <1>3 DEF IsWalk
  <2> SUFFICES ASSUME Outside # {} PROVE FALSE
    OBVIOUS
  <2>2. PICK i \in Outside : \A k \in Outside : i <= k
    <3>1. Outside \in SUBSET Nat
      BY <2>1
    <3> HIDE DEF Outside
    <3> QED BY <3>1, LeastNumber
  <2>3. i - 1 \in 1 .. Len(w) - 1 /\ (i - 1) + 1 = i /\ i - 1 \in 1 .. Len(w) /\ ~ (i <= i - 1)
    BY <2>1, <2>2
  <2>4. w[i - 1] \in S /\ w[i - 1] \in D /\ w[i] = step[w[i - 1]] /\ w[i] \in Nat
    BY <1>1, <2>1, <2>2, <2>3
  <2> QED
    <3>1. w[i] = SwingLeft(o, w[i - 1]) \/ w[i] = SwingRight(o, w[i - 1])
      BY <1>2, <2>4
    <3>2. ASSUME NEW d \in S
          PROVE  /\ SwingLeft(o, d) >= 0 => SwingLeft(o, d) \in S
                 /\ SwingRight(o, d) >= 0 => SwingRight(o, d) \in S
      BY DEF KeepsSwings
    <3>3. w[i] >= 0
      BY <2>4
    <3> QED
      BY <2>2, <2>4, <3>1, <3>2, <3>3
<1>4. \A i \in 1 .. Len(LeftFan(o, c)) : LeftFan(o, c)[i] \in S
  BY <1>3, LeftFanIsAWalk
<1>5. \A i \in 1 .. Len(RightFan(o, c)) : RightFan(o, c)[i] \in S
  BY <1>3, RightFanIsAWalk
<1>6. DOMAIN LeftFan(o, c) = 1 .. Len(LeftFan(o, c)) /\ DOMAIN RightFan(o, c) = 1 .. Len(RightFan(o, c))
  <2>1. LeftFan(o, c) \in Seq(D) /\ RightFan(o, c) \in Seq(D)
    BY LeftFanIsAWalk, RightFanIsAWalk DEF IsWalk
  <2> QED
    BY <2>1
<1> QED
  BY <1>4, <1>5, <1>6 DEF FanCorners

(* The corners outside such a set are such a set too.                      *)
LEMMA RestKeepsSwings ==
  ASSUME NEW F \in Nat, NEW o, IsTable(o, Corners(F)),
         NEW S \in SUBSET Corners(F), KeepsSwings(o, S)
  PROVE  KeepsSwings(o, Corners(F) \ S)
<1> DEFINE D == Corners(F)
           Rest == D \ S
<1>1. ASSUME NEW d \in S
      PROVE  /\ SwingLeft(o, d) >= 0 => SwingLeft(o, d) \in S
             /\ SwingRight(o, d) >= 0 => SwingRight(o, d) \in S
  BY DEF KeepsSwings
<1>2. ASSUME NEW d \in Rest, SwingLeft(o, d) >= 0 PROVE SwingLeft(o, d) \in Rest
  <2>1. SwingLeft(o, d) \in D /\ SwingRight(o, SwingLeft(o, d)) = d /\ d >= 0
    BY <1>2, SwingsAreInverse, CornersAreFinite DEF NoCorner
  <2> QED
    BY <1>1, <2>1
<1>3. ASSUME NEW d \in Rest, SwingRight(o, d) >= 0 PROVE SwingRight(o, d) \in Rest
  <2>1. SwingRight(o, d) \in D /\ SwingLeft(o, SwingRight(o, d)) = d /\ d >= 0
    BY <1>3, SwingsAreInverse, CornersAreFinite DEF NoCorner
  <2> QED
    BY <1>1, <2>1
<1> QED
  BY <1>2, <1>3 DEF KeepsSwings

(* So the corners of the table fall into fans, whichever corner of a fan   *)
(* the walks start from.                                                   *)
LEMMA FansAreDisjoint ==
  ASSUME NEW F \in Nat, NEW o, IsTable(o, Corners(F)), NEW c \in Corners(F),
         NEW d \in FanCorners(o, c)
  PROVE  FanCorners(o, d) = FanCorners(o, c)
<1> DEFINE D == Corners(F)
<1>1. d \in D
  BY FanKeepsSwings
<1>2. FanCorners(o, d) \subseteq FanCorners(o, c)
  BY <1>1, FanKeepsSwings, FanIsLeast
<1>3. c \in FanCorners(o, d)
  <2> SUFFICES ASSUME c \notin FanCorners(o, d) PROVE FALSE
    OBVIOUS
  <2> DEFINE S == D \ FanCorners(o, d)
  <2>1. KeepsSwings(o, S)
    <3>1. FanCorners(o, d) \in SUBSET D /\ KeepsSwings(o, FanCorners(o, d))
      BY <1>1, FanKeepsSwings
    <3> QED
      BY <3>1, RestKeepsSwings
  <2>2. FanCorners(o, c) \subseteq S
    <3>1. c \in S
      OBVIOUS
    <3> HIDE DEF S
    <3> QED
      BY <2>1, <3>1, FanIsLeast
  <2> QED
    BY <1>1, <2>2, FanKeepsSwings
<1>4. FanCorners(o, c) \subseteq FanCorners(o, d)
  BY <1>1, <1>3, FanKeepsSwings, FanIsLeast
<1> QED
  BY <1>2, <1>4

(* The corners of a fan are corners of one vertex, when the corners across *)
(* an edge are across it for their vertices too.                           *)
LEMMA FanHasOneVertex ==
  ASSUME NEW F \in Nat, NEW o, IsTable(o, Corners(F)), NEW c \in Corners(F),
         NEW vertexOf,
         \A d \in Corners(F) : o[d] # NoCorner => FacesSameEdge(vertexOf, d, o[d])
  PROVE  \A d \in FanCorners(o, c) : vertexOf[d] = vertexOf[c]
<1> DEFINE D == Corners(F)
           S == {d \in D : vertexOf[d] = vertexOf[c]}
<1>1. DOMAIN o = D /\ NoCorner = -1 /\ D \in SUBSET Nat /\ \A d \in D : o[d] \in D \cup {NoCorner}
  BY CornersAreFinite DEF IsTable, NoCorner
<1>2. ASSUME NEW d \in S, SwingLeft(o, d) >= 0 PROVE SwingLeft(o, d) \in S
  <2> DEFINE n == NextCorner(d)
  <2>1. n \in D /\ PreviousCorner(n) = d /\ d >= 0 /\ n >= 0
    BY <1>1, CornerArithmetic, NextAndPrevious
  <2>2. SwingLeft(o, d) = NextIn(o[n])
    BY <1>1, <2>1 DEF SwingLeft, NextIn, At
  <2>3. o[n] \in D /\ o[n] # NoCorner
    BY <1>1, <1>2, <2>1, <2>2 DEF NextIn
  <2>4. SwingLeft(o, d) = NextCorner(o[n]) /\ NextCorner(o[n]) \in D
    BY <1>1, <2>2, <2>3, CornerArithmetic DEF NextIn
  <2>5. vertexOf[NextCorner(o[n])] = vertexOf[d]
    BY <2>1, <2>3 DEF FacesSameEdge
  <2> QED
    BY <2>4, <2>5
<1>3. ASSUME NEW d \in S, SwingRight(o, d) >= 0 PROVE SwingRight(o, d) \in S
  <2> DEFINE n == PreviousCorner(d)
  <2>1. n \in D /\ NextCorner(n) = d /\ d >= 0 /\ n >= 0
    BY <1>1, CornerArithmetic, NextAndPrevious
  <2>2. SwingRight(o, d) = PreviousIn(o[n])
    BY <1>1, <2>1 DEF SwingRight, PreviousIn, At
  <2>3. o[n] \in D /\ o[n] # NoCorner
    BY <1>1, <1>3, <2>1, <2>2 DEF PreviousIn
  <2>4. SwingRight(o, d) = PreviousCorner(o[n]) /\ PreviousCorner(o[n]) \in D
    BY <1>1, <2>2, <2>3, CornerArithmetic DEF PreviousIn
  <2>5. vertexOf[PreviousCorner(o[n])] = vertexOf[d]
    BY <2>1, <2>3 DEF FacesSameEdge
  <2> QED
    BY <2>4, <2>5
<1>4. KeepsSwings(o, S) /\ c \in S
  <2>1. c \in S
    OBVIOUS
  <2> HIDE DEF S
  <2> QED
    BY <1>2, <1>3, <2>1 DEF KeepsSwings
<1>5. FanCorners(o, c) \subseteq S
  <2> HIDE DEF S
  <2> QED BY <1>4, FanIsLeast
<1> QED
  BY <1>5

-----------------------------------------------------------------------------
(* The leftmost corner of a fan.                                           *)

(* A corner is stored well when it is where LeftMostFrom would move it.    *)
LEMMA LeftMostOfFan ==
  ASSUME NEW F \in Nat, NEW o, IsTable(o, Corners(F)), NEW c \in Corners(F)
  PROVE  /\ LastOf(LeftFan(o, c)) \in FanCorners(o, c)
         /\ LeftMostFrom(o, c) \in FanCorners(o, c)
         /\ LeftMostFrom(o, LastOf(LeftFan(o, c))) = LastOf(LeftFan(o, c))
         /\ LeftMostFrom(o, LeftMostFrom(o, c)) = LeftMostFrom(o, c)
<1> DEFINE D == Corners(F)
           m == LastOf(LeftFan(o, c))
<1>1. FanCorners(o, c) = LeftCorners(o, c) \cup RightCorners(o, c)
  BY DEF FanCorners, LeftCorners, RightCorners
<1>2. m \in FanCorners(o, c) /\ m \in D /\ c \in FanCorners(o, c)
  BY <1>1, LeftWalk, FanKeepsSwings
<1>3. D \in SUBSET Nat
  BY CornersAreFinite
<1>4. SwingLeft(o, m) < 0 \/ SwingLeft(o, m) = c
  BY LeftWalk
<1>5. LeftMostFrom(o, c) = IF SwingLeft(o, m) = c THEN c ELSE m
  BY <1>3 DEF LeftMostFrom, ClosedFan
<1>6. LeftMostFrom(o, m) = m
  <2> DEFINE k == LastOf(LeftFan(o, m))
  <2>1. LeftMostFrom(o, m) = IF SwingLeft(o, k) = m THEN m ELSE k
    BY <1>2, <1>3 DEF LeftMostFrom, ClosedFan
  <2>2. CASE SwingLeft(o, m) < 0
    <3>1. LeftFan(o, m) = <<m>>
      BY <1>2, <2>2, LeftWalk
    <3>2. k = m
      BY <3>1 DEF LastOf
    <3> QED
      BY <2>1, <3>2
  <2>3. CASE SwingLeft(o, m) = c
    <3> DEFINE S == LeftCorners(o, c)
    <3>1. S \subseteq D /\ m \in S /\ \A d \in S : SwingLeft(o, d) \in S
      BY <2>3, LeftWalk
    <3>2. LeftCorners(o, m) \subseteq S
      <4> DEFINE w == LeftFan(o, m)
                 Outside == {i \in 1 .. Len(w) : w[i] \notin S}
      <4>1. IsWalk(LeftStep(o), D, m, w)
        BY <1>2, LeftFanIsAWalk
      <4>2. /\ Len(w) \in Nat /\ w[1] = m /\ DOMAIN w = 1 .. Len(w)
            /\ \A i \in 1 .. Len(w) - 1 : w[i + 1] = LeftStep(o)[w[i]]
        BY <4>1 DEF IsWalk
      <4> HIDE DEF w
      <4>3. Outside = {}
        <5> SUFFICES ASSUME Outside # {} PROVE FALSE
          OBVIOUS
        <5>1. PICK i \in Outside : \A j \in Outside : i <= j
          <6>1. Outside \in SUBSET Nat
            BY <4>2
          <6> HIDE DEF Outside
          <6> QED BY <6>1, LeastNumber
        <5>2. i - 1 \in 1 .. Len(w) - 1 /\ (i - 1) + 1 = i /\ i - 1 \in 1 .. Len(w) /\ ~ (i <= i - 1)
          BY <3>1, <4>2, <5>1
        <5>3. w[i - 1] \in S /\ w[i] = LeftStep(o)[w[i - 1]]
          BY <4>2, <5>1, <5>2
        <5>4. LeftStep(o)[w[i - 1]] = SwingLeft(o, w[i - 1])
          BY <3>1, <5>3 DEF LeftStep, IsTable
        <5> QED
          BY <3>1, <5>1, <5>3, <5>4
      <4> QED
        BY <4>2, <4>3 DEF LeftCorners, w
    <3>3. k \in LeftCorners(o, m) /\ (SwingLeft(o, k) < 0 \/ SwingLeft(o, k) = m)
      BY <1>2, LeftWalk
    <3>4. SwingLeft(o, k) \in Nat
      BY <1>3, <3>1, <3>2, <3>3
    <3> QED
      BY <2>1, <3>3, <3>4
  <2> QED
    BY <1>4, <2>2, <2>3
<1>7. LeftMostFrom(o, LeftMostFrom(o, c)) = LeftMostFrom(o, c)
  BY <1>5, <1>6
<1> QED
  BY <1>2, <1>5, <1>6, <1>7

-----------------------------------------------------------------------------
(* The boundary.  An open fan has one rightmost and one leftmost corner.   *)

LEMMA OneRightmost ==
  ASSUME NEW F \in Nat, NEW o, IsTable(o, Corners(F)), NEW c \in Corners(F),
         NEW d \in FanCorners(o, c), SwingRight(o, c) < 0, SwingRight(o, d) < 0
  PROVE  d = c
<1> DEFINE S == LeftCorners(o, c)
           m == LastOf(LeftFan(o, c))
<1>1. /\ c \in S /\ S \subseteq Corners(F)
      /\ SwingLeft(o, m) < 0 \/ SwingLeft(o, m) = c
      /\ \A e \in S : /\ e # m => SwingLeft(o, e) \in S
                      /\ e # c => SwingRight(o, e) \in S
  BY LeftWalk
<1>2. \A n \in Corners(F) : ~ (n < 0)
  BY CornersAreFinite DEF Corners
<1>3. \A e \in S : SwingLeft(o, e) \in Int /\ SwingRight(o, e) \in Int
  BY <1>1, SwingsAreInverse, CornersAreFinite DEF NoCorner
<1> HIDE DEF S, m
<1>4. ASSUME NEW e \in S, SwingLeft(o, e) >= 0 PROVE SwingLeft(o, e) \in S
  BY <1>1, <1>3, <1>4
<1>5. ASSUME NEW e \in S, SwingRight(o, e) >= 0 PROVE SwingRight(o, e) \in S
  <2>1. e # c
    BY <1>3, <1>5
  <2> QED
    BY <1>1, <2>1
<1>6. KeepsSwings(o, S)
  BY <1>4, <1>5 DEF KeepsSwings
<1>7. d \in S
  BY <1>1, <1>6, FanIsLeast
<1> QED
  BY <1>1, <1>2, <1>7

LEMMA OneLeftmost ==
  ASSUME NEW F \in Nat, NEW o, IsTable(o, Corners(F)), NEW c \in Corners(F),
         NEW d \in FanCorners(o, c), SwingLeft(o, c) < 0, SwingLeft(o, d) < 0
  PROVE  d = c
<1> DEFINE S == RightCorners(o, c)
           m == LastOf(RightFan(o, c))
<1>1. /\ c \in S /\ S \subseteq Corners(F)
      /\ SwingRight(o, m) < 0 \/ SwingRight(o, m) = c
      /\ \A e \in S : /\ e # m => SwingRight(o, e) \in S
                      /\ e # c => SwingLeft(o, e) \in S
  BY RightWalk
<1>2. \A n \in Corners(F) : ~ (n < 0)
  BY CornersAreFinite DEF Corners
<1>3. \A e \in S : SwingLeft(o, e) \in Int /\ SwingRight(o, e) \in Int
  BY <1>1, SwingsAreInverse, CornersAreFinite DEF NoCorner
<1> HIDE DEF S, m
<1>4. ASSUME NEW e \in S, SwingRight(o, e) >= 0 PROVE SwingRight(o, e) \in S
  BY <1>1, <1>3, <1>4
<1>5. ASSUME NEW e \in S, SwingLeft(o, e) >= 0 PROVE SwingLeft(o, e) \in S
  <2>1. e # c
    BY <1>3, <1>5
  <2> QED
    BY <1>1, <2>1
<1>6. KeepsSwings(o, S)
  BY <1>4, <1>5 DEF KeepsSwings
<1>7. d \in S
  BY <1>1, <1>6, FanIsLeast
<1> QED
  BY <1>1, <1>2, <1>7

(* A swing crosses the edge a corner's neighbour in the face faces.        *)
LEMMA SwingsCrossEdges ==
  ASSUME NEW F \in Nat, NEW o, IsTable(o, Corners(F)), NEW d \in Corners(F)
  PROVE  /\ o[d] \in Corners(F) \/ o[d] = NoCorner
         /\ o[d] < 0 <=> o[d] = NoCorner
         /\ o[d] = NoCorner => /\ SwingRight(o, NextCorner(d)) = NoCorner
                               /\ SwingLeft(o, PreviousCorner(d)) = NoCorner
         /\ o[d] # NoCorner => /\ SwingRight(o, NextCorner(d)) = PreviousCorner(o[d])
                               /\ SwingLeft(o, PreviousCorner(d)) = NextCorner(o[d])
<1> DEFINE D == Corners(F)
<1>1. /\ DOMAIN o = D /\ NoCorner = -1 /\ o[d] \in D \cup {NoCorner}
  BY DEF IsTable, NoCorner
<1>2. \A e \in D : e \in Nat /\ ~ (e < 0)
  BY CornersAreFinite DEF Corners
<1>3. /\ NextCorner(d) \in D /\ PreviousCorner(d) \in D
      /\ PreviousCorner(NextCorner(d)) = d /\ NextCorner(PreviousCorner(d)) = d
  BY CornerArithmetic, NextAndPrevious
<1>4. /\ PreviousIn(NextCorner(d)) = d /\ NextIn(PreviousCorner(d)) = d /\ At(o, d) = o[d]
  BY <1>1, <1>2, <1>3 DEF PreviousIn, NextIn, At
<1>5. o[d] \in D => PreviousIn(o[d]) = PreviousCorner(o[d]) /\ NextIn(o[d]) = NextCorner(o[d])
  BY <1>2 DEF PreviousIn, NextIn
<1>6. PreviousIn(NoCorner) = NoCorner /\ NextIn(NoCorner) = NoCorner
  BY DEF PreviousIn, NextIn, NoCorner
<1>7. SwingRight(o, NextCorner(d)) = PreviousIn(o[d]) /\ SwingLeft(o, PreviousCorner(d)) = NextIn(o[d])
  BY <1>4 DEF SwingRight, SwingLeft
<1> QED
  BY <1>1, <1>2, <1>5, <1>6, <1>7

(* Turning around a vertex, by the edges crossed: across the edge d faces, *)
(* to the next edge of the face behind it, until there is none.            *)
Turns(o, turn) ==
  turn = [d \in DOMAIN o |-> IF o[d] < 0 THEN d ELSE turn[NextCorner(o[d])]]

LEMMA TurnExists ==
  ASSUME NEW F \in Nat, NEW o, IsTable(o, Corners(F))
  PROVE  \E turn : Turns(o, turn)
<1> DEFINE D == Corners(F)
           Rightmost(p) == {r \in FanCorners(o, p) : SwingRight(o, r) < 0}
           AnyOf(X) == CHOOSE r \in X : TRUE
           t == [d \in D |-> IF Rightmost(NextCorner(d)) = {} THEN NoCorner
                             ELSE PreviousCorner(AnyOf(Rightmost(NextCorner(d))))]
<1>1. DOMAIN o = D /\ NoCorner = -1
  BY DEF IsTable, NoCorner
<1>2. ASSUME NEW d \in D, o[d] < 0 PROVE t[d] = d
  <2> DEFINE p == NextCorner(d)
  <2>1. p \in D /\ PreviousCorner(p) = d
    BY CornerArithmetic, NextAndPrevious
  <2>2. SwingRight(o, p) = -1
    BY <1>1, <1>2, SwingsCrossEdges
  <2> HIDE DEF p
  <2>3. p \in FanCorners(o, p)
    BY <2>1, FanKeepsSwings
  <2>4. \A r \in Rightmost(p) : r = p
    BY <2>1, <2>2, OneRightmost
  <2>5. Rightmost(p) = {p}
    BY <2>2, <2>3, <2>4
  <2> HIDE DEF Rightmost
  <2>6. AnyOf({p}) = p
    OBVIOUS
  <2> HIDE DEF AnyOf
  <2>7. t[d] = PreviousCorner(AnyOf(Rightmost(p)))
    BY <2>5 DEF p
  <2> QED
    BY <2>1, <2>5, <2>6, <2>7
<1>3. ASSUME NEW d \in D, ~ (o[d] < 0) PROVE NextCorner(o[d]) \in D /\ t[d] = t[NextCorner(o[d])]
  <2> DEFINE q == NextCorner(o[d])
             p == NextCorner(d)
  <2>1. o[d] \in D /\ SwingRight(o, p) = PreviousCorner(o[d])
    BY <1>1, <1>3, SwingsCrossEdges
  <2>2. p \in D /\ q \in D /\ NextCorner(q) = PreviousCorner(o[d]) /\ NextCorner(q) \in D
    BY <2>1, CornerArithmetic, NextAndPrevious
  <2> HIDE DEF p, q
  <2>3. NextCorner(q) \in FanCorners(o, p)
    <3>1. SwingRight(o, p) >= 0
      BY <2>1, <2>2, CornersAreFinite
    <3>2. p \in FanCorners(o, p) /\ KeepsSwings(o, FanCorners(o, p))
      BY <2>2, FanKeepsSwings
    <3> QED
      BY <2>1, <2>2, <3>1, <3>2 DEF KeepsSwings
  <2>4. FanCorners(o, NextCorner(q)) = FanCorners(o, p)
    BY <2>2, <2>3, FansAreDisjoint
  <2>5. Rightmost(NextCorner(q)) = Rightmost(p)
    BY <2>4
  <2> HIDE DEF Rightmost, AnyOf
  <2> QED
    BY <2>2, <2>5 DEF p, q
<1> HIDE DEF t
<1>4. t = [d \in D |-> t[d]]
  BY DEF t
<1>5. \A d \in D : t[d] = IF o[d] < 0 THEN d ELSE t[NextCorner(o[d])]
  BY <1>2, <1>3
<1>6. Turns(o, t)
  BY <1>1, <1>4, <1>5 DEF Turns
<1> QED
  BY <1>6

(* Where a fan has an open edge on its right, the walk to the right ends   *)
(* there, from any of its corners.                                         *)
LEMMA RightmostOfFan ==
  ASSUME NEW F \in Nat, NEW o, IsTable(o, Corners(F)), NEW c \in Corners(F),
         NEW e \in FanCorners(o, c), SwingRight(o, e) < 0
  PROVE  LastOf(RightFan(o, c)) = e
<1> DEFINE S == RightCorners(o, c)
           r == LastOf(RightFan(o, c))
<1>1. /\ c \in S /\ r \in S /\ S \subseteq Corners(F)
      /\ SwingRight(o, r) < 0 \/ SwingRight(o, r) = c
      /\ \A d \in S : /\ d # r => SwingRight(o, d) \in S
                      /\ d # c => SwingLeft(o, d) \in S
  BY RightWalk
<1>2. \A n \in Corners(F) : n \in Nat /\ ~ (n < 0) /\ n >= 0
  BY CornersAreFinite DEF Corners
<1>3. \A d \in S : SwingLeft(o, d) \in Int /\ SwingRight(o, d) \in Int
  BY <1>1, SwingsAreInverse, CornersAreFinite DEF NoCorner
<1>4. r \in FanCorners(o, c)
  <2>1. S \subseteq FanCorners(o, c)
    BY DEF FanCorners, RightCorners
  <2> HIDE DEF S, r
  <2> QED
    BY <1>1, <2>1
<1>5. SwingRight(o, r) = c => SwingLeft(o, c) = r
  BY <1>1, <1>2, SwingsAreInverse
<1> HIDE DEF S, r
<1>6. SwingRight(o, r) < 0
  <2> SUFFICES ASSUME SwingRight(o, r) = c PROVE FALSE
    BY <1>1
  <2>1. \A d \in S : SwingRight(o, d) \in S /\ SwingLeft(o, d) \in S
    BY <1>1, <1>5
  <2>2. KeepsSwings(o, S)
    BY <2>1 DEF KeepsSwings
  <2>3. e \in S
    BY <1>1, <2>2, FanIsLeast
  <2>4. SwingRight(o, e) \in Corners(F)
    BY <1>1, <2>1, <2>3
  <2> QED
    BY <1>2, <2>4
<1>7. r \in Corners(F) /\ e \in FanCorners(o, r)
  BY <1>1, <1>4, FansAreDisjoint
<1> QED
  BY <1>6, <1>7, OneRightmost DEF r

(* A fan that is open on its left is open on its right.                    *)
LEMMA OpenFanHasRightmost ==
  ASSUME NEW F \in Nat, NEW o, IsTable(o, Corners(F)), NEW c \in Corners(F),
         SwingLeft(o, c) < 0
  PROVE  \E e \in FanCorners(o, c) : SwingRight(o, e) < 0
<1> DEFINE r == LastOf(RightFan(o, c))
<1>1. /\ r \in RightCorners(o, c) /\ RightCorners(o, c) \subseteq Corners(F)
      /\ SwingRight(o, r) < 0 \/ SwingRight(o, r) = c
  BY RightWalk
<1> HIDE DEF r
<1>2. r \in Corners(F) /\ r \in FanCorners(o, c)
  BY <1>1 DEF FanCorners, RightCorners
<1>3. c >= 0 /\ r >= 0 /\ ~ (r < 0)
  BY <1>2, CornersAreFinite
<1>4. SwingRight(o, r) = c => SwingLeft(o, c) = r
  BY <1>2, <1>3, SwingsAreInverse
<1>5. SwingRight(o, r) < 0
  BY <1>1, <1>3, <1>4
<1> QED
  BY <1>2, <1>5

(* Turning inside a fan that has an open edge on its right ends there.     *)
LEMMA TurnFinds ==
  ASSUME NEW F \in Nat, NEW o, IsTable(o, Corners(F)), NEW turn, Turns(o, turn),
         NEW d \in Corners(F),
         NEW e \in FanCorners(o, NextCorner(d)), SwingRight(o, e) < 0
  PROVE  /\ turn[d] = PreviousCorner(e)
         /\ turn[d] \in Corners(F) /\ o[turn[d]] = NoCorner
         /\ NextCorner(turn[d]) = e
<1> DEFINE D == Corners(F)
           p == NextCorner(d)
           S == {x \in D : turn[PreviousCorner(x)] = turn[d]}
<1>1. DOMAIN o = D /\ NoCorner = -1 /\ \A x \in D : x \in Nat
  BY CornersAreFinite DEF IsTable, NoCorner
<1>2. p \in D /\ PreviousCorner(p) = d
  BY CornerArithmetic, NextAndPrevious
<1> HIDE DEF p
<1>3. e \in FanCorners(o, p) /\ e \in D
  <2>1. FanCorners(o, p) \subseteq D
    BY <1>2, FanKeepsSwings
  <2> QED
    BY <2>1 DEF p
<1>5. ASSUME NEW x \in D, SwingRight(o, x) >= 0
      PROVE  turn[PreviousCorner(SwingRight(o, x))] = turn[PreviousCorner(x)]
  <2> DEFINE y == PreviousCorner(x)
  <2>1. y \in D /\ NextCorner(y) = x
    BY CornerArithmetic, NextAndPrevious
  <2> HIDE DEF y
  <2>2. o[y] \in D /\ SwingRight(o, x) = PreviousCorner(o[y])
    BY <1>1, <1>5, <2>1, SwingsCrossEdges
  <2>3. PreviousCorner(PreviousCorner(o[y])) = NextCorner(o[y]) /\ ~ (o[y] < 0)
    BY <1>1, <2>2, NextAndPrevious
  <2>4. turn[y] = turn[NextCorner(o[y])]
    BY <1>1, <2>1, <2>3 DEF Turns
  <2> QED
    BY <2>2, <2>3, <2>4 DEF y
<1>6. KeepsSwings(o, S)
  <2>1. ASSUME NEW x \in S, SwingRight(o, x) >= 0 PROVE SwingRight(o, x) \in S
    <3>1. x \in D /\ SwingRight(o, x) \in D \cup {NoCorner}
      BY SwingsAreInverse
    <3> QED
      BY <1>1, <1>5, <2>1, <3>1
  <2>2. ASSUME NEW x \in S, SwingLeft(o, x) >= 0 PROVE SwingLeft(o, x) \in S
    <3> DEFINE y == SwingLeft(o, x)
    <3>1. x \in D /\ x >= 0
      BY <1>1
    <3>2. y \in D \cup {NoCorner} /\ SwingRight(o, y) = x
      BY <2>2, <3>1, SwingsAreInverse
    <3>3. y >= 0
      BY <2>2
    <3> HIDE DEF y
    <3>4. y \in D
      BY <1>1, <3>2, <3>3
    <3>5. turn[PreviousCorner(x)] = turn[PreviousCorner(y)]
      BY <1>5, <3>1, <3>2, <3>4
    <3>6. y \in S
      BY <3>4, <3>5
    <3> QED
      BY <3>6 DEF y
  <2> QED
    BY <2>1, <2>2 DEF KeepsSwings
<1>7. e \in S
  <2>1. p \in S
    BY <1>2
  <2> HIDE DEF S
  <2> QED
    BY <1>2, <1>3, <1>6, <2>1, FanIsLeast
<1> DEFINE b == PreviousCorner(e)
<1>8. b \in D /\ NextCorner(b) = e
  BY <1>3, CornerArithmetic, NextAndPrevious
<1>9. turn[b] = turn[d]
  BY <1>7
<1> HIDE DEF b
<1>10. o[b] = NoCorner
  <2>1. o[b] # NoCorner => o[b] \in D /\ SwingRight(o, e) = PreviousCorner(o[b])
    BY <1>8, SwingsCrossEdges
  <2>2. o[b] \in D => PreviousCorner(o[b]) \in Nat
    BY <1>1, CornerArithmetic
  <2> QED
    BY <2>1, <2>2
<1>11. turn[b] = b
  <2>1. o[b] < 0
    BY <1>1, <1>10
  <2> QED
    BY <1>1, <1>8, <2>1 DEF Turns
<1> QED
  BY <1>8, <1>9, <1>10, <1>11 DEF b

(* From a boundary corner the turn ends at the boundary corner that faces  *)
(* the other open edge of the fan.                                         *)
LEMMA TurnEnds ==
  ASSUME NEW F \in Nat, NEW o, IsTable(o, Corners(F)), NEW turn, Turns(o, turn),
         NEW c \in Corners(F), o[c] = NoCorner
  PROVE  /\ turn[NextCorner(c)] \in Corners(F)
         /\ o[turn[NextCorner(c)]] = NoCorner
         /\ NextCorner(turn[NextCorner(c)]) \in FanCorners(o, PreviousCorner(c))
<1> DEFINE p == PreviousCorner(c)
           d == NextCorner(c)
<1>1. p \in Corners(F) /\ d \in Corners(F) /\ NextCorner(d) = p /\ SwingLeft(o, p) < 0
  BY CornerArithmetic, NextAndPrevious, SwingsCrossEdges DEF NoCorner
<1> HIDE DEF p, d
<1>2. PICK e \in FanCorners(o, p) : SwingRight(o, e) < 0
  BY <1>1, OpenFanHasRightmost
<1>3. turn[d] \in Corners(F) /\ o[turn[d]] = NoCorner /\ NextCorner(turn[d]) = e
  BY <1>1, <1>2, TurnFinds
<1> QED
  BY <1>2, <1>3 DEF p, d

=============================================================================
