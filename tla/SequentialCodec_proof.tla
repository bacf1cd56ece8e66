------------------------ MODULE SequentialCodec_proof ------------------------
(***************************************************************************)
(* What the sequential codec sends comes back, for every attribute, mesh   *)
(* and width of a word, wherever both sides predict alike and no sum turns *)
(* over (Faithful); the corners come back in any case.                     *)
(*                                                                         *)
(* The argument is the one the code relies on without saying so.  A        *)
(* prediction looks at earlier entries only, so that the encoder, which    *)
(* has all values, and the decoder, which has those, predict the same      *)
(* (PredictionLooksBack); the wrap transform loses nothing as long as they *)
(* do (WrapIsReversible); and the lists of flags are stacks, filled from   *)
(* the last entry to the first and emptied from the first to the last      *)
(* (FlagsComeBack).  history is what ties the two walks together.          *)
(***************************************************************************)
EXTENDS SequentialCodec, SequenceTheorems, FiniteSetTheorems, TLAPS

-----------------------------------------------------------------------------
(* The wrap transform loses nothing, for a word of any width.              *)

(* The numbers without sign are the numbers with sign, one for one:        *)
(* convertSignedIntToSymbol fills the word convertSymbolToSignedInt reads. *)
THEOREM SymbolsAreReversible ==
  ASSUME NEW v \in Int32
  PROVE  /\ ToSymbol(v) \in 0 .. 2 * HalfRange - 1
         /\ FromSymbol(ToSymbol(v)) = v
<1>1. HalfRange \in Nat
  BY HalfRangeAssumption
<1>2. CASE v >= 0
  <2>1. ToSymbol(v) = 2 * v
    BY <1>2 DEF ToSymbol
  <2>2. (2 * v) % 2 = 0 /\ (2 * v) \div 2 = v
    BY <1>1 DEF Int32
  <2>3. FromSymbol(2 * v) = v
    BY <2>2 DEF FromSymbol
  <2> QED
    BY <1>1, <1>2, <2>1, <2>3 DEF Int32
<1>3. CASE v < 0
  <2> DEFINE w == -(v + 1)
  <2>1. w \in Nat /\ ToSymbol(v) = 2 * w + 1
    BY <1>1, <1>3 DEF ToSymbol, Int32
  <2> HIDE DEF w
  <2>2. (2 * w + 1) % 2 = 1 /\ (2 * w + 1) \div 2 = w
    BY <2>1
  <2>3. FromSymbol(2 * w + 1) = -w - 1
    BY <2>2 DEF FromSymbol
  <2>4. w = -(v + 1)
    BY DEF w
  <2> QED
    BY <1>1, <1>3, <2>1, <2>3, <2>4 DEF Int32
<1> QED
  BY <1>1, <1>2, <1>3 DEF Int32

(* The half of a span, as the code rounds it.                              *)
LEMMA HalfOfSpan ==
  ASSUME NEW n \in Nat
  PROVE  /\ n \div 2 \in Nat
         /\ 2 * (n \div 2) = n \/ 2 * (n \div 2) = n - 1
  OBVIOUS

(* What the bounds of the corrections amount to: they cover one turn.      *)
LEMMA CorrectionsCoverTheRange ==
  ASSUME NEW min \in Int32, NEW max \in Int32, ~RangeIsRefused(min, max)
  PROVE  LET t == Wrap(min, max)
         IN  /\ t.minValue = min
             /\ t.maxValue = max
             /\ t.maxDif = max - min + 1
             /\ t.minCorrection \in Int
             /\ t.maxCorrection \in Int
             /\ t.minCorrection <= 0
             /\ t.maxCorrection >= 0
             /\ t.maxCorrection - t.minCorrection + 1 = t.maxDif
             /\ t.maxDif < HalfRange
             /\ 2 * t.maxCorrection < t.maxDif
             /\ -2 * t.minCorrection <= t.maxDif
<1>1. HalfRange \in Nat /\ min \in Int /\ max \in Int
  BY HalfRangeAssumption DEF Int32
<1> DEFINE n == max - min + 1
           half == n \div 2
<1>2. n \in Nat /\ n >= 1 /\ n < HalfRange
  BY <1>1 DEF RangeIsRefused
<1>3. /\ half \in Nat
      /\ 2 * half = n \/ 2 * half = n - 1
  BY <1>2, HalfOfSpan
<1>4. Wrap(min, max) =
        [minValue |-> min, maxValue |-> max, maxDif |-> n, minCorrection |-> -half,
         maxCorrection |-> IF n = 2 * half THEN half - 1 ELSE half]
  BY DEF Wrap
<1> HIDE DEF n, half
<1>5. n = max - min + 1
  BY DEF n
<1> QED
  BY <1>1, <1>2, <1>3, <1>4, <1>5

(* Whatever the prediction, it is used as a value of the range.            *)
LEMMA ClampedIsInRange ==
  ASSUME NEW min \in Int32, NEW max \in Int32, ~RangeIsRefused(min, max), NEW p
  PROVE  Clamped(Wrap(min, max), p) \in min .. max
<1>1. min \in Int /\ max \in Int /\ min <= max
  BY HalfRangeAssumption DEF Int32, RangeIsRefused
<1>2. Wrap(min, max).minValue = min /\ Wrap(min, max).maxValue = max
  BY CorrectionsCoverTheRange
<1> QED
  BY <1>1, <1>2 DEF Clamped

(* Corrections are small: ComputeCorrection (wrap.go:107) sends a number   *)
(* between the two bounds, so that its symbol is less than the span of the *)
(* values, whatever was predicted.                                         *)
THEOREM CorrectionsAreSmall ==
  ASSUME NEW min \in Int32, NEW max \in Int32, ~RangeIsRefused(min, max),
         NEW v \in min .. max, NEW p
  PROVE  LET t == Wrap(min, max)
         IN  /\ Correction(t, v, p) \in t.minCorrection .. t.maxCorrection
             /\ Correction(t, v, p) \in Int32
             /\ ToSymbol(Correction(t, v, p)) \in 0 .. t.maxDif - 1
<1> DEFINE t == Wrap(min, max)
           c == Clamped(t, p)
<1>1. HalfRange \in Nat /\ min \in Int /\ max \in Int /\ v \in Int /\ min <= v /\ v <= max
  BY HalfRangeAssumption DEF Int32
<1>2. c \in Int /\ min <= c /\ c <= max
  BY <1>1, ClampedIsInRange
<1>3. /\ t.maxDif = max - min + 1
      /\ t.minCorrection \in Int /\ t.maxCorrection \in Int
      /\ t.minCorrection <= 0 /\ t.maxCorrection >= 0
      /\ t.maxCorrection - t.minCorrection + 1 = t.maxDif
      /\ t.maxDif < HalfRange
      /\ 2 * t.maxCorrection < t.maxDif
      /\ -2 * t.minCorrection <= t.maxDif
  BY CorrectionsCoverTheRange
<1> HIDE DEF t, c
<1>4. AsInt32(v - c) = v - c
  BY <1>1, <1>2, <1>3 DEF AsInt32
<1>5. Correction(t, v, p) =
        IF v - c < t.minCorrection THEN AsInt32(v - c + t.maxDif)
        ELSE IF v - c > t.maxCorrection THEN AsInt32(v - c - t.maxDif) ELSE v - c
  BY <1>4 DEF Correction, c
<1>6. Correction(t, v, p) \in t.minCorrection .. t.maxCorrection
  BY <1>1, <1>2, <1>3, <1>5 DEF AsInt32
<1>7. Correction(t, v, p) \in Int32
  BY <1>1, <1>3, <1>6 DEF Int32
<1>8. ToSymbol(Correction(t, v, p)) \in 0 .. t.maxDif - 1
  BY <1>3, <1>6 DEF ToSymbol
<1> QED
  BY <1>6, <1>7, <1>8 DEF t

(* Where there is room in the word, ComputeOriginalValue (wrap.go:119)     *)
(* undoes ComputeCorrection (wrap.go:107): with the same prediction on     *)
(* both sides the value comes back, whether or not the prediction was any  *)
(* good.                                                                   *)
THEOREM WrapIsReversible ==
  ASSUME NEW min \in Int32, NEW max \in Int32, ~RangeIsRefused(min, max),
         RoomForCorrections(Wrap(min, max)),
         NEW v \in min .. max, NEW p
  PROVE  LET t == Wrap(min, max)
         IN  OriginalValue(t, p, Correction(t, v, p)) = v
<1> DEFINE t == Wrap(min, max)
           c == Clamped(t, p)
           d == Correction(t, v, p)
<1>1. /\ HalfRange \in Nat /\ min \in Int /\ max \in Int /\ v \in Int
      /\ min <= v /\ v <= max /\ -HalfRange <= min /\ max < HalfRange
  BY HalfRangeAssumption DEF Int32
<1>2. c \in Int /\ min <= c /\ c <= max
  BY <1>1, ClampedIsInRange
<1>3. /\ t.minValue = min /\ t.maxValue = max
      /\ t.maxDif = max - min + 1
      /\ t.minCorrection \in Int /\ t.maxCorrection \in Int
      /\ t.minCorrection <= 0 /\ t.maxCorrection >= 0
      /\ t.maxDif < HalfRange
  BY CorrectionsCoverTheRange
<1>4. d \in Int /\ t.minCorrection <= d /\ d <= t.maxCorrection
  BY <1>3, CorrectionsAreSmall
<1>5. /\ max + t.maxCorrection < HalfRange
      /\ min + t.minCorrection >= -HalfRange
  BY <1>3 DEF RoomForCorrections
<1> HIDE DEF t, c
<1>6. AsInt32(v - c) = v - c
  BY <1>1, <1>2, <1>3 DEF AsInt32
<1> HIDE DEF d
<1>7. d = v - c \/ d = v - c + t.maxDif \/ d = v - c - t.maxDif
  <2>1. d = IF v - c < t.minCorrection THEN AsInt32(v - c + t.maxDif)
            ELSE IF v - c > t.maxCorrection THEN AsInt32(v - c - t.maxDif) ELSE v - c
    BY <1>6 DEF Correction, c, d
  <2>2. v - c < t.minCorrection => AsInt32(v - c + t.maxDif) = v - c + t.maxDif
    BY <1>1, <1>2, <1>3 DEF AsInt32
  <2>3. v - c > t.maxCorrection => AsInt32(v - c - t.maxDif) = v - c - t.maxDif
    BY <1>1, <1>2, <1>3 DEF AsInt32
  <2> QED
    BY <2>1, <2>2, <2>3
<1>8. AsInt32(c + d) = c + d
  BY <1>1, <1>2, <1>3, <1>4, <1>5 DEF AsInt32
<1>9. OriginalValue(t, p, d) =
        IF AsInt32(c + d) > t.maxValue THEN AsInt32(AsInt32(c + d) - t.maxDif)
        ELSE IF AsInt32(c + d) < t.minValue THEN AsInt32(AsInt32(c + d) + t.maxDif)
        ELSE AsInt32(c + d)
  BY DEF OriginalValue, c
<1>10. OriginalValue(t, p, d) = v
  <2>1. CASE c + d > max
    <3>1. OriginalValue(t, p, d) = AsInt32(c + d - t.maxDif)
      BY <2>1, <1>1, <1>2, <1>3, <1>4, <1>8, <1>9
    <3> QED
      BY <2>1, <3>1, <1>1, <1>2, <1>3, <1>7 DEF AsInt32
  <2>2. CASE c + d < min
    <3>1. OriginalValue(t, p, d) = AsInt32(c + d + t.maxDif)
      BY <2>2, <1>1, <1>2, <1>3, <1>4, <1>8, <1>9
    <3> QED
      BY <2>2, <3>1, <1>1, <1>2, <1>3, <1>7 DEF AsInt32
  <2>3. CASE ~(c + d > max) /\ ~(c + d < min)
    <3>1. OriginalValue(t, p, d) = c + d
      BY <2>3, <1>3, <1>8, <1>9
    <3> QED
      BY <2>3, <3>1, <1>1, <1>2, <1>3, <1>7
  <2> QED
    BY <2>1, <2>2, <2>3
<1> QED
  BY <1>10 DEF t, d

-----------------------------------------------------------------------------
(* Numbers and bytes.                                                      *)

LEMMA SmallRemainder ==
  ASSUME NEW a \in Nat, NEW b \in Nat, a < b
  PROVE  a % b = a
  OBVIOUS

(* The width chosen for raw symbols is one that fits them all.             *)
LEMMA RawBytesKeepSymbols ==
  ASSUME NEW D, NEW s \in [D -> 0 .. 2 * HalfRange - 1]
  PROVE  RawWidth(s) \in 1 .. 4 /\ RawBytes(s, RawWidth(s)) = s
<1> DEFINE Fits(k) == \A e \in DOMAIN s : s[e] < FitIn[k]
           Needed(k) == Fits(k) /\ \A j \in 1 .. k - 1 : \E e \in DOMAIN s : s[e] >= FitIn[j]
<1>1. \A k \in 1 .. 4 : FitIn[k] \in Nat
  BY FitInAssumption
<1>2. /\ DOMAIN s = D
      /\ \A e \in D : s[e] \in Nat /\ s[e] < 2 * HalfRange
  BY HalfRangeAssumption
<1>3. Fits(4)
  <2> SUFFICES ASSUME NEW e \in D PROVE s[e] < FitIn[4]
    BY <1>2
  <2> QED
    BY <1>1, <1>2, FitInAssumption, HalfRangeAssumption
<1>4. \A j \in 1 .. 4 : ~Fits(j) => \E e \in DOMAIN s : s[e] >= FitIn[j]
  BY <1>1, <1>2
<1>5. \E k \in 1 .. 4 : Needed(k)
  <2> HIDE DEF Fits
  <2>1. CASE Fits(1)
    <3>1. 1 .. 1 - 1 = {}
      OBVIOUS
    <3> QED
      BY <2>1, <3>1
  <2>2. CASE ~Fits(1) /\ Fits(2)
    <3>1. 1 .. 2 - 1 = {1}
      OBVIOUS
    <3> QED
      BY <2>2, <3>1, <1>4
  <2>3. CASE ~Fits(1) /\ ~Fits(2) /\ Fits(3)
    <3>1. 1 .. 3 - 1 = {1, 2}
      OBVIOUS
    <3> QED
      BY <2>3, <3>1, <1>4
  <2>4. CASE ~Fits(1) /\ ~Fits(2) /\ ~Fits(3)
    <3>1. 1 .. 4 - 1 = {1, 2, 3}
      OBVIOUS
    <3> QED
      BY <2>4, <3>1, <1>3, <1>4
  <2> QED
    BY <2>1, <2>2, <2>3, <2>4
<1> DEFINE w == RawWidth(s)
<1>6. w \in 1 .. 4 /\ Fits(w)
  BY <1>5 DEF RawWidth
<1> HIDE DEF w
<1>7. \A e \in D : s[e] % FitIn[w] = s[e]
  BY <1>1, <1>2, <1>6, SmallRemainder
<1>8. RawBytes(s, w) = [e \in D |-> s[e]]
  BY <1>2, <1>7 DEF RawBytes
<1> QED
  BY <1>6, <1>8 DEF w

(* A difference of indices and its sign fit in one number.                 *)
LEMMA DifferencesComeBack ==
  ASSUME NEW d \in Int
  PROVE  DifferenceOf(DifferenceSymbol(d)) = d
<1>1. CASE d < 0
  <2> DEFINE n == -d
  <2>1. n \in Nat /\ DifferenceSymbol(d) = 2 * n + 1
    BY <1>1 DEF DifferenceSymbol
  <2> HIDE DEF n
  <2>2. (2 * n + 1) % 2 = 1 /\ (2 * n + 1) \div 2 = n
    BY <2>1
  <2>3. DifferenceOf(2 * n + 1) = -n
    BY <2>2 DEF DifferenceOf
  <2> QED
    BY <2>1, <2>3 DEF n
<1>2. CASE d >= 0
  <2>1. DifferenceSymbol(d) = 2 * d
    BY <1>2 DEF DifferenceSymbol
  <2>2. (2 * d) % 2 = 0 /\ (2 * d) \div 2 = d
    BY <1>2
  <2> QED
    BY <2>1, <2>2 DEF DifferenceOf
<1> QED
  BY <1>1, <1>2

-----------------------------------------------------------------------------
(* Predictions.                                                            *)

(* A prediction looks at entries before its own only: whoever agrees on    *)
(* those predicts the same.                                                *)
LEMMA PredictionsLookBack ==
  ASSUME NEW by, NEW ctx, NEW e \in Nat, NEW u, NEW v, \A i \in 0 .. e - 1 : u[i] = v[i]
  PROVE  PredictionsFor(by, ctx, e, u) = PredictionsFor(by, ctx, e, v)
<1>1. ASSUME NEW c
      PROVE  Offer(ctx, e, u, c) = Offer(ctx, e, v, c)
  BY DEF Offer, Known
<1>2. Offers(ctx, e, u) = Offers(ctx, e, v)
  BY <1>1 DEF Offers
<1> QED
  BY <1>2 DEF PredictionsFor, Predictions

LEMMA PredictionLooksBack ==
  ASSUME NEW by, NEW ctx, NEW e \in Nat, NEW u, NEW v, NEW crease,
         \A i \in 0 .. e - 1 : u[i] = v[i]
  PROVE  Prediction(by, ctx, e, u, crease) = Prediction(by, ctx, e, v, crease)
<1>1. PredictionsFor(by, ctx, e, u) = PredictionsFor(by, ctx, e, v)
  BY PredictionsLookBack
<1>2. Previous(e, u) = Previous(e, v)
  BY DEF Previous
<1> QED
  BY <1>1, <1>2 DEF Prediction

(* There are at most four predictions, and one where there is not none.    *)
LEMMA FewPredictions ==
  ASSUME NEW by, NEW ctx, NEW e, NEW u
  PROVE  LET p == PredictionsFor(by, ctx, e, u)
         IN  /\ HowMany(p) \in 0 .. 4
             /\ p = <<>> <=> HowMany(p) = 0
<1> DEFINE p == PredictionsFor(by, ctx, e, u)
<1>1. CASE p = <<>>
  <2>1. DOMAIN p = {}
    BY <1>1
  <2> QED
    BY <1>1, <2>1, FS_EmptySet DEF HowMany
<1>2. CASE p # <<>>
  <2> DEFINE s == FlattenSeq(Offers(ctx, e, u))
             D == DOMAIN s \cap 1 .. 4
  <2>1. p = [i \in D |-> s[i]]
    BY <1>2 DEF PredictionsFor, Predictions, FirstFour, maxConstrainedMultiParallelograms
  <2> HIDE DEF s
  <2>2. DOMAIN p = D /\ D \subseteq 1 .. 4
    BY <2>1
  <2>3. D # {}
    BY <1>2, <2>1
  <2>4. IsFiniteSet(1 .. 4) /\ Cardinality(1 .. 4) = 4
    <3>1. IsFiniteSet(1 .. 4) /\ Cardinality(1 .. 4) = IF 1 > 4 THEN 0 ELSE 4 - 1 + 1
      <4>1. 1 \in Int /\ 4 \in Int
        OBVIOUS
      <4> QED
        BY <4>1, FS_Interval, Zenon
    <3> QED
      BY <3>1
  <2>5. IsFiniteSet(D) /\ Cardinality(D) \in Nat /\ Cardinality(D) <= 4
    BY <2>4, FS_Subset, FS_CardinalityType
  <2>6. Cardinality(D) # 0
    BY <2>3, <2>5, FS_EmptySet
  <2> QED
    BY <1>2, <2>2, <2>5, <2>6 DEF HowMany
<1> QED
  BY <1>1, <1>2

-----------------------------------------------------------------------------
(* Flags.                                                                  *)

LEMMA IsOfLength ==
  ASSUME NEW S, NEW n \in Nat, NEW f \in [1 .. n -> S]
  PROVE  f \in Seq(S) /\ Len(f) = n
<1>1. f \in Seq(S)
  BY SeqDef
<1>2. Len(f) \in Nat /\ 1 .. Len(f) = 1 .. n
  BY <1>1, LenProperties
<1>3. Len(f) = n
  BY <1>2
<1> QED
  BY <1>1, <1>3

LEMMA Reversed ==
  ASSUME NEW S, NEW s \in Seq(S)
  PROVE  /\ Reverse(s) \in Seq(S)
         /\ Len(Reverse(s)) = Len(s)
         /\ \A i \in 1 .. Len(s) : Reverse(s)[i] = s[(Len(s) - i) + 1]
<1>1. Len(s) \in Nat /\ s \in [1 .. Len(s) -> S]
  BY LenProperties
<1>2. \A i \in 1 .. Len(s) : (Len(s) - i) + 1 \in 1 .. Len(s)
  BY <1>1
<1>3. Reverse(s) \in [1 .. Len(s) -> S]
  BY <1>1, <1>2 DEF Reverse
<1>4. \A i \in 1 .. Len(s) : Reverse(s)[i] = s[(Len(s) - i) + 1]
  BY DEF Reverse
<1> QED
  BY <1>1, <1>3, <1>4, IsOfLength

Lists == [Contexts -> Seq(Seq(BOOLEAN))]

LEMMA ChosenCreases ==
  ASSUME NEW by, NEW n \in 0 .. 4, NEW crease \in CreaseChoices(by, n)
  PROVE  /\ crease \in Seq(BOOLEAN)
         /\ IF by = "constrained" /\ n > 0
            THEN crease # <<>> /\ Len(crease) = n /\ n \in Contexts
            ELSE crease = <<>>
<1>1. CASE by = "constrained" /\ n > 0
  <2>1. crease \in [1 .. n -> BOOLEAN]
    BY <1>1 DEF CreaseChoices
  <2>2. crease \in Seq(BOOLEAN) /\ Len(crease) = n
    BY <1>1, <2>1, IsOfLength
  <2>3. n \in Contexts
    BY <1>1 DEF Contexts, maxConstrainedMultiParallelograms
  <2>4. crease # <<>>
    BY <1>1, <2>2
  <2> QED
    BY <1>1, <2>2, <2>3, <2>4
<1>2. CASE ~(by = "constrained" /\ n > 0)
  <2>1. crease = <<>>
    BY <1>2 DEF CreaseChoices
  <2> QED
    BY <1>2, <2>1
<1> QED
  BY <1>1, <1>2

LEMMA ListsGrow ==
  ASSUME NEW all \in Lists, NEW crease \in Seq(BOOLEAN), crease = <<>> \/ Len(crease) \in Contexts
  PROVE  WithCreases(all, crease) \in Lists
  BY DEF WithCreases, NoFlags, Lists

LEMMA NothingToSend == FlagsToSend(NoCreases) = NoCreases /\ NoCreases \in Lists
  BY DEF FlagsToSend, NoCreases, Lists, Reverse

(* The last flags in are the first ones out, and what is left is what was  *)
(* sent before them.                                                       *)
LEMMA FlagsComeBack ==
  ASSUME NEW all \in Lists, NEW crease \in Seq(BOOLEAN), NEW n \in Contexts,
         crease # <<>>, Len(crease) = n
  PROVE  LET sent == FlagsToSend(WithCreases(all, crease))
         IN  /\ sent[n] # <<>>
             /\ Head(sent[n]) = crease
             /\ [sent EXCEPT ![n] = Tail(@)] = FlagsToSend(all)
<1> DEFINE sent == FlagsToSend(WithCreases(all, crease))
           group == all[n]
           k == Len(group)
<1>1. group \in Seq(Seq(BOOLEAN)) /\ k \in Nat
  BY DEF Lists
<1>2. WithCreases(all, crease) = [all EXCEPT ![n] = Append(group, crease)]
  BY DEF WithCreases, NoFlags
<1>3. /\ DOMAIN sent = Contexts
      /\ sent[n] = Reverse(Append(group, crease))
      /\ \A m \in Contexts \ {n} : sent[m] = Reverse(all[m])
  BY <1>2 DEF FlagsToSend, Lists
<1> HIDE DEF sent, group, k
<1>4. /\ Append(group, crease) \in Seq(Seq(BOOLEAN))
      /\ Len(Append(group, crease)) = k + 1
      /\ \A i \in 1 .. k : Append(group, crease)[i] = group[i]
      /\ Append(group, crease)[k + 1] = crease
  BY <1>1, AppendProperties DEF k
<1>5. /\ sent[n] \in Seq(Seq(BOOLEAN))
      /\ Len(sent[n]) = k + 1
      /\ \A i \in 1 .. k + 1 : sent[n][i] = Append(group, crease)[(k + 1 - i) + 1]
  <2> DEFINE a == Append(group, crease)
  <2>1. /\ Reverse(a) \in Seq(Seq(BOOLEAN))
        /\ Len(Reverse(a)) = Len(a)
        /\ \A i \in 1 .. Len(a) : Reverse(a)[i] = a[(Len(a) - i) + 1]
    BY <1>4, Reversed, Zenon
  <2> HIDE DEF a
  <2>2. sent[n] = Reverse(a) /\ Len(a) = k + 1
    BY <1>3, <1>4 DEF a
  <2>3. \A i \in 1 .. k + 1 : sent[n][i] = a[(k + 1 - i) + 1]
    BY <1>1, <2>1, <2>2
  <2> QED
    BY <2>1, <2>2, <2>3 DEF a
<1>6. sent[n] # <<>>
  BY <1>1, <1>5
<1>7. Head(sent[n]) = crease
  <2>1. 1 \in 1 .. k + 1 /\ (k + 1 - 1) + 1 = k + 1
    BY <1>1
  <2>2. sent[n][1] = crease
    BY <1>4, <1>5, <2>1
  <2> QED
    BY <1>5, <1>6, <2>2
<1>8. /\ Tail(sent[n]) \in Seq(Seq(BOOLEAN))
      /\ Len(Tail(sent[n])) = k
      /\ \A i \in 1 .. k : Tail(sent[n])[i] = sent[n][i + 1]
  <2>1. /\ Tail(sent[n]) \in Seq(Seq(BOOLEAN))
        /\ Len(Tail(sent[n])) = Len(sent[n]) - 1
        /\ \A i \in 1 .. Len(Tail(sent[n])) : Tail(sent[n])[i] = sent[n][i + 1]
    BY <1>5, <1>6, HeadTailProperties, Zenon
  <2> QED
    BY <1>1, <1>5, <2>1
<1>9. Tail(sent[n]) = Reverse(group)
  <2>1. /\ Reverse(group) \in Seq(Seq(BOOLEAN))
        /\ Len(Reverse(group)) = k
        /\ \A i \in 1 .. k : Reverse(group)[i] = group[(k - i) + 1]
    BY <1>1, Reversed DEF k
  <2>2. \A i \in 1 .. k : sent[n][i + 1] = group[(k - i) + 1]
    <3> SUFFICES ASSUME NEW i \in 1 .. k PROVE sent[n][i + 1] = group[(k - i) + 1]
      OBVIOUS
    <3>1. i + 1 \in 1 .. k + 1 /\ (k + 1 - (i + 1)) + 1 = (k - i) + 1 /\ (k - i) + 1 \in 1 .. k
      BY <1>1
    <3> QED
      BY <1>4, <1>5, <3>1
  <2>3. \A i \in 1 .. k : Tail(sent[n])[i] = Reverse(group)[i]
    BY <1>8, <2>1, <2>2
  <2> QED
    BY <1>8, <2>1, <2>3, SeqEqual
<1>10. [sent EXCEPT ![n] = Tail(@)] = FlagsToSend(all)
  <2>1. sent = [m \in Contexts |-> sent[m]]
    BY DEF sent, FlagsToSend
  <2> QED
    BY <1>3, <1>9, <2>1 DEF FlagsToSend, group
<1> QED
  BY <1>6, <1>7, <1>10 DEF sent

-----------------------------------------------------------------------------
(* The inductive invariant.                                                *)

(* What the encoder predicts an entry from, and the flags it had when it   *)
(* was done with the entries after e.                                      *)
Ahead(e) == PredictionsFor(job.method, EncoderContext, e, ValuesRead)

Above(e) == IF e = job.points - 1 THEN NoCreases
            ELSE WithCreases(history[e + 1].before, history[e + 1].crease)

Bounding(min, max) ==
  /\ min \in Int32 /\ max \in Int32
  /\ ~RangeIsRefused(min, max)
  /\ \A e \in Entries(job.points) : ValuesRead[e] \in min .. max

Predicted(e, min, max) ==
  /\ history[e].crease \in CreaseChoices(job.method, HowMany(Ahead(e)))
  /\ history[e].guess = Prediction(job.method, EncoderContext, e, ValuesRead, history[e].crease)
  /\ history[e].before \in Lists
  /\ history[e].before = Above(e)
  /\ corrections[e] = Correction(Wrap(min, max), ValuesRead[e], history[e].guess)

Sendable == job \in Jobs /\ job.kind = "integer" /\ ~TooFewEntries

(* Entries from first on are predicted.                                    *)
PredictedFrom(first, min, max) ==
  /\ Sendable /\ job.method # None /\ ~MeshMissing
  /\ Bounding(min, max)
  /\ DOMAIN corrections = first .. job.points - 1
  /\ DOMAIN history = first .. job.points - 1
  /\ \A e \in first .. job.points - 1 : Predicted(e, min, max)

(* The three kinds of streams the encoder writes.                          *)
IsPredicted ==
  /\ PredictedFrom(0, stream.min, stream.max)
  /\ stream.kind = "integer"
  /\ stream.method = job.method
  /\ stream.symbols = [e \in Entries(job.points) |-> ToSymbol(corrections[e])]
  /\ stream.flags = FlagsToSend(Above(-1))

IsPlain ==
  /\ Sendable
  /\ stream.kind = "integer"
  /\ stream.method = None
  /\ stream.symbols = [e \in Entries(job.points) |-> ToSymbol(ValuesRead[e])]

IsGeneric ==
  /\ job.kind = "generic"
  /\ stream.kind = "generic"
  /\ stream.method = None
  /\ stream.symbols = GenericWritten

Described ==
  /\ job \in Jobs
  /\ stream.points = job.points
  /\ stream.cloud = job.cloud
  /\ stream.width \in 0 .. 4
  /\ stream.indices = IF stream.compressed THEN IndexSymbols(CornerIndices(job.mesh))
                      ELSE CornerIndices(job.mesh)
  /\ IsPredicted \/ IsPlain \/ IsGeneric

IndicesAgree ==
  /\ indices \in Seq(Entries(job.points))
  /\ Len(indices) <= 3 * job.mesh.numFaces
  /\ \A i \in 1 .. Len(indices) : indices[i] = CornerIndices(job.mesh)[i]

WhileEncoding ==
  phase = "encoding" =>
    /\ job \in Jobs
    /\ method = None
    /\ creases = NoCreases
    /\ corrections = <<>>
    /\ history = <<>>

WhilePredicting ==
  phase = "predicting" =>
    /\ method = job.method
    /\ context = EncoderContext
    /\ bounds = Wrap(bounds.minValue, bounds.maxValue)
    /\ entry \in -1 .. job.points - 1
    /\ PredictedFrom(entry + 1, bounds.minValue, bounds.maxValue)
    /\ creases = Above(entry)
    /\ creases \in Lists

WhileCoding ==
  phase = "coding" =>
    \/ Sendable /\ method = None /\ corrections = ValuesRead
    \/ /\ method = job.method
       /\ PredictedFrom(0, bounds.minValue, bounds.maxValue)
       /\ creases = Above(-1)

BeforeReading == ~Reading => indices = <<>>

WhileReading ==
  Reading /\ job # Foreign =>
    /\ Described
    /\ IndicesAgree
    /\ phase = "faces" => creases = NoCreases
    /\ phase \in {"restoring", "decoded"} => Len(indices) = 3 * job.mesh.numFaces

(* The decoder has the encoder's values up to the entry it is at, and its  *)
(* flags from there on.                                                    *)
WhileRestoring ==
  phase = "restoring" /\ Faithful =>
    /\ IsPredicted
    /\ method = job.method
    /\ context = EncoderContext
    /\ bounds = Wrap(stream.min, stream.max)
    /\ entry \in 0 .. job.points
    /\ values = [e \in Entries(job.points) |-> values[e]]
    /\ \A e \in 0 .. entry - 1 : values[e] = ValuesRead[e]
    /\ creases = FlagsToSend(Above(entry - 1))

MethodIsRead == phase = "restoring" => method = stream.method

AtTheEnd ==
  job # Foreign =>
    /\ phase = "failed" => stream.method = "constrained" /\ ~Faithful
    /\ phase = "decoded" /\ Faithful => values = ValuesSent /\ creases = NoCreases

IInv ==
  /\ WhileEncoding
  /\ WhilePredicting
  /\ WhileCoding
  /\ BeforeReading
  /\ WhileReading
  /\ WhileRestoring
  /\ MethodIsRead
  /\ AtTheEnd

-----------------------------------------------------------------------------
(* What is encoded.                                                        *)

LEMMA JobType ==
  ASSUME job \in Jobs
  PROVE  /\ job.points \in Nat /\ job.entries \in Nat
         /\ job.mesh.numFaces \in Nat
         /\ job.mesh.vertexAt \in [Corners(job.mesh.numFaces) -> Entries(job.points)]
         /\ job.values \in [Entries(job.entries) -> Int32]
         /\ job.entryOf \in [Entries(job.points) -> Entries(job.entries)]
         /\ ~job.mapped => \A p \in Entries(job.points) : job.entryOf[p] = p
         /\ job.mesh = [numVertices |-> job.points, numFaces |-> job.mesh.numFaces,
                        vertexAt |-> job.mesh.vertexAt]
         /\ job.method \in Methods
         /\ job.kind \in {"integer", "generic"}
  BY JobsAssumption

LEMMA ValuesReadType ==
  ASSUME Sendable
  PROVE  ValuesRead \in [Entries(job.points) -> Int32]
<1>1. /\ job.points \in Nat /\ job.entries \in Nat
      /\ job.values \in [Entries(job.entries) -> Int32]
  BY JobType DEF Sendable
<1>2. ~(job.entries < job.points)
  BY DEF Sendable, TooFewEntries
<1>3. Entries(job.points) \subseteq Entries(job.entries)
  BY <1>1, <1>2 DEF Entries
<1> QED
  BY <1>1, <1>3 DEF ValuesRead

(* Of numbers the first entries are sent, which are the values by point if *)
(* each point has its own entry.                                           *)
LEMMA NumbersSent ==
  ASSUME Sendable
  PROVE  ValuesSent = ValuesRead
<1>1. CASE OwnEntries
  <2>1. ValuesByPoint = ValuesRead
    BY <1>1 DEF OwnEntries, ValuesByPoint, ValuesRead
  <2> QED
    BY <1>1, <2>1 DEF ValuesSent
<1>2. CASE ~OwnEntries
  <2>1. job.kind # "generic"
    BY DEF Sendable
  <2> QED
    BY <1>2, <2>1 DEF ValuesSent
<1> QED
  BY <1>1, <1>2

LEMMA CornerIndicesType ==
  ASSUME job \in Jobs
  PROVE  /\ CornerIndices(job.mesh) \in Seq(Entries(job.points))
         /\ Len(CornerIndices(job.mesh)) = 3 * job.mesh.numFaces
         /\ DOMAIN CornerIndices(job.mesh) = 1 .. 3 * job.mesh.numFaces
         /\ \A i \in 1 .. 3 * job.mesh.numFaces :
               CornerIndices(job.mesh)[i] = job.mesh.vertexAt[i - 1]
<1> DEFINE n == 3 * job.mesh.numFaces
<1>1. n \in Nat /\ job.mesh.vertexAt \in [0 .. n - 1 -> Entries(job.points)]
  BY JobType DEF Corners
<1>2. CornerIndices(job.mesh) = [i \in 1 .. n |-> job.mesh.vertexAt[i - 1]]
  BY DEF CornerIndices
<1> HIDE DEF n
<1>3. CornerIndices(job.mesh) \in [1 .. n -> Entries(job.points)]
  <2>1. \A i \in 1 .. n : i - 1 \in 0 .. n - 1
    BY <1>1
  <2> QED
    BY <1>1, <1>2, <2>1
<1>4. CornerIndices(job.mesh) \in Seq(Entries(job.points)) /\ Len(CornerIndices(job.mesh)) = n
  BY <1>1, <1>3, IsOfLength
<1> QED
  BY <1>2, <1>4 DEF n

(* As many numbers are sent for the faces as they have corners.            *)
LEMMA IndexSymbolsLength ==
  ASSUME job \in Jobs
  PROVE  Len(IndexSymbols(CornerIndices(job.mesh))) = 3 * job.mesh.numFaces
<1> DEFINE n == 3 * job.mesh.numFaces
           list == CornerIndices(job.mesh)
           s == IndexSymbols(list)
<1>1. n \in Nat
  BY JobType
<1>2. DOMAIN s = 1 .. n
  BY CornerIndicesType DEF IndexSymbols
<1>3. s \in [1 .. n -> {s[i] : i \in 1 .. n}]
  BY <1>2 DEF IndexSymbols
<1> HIDE DEF n, s
<1>4. Len(s) = n
  BY <1>1, <1>3, IsOfLength
<1> QED
  BY <1>4 DEF n, s

(* ... and each is read as the corner it was written for.                  *)
LEMMA IndexIsRead ==
  ASSUME Described, IndicesAgree, FacesLeft
  PROVE  /\ Len(indices) + 1 \in 1 .. 3 * job.mesh.numFaces
         /\ IndexRead = CornerIndices(job.mesh)[Len(indices) + 1]
         /\ IndexRead \in 0 .. stream.points - 1
<1> DEFINE n == 3 * job.mesh.numFaces
           list == CornerIndices(job.mesh)
           k == Len(indices)
<1>1. job \in Jobs /\ n \in Nat
  BY JobType DEF Described
<1>2. /\ list \in Seq(Entries(job.points)) /\ Len(list) = n
      /\ DOMAIN list = 1 .. n
  BY <1>1, CornerIndicesType
<1>3. k \in Nat /\ indices \in Seq(Entries(job.points))
  BY LenProperties DEF IndicesAgree
<1>4. Len(stream.indices) = n
  BY <1>1, <1>2, IndexSymbolsLength DEF Described
<1>5. k + 1 \in 1 .. n
  BY <1>1, <1>3, <1>4 DEF FacesLeft
<1>6. \A i \in 1 .. n : list[i] \in Int
  <2> SUFFICES ASSUME NEW i \in 1 .. n PROVE list[i] \in Int
    OBVIOUS
  <2>1. list[i] \in Entries(job.points)
    BY <1>2, ElementOfSeq
  <2>2. job.points \in Nat
    BY <1>1, JobType
  <2> QED
    BY <2>1, <2>2 DEF Entries
<1>7. list[k + 1] \in 0 .. stream.points - 1
  BY <1>2, <1>5, ElementOfSeq DEF Described, Entries
<1>8. Last0(indices) = IF k + 1 = 1 THEN 0 ELSE list[k + 1 - 1]
  <2>1. CASE k = 0
    <3>1. indices = <<>>
      BY <1>3, <2>1, EmptySeq
    <3> QED
      BY <2>1, <3>1 DEF Last0
  <2>2. CASE k # 0
    <3>1. indices # <<>> /\ k \in 1 .. k /\ k + 1 - 1 = k /\ k + 1 # 1
      BY <1>3, <2>2
    <3> QED
      BY <3>1 DEF Last0, IndicesAgree
  <2> QED
    BY <2>1, <2>2
<1> DEFINE before == IF k + 1 = 1 THEN 0 ELSE list[k + 1 - 1]
<1>9. before \in Int
  <2>1. k + 1 # 1 => k + 1 - 1 \in 1 .. n
    BY <1>1, <1>3, <1>5
  <2> QED
    BY <1>6, <2>1
<1>10. IndexSymbols(list)[k + 1] = DifferenceSymbol(list[k + 1] - before)
  BY <1>2, <1>5 DEF IndexSymbols
<1> HIDE DEF before, list, k
<1>11. before + DifferenceOf(DifferenceSymbol(list[k + 1] - before)) = list[k + 1]
  <2>1. list[k + 1] \in Int
    BY <1>5, <1>6
  <2>2. list[k + 1] - before \in Int
    BY <1>9, <2>1
  <2>3. DifferenceOf(DifferenceSymbol(list[k + 1] - before)) = list[k + 1] - before
    BY <2>2, DifferencesComeBack
  <2> QED
    BY <1>9, <2>1, <2>3
<1>12. IndexRead = list[k + 1]
  <2>1. CASE stream.compressed
    <3>1. stream.indices[k + 1] = DifferenceSymbol(list[k + 1] - before)
      BY <2>1, <1>10 DEF Described, list
    <3>2. IndexRead = before + DifferenceOf(stream.indices[k + 1])
      BY <2>1, <1>8 DEF IndexRead, k, before, list
    <3> QED
      BY <3>1, <3>2, <1>11
  <2>2. CASE ~stream.compressed
    BY <2>2 DEF IndexRead, Described, list, k
  <2> QED
    BY <2>1, <2>2
<1> QED
  BY <1>5, <1>7, <1>12 DEF list, k

(* Once all are read, the decoder has the mesh the encoder had, and starts *)
(* its predictions from the same corners.                                  *)
LEMMA MeshIsRead ==
  ASSUME Described, IndicesAgree, Len(indices) = 3 * job.mesh.numFaces
  PROVE  indices = CornerIndices(job.mesh) /\ MeshRead = job.mesh
<1> DEFINE n == job.mesh.numFaces
<1>1. /\ job \in Jobs /\ n \in Nat
      /\ job.mesh.vertexAt \in [Corners(n) -> Entries(job.points)]
      /\ job.mesh = [numVertices |-> job.points, numFaces |-> n, vertexAt |-> job.mesh.vertexAt]
  BY JobType DEF Described
<1>2. /\ CornerIndices(job.mesh) \in Seq(Entries(job.points))
      /\ Len(CornerIndices(job.mesh)) = 3 * n
      /\ \A i \in 1 .. 3 * n : CornerIndices(job.mesh)[i] = job.mesh.vertexAt[i - 1]
  BY <1>1, CornerIndicesType
<1>3. \A i \in 1 .. 3 * n : indices[i] = CornerIndices(job.mesh)[i]
  BY DEF IndicesAgree
<1>4. indices = CornerIndices(job.mesh)
  BY <1>2, <1>3, SeqEqual DEF IndicesAgree
<1> HIDE DEF n
<1>5. Len(indices) \div 3 = n
  <2>1. Len(indices) = 3 * n
    BY DEF n
  <2> QED
    BY <1>1, <2>1
<1>6. \A c \in Corners(n) : indices[c + 1] = job.mesh.vertexAt[c]
  <2> SUFFICES ASSUME NEW c \in Corners(n) PROVE indices[c + 1] = job.mesh.vertexAt[c]
    OBVIOUS
  <2>1. c + 1 \in 1 .. 3 * n /\ (c + 1) - 1 = c
    BY <1>1 DEF Corners
  <2> QED
    BY <1>2, <1>3, <2>1
<1>7. [c \in Corners(n) |-> indices[c + 1]] = job.mesh.vertexAt
  BY <1>1, <1>6
<1>8. MeshRead = [numVertices |-> job.points, numFaces |-> n, vertexAt |-> job.mesh.vertexAt]
  BY <1>5, <1>7 DEF MeshRead, Described
<1> QED
  BY <1>1, <1>4, <1>8

LEMMA ContextIsTheEncoders ==
  ASSUME Described, IndicesAgree, Len(indices) = 3 * job.mesh.numFaces,
         IsPredicted, SameWalk
  PROVE  DecoderContext = EncoderContext
<1>1. CASE stream.method \in MeshMethods
  <2>1. job.entryOf = [p \in Entries(job.points) |-> p]
    BY <1>1, JobType DEF Described, SameWalk, OwnEntries
  <2> QED
    BY <1>1, <2>1, MeshIsRead DEF DecoderContext, EncoderContext, Described, IsPredicted
<1>2. CASE stream.method \notin MeshMethods
  BY <1>2 DEF DecoderContext, EncoderContext, IsPredicted
<1> QED
  BY <1>1, <1>2

-----------------------------------------------------------------------------
(* Values and flags on their way.                                          *)

LEMMA PredictedCrease ==
  ASSUME NEW e, NEW min, NEW max, Predicted(e, min, max)
  PROVE  LET crease == history[e].crease
             n == HowMany(Ahead(e))
         IN  /\ crease \in Seq(BOOLEAN)
             /\ n \in 0 .. 4
             /\ Ahead(e) = <<>> <=> n = 0
             /\ IF job.method = "constrained" /\ n > 0
                THEN crease # <<>> /\ Len(crease) = n /\ n \in Contexts
                ELSE crease = <<>>
<1>1. HowMany(Ahead(e)) \in 0 .. 4 /\ (Ahead(e) = <<>> <=> HowMany(Ahead(e)) = 0)
  BY FewPredictions DEF Ahead
<1> QED
  BY <1>1, ChosenCreases DEF Predicted

LEMMA AboveType ==
  ASSUME NEW e \in Int, NEW min, NEW max,
         e = job.points - 1 \/ Predicted(e + 1, min, max)
  PROVE  Above(e) \in Lists
<1>1. CASE e = job.points - 1
  BY <1>1, NothingToSend DEF Above
<1>2. CASE e # job.points - 1
  <2>1. Predicted(e + 1, min, max)
    BY <1>2
  <2>2. history[e + 1].before \in Lists
    BY <2>1 DEF Predicted
  <2>3. /\ history[e + 1].crease \in Seq(BOOLEAN)
        /\ history[e + 1].crease = <<>> \/ Len(history[e + 1].crease) \in Contexts
    BY <2>1, PredictedCrease
  <2> QED
    BY <1>2, <2>2, <2>3, ListsGrow DEF Above
<1> QED
  BY <1>1, <1>2

(* The symbols of predicted values are less than the span of the values.   *)
LEMMA PredictedSymbols ==
  ASSUME NEW min, NEW max, PredictedFrom(0, min, max), NEW e \in Entries(job.points)
  PROVE  /\ corrections[e] \in Int32
         /\ ToSymbol(corrections[e]) \in 0 .. 2 * HalfRange - 1
         /\ ToSymbol(corrections[e]) <= max - min
<1>1. /\ min \in Int32 /\ max \in Int32 /\ ~RangeIsRefused(min, max)
      /\ ValuesRead[e] \in min .. max
  BY DEF PredictedFrom, Bounding
<1>2. corrections[e] = Correction(Wrap(min, max), ValuesRead[e], history[e].guess)
  BY DEF PredictedFrom, Predicted, Entries
<1>3. /\ corrections[e] \in Int32
      /\ ToSymbol(corrections[e]) \in 0 .. Wrap(min, max).maxDif - 1
  BY <1>1, <1>2, CorrectionsAreSmall
<1>4. Wrap(min, max).maxDif = max - min + 1
  BY DEF Wrap
<1>5. ToSymbol(corrections[e]) <= max - min
  BY <1>1, <1>3, <1>4, HalfRangeAssumption DEF Int32
<1>6. ToSymbol(corrections[e]) \in 0 .. 2 * HalfRange - 1
  BY <1>3, SymbolsAreReversible
<1> QED
  BY <1>3, <1>5, <1>6

-----------------------------------------------------------------------------
(* The encoder's steps.                                                    *)

LEMMA InitEstablishes == Init => IInv
  BY DEF Init, IInv, WhileEncoding, WhilePredicting, WhileCoding, BeforeReading, WhileReading,
         WhileRestoring, MethodIsRead, AtTheEnd, Reading

LEMMA RefuseAttributeKeeps ==
  ASSUME IInv, RefuseAttribute
  PROVE  IInv'
  BY DEF RefuseAttribute, Refuse, IInv, WhileEncoding, WhilePredicting, WhileCoding, BeforeReading,
         WhileReading, WhileRestoring, MethodIsRead, AtTheEnd, Reading

LEMMA SendUnpredictedKeeps ==
  ASSUME IInv, SendUnpredicted
  PROVE  IInv'
<1>1. /\ job \in Jobs /\ method = None /\ indices = <<>>
  BY DEF SendUnpredicted, IInv, WhileEncoding, BeforeReading, Reading
<1>2. Sendable' /\ ValuesRead' = ValuesRead
  BY <1>1 DEF SendUnpredicted, Sendable, TooFewEntries, ValuesRead
<1>3. phase' = "coding" /\ method' = None /\ corrections' = ValuesRead'
  BY <1>1, <1>2 DEF SendUnpredicted
<1>4. WhileCoding'
  BY <1>2, <1>3 DEF WhileCoding
<1> QED
  BY <1>1, <1>3, <1>4 DEF SendUnpredicted, IInv, WhileEncoding, WhilePredicting, BeforeReading,
     WhileReading, WhileRestoring, MethodIsRead, AtTheEnd, Reading

(* The transform of the attribute's values spans them all.                 *)
LEMMA SpansBound ==
  ASSUME Sendable, ~CannotWrap(ValuesRead), NEW min, NEW max, Spans(ValuesRead, min, max)
  PROVE  Bounding(min, max)
<1>1. ValuesRead \in [Entries(job.points) -> Int32] /\ DOMAIN ValuesRead = Entries(job.points)
  BY ValuesReadType
<1>2. PICK d, e \in Entries(job.points) : ValuesRead[d] = min /\ ValuesRead[e] = max
  BY <1>1 DEF Spans
<1>3. min \in Int32 /\ max \in Int32
  BY <1>1, <1>2
<1>4. min \in Int /\ max \in Int /\ HalfRange \in Nat
  BY <1>3, HalfRangeAssumption DEF Int32
<1>5. ~(max - min >= HalfRange - 1)
  BY <1>1, <1>2 DEF CannotWrap
<1>6. \A i \in Entries(job.points) : ValuesRead[i] \in Int /\ ValuesRead[i] \in min .. max
  BY <1>1, <1>4, HalfRangeAssumption DEF Spans, Int32
<1>7. min <= max
  BY <1>1, <1>2, <1>4 DEF Spans
<1>8. ~RangeIsRefused(min, max)
  BY <1>4, <1>5, <1>7 DEF RangeIsRefused
<1> QED
  BY <1>3, <1>6, <1>8 DEF Bounding

LEMMA StartPredictingKeeps ==
  ASSUME IInv, StartPredicting
  PROVE  IInv'
<1>1. /\ job \in Jobs /\ indices = <<>> /\ corrections = <<>> /\ history = <<>>
      /\ creases = NoCreases /\ job.points \in Nat
  BY JobType DEF StartPredicting, IInv, WhileEncoding, BeforeReading, Reading
<1>2. Sendable
  BY <1>1 DEF StartPredicting, Sendable
<1>3. PICK min, max : Spans(ValuesRead, min, max) /\ bounds' = Wrap(min, max)
  BY DEF StartPredicting
<1>4. Bounding(min, max)
  BY <1>2, <1>3, SpansBound DEF StartPredicting
<1>5. bounds'.minValue = min /\ bounds'.maxValue = max /\ bounds' = Wrap(bounds'.minValue, bounds'.maxValue)
  BY <1>3 DEF Wrap
<1>6. Bounding(bounds.minValue, bounds.maxValue)'
  BY <1>4, <1>5 DEF Bounding, ValuesRead, StartPredicting
<1>7. /\ phase' = "predicting" /\ job' = job /\ entry' = job'.points - 1
      /\ corrections' = <<>> /\ history' = <<>> /\ creases' = NoCreases /\ indices' = <<>>
      /\ method' = job'.method
  BY <1>1 DEF StartPredicting
<1>8. entry' + 1 .. job'.points - 1 = {}
  BY <1>1, <1>7
<1>9. PredictedFrom(entry + 1, bounds.minValue, bounds.maxValue)'
  <2>1. Sendable' /\ job'.method # None /\ ~MeshMissing'
    BY <1>2, <1>7 DEF StartPredicting, Sendable, TooFewEntries, MeshMissing
  <2>2. DOMAIN corrections' = {} /\ DOMAIN history' = {}
    BY <1>7
  <2> QED
    BY <1>6, <1>8, <2>1, <2>2 DEF PredictedFrom
<1>10. context' = EncoderContext'
  BY <1>7 DEF StartPredicting, EncoderContext
<1>11. creases' = Above(entry)' /\ creases' \in Lists
  BY <1>7, NothingToSend DEF Above
<1>12. entry' \in -1 .. job'.points - 1
  BY <1>1, <1>7
<1>13. WhilePredicting'
  BY <1>5, <1>7, <1>9, <1>10, <1>11, <1>12 DEF WhilePredicting
<1> QED
  BY <1>7, <1>13 DEF IInv, WhileEncoding, WhileCoding, BeforeReading, WhileReading, WhileRestoring,
     MethodIsRead, AtTheEnd, Reading

LEMMA PredictEntryKeeps ==
  ASSUME IInv, PredictEntry
  PROVE  IInv'
<1> DEFINE min == bounds.minValue
           max == bounds.maxValue
<1>1. /\ phase = "predicting" /\ entry >= 0 /\ entry' = entry - 1
      /\ UNCHANGED <<job, phase, method, context, bounds, stream, indices, values>>
  BY DEF PredictEntry
<1>2. /\ method = job.method /\ context = EncoderContext /\ bounds = Wrap(min, max)
      /\ entry \in -1 .. job.points - 1
      /\ PredictedFrom(entry + 1, min, max)
      /\ creases = Above(entry) /\ creases \in Lists
      /\ indices = <<>>
  BY <1>1 DEF IInv, WhilePredicting, BeforeReading, Reading
<1>3. job \in Jobs /\ job.points \in Nat
  BY <1>2, JobType DEF PredictedFrom, Sendable
<1>4. entry \in Int /\ entry \in 0 .. job.points - 1
  BY <1>1, <1>2, <1>3
<1>5. PICK crease \in CreaseChoices(job.method, HowMany(Ahead(entry))) :
        LET guess == Prediction(method, context, entry, ValuesRead, crease)
        IN  /\ corrections' = [e \in DOMAIN corrections \cup {entry} |->
                                 IF e = entry THEN Correction(bounds, ValuesRead[entry], guess)
                                 ELSE corrections[e]]
            /\ creases' = WithCreases(creases, crease)
            /\ history' = [e \in DOMAIN history \cup {entry} |->
                             IF e = entry THEN [guess |-> guess, crease |-> crease, before |-> creases]
                             ELSE history[e]]
  BY <1>2 DEF PredictEntry, Ahead
<1> DEFINE guess == Prediction(job.method, EncoderContext, entry, ValuesRead, crease)
<1>6. /\ DOMAIN corrections = entry + 1 .. job.points - 1
      /\ DOMAIN history = entry + 1 .. job.points - 1
      /\ \A e \in entry + 1 .. job.points - 1 : Predicted(e, min, max)
  BY <1>2 DEF PredictedFrom
<1>7. /\ (entry + 1 .. job.points - 1) \cup {entry} = entry .. job.points - 1
      /\ entry' + 1 = entry
  BY <1>1, <1>3, <1>4
<1>8. /\ DOMAIN corrections' = entry .. job.points - 1
      /\ DOMAIN history' = entry .. job.points - 1
      /\ corrections'[entry] = Correction(Wrap(min, max), ValuesRead[entry], guess)
      /\ history'[entry] = [guess |-> guess, crease |-> crease, before |-> creases]
      /\ \A e \in entry + 1 .. job.points - 1 :
            corrections'[e] = corrections[e] /\ history'[e] = history[e]
  <2>1. \A e \in entry + 1 .. job.points - 1 : e # entry /\ e \in entry .. job.points - 1
    BY <1>3, <1>4
  <2>2. entry \in entry .. job.points - 1
    BY <1>3, <1>4
  <2> QED
    BY <1>2, <1>5, <1>6, <1>7, <2>1, <2>2
<1>9. /\ ValuesRead' = ValuesRead /\ EncoderContext' = EncoderContext
      /\ Sendable' /\ job'.method # None /\ ~MeshMissing'
      /\ Bounding(min, max)'
      /\ \A e : Ahead(e)' = Ahead(e)
  BY <1>1, <1>2 DEF PredictedFrom, ValuesRead, EncoderContext, Sendable, TooFewEntries, MeshMissing,
     Bounding, Ahead
<1>10. \A e \in entry .. job.points - 1 : Above(e)' = Above(e)
  <2> SUFFICES ASSUME NEW e \in entry .. job.points - 1 PROVE Above(e)' = Above(e)
    OBVIOUS
  <2>1. CASE e = job.points - 1
    BY <1>1, <2>1 DEF Above
  <2>2. CASE e # job.points - 1
    <3>1. e + 1 \in entry + 1 .. job.points - 1
      BY <1>3, <1>4, <2>2
    <3> QED
      BY <1>1, <1>8, <2>2, <3>1 DEF Above
  <2> QED
    BY <2>1, <2>2
<1>11. \A e \in entry + 1 .. job.points - 1 : Predicted(e, min, max)'
  <2> SUFFICES ASSUME NEW e \in entry + 1 .. job.points - 1 PROVE Predicted(e, min, max)'
    OBVIOUS
  <2>1. e \in entry .. job.points - 1
    BY <1>3, <1>4
  <2> QED
    BY <1>1, <1>6, <1>8, <1>9, <1>10, <2>1 DEF Predicted
<1>12. /\ crease \in Seq(BOOLEAN)
       /\ crease = <<>> \/ Len(crease) \in Contexts
  <2>1. HowMany(Ahead(entry)) \in 0 .. 4
    BY FewPredictions DEF Ahead
  <2>2. crease \in Seq(BOOLEAN)
    BY <2>1, ChosenCreases
  <2>3. CASE job.method = "constrained" /\ HowMany(Ahead(entry)) > 0
    <3>1. Len(crease) = HowMany(Ahead(entry)) /\ HowMany(Ahead(entry)) \in Contexts
      BY <2>1, <2>3, ChosenCreases
    <3> QED
      BY <2>2, <3>1
  <2>4. CASE ~(job.method = "constrained" /\ HowMany(Ahead(entry)) > 0)
    BY <2>1, <2>2, <2>4, ChosenCreases
  <2> QED
    BY <2>3, <2>4
<1>13. \A e \in entry .. job.points - 1 : Predicted(e, min, max)'
  <2> SUFFICES ASSUME NEW e \in entry .. job.points - 1, e = entry
               PROVE  Predicted(e, min, max)'
    BY <1>3, <1>4, <1>11
  <2>1. /\ history'[e].crease = crease /\ history'[e].guess = guess
        /\ history'[e].before = creases
    BY <1>8
  <2>2. Above(e)' = creases
    BY <1>2, <1>10
  <2>3. Ahead(e)' = Ahead(entry) /\ job' = job
    BY <1>1, <1>9
  <2>4. history'[e].crease \in CreaseChoices(job'.method, HowMany(Ahead(e)'))
    BY <1>5, <2>1, <2>3
  <2>5. history'[e].guess
          = Prediction(job'.method, EncoderContext', e, ValuesRead', history'[e].crease)
    BY <1>9, <2>1, <2>3
  <2>6. history'[e].before \in Lists /\ history'[e].before = Above(e)'
    BY <1>2, <2>1, <2>2
  <2>7. corrections'[e] = Correction(Wrap(min, max)', ValuesRead'[e], history'[e].guess)
    BY <1>1, <1>8, <1>9, <2>1
  <2> QED
    BY <2>4, <2>5, <2>6, <2>7 DEF Predicted
<1>14. PredictedFrom(entry + 1, bounds.minValue, bounds.maxValue)'
  BY <1>1, <1>7, <1>8, <1>9, <1>13 DEF PredictedFrom
<1>15. Above(entry)' = creases'
  <2>1. entry' # job.points - 1 /\ entry' + 1 = entry
    BY <1>1, <1>3, <1>4
  <2> QED
    BY <1>1, <1>5, <1>8, <2>1 DEF Above
<1>16. creases' \in Lists
  BY <1>2, <1>5, <1>12, ListsGrow
<1>17. entry' \in -1 .. job'.points - 1
  BY <1>1, <1>3, <1>4
<1>18. WhilePredicting'
  BY <1>1, <1>2, <1>9, <1>14, <1>15, <1>16, <1>17 DEF WhilePredicting
<1> QED
  BY <1>1, <1>2, <1>18 DEF IInv, WhileEncoding, WhileCoding, BeforeReading, WhileReading,
     WhileRestoring, MethodIsRead, AtTheEnd, Reading

LEMMA PredictedFromKept ==
  ASSUME NEW first, NEW min, NEW max, PredictedFrom(first, min, max),
         UNCHANGED <<job, corrections, history>>
  PROVE  PredictedFrom(first, min, max)'
  BY DEF PredictedFrom, Predicted, Above, Ahead, Bounding, Sendable, TooFewEntries, MeshMissing,
     EncoderContext, ValuesRead

LEMMA AllPredictedKeeps ==
  ASSUME IInv, AllPredicted
  PROVE  IInv'
<1>1. /\ phase = "predicting" /\ entry < 0 /\ phase' = "coding"
      /\ UNCHANGED <<job, entry, method, context, bounds, corrections, creases, history, stream,
                     indices, values>>
  BY DEF AllPredicted
<1>2. /\ method = job.method
      /\ entry \in -1 .. job.points - 1
      /\ PredictedFrom(entry + 1, bounds.minValue, bounds.maxValue)
      /\ creases = Above(entry)
      /\ indices = <<>>
  BY <1>1 DEF IInv, WhilePredicting, BeforeReading, Reading
<1>3. entry = -1 /\ entry + 1 = 0
  <2>1. job.points \in Nat
    BY <1>2, JobType DEF PredictedFrom, Sendable
  <2> QED
    BY <1>1, <1>2, <2>1
<1>4. WhileCoding'
  <2>1. PICK min, max : min = bounds.minValue /\ max = bounds.maxValue
    OBVIOUS
  <2>2. PredictedFrom(0, min, max)'
    BY <1>1, <1>2, <1>3, <2>1, PredictedFromKept
  <2>3. Above(-1)' = Above(-1)
    BY <1>1 DEF Above
  <2> QED
    BY <1>1, <1>2, <1>3, <2>1, <2>2, <2>3 DEF WhileCoding
<1> QED
  BY <1>1, <1>2, <1>4 DEF IInv, WhileEncoding, WhilePredicting, BeforeReading, WhileReading,
     WhileRestoring, MethodIsRead, AtTheEnd, Reading

LEMMA WriteIntegersKeeps ==
  ASSUME IInv, WriteIntegers
  PROVE  IInv'
<1>1. /\ phase = "coding" /\ phase' = "faces" /\ creases' = NoCreases
      /\ UNCHANGED <<job, corrections, history, indices, values>>
  BY DEF WriteIntegers
<1>2. indices = <<>>
  BY <1>1 DEF IInv, BeforeReading, Reading
<1>3. \/ Sendable /\ method = None /\ corrections = ValuesRead
      \/ /\ method = job.method
         /\ PredictedFrom(0, bounds.minValue, bounds.maxValue)
         /\ creases = Above(-1)
  BY <1>1 DEF IInv, WhileCoding
<1>4. Sendable
  BY <1>3 DEF PredictedFrom
<1>5. job \in Jobs /\ job.points \in Nat
  BY <1>4, JobType DEF Sendable
<1>6. Symbols \in [Entries(job.points) -> 0 .. 2 * HalfRange - 1]
  <2>1. CASE corrections = ValuesRead
    <3>1. \A e \in Entries(job.points) : ToSymbol(ValuesRead[e]) \in 0 .. 2 * HalfRange - 1
      BY <1>4, ValuesReadType, SymbolsAreReversible
    <3>2. DOMAIN corrections = Entries(job.points)
      BY <2>1 DEF ValuesRead
    <3> QED
      BY <2>1, <3>1, <3>2 DEF Symbols
  <2>2. CASE PredictedFrom(0, bounds.minValue, bounds.maxValue)
    <3>1. \A e \in Entries(job.points) : ToSymbol(corrections[e]) \in 0 .. 2 * HalfRange - 1
      BY <2>2, PredictedSymbols
    <3>2. DOMAIN corrections = Entries(job.points)
      BY <2>2 DEF PredictedFrom, Entries
    <3> QED
      BY <3>1, <3>2 DEF Symbols
  <2> QED
    BY <1>3, <2>1, <2>2
<1>7. RawWidth(Symbols) \in 1 .. 4 /\ RawBytes(Symbols, RawWidth(Symbols)) = Symbols
  BY <1>6, RawBytesKeepSymbols
<1>8. PICK compressed \in BOOLEAN, width \in 0 .. 4 :
        stream' = Wire(compressed, "integer", width, Symbols)
  <2>1. PICK compressed \in BOOLEAN, raw \in BOOLEAN :
          stream' = Wire(compressed, "integer", IF raw THEN RawWidth(Symbols) ELSE 0,
                         IF raw THEN RawBytes(Symbols, RawWidth(Symbols)) ELSE Symbols)
    BY DEF WriteIntegers
  <2>2. CASE raw
    <3>1. stream' = Wire(compressed, "integer", RawWidth(Symbols), Symbols)
      BY <1>7, <2>1, <2>2
    <3>2. RawWidth(Symbols) \in 0 .. 4
      BY <1>7
    <3> QED
      BY <3>1, <3>2
  <2>3. CASE ~raw
    <3>1. stream' = Wire(compressed, "integer", 0, Symbols)
      BY <2>1, <2>3
    <3> QED
      BY <3>1
  <2> QED
    BY <2>2, <2>3
<1>9. /\ stream'.points = job.points /\ stream'.cloud = job.cloud /\ stream'.width = width
      /\ stream'.compressed = compressed
      /\ stream'.indices = IF compressed THEN IndexSymbols(CornerIndices(job.mesh))
                           ELSE CornerIndices(job.mesh)
      /\ stream'.kind = "integer" /\ stream'.method = method /\ stream'.symbols = Symbols
      /\ stream'.min = bounds.minValue /\ stream'.max = bounds.maxValue
      /\ stream'.flags = FlagsToSend(creases)
  BY <1>8 DEF Wire
<1>10. Sendable' /\ ValuesRead' = ValuesRead
  BY <1>1, <1>4 DEF Sendable, TooFewEntries, ValuesRead
<1>11. IsPlain' \/ IsPredicted'
  <2>1. CASE method = None /\ corrections = ValuesRead
    <3>1. Symbols = [e \in Entries(job.points) |-> ToSymbol(ValuesRead[e])]
      <4>1. DOMAIN corrections = Entries(job.points)
        BY <2>1 DEF ValuesRead
      <4> QED
        BY <2>1, <4>1 DEF Symbols
    <3> QED
      BY <1>1, <1>9, <1>10, <2>1, <3>1 DEF IsPlain
  <2>2. CASE /\ method = job.method
             /\ PredictedFrom(0, bounds.minValue, bounds.maxValue)
             /\ creases = Above(-1)
    <3>1. PICK min, max : min = bounds.minValue /\ max = bounds.maxValue
      OBVIOUS
    <3>2. PredictedFrom(0, min, max)'
      BY <1>1, <2>2, <3>1, PredictedFromKept
    <3>3. PredictedFrom(0, stream.min, stream.max)'
      BY <1>9, <3>1, <3>2
    <3>4. Above(-1)' = Above(-1)
      BY <1>1 DEF Above
    <3>5. Symbols = [e \in Entries(job.points) |-> ToSymbol(corrections[e])]
      BY <2>2 DEF Symbols, PredictedFrom, Entries
    <3> QED
      BY <1>1, <1>9, <2>2, <3>3, <3>4, <3>5 DEF IsPredicted
  <2> QED
    BY <1>3, <2>1, <2>2
<1>12. Described'
  BY <1>1, <1>5, <1>8, <1>9, <1>11 DEF Described
<1>13. IndicesAgree'
  <2>1. job.mesh.numFaces \in Nat
    BY <1>5, JobType
  <2>2. indices' = <<>> /\ indices' \in Seq(Entries(job'.points)) /\ Len(indices') = 0
    BY <1>1, <1>2
  <2> QED
    BY <1>1, <2>1, <2>2 DEF IndicesAgree
<1> QED
  BY <1>1, <1>12, <1>13 DEF IInv, WhileEncoding, WhilePredicting, WhileCoding, BeforeReading,
     WhileReading, WhileRestoring, MethodIsRead, AtTheEnd, Reading

LEMMA WriteGenericKeeps ==
  ASSUME IInv, WriteGeneric
  PROVE  IInv'
<1>1. /\ phase = "encoding" /\ phase' = "faces" /\ job.kind = "generic"
      /\ UNCHANGED <<job, method, creases, corrections, history, indices, values>>
  BY DEF WriteGeneric
<1>2. job \in Jobs /\ method = None /\ creases = NoCreases /\ indices = <<>>
  BY <1>1 DEF IInv, WhileEncoding, BeforeReading, Reading
<1>3. PICK compressed \in BOOLEAN : stream' = Wire(compressed, "generic", 0, GenericWritten)
  BY DEF WriteGeneric
<1>4. /\ stream'.points = job.points /\ stream'.cloud = job.cloud /\ stream'.width = 0
      /\ stream'.compressed = compressed
      /\ stream'.indices = IF compressed THEN IndexSymbols(CornerIndices(job.mesh))
                           ELSE CornerIndices(job.mesh)
      /\ stream'.kind = "generic" /\ stream'.method = None /\ stream'.symbols = GenericWritten
  BY <1>2, <1>3 DEF Wire
<1>5. GenericWritten' = GenericWritten
  BY <1>1 DEF GenericWritten, ValuesByPoint
<1>6. IsGeneric'
  BY <1>1, <1>4, <1>5 DEF IsGeneric
<1>7. Described'
  BY <1>1, <1>2, <1>4, <1>6 DEF Described
<1>8. IndicesAgree'
  <2>1. job.mesh.numFaces \in Nat
    BY <1>2, JobType
  <2>2. indices' = <<>> /\ indices' \in Seq(Entries(job'.points)) /\ Len(indices') = 0
    BY <1>1, <1>2
  <2> QED
    BY <1>1, <2>1, <2>2 DEF IndicesAgree
<1> QED
  BY <1>1, <1>2, <1>7, <1>8 DEF IInv, WhileEncoding, WhilePredicting, WhileCoding, BeforeReading,
     WhileReading, WhileRestoring, MethodIsRead, AtTheEnd, Reading

-----------------------------------------------------------------------------
(* The decoder's steps.                                                    *)

LEMMA DescribedKept ==
  ASSUME UNCHANGED <<job, corrections, history, stream>>
  PROVE  /\ Described => Described'
         /\ IsPredicted => IsPredicted'
         /\ Faithful' <=> Faithful
         /\ ValuesSent' = ValuesSent
<1>1. ASSUME NEW e
      PROVE  Above(e)' = Above(e)
  BY DEF Above
<1>2. IsPredicted => IsPredicted'
  <2> SUFFICES ASSUME IsPredicted PROVE IsPredicted'
    OBVIOUS
  <2>1. PICK min, max : min = stream.min /\ max = stream.max
    OBVIOUS
  <2>2. PredictedFrom(0, min, max)'
    BY <2>1, PredictedFromKept DEF IsPredicted
  <2> QED
    BY <1>1, <2>1, <2>2 DEF IsPredicted
<1>3. IsPlain => IsPlain'
  BY DEF IsPlain, Sendable, TooFewEntries, ValuesRead
<1>4. IsGeneric => IsGeneric'
  BY DEF IsGeneric, GenericWritten, ValuesByPoint
<1>5. Described => Described'
  BY <1>2, <1>3, <1>4 DEF Described
<1>6. Faithful' <=> Faithful
  BY DEF Faithful, SumsFit, SameWalk, OwnEntries
<1>7. ValuesSent' = ValuesSent
  BY DEF ValuesSent, ValuesByPoint, ValuesRead, OwnEntries
<1> QED
  BY <1>2, <1>5, <1>6, <1>7

(* The decoder finds nothing wrong with what the encoder wrote.            *)
LEMMA HeaderIsGood ==
  ASSUME Described, IndicesAgree, Len(indices) = 3 * job.mesh.numFaces
  PROVE  ~BadHeader
<1>1. ~(stream.width > 4)
  BY DEF Described
<1>2. ~SymbolsMissing
  <2>1. CASE IsPredicted \/ IsPlain
    BY <2>1 DEF SymbolsMissing, IsPredicted, IsPlain, Described
  <2>2. CASE IsGeneric /\ job.mapped
    BY <2>2 DEF SymbolsMissing, IsGeneric, GenericWritten, ValuesByPoint, Described
  <2>3. CASE IsGeneric /\ ~job.mapped
    <3>1. stream.symbols = job.values /\ stream.points = job.points
      BY <2>3 DEF IsGeneric, GenericWritten, Described
    <3>2. Entries(job.points) \subseteq DOMAIN job.values
      BY <2>3, JobType DEF Described
    <3> QED
      BY <3>1, <3>2 DEF SymbolsMissing, Described
  <2> QED
    BY <2>1, <2>2, <2>3 DEF Described
<1>3. stream.kind = "integer" /\ stream.method # None =>
        /\ ~RangeIsRefused(stream.min, stream.max)
        /\ ~(stream.method \in MeshMethods /\ (stream.cloud \/ TableIsRefused(MeshRead)))
  <2> SUFFICES ASSUME stream.kind = "integer", stream.method # None
               PROVE  /\ ~RangeIsRefused(stream.min, stream.max)
                      /\ ~(stream.method \in MeshMethods
                           /\ (stream.cloud \/ TableIsRefused(MeshRead)))
    OBVIOUS
  <2>1. IsPredicted
    BY DEF Described, IsPlain, IsGeneric
  <2>2. ~RangeIsRefused(stream.min, stream.max) /\ ~MeshMissing /\ stream.method = job.method
    BY <2>1 DEF IsPredicted, PredictedFrom, Bounding
  <2>3. MeshRead = job.mesh /\ stream.cloud = job.cloud
    BY MeshIsRead DEF Described
  <2> QED
    BY <2>2, <2>3 DEF MeshMissing
<1>4. None \notin MeshMethods
  BY DEF None, MeshMethods
<1> QED
  BY <1>1, <1>2, <1>3, <1>4 DEF BadHeader

LEMMA ReadIndexKeeps ==
  ASSUME IInv, ReadIndex
  PROVE  IInv'
<1>1. /\ phase = "faces" /\ FacesLeft /\ phase' = "faces"
      /\ indices' = Append(indices, IndexRead)
      /\ UNCHANGED <<job, corrections, creases, history, stream>>
  BY DEF ReadIndex
<1>2. WhileReading'
  <2> SUFFICES ASSUME job # Foreign PROVE Described' /\ IndicesAgree' /\ creases' = NoCreases
    BY <1>1 DEF WhileReading
  <2>1. Described /\ IndicesAgree /\ creases = NoCreases
    BY <1>1 DEF IInv, WhileReading, Reading
  <2>2. /\ Len(indices) + 1 \in 1 .. 3 * job.mesh.numFaces
        /\ IndexRead = CornerIndices(job.mesh)[Len(indices) + 1]
    BY <1>1, <2>1, IndexIsRead
  <2>3. job \in Jobs /\ job.mesh.numFaces \in Nat
    BY <2>1, JobType DEF Described
  <2>4. IndexRead \in Entries(job.points)
    BY <2>2, <2>3, CornerIndicesType, ElementOfSeq
  <2>5. /\ indices \in Seq(Entries(job.points)) /\ Len(indices) \in Nat
        /\ \A i \in 1 .. Len(indices) : indices[i] = CornerIndices(job.mesh)[i]
    BY <2>1, LenProperties DEF IndicesAgree
  <2>6. /\ indices' \in Seq(Entries(job.points)) /\ Len(indices') = Len(indices) + 1
        /\ \A i \in 1 .. Len(indices) : indices'[i] = indices[i]
        /\ indices'[Len(indices) + 1] = IndexRead
    BY <1>1, <2>4, <2>5, AppendProperties
  <2>7. \A i \in 1 .. Len(indices') : indices'[i] = CornerIndices(job.mesh)[i]
    <3> SUFFICES ASSUME NEW i \in 1 .. Len(indices')
                 PROVE  indices'[i] = CornerIndices(job.mesh)[i]
      OBVIOUS
    <3>1. i \in 1 .. Len(indices) \/ i = Len(indices) + 1
      BY <2>5, <2>6
    <3> QED
      BY <2>2, <2>5, <2>6, <3>1
  <2>8. IndicesAgree'
    BY <1>1, <2>2, <2>3, <2>6, <2>7 DEF IndicesAgree
  <2> QED
    BY <1>1, <2>1, <2>8, DescribedKept
<1> QED
  BY <1>1, <1>2 DEF IInv, WhileEncoding, WhilePredicting, WhileCoding, BeforeReading, WhileRestoring,
     MethodIsRead, AtTheEnd, Reading

(* A decoder that gives up does so on streams from elsewhere, or on flags  *)
(* that do not go with what it predicts from.                              *)
LEMMA FailKeeps ==
  ASSUME IInv, Fail, Reading,
         job # Foreign => stream.method = "constrained" /\ ~Faithful
  PROVE  IInv'
<1>1. /\ phase' = "failed"
      /\ UNCHANGED <<job, corrections, creases, history, stream, indices>>
  BY DEF Fail
<1>2. WhileReading'
  <2> SUFFICES ASSUME job # Foreign PROVE Described' /\ IndicesAgree'
    BY <1>1 DEF WhileReading
  <2>1. Described /\ IndicesAgree
    BY DEF IInv, WhileReading
  <2>2. IndicesAgree'
    BY <1>1, <2>1 DEF IndicesAgree
  <2> QED
    BY <1>1, <2>1, <2>2, DescribedKept
<1>3. job' # Foreign => stream'.method = "constrained" /\ ~Faithful'
  BY <1>1, DescribedKept
<1> QED
  BY <1>1, <1>2, <1>3 DEF IInv, WhileEncoding, WhilePredicting, WhileCoding, BeforeReading,
     WhileRestoring, MethodIsRead, AtTheEnd, Reading

LEMMA ReadBadIndexKeeps ==
  ASSUME IInv, ReadBadIndex
  PROVE  IInv'
<1>1. phase = "faces" /\ FacesLeft /\ IndexRead \notin 0 .. stream.points - 1 /\ Fail
  BY DEF ReadBadIndex
<1>2. job = Foreign
  BY <1>1, IndexIsRead DEF IInv, WhileReading, Reading
<1> QED
  BY <1>1, <1>2, FailKeeps DEF Reading

(* When no face is left, all corners have been read.                       *)
LEMMA AllFacesRead ==
  ASSUME IInv, phase = "faces", ~FacesLeft, job # Foreign
  PROVE  /\ Described /\ IndicesAgree /\ creases = NoCreases
         /\ Len(indices) = 3 * job.mesh.numFaces
<1>1. Described /\ IndicesAgree /\ creases = NoCreases
  BY DEF IInv, WhileReading, Reading
<1>2. job \in Jobs /\ job.mesh.numFaces \in Nat
  BY <1>1, JobType DEF Described
<1>3. Len(stream.indices) = 3 * job.mesh.numFaces
  BY <1>1, <1>2, CornerIndicesType, IndexSymbolsLength DEF Described
<1>4. Len(indices) \in Nat /\ Len(indices) <= 3 * job.mesh.numFaces
  BY <1>1, LenProperties DEF IndicesAgree
<1> QED
  BY <1>1, <1>2, <1>3, <1>4 DEF FacesLeft

LEMMA RefuseStreamKeeps ==
  ASSUME IInv, RefuseStream
  PROVE  IInv'
<1>1. phase = "faces" /\ ~FacesLeft /\ BadHeader /\ Fail
  BY DEF RefuseStream
<1>2. job = Foreign
  BY <1>1, AllFacesRead, HeaderIsGood
<1> QED
  BY <1>1, <1>2, FailKeeps DEF Reading

LEMMA ReadUnpredictedKeeps ==
  ASSUME IInv, ReadUnpredicted
  PROVE  IInv'
<1>1. /\ phase = "faces" /\ ~FacesLeft /\ phase' = "decoded"
      /\ stream.kind = "generic" \/ stream.method = None
      /\ values' = [e \in Entries(stream.points) |->
                      IF stream.kind = "generic" THEN stream.symbols[e]
                      ELSE FromSymbol(stream.symbols[e])]
      /\ UNCHANGED <<job, corrections, creases, history, stream, indices>>
  BY DEF ReadUnpredicted
<1>2. ASSUME job # Foreign
      PROVE  /\ Described /\ IndicesAgree /\ creases = NoCreases
             /\ Len(indices) = 3 * job.mesh.numFaces
  BY <1>1, <1>2, AllFacesRead
<1>3. WhileReading'
  <2> SUFFICES ASSUME job # Foreign
               PROVE  Described' /\ IndicesAgree' /\ Len(indices') = 3 * job'.mesh.numFaces
    BY <1>1 DEF WhileReading
  <2>1. IndicesAgree'
    BY <1>1, <1>2 DEF IndicesAgree
  <2> QED
    BY <1>1, <1>2, <2>1, DescribedKept
<1>4. job # Foreign => values' = ValuesSent
  <2> SUFFICES ASSUME job # Foreign PROVE values' = ValuesSent
    OBVIOUS
  <2>1. Described
    BY <1>2
  <2>2. job \in Jobs /\ stream.points = job.points
    BY <2>1 DEF Described
  <2>3. CASE IsGeneric
    <3>1. values' = [e \in Entries(job.points) |-> GenericWritten[e]]
      BY <1>1, <2>2, <2>3 DEF IsGeneric
    <3>2. CASE job.mapped
      BY <2>3, <3>1, <3>2 DEF GenericWritten, ValuesByPoint, ValuesSent, IsGeneric
    <3>3. CASE ~job.mapped
      <4>1. \A e \in Entries(job.points) : job.entryOf[e] = e
        BY <2>2, <3>3, JobType
      <4> QED
        BY <2>3, <3>1, <3>3, <4>1 DEF GenericWritten, ValuesByPoint, ValuesSent, IsGeneric
    <3> QED
      BY <3>2, <3>3
  <2>4. CASE IsPlain
    <3>1. Sendable
      BY <2>4 DEF IsPlain
    <3>2. \A e \in Entries(job.points) : FromSymbol(ToSymbol(ValuesRead[e])) = ValuesRead[e]
      BY <3>1, ValuesReadType, SymbolsAreReversible
    <3>3. values' = [e \in Entries(job.points) |-> FromSymbol(ToSymbol(ValuesRead[e]))]
      BY <1>1, <2>2, <2>4 DEF IsPlain
    <3>4. values' = ValuesRead
      BY <3>2, <3>3 DEF ValuesRead
    <3> QED
      BY <3>1, <3>4, NumbersSent
  <2>5. ~IsPredicted
    BY <1>1 DEF IsPredicted, PredictedFrom
  <2> QED
    BY <2>1, <2>3, <2>4, <2>5 DEF Described
<1>5. AtTheEnd'
  <2> SUFFICES ASSUME job # Foreign PROVE values' = ValuesSent' /\ creases' = NoCreases
    BY <1>1 DEF AtTheEnd
  <2> QED
    BY <1>1, <1>2, <1>4, DescribedKept
<1> QED
  BY <1>1, <1>3, <1>5 DEF IInv, WhileEncoding, WhilePredicting, WhileCoding, BeforeReading,
     WhileRestoring, MethodIsRead, Reading

LEMMA StartRestoringKeeps ==
  ASSUME IInv, StartRestoring
  PROVE  IInv'
<1>1. /\ phase = "faces" /\ ~FacesLeft /\ phase' = "restoring"
      /\ stream.kind = "integer" /\ stream.method # None
      /\ method' = stream.method /\ context' = DecoderContext
      /\ bounds' = Wrap(stream.min, stream.max)
      /\ creases' = stream.flags /\ entry' = 0
      /\ UNCHANGED <<job, corrections, history, stream, indices>>
  BY DEF StartRestoring
<1>2. values' = [e \in Entries(stream.points) |-> values'[e]]
  BY DEF StartRestoring
<1>3. ASSUME job # Foreign
      PROVE  /\ Described /\ IndicesAgree
             /\ Len(indices) = 3 * job.mesh.numFaces
  BY <1>1, <1>3, AllFacesRead
<1>4. WhileReading'
  <2> SUFFICES ASSUME job # Foreign
               PROVE  Described' /\ IndicesAgree' /\ Len(indices') = 3 * job'.mesh.numFaces
    BY <1>1 DEF WhileReading
  <2>1. IndicesAgree'
    BY <1>1, <1>3 DEF IndicesAgree
  <2> QED
    BY <1>1, <1>3, <2>1, DescribedKept
<1>5. WhileRestoring'
  <2> SUFFICES ASSUME Faithful'
               PROVE  /\ IsPredicted'
                      /\ method' = job'.method
                      /\ context' = EncoderContext'
                      /\ bounds' = Wrap(stream'.min, stream'.max)
                      /\ entry' \in 0 .. job'.points
                      /\ values' = [e \in Entries(job'.points) |-> values'[e]]
                      /\ \A e \in 0 .. entry' - 1 : values'[e] = ValuesRead'[e]
                      /\ creases' = FlagsToSend(Above(entry - 1)')
    BY DEF WhileRestoring
  <2>1. Faithful /\ job # Foreign
    BY <1>1, DescribedKept DEF Faithful
  <2>2. Described /\ IsPredicted
    BY <1>1, <1>3, <2>1 DEF Described, IsPlain, IsGeneric
  <2>3. /\ job \in Jobs /\ job.points \in Nat /\ SameWalk
    BY <2>1, <2>2, JobType DEF Described, Faithful
  <2>4. DecoderContext = EncoderContext
    BY <1>3, <2>1, <2>2, <2>3, ContextIsTheEncoders
  <2>5. context' = EncoderContext'
    BY <1>1, <2>4 DEF EncoderContext
  <2>6. 0 .. entry' - 1 = {} /\ entry' - 1 = -1 /\ entry' \in 0 .. job'.points
    BY <1>1, <2>3
  <2>7. creases' = FlagsToSend(Above(entry - 1)')
    <3>1. Above(entry - 1)' = Above(-1)
      BY <1>1, <2>6 DEF Above
    <3> QED
      BY <1>1, <2>2, <3>1 DEF IsPredicted
  <2>8. stream.points = job.points /\ stream.method = job.method
    BY <2>2 DEF Described, IsPredicted
  <2> QED
    BY <1>1, <1>2, <2>2, <2>5, <2>6, <2>7, <2>8, DescribedKept
<1> QED
  BY <1>1, <1>4, <1>5 DEF IInv, WhileEncoding, WhilePredicting, WhileCoding, BeforeReading,
     MethodIsRead, AtTheEnd, Reading

(* At every entry the decoder is where the encoder was.                    *)
LEMMA DecoderFollows ==
  ASSUME IInv, phase = "restoring", Faithful, entry < stream.points
  PROVE  /\ entry \in Entries(job.points)
         /\ ~FlagsTruncated
         /\ FlagsHere = history[entry].crease
         /\ Prediction(method, context, entry, values, FlagsHere) = history[entry].guess
         /\ (IF NeedsFlags THEN [creases EXCEPT ![HowMany(PredictionsHere)] = Tail(@)]
             ELSE creases) = FlagsToSend(Above(entry))
<1>1. /\ IsPredicted
      /\ method = job.method
      /\ context = EncoderContext
      /\ entry \in 0 .. job.points
      /\ \A e \in 0 .. entry - 1 : values[e] = ValuesRead[e]
      /\ creases = FlagsToSend(Above(entry - 1))
  BY DEF IInv, WhileRestoring
<1>2. Described
  BY DEF IInv, WhileReading, Reading, Faithful
<1>3. job.points \in Nat /\ stream.points = job.points
  BY <1>2, JobType DEF Described
<1>4. entry \in Nat /\ entry \in Entries(job.points) /\ entry \in 0 .. job.points - 1
  BY <1>1, <1>3 DEF Entries
<1>5. Predicted(entry, stream.min, stream.max)
  BY <1>1, <1>4 DEF IsPredicted, PredictedFrom
<1>6. PredictionsHere = Ahead(entry)
  BY <1>1, <1>4, PredictionsLookBack DEF PredictionsHere, Ahead
<1> DEFINE crease == history[entry].crease
           n == HowMany(Ahead(entry))
<1>7. /\ crease \in Seq(BOOLEAN)
      /\ n \in 0 .. 4
      /\ Ahead(entry) = <<>> <=> n = 0
      /\ IF job.method = "constrained" /\ n > 0
         THEN crease # <<>> /\ Len(crease) = n /\ n \in Contexts
         ELSE crease = <<>>
  BY <1>5, PredictedCrease
<1>8. /\ history[entry].before \in Lists
      /\ history[entry].before = Above(entry)
      /\ history[entry].guess = Prediction(job.method, EncoderContext, entry, ValuesRead, crease)
  BY <1>5 DEF Predicted
<1>9. creases = FlagsToSend(WithCreases(history[entry].before, crease))
  <2>1. entry - 1 # job.points - 1 /\ (entry - 1) + 1 = entry
    BY <1>3, <1>4
  <2> QED
    BY <1>1, <2>1 DEF Above
<1>10. Prediction(method, context, entry, values, crease) = history[entry].guess
  BY <1>1, <1>4, <1>8, PredictionLooksBack
<1>11. NeedsFlags <=> (job.method = "constrained" /\ n > 0)
  BY <1>1, <1>6, <1>7 DEF NeedsFlags
<1>12. /\ ~FlagsTruncated
       /\ FlagsHere = crease
       /\ (IF NeedsFlags THEN [creases EXCEPT ![HowMany(PredictionsHere)] = Tail(@)]
           ELSE creases) = FlagsToSend(Above(entry))
  <2>1. CASE NeedsFlags
    <3>1. crease # <<>> /\ Len(crease) = n /\ n \in Contexts
      BY <1>7, <1>11, <2>1
    <3>2. HowMany(PredictionsHere) = n
      BY <1>6
    <3> HIDE DEF crease, n
    <3>3. /\ creases[n] # <<>>
          /\ Head(creases[n]) = crease
          /\ [creases EXCEPT ![n] = Tail(@)] = FlagsToSend(history[entry].before)
      BY <1>7, <1>8, <1>9, <3>1, FlagsComeBack
    <3>4. ~FlagsTruncated
      BY <1>7, <3>1, <3>2, <3>3 DEF FlagsTruncated
    <3>5. FlagsHere = crease
      BY <2>1, <3>2, <3>3 DEF FlagsHere
    <3> QED
      BY <1>8, <2>1, <3>2, <3>3, <3>4, <3>5
  <2>2. CASE ~NeedsFlags
    <3>1. crease = <<>>
      BY <1>7, <1>11, <2>2
    <3>2. creases = FlagsToSend(Above(entry))
      BY <1>8, <1>9, <3>1 DEF WithCreases, NoFlags
    <3> QED
      BY <2>2, <3>1, <3>2 DEF FlagsTruncated, FlagsHere
  <2> QED
    BY <2>1, <2>2
<1> QED
  BY <1>4, <1>10, <1>12

LEMMA RestoreEntryKeeps ==
  ASSUME IInv, RestoreEntry
  PROVE  IInv'
<1>1. /\ phase = "restoring" /\ entry < stream.points /\ phase' = "restoring"
      /\ values' = [values EXCEPT ![entry] =
                      OriginalValue(bounds, Prediction(method, context, entry, values, FlagsHere),
                                    FromSymbol(stream.symbols[entry]))]
      /\ creases' = IF NeedsFlags THEN [creases EXCEPT ![HowMany(PredictionsHere)] = Tail(@)]
                    ELSE creases
      /\ entry' = entry + 1
      /\ UNCHANGED <<job, method, context, bounds, corrections, history, stream, indices>>
  BY DEF RestoreEntry
<1>2. WhileReading'
  <2> SUFFICES ASSUME job # Foreign
               PROVE  Described' /\ IndicesAgree' /\ Len(indices') = 3 * job'.mesh.numFaces
    BY <1>1 DEF WhileReading
  <2>1. Described /\ IndicesAgree /\ Len(indices) = 3 * job.mesh.numFaces
    BY <1>1 DEF IInv, WhileReading, Reading
  <2>2. IndicesAgree'
    BY <1>1, <2>1 DEF IndicesAgree
  <2> QED
    BY <1>1, <2>1, <2>2, DescribedKept
<1>3. WhileRestoring'
  <2> SUFFICES ASSUME Faithful'
               PROVE  /\ IsPredicted'
                      /\ method' = job'.method
                      /\ context' = EncoderContext'
                      /\ bounds' = Wrap(stream'.min, stream'.max)
                      /\ entry' \in 0 .. job'.points
                      /\ values' = [e \in Entries(job'.points) |-> values'[e]]
                      /\ \A e \in 0 .. entry' - 1 : values'[e] = ValuesRead'[e]
                      /\ creases' = FlagsToSend(Above(entry - 1)')
    BY DEF WhileRestoring
  <2>1. Faithful
    BY <1>1, DescribedKept
  <2>2. /\ IsPredicted
        /\ method = job.method
        /\ context = EncoderContext
        /\ bounds = Wrap(stream.min, stream.max)
        /\ values = [e \in Entries(job.points) |-> values[e]]
        /\ \A e \in 0 .. entry - 1 : values[e] = ValuesRead[e]
    BY <1>1, <2>1 DEF IInv, WhileRestoring
  <2>3. /\ entry \in Entries(job.points)
        /\ Prediction(method, context, entry, values, FlagsHere) = history[entry].guess
        /\ creases' = FlagsToSend(Above(entry))
    BY <1>1, <2>1, DecoderFollows
  <2>4. Described
    BY <1>1, <2>1 DEF IInv, WhileReading, Reading, Faithful
  <2>5. job.points \in Nat
    BY <2>4, JobType DEF Described
  <2>6. entry \in Int /\ 0 <= entry /\ entry <= job.points - 1
    BY <2>3, <2>5 DEF Entries
  <2>7. values'[entry] = ValuesRead[entry]
    <3>1. /\ stream.min \in Int32 /\ stream.max \in Int32
          /\ ~RangeIsRefused(stream.min, stream.max)
          /\ ValuesRead[entry] \in stream.min .. stream.max
          /\ stream.symbols[entry] = ToSymbol(corrections[entry])
      BY <2>2, <2>3 DEF IsPredicted, PredictedFrom, Bounding
    <3>2. corrections[entry]
            = Correction(Wrap(stream.min, stream.max), ValuesRead[entry], history[entry].guess)
      BY <2>2, <2>3 DEF IsPredicted, PredictedFrom, Predicted, Entries
    <3>3. FromSymbol(stream.symbols[entry]) = corrections[entry]
      BY <2>2, <2>3, <3>1, PredictedSymbols, SymbolsAreReversible DEF IsPredicted
    <3>4. RoomForCorrections(Wrap(stream.min, stream.max))
      BY <2>1, <2>2 DEF Faithful, SumsFit, IsPredicted, PredictedFrom
    <3>5. OriginalValue(bounds, history[entry].guess, corrections[entry]) = ValuesRead[entry]
      BY <2>2, <3>1, <3>2, <3>4, WrapIsReversible
    <3> QED
      BY <1>1, <2>2, <2>3, <3>3, <3>5
  <2>8. values' = [e \in Entries(job'.points) |-> values'[e]] /\ ValuesRead' = ValuesRead
        /\ EncoderContext' = EncoderContext
    BY <1>1, <2>2 DEF ValuesRead, EncoderContext
  <2>9. \A e \in 0 .. entry' - 1 : values'[e] = ValuesRead'[e]
    <3> SUFFICES ASSUME NEW e \in 0 .. entry' - 1 PROVE values'[e] = ValuesRead[e]
      BY <2>8
    <3>1. e \in 0 .. entry - 1 \/ e = entry
      BY <1>1, <2>6
    <3>2. CASE e = entry
      BY <2>7, <3>2
    <3>3. CASE e \in 0 .. entry - 1
      <4>1. e # entry /\ e \in Entries(job.points)
        BY <2>5, <2>6, <3>3 DEF Entries
      <4> QED
        BY <1>1, <2>2, <3>3, <4>1
    <3> QED
      BY <3>1, <3>2, <3>3
  <2>10. creases' = FlagsToSend(Above(entry - 1)')
    <3>1. Above(entry - 1)' = Above(entry)
      <4>1. entry' - 1 = entry
        BY <1>1, <2>6
      <4> QED
        BY <1>1, <4>1 DEF Above
    <3> QED
      BY <2>3, <3>1
  <2>11. entry' \in 0 .. job'.points
    BY <1>1, <2>5, <2>6
  <2> QED
    BY <1>1, <2>2, <2>8, <2>9, <2>10, <2>11, DescribedKept
<1> QED
  BY <1>1, <1>2, <1>3 DEF IInv, WhileEncoding, WhilePredicting, WhileCoding, BeforeReading,
     MethodIsRead, AtTheEnd, Reading

LEMMA MissFlagsKeeps ==
  ASSUME IInv, MissFlags
  PROVE  IInv'
<1>1. phase = "restoring" /\ entry < stream.points /\ FlagsTruncated /\ Fail
  BY DEF MissFlags
<1>2. ~Faithful
  BY <1>1, DecoderFollows
<1>3. stream.method = "constrained"
  BY <1>1 DEF IInv, MethodIsRead, FlagsTruncated, NeedsFlags
<1> QED
  BY <1>1, <1>2, <1>3, FailKeeps DEF Reading

LEMMA AllRestoredKeeps ==
  ASSUME IInv, AllRestored
  PROVE  IInv'
<1>1. /\ phase = "restoring" /\ entry = stream.points /\ phase' = "decoded"
      /\ UNCHANGED <<job, creases, corrections, history, stream, indices, values>>
  BY DEF AllRestored
<1>2. WhileReading'
  <2> SUFFICES ASSUME job # Foreign
               PROVE  Described' /\ IndicesAgree' /\ Len(indices') = 3 * job'.mesh.numFaces
    BY <1>1 DEF WhileReading
  <2>1. Described /\ IndicesAgree /\ Len(indices) = 3 * job.mesh.numFaces
    BY <1>1 DEF IInv, WhileReading, Reading
  <2>2. IndicesAgree'
    BY <1>1, <2>1 DEF IndicesAgree
  <2> QED
    BY <1>1, <2>1, <2>2, DescribedKept
<1>3. AtTheEnd'
  <2> SUFFICES ASSUME Faithful' PROVE values' = ValuesSent' /\ creases' = NoCreases
    BY <1>1 DEF AtTheEnd
  <2>1. Faithful
    BY <1>1, DescribedKept
  <2>2. /\ IsPredicted
        /\ values = [e \in Entries(job.points) |-> values[e]]
        /\ \A e \in 0 .. entry - 1 : values[e] = ValuesRead[e]
        /\ creases = FlagsToSend(Above(entry - 1))
    BY <1>1, <2>1 DEF IInv, WhileRestoring
  <2>3. Described
    BY <1>1, <2>1 DEF IInv, WhileReading, Reading, Faithful
  <2>4. entry = job.points /\ Sendable
    BY <1>1, <2>2, <2>3 DEF Described, IsPredicted, PredictedFrom
  <2>5. \A e \in Entries(job.points) : values[e] = ValuesRead[e]
    BY <2>2, <2>4 DEF Entries
  <2>6. values = ValuesSent
    <3>1. values = ValuesRead
      BY <2>2, <2>5 DEF ValuesRead
    <3> QED
      BY <2>4, <3>1, NumbersSent
  <2>7. creases = NoCreases
    BY <2>2, <2>4, NothingToSend DEF Above
  <2> QED
    BY <1>1, <2>6, <2>7, DescribedKept
<1> QED
  BY <1>1, <1>2, <1>3 DEF IInv, WhileEncoding, WhilePredicting, WhileCoding, BeforeReading,
     WhileRestoring, MethodIsRead, Reading

-----------------------------------------------------------------------------
(* The theorems.                                                           *)

LEMMA StepKeeps ==
  ASSUME IInv, [Next]_vars
  PROVE  IInv'
<1>1. CASE UNCHANGED vars
  <2>1. /\ UNCHANGED <<job, phase, entry, method, context, bounds>>
        /\ UNCHANGED <<corrections, creases, history, stream, indices, values>>
    BY <1>1 DEF vars
  <2>2. WhileEncoding' /\ BeforeReading'
    BY <2>1 DEF IInv, WhileEncoding, BeforeReading, Reading
  <2>3. ASSUME NEW e
        PROVE  Above(e)' = Above(e)
    BY <2>1 DEF Above
  <2>4. WhilePredicting'
    <3> SUFFICES ASSUME phase = "predicting" PROVE WhilePredicting'
      BY <2>1 DEF WhilePredicting
    <3>1. PICK first, min, max :
            first = entry + 1 /\ min = bounds.minValue /\ max = bounds.maxValue
      OBVIOUS
    <3>2. PredictedFrom(first, min, max)'
      BY <2>1, <3>1, PredictedFromKept DEF IInv, WhilePredicting
    <3>3. Above(entry)' = Above(entry) /\ EncoderContext' = EncoderContext
      BY <2>1 DEF Above, EncoderContext
    <3> QED
      BY <2>1, <3>1, <3>2, <3>3 DEF IInv, WhilePredicting
  <2>5. WhileCoding'
    <3>1. PICK min, max : min = bounds.minValue /\ max = bounds.maxValue
      OBVIOUS
    <3>2. PredictedFrom(0, min, max) => PredictedFrom(0, min, max)'
      BY <2>1, PredictedFromKept
    <3>3. Sendable' = Sendable /\ ValuesRead' = ValuesRead
      BY <2>1 DEF Sendable, TooFewEntries, ValuesRead
    <3> QED
      BY <2>1, <2>3, <3>1, <3>2, <3>3 DEF IInv, WhileCoding
  <2>6. WhileReading'
    <3> SUFFICES ASSUME Reading, job # Foreign PROVE WhileReading'
      BY <2>1 DEF WhileReading, Reading
    <3>1. Described' /\ IndicesAgree'
      BY <2>1, DescribedKept DEF IInv, WhileReading, IndicesAgree
    <3> QED
      BY <2>1, <3>1 DEF IInv, WhileReading
  <2>7. WhileRestoring'
    <3> SUFFICES ASSUME phase = "restoring", Faithful PROVE WhileRestoring'
      BY <2>1, DescribedKept DEF WhileRestoring
    <3>1. IsPredicted'
      BY <2>1, DescribedKept DEF IInv, WhileRestoring
    <3>2. /\ Above(entry - 1)' = Above(entry - 1) /\ EncoderContext' = EncoderContext
          /\ ValuesRead' = ValuesRead
      BY <2>1 DEF Above, EncoderContext, ValuesRead
    <3> QED
      BY <2>1, <3>1, <3>2 DEF IInv, WhileRestoring
  <2>8. AtTheEnd' /\ MethodIsRead'
    BY <2>1, DescribedKept DEF IInv, AtTheEnd, MethodIsRead
  <2> QED
    BY <2>2, <2>4, <2>5, <2>6, <2>7, <2>8 DEF IInv
<1>2. CASE EncoderNext
  BY <1>2, RefuseAttributeKeeps, SendUnpredictedKeeps, StartPredictingKeeps, PredictEntryKeeps,
     AllPredictedKeeps, WriteIntegersKeeps, WriteGenericKeeps DEF EncoderNext
<1>3. CASE DecoderNext
  BY <1>3, ReadIndexKeeps, ReadBadIndexKeeps, RefuseStreamKeeps, ReadUnpredictedKeeps,
     StartRestoringKeeps, RestoreEntryKeeps, MissFlagsKeeps, AllRestoredKeeps DEF DecoderNext
<1> QED
  BY <1>1, <1>2, <1>3 DEF Next

(* What the encoder wrote and what the decoder reads stay tied together,   *)
(* entry by entry, through both walks (mesh_prediction.go:360, 437).       *)
THEOREM Invariance == Spec => []IInv
<1>1. Init => IInv
  BY InitEstablishes
<1>2. IInv /\ [Next]_vars => IInv'
  BY StepKeeps
<1> QED
  BY <1>1, <1>2, PTL DEF Spec

(* Whatever mesh, values, mapping, word, bytes and leftovers of buffers:   *)
(* a decoded mesh has its corners (decoder.go:728); where both sides walk  *)
(* alike and no sum turns over, the values are those that were sent        *)
(* (integer_codec.go:71), by entry for numbers that have a mapping; and    *)
(* only constrained flags between sides that do not agree are refused.     *)
THEOREM GeometryAlwaysComesBack == Spec => []GeometryComesBack
<1>1. IInv => GeometryComesBack
  <2> SUFFICES ASSUME IInv, Reading, job # Foreign
               PROVE  /\ phase = "failed" => stream.method = "constrained" /\ ~Faithful
                      /\ phase = "decoded" => indices = CornerIndices(job.mesh)
                      /\ phase = "decoded" /\ Faithful => values = ValuesSent
    BY DEF GeometryComesBack
  <2>1. Described /\ IndicesAgree
        /\ (phase \in {"restoring", "decoded"} => Len(indices) = 3 * job.mesh.numFaces)
    BY DEF IInv, WhileReading
  <2>2. phase = "decoded" => indices = CornerIndices(job.mesh)
    BY <2>1, MeshIsRead
  <2> QED
    BY <2>2 DEF IInv, AtTheEnd
<1> QED
  BY <1>1, Invariance, PTL

(* Decoder and encoder predict the same from what each of them knows, with *)
(* the same flags (mesh_prediction.go:128, 506).                           *)
THEOREM PredictionsAlwaysAgree == Spec => []PredictionsAgree
<1>1. IInv => PredictionsAgree
  BY DecoderFollows DEF PredictionsAgree
<1> QED
  BY <1>1, Invariance, PTL

(* No symbol is out of the span of the values (wrap.go:107), and nothing   *)
(* is left in the lists of flags (mesh_prediction.go:437).                 *)
THEOREM NothingIsEverLeftOver == Spec => []NothingIsLeftOver
<1>1. IInv => NothingIsLeftOver
  <2> SUFFICES ASSUME IInv PROVE NothingIsLeftOver
    OBVIOUS
  <2>1. ASSUME Reading, job # Foreign, stream.method # None
        PROVE  \A e \in DOMAIN stream.symbols : stream.symbols[e] <= stream.max - stream.min
    <3>1. IsPredicted
      BY <2>1 DEF IInv, WhileReading, Described, IsPlain, IsGeneric
    <3> QED
      BY <3>1, PredictedSymbols DEF IsPredicted
  <2>2. ASSUME phase = "decoded", Faithful
        PROVE  creases = NoCreases /\ (NoSurplus => DOMAIN stream.symbols = Entries(job.points))
    <3>1. Described
      BY <2>2 DEF IInv, WhileReading, Reading, Faithful
    <3>2. (IsPredicted \/ IsPlain) => DOMAIN stream.symbols = Entries(job.points)
      BY DEF IsPredicted, IsPlain
    <3>3. IsGeneric /\ job.mapped => DOMAIN stream.symbols = Entries(job.points)
      BY DEF IsGeneric, GenericWritten, ValuesByPoint
    <3>4. ASSUME IsGeneric, ~job.mapped, NoSurplus
          PROVE  DOMAIN stream.symbols = Entries(job.points)
      <4>1. job.entries = job.points /\ stream.symbols = job.values
        BY <3>4 DEF IsGeneric, GenericWritten, NoSurplus
      <4>2. DOMAIN job.values = Entries(job.points)
        BY <3>1, <4>1, JobType DEF Described
      <4> QED
        BY <4>1, <4>2
    <3>5. NoSurplus => DOMAIN stream.symbols = Entries(job.points)
      BY <3>1, <3>2, <3>3, <3>4 DEF Described
    <3>6. creases = NoCreases
      BY <2>2 DEF IInv, AtTheEnd, Faithful
    <3> QED
      BY <3>5, <3>6
  <2> QED
    BY <2>1, <2>2 DEF NothingIsLeftOver
<1> QED
  BY <1>1, Invariance, PTL

=============================================================================
