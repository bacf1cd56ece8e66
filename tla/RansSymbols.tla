----------------------------- MODULE RansSymbols -----------------------------
(***************************************************************************)
(* Sequences of numbers coded by their frequencies                         *)
(* (internal/entropy/symbol_encoding.go, rans_encoder.go, symbols.go,      *)
(* rans.go): EncodeSymbols and DecodeSymbols with the scratch a decoder    *)
(* keeps from one call to the next.                                        *)
(*                                                                         *)
(* raw      every number is a symbol.                                      *)
(* tagged   the bits a group of numbers needs are the symbol, the numbers  *)
(*          follow in fields of that many bits (BitPacking).               *)
(* The table of the symbols' chances is made from their frequencies with   *)
(* floating-point arithmetic; where that may round an exact integer down,  *)
(* the model does either.                                                  *)
(***************************************************************************)
EXTENDS Integers, Sequences, FiniteSets, SequencesExt

CONSTANTS
  Jobs,             \* what is encoded one after the other: sequences of
                    \* [symbols, components, method, level, minBits]
  MaxRawBits,       \* widest number the raw coder takes: 18 in the code
  MaxPrecisionBits, \* 20 in the code; the least, 12, is a job's minBits
  CacheSize         \* tables a decoder keeps: 8 in the code

IOBase == 256
Methods == {"auto", "raw", "tagged"}

VARIABLES
  jobs,             \* still to do, the current one first
  method,           \* raw or tagged, once decided
  precisionBits,
  coded,            \* the sequence of symbols the coder codes
  table,            \* per symbol its chance out of Precision
  fixing,           \* [sorted, j, passTotal]: the correction under way
  left,             \* symbols still to be written
  state, bytes,     \* of the encoder
  tokens,           \* the table as it was written
  cache, nextCache, \* the decoder's tables, kept over the calls
  lookup,           \* the table it decodes with
  decoder,          \* [state, offset]
  got,
  phase

encoderVars == <<method, precisionBits, coded, table, fixing, left, state, bytes, tokens>>
decoderVars == <<lookup, decoder, got>>
vars == <<jobs, encoderVars, cache, nextCache, decoderVars, phase>>

Job == Head(jobs)

BitLength(value) == CHOOSE n \in 0 .. 32 : value < 2^n /\ (n = 0 \/ value >= 2^(n - 1))
AtLeastOne(n) == IF n < 1 THEN 1 ELSE n
Total(t) == FoldSeq(+, 0, t)

-----------------------------------------------------------------------------
(* What the encoder computes from the numbers.                             *)

Components == AtLeastOne(Job.components)
Largest(s) == CHOOSE v \in Range(s) : \A u \in Range(s) : u <= v

(* computeBitLengths: per group, the bits of its largest number.           *)
BitLengths ==
  [g \in 1 .. Len(Job.symbols) \div Components |->
     AtLeastOne(BitLength(Largest(SubSeq(Job.symbols, (g - 1) * Components + 1, g * Components))))]

MaxValueBits == AtLeastOne(BitLength(Largest(Job.symbols)))

(* EncodeSymbols compares estimates of the two sizes; the raw one exists   *)
(* only for numbers of up to MaxRawBits bits.                              *)
Decisions ==
  IF Job.method # "auto" THEN {Job.method}
  ELSE IF MaxValueBits > MaxRawBits THEN {"tagged"} ELSE {"raw", "tagged"}

(* encodeRawSymbols: bits for the number of different symbols, moved by    *)
(* the compression level.                                                  *)
SymbolBits ==
  LET unique == BitLength(Cardinality(Range(Job.symbols)))
      moved == unique + (CASE Job.level < 4 -> -2 [] Job.level \in 4 .. 5 -> -1
                           [] Job.level > 9 -> 2 [] Job.level \in 8 .. 9 -> 1 [] OTHER -> 0)
  IN  IF AtLeastOne(moved) > MaxRawBits THEN MaxRawBits ELSE AtLeastOne(moved)

(* ComputeRansPrecisionBits, for 5 bits when tags are coded.               *)
PrecisionBitsOf(symbolBits) ==
  LET n == (3 * symbolBits) \div 2
  IN  IF n < Job.minBits THEN Job.minBits
      ELSE IF n > MaxPrecisionBits THEN MaxPrecisionBits ELSE n

Precision == 2^precisionBits
LBase == 4 * Precision

(* buildRansProbabilityTable: each frequency's share of Precision, rounded *)
(* to the nearest, but never 0 for a symbol that occurs.                   *)
Frequency(s, symbol) == Cardinality({i \in DOMAIN s : s[i] = symbol})

Share(s, symbol, precision) ==
  LET rounded == (2 * precision * Frequency(s, symbol) + Len(s)) \div (2 * Len(s))
  IN  IF rounded = 0 /\ Frequency(s, symbol) > 0 THEN 1 ELSE rounded

Shares(s, precision) == [k \in 1 .. Largest(s) + 1 |-> Share(s, k - 1, precision)]

AscendingOrder(t) ==
  SortSeq([k \in 1 .. Len(t) |-> k], LAMBDA a, b : t[a] < t[b] \/ (t[a] = t[b] /\ a < b))

-----------------------------------------------------------------------------
NoLookup == <<>>

Init ==
  /\ jobs \in Jobs
  /\ method = "auto" /\ precisionBits = 0 /\ coded = <<>> /\ table = <<>> /\ tokens = <<>>
  /\ fixing = [sorted |-> <<>>, j |-> 0, passTotal |-> 0]
  /\ left = 0 /\ state = 0 /\ bytes = <<>>
  /\ cache = [i \in 0 .. CacheSize - 1 |-> NoLookup] /\ nextCache = 0
  /\ lookup = NoLookup /\ decoder = [state |-> 0, offset |-> 0] /\ got = <<>>
  /\ phase = "start"

(* EncodeSymbols: nothing at all for no symbols; else decide how.          *)
StartEncoding ==
  /\ phase = "start" /\ jobs # <<>>
  /\ IF Job.symbols = <<>> THEN phase' = "done" /\ UNCHANGED encoderVars
     ELSE IF Len(Job.symbols) % Components # 0 THEN phase' = "refused" /\ UNCHANGED encoderVars
     ELSE \E m \in Decisions :
            /\ method' = m
            /\ IF m = "raw" /\ BitLength(Largest(Job.symbols)) > MaxRawBits
               THEN phase' = "refused" /\ UNCHANGED <<precisionBits, coded>>
               ELSE /\ precisionBits' = PrecisionBitsOf(IF m = "tagged" THEN 5 ELSE SymbolBits)
                    /\ coded' = IF m = "tagged" THEN BitLengths ELSE Job.symbols
                    /\ phase' = "shares"
            /\ UNCHANGED <<table, fixing, left, state, bytes, tokens>>
  /\ got' = <<>>
  /\ UNCHANGED <<jobs, cache, nextCache, lookup, decoder>>

(* The shares, and when they miss Precision what is lacking goes to the    *)
(* largest, or what is too much is taken back in passes.                   *)
TakeShares ==
  /\ phase = "shares"
  /\ LET shares == Shares(coded, Precision)
         sorted == AscendingOrder(shares)
         total == Total(shares)
     IN  /\ table' = IF total < Precision
                     THEN [shares EXCEPT ![Last(sorted)] = @ + Precision - total] ELSE shares
         /\ fixing' = [sorted |-> sorted, j |-> Len(sorted), passTotal |-> total]
         /\ phase' = IF total > Precision THEN "correct" ELSE "table"
  /\ UNCHANGED <<jobs, method, precisionBits, coded, left, state, bytes, tokens, cache, nextCache, decoderVars>>

(* math.Floor(actRelErrorD * prob), in floating point.                     *)
Floors(prob) ==
  LET exact == (Precision * prob) \div fixing.passTotal
  IN  IF (Precision * prob) % fixing.passTotal = 0 THEN {exact - 1, exact} ELSE {exact}

Fix(prob, newProb, excess) ==
  LET wanted == IF prob = newProb THEN 1 ELSE prob - newProb
      kept == IF wanted >= prob THEN prob - 1 ELSE wanted
  IN  IF kept > excess THEN excess ELSE kept

NextPassFromHere ==                         \* goes on where the pass ended
  [fixing EXCEPT !.passTotal = Total(table)]
NextPass == [fixing EXCEPT !.j = Len(fixing.sorted), !.passTotal = Total(table)]

(* One turn of the pass over the symbols, the likeliest first; a pass ends *)
(* at a symbol that has no more than 1, or when only the rarest is left.   *)
CorrectShare ==
  /\ phase = "correct"
  /\ LET k == fixing.sorted[fixing.j]
         n == Len(fixing.sorted)
         excess == Total(table) - Precision
     IN  IF fixing.j > 1 /\ table[k] <= 1
         THEN IF fixing.j = n
              THEN phase' = "refused" /\ UNCHANGED <<table, fixing>>
              ELSE fixing' = NextPass /\ UNCHANGED <<table, phase>>
         ELSE IF fixing.j = 1
         THEN fixing' = NextPass /\ UNCHANGED <<table, phase>>
         ELSE \E newProb \in Floors(table[k]) :
                LET fix == Fix(table[k], newProb, excess)
                IN  /\ table' = [table EXCEPT ![k] = @ - fix]
                    /\ fixing' = [fixing EXCEPT !.j = @ - 1]
                    /\ phase' = IF fix >= excess THEN "table" ELSE "correct"
  /\ UNCHANGED <<jobs, method, precisionBits, coded, left, state, bytes, tokens, cache, nextCache, decoderVars>>

(* encodeRansProbabilityTable: up to 64 zeros in one byte, a chance in one *)
(* to three.                                                               *)
ZeroRun(t, k) ==
  CHOOSE n \in 0 .. 63 : /\ \A i \in k .. k + n : t[i] = 0
                         /\ n = 63 \/ t[k + n + 1] > 0

TokenOf(prob) ==
  LET extra == IF prob < 2^6 THEN 0 ELSE IF prob < 2^14 THEN 1 ELSE 2
  IN  <<(prob * 4 + extra) % 256>> \o [b \in 1 .. extra |-> (prob \div 2^(8 * b - 2)) % 256]

Tokens(t) ==
  LET from[k \in 1 .. Len(t) + 1] ==
        IF k > Len(t) THEN <<>>
        ELSE IF t[k] = 0 THEN <<4 * ZeroRun(t, k) + 3>> \o from[k + ZeroRun(t, k) + 1]
        ELSE TokenOf(t[k]) \o from[k + 1]
  IN  from[1]

WriteTable ==
  /\ phase = "table"
  /\ IF Total(table) # Precision THEN phase' = "refused" /\ UNCHANGED <<tokens, state, bytes, left>>
     ELSE /\ tokens' = Tokens(table)
          /\ state' = LBase /\ bytes' = <<>> /\ left' = Len(coded)
          /\ phase' = "symbols"
  /\ UNCHANGED <<jobs, method, precisionBits, coded, table, fixing, cache, nextCache, decoderVars>>

(* RansEncoder.WriteSymbol, the last symbol first.                         *)
Below(t, k) == Total(SubSeq(t, 1, k - 1))

Reduced(x, prob) ==
  LET fits(n) == x \div IOBase^n < (LBase \div Precision) * IOBase * prob
      given == CHOOSE n \in 0 .. 3 : fits(n) /\ \A m \in 0 .. n - 1 : ~fits(m)
  IN  [state |-> x \div IOBase^given,
       bytes |-> [b \in 1 .. given |-> (x \div IOBase^(b - 1)) % IOBase]]

WriteSymbol ==
  /\ phase = "symbols" /\ left > 0
  /\ LET k == coded[left] + 1
         reduced == Reduced(state, table[k])
     IN  /\ bytes' = bytes \o reduced.bytes
         /\ state' = (reduced.state \div table[k]) * Precision
                       + (reduced.state % table[k]) + Below(table, k)
  /\ left' = left - 1
  /\ UNCHANGED <<jobs, method, precisionBits, coded, table, fixing, tokens, cache, nextCache, decoderVars, phase>>

(* RansEncoder.Bytes: one to four bytes of state, its size in the last.    *)
StateBytes(above) ==
  LET more == IF above < 2^6 THEN 0 ELSE IF above < 2^14 THEN 1 ELSE IF above < 2^22 THEN 2 ELSE 3
  IN  [b \in 1 .. more |-> (above \div 2^(8 * (b - 1))) % 256]
        \o <<more * 2^6 + ((above \div 2^(8 * more)) % 2^6)>>

EndSymbols ==
  /\ phase = "symbols" /\ left = 0
  /\ bytes' = bytes \o StateBytes(state - LBase)
  /\ phase' = "written"
  /\ UNCHANGED <<jobs, method, precisionBits, coded, table, fixing, left, state, tokens, cache, nextCache, decoderVars>>

-----------------------------------------------------------------------------
(* createSymbolDecoder: the table from its bytes.                          *)
Chances(numSymbols) ==
  LET from[i \in 1 .. Len(tokens) + 1] ==
        IF i > Len(tokens) THEN <<>>
        ELSE LET extra == tokens[i] % 4
                 high == tokens[i] \div 4
             IN  IF extra = 3 THEN [z \in 1 .. high + 1 |-> 0] \o from[i + 1]
                 ELSE <<high + Total([b \in 1 .. extra |-> tokens[i + b] * 2^(8 * b - 2)])>>
                        \o from[i + extra + 1]
  IN  SubSeq(from[1], 1, numSymbols)

(* RansDecoder.BuildLookup: which symbol a remainder belongs to.  A table  *)
(* of the least precision is looked for among those kept; hashes can       *)
(* collide, so the chances are compared.                                   *)
Kept == {i \in DOMAIN cache : cache[i] # NoLookup}
SameHash(i, chances) == TRUE                \* the hashes of two tables may be equal

FoundByHash(chances) == {i \in Kept : SameHash(i, chances)}    \* trusts the hash
Found(chances) == {i \in Kept : SameHash(i, chances) /\ cache[i].chances = chances}

LookupOf(chances) ==
  [chances |-> chances,
   below |-> [k \in DOMAIN chances |-> Below(chances, k)]]

StartDecoding ==
  /\ phase = "written"
  /\ LET chances == Chances(Len(table))
         cached == precisionBits = Job.minBits
         hits == IF cached THEN Found(chances) ELSE {}
         keep == cached /\ hits = {}
         tag == Last(bytes) \div 2^6
         n == Len(bytes)
         above == (Last(bytes) % 2^6) * 2^(8 * tag)
                    + Total([b \in 1 .. tag |-> bytes[n - tag - 1 + b] * 2^(8 * (b - 1))])
     IN  IF (hits = {} /\ Total(chances) # Precision) \/ tag >= n \/ LBase + above >= LBase * IOBase
         THEN phase' = "refused" /\ UNCHANGED <<cache, nextCache, lookup, decoder>>
         ELSE /\ lookup' = IF hits # {} THEN cache[CHOOSE i \in hits : \A h \in hits : i <= h]
                           ELSE LookupOf(chances)
              /\ cache' = IF keep THEN [cache EXCEPT ![nextCache % CacheSize] = LookupOf(chances)]
                          ELSE cache
              /\ nextCache' = IF keep THEN nextCache + 1 ELSE nextCache
              /\ decoder' = [state |-> LBase + above, offset |-> n - tag - 1]
              /\ phase' = "read"
  /\ UNCHANGED <<jobs, encoderVars, got>>

(* RansDecoder.ReadSymbol.                                                 *)
Refilled(d) ==
  LET with[n \in 0 .. 3] ==                 \* the state after n more bytes
        IF n = 0 THEN d.state ELSE with[n - 1] * IOBase + bytes[d.offset - n + 1]
      enough(n) == n = d.offset \/ with[n] >= LBase
      taken == CHOOSE n \in 0 .. 3 : enough(n) /\ \A m \in 0 .. n - 1 : ~enough(m)
  IN  [state |-> with[taken], offset |-> d.offset - taken]

ReadSymbol ==
  /\ phase = "read" /\ Len(got) < Len(coded)
  /\ LET full == Refilled(decoder)
         rem == full.state % Precision
         k == CHOOSE s \in DOMAIN lookup.chances :
                lookup.below[s] <= rem /\ rem < lookup.below[s] + lookup.chances[s]
     IN  /\ got' = Append(got, k - 1)
         /\ decoder' = [state |-> (full.state \div Precision) * lookup.chances[k] + rem - lookup.below[k],
                        offset |-> full.offset]
  /\ UNCHANGED <<jobs, encoderVars, cache, nextCache, lookup, phase>>

EndDecoding ==
  /\ phase = "read" /\ Len(got) = Len(coded)
  /\ phase' = "done"
  /\ UNCHANGED <<jobs, encoderVars, cache, nextCache, decoderVars>>

NextJob ==
  /\ phase \in {"done", "refused"}
  /\ jobs' = Tail(jobs)
  /\ phase' = "start"
  /\ UNCHANGED <<encoderVars, cache, nextCache, decoderVars>>

Next ==
  \/ StartEncoding \/ TakeShares \/ CorrectShare \/ WriteTable \/ WriteSymbol \/ EndSymbols
  \/ StartDecoding \/ ReadSymbol \/ EndDecoding \/ NextJob

(* Encoding and decoding are calls that run to their end.                  *)
Spec == Init /\ [][Next]_vars /\ WF_vars(Next)

-----------------------------------------------------------------------------
(* The values of a tagged stream: each number in as many bits as its tag   *)
(* says (readTaggedBitsLSB; BitPacking shows that fields come back).       *)
Values ==
  IF method = "raw" THEN got
  ELSE [i \in 1 .. Len(got) * Components |->
          Job.symbols[i] % 2^got[(i - 1) \div Components + 1]]

(* Every number that was encoded is decoded again, whatever tables the     *)
(* decoder still has from earlier calls.                                   *)
SymbolsComeBack ==
  phase = "done" => \A i \in DOMAIN Values : Values[i] = Job.symbols[i]

(* The chances handed to the coder share out Precision exactly and leave   *)
(* no symbol that occurs without one, which the coder divides by.          *)
EverySymbolHasAChance ==
  phase \in {"table", "symbols"} =>
    /\ Total(table) = Precision
    /\ \A symbol \in Range(coded) : table[symbol + 1] > 0

(* Only what the encoder must refuse is refused: groups that do not come   *)
(* out even and numbers too wide for the raw coder.  The correction of the *)
(* shares never gives up and the reader accepts every table and state.     *)
RefusedForAReason ==
  phase = "refused" =>
    \/ Len(Job.symbols) % Components # 0
    \/ Job.method = "raw" /\ BitLength(Largest(Job.symbols)) > MaxRawBits

(* The encoder's state stays where the reader accepts it and four bytes    *)
(* hold it.                                                                *)
StateIsWritable == phase = "symbols" => state \in LBase .. LBase * IOBase - 1

(* Coding succeeds wherever it may, and gives back what it was given.      *)
SymbolsAreExact ==
  SymbolsComeBack /\ EverySymbolHasAChance /\ RefusedForAReason /\ StateIsWritable

(* The correction ends: each pass takes back something.                    *)
CorrectionEnds == phase = "correct" ~> phase # "correct"

=============================================================================
