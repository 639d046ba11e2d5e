---------------------------- MODULE AiArithmetic ----------------------------
(***************************************************************************)
(* The integer arithmetic of the AI library: the score of an isolation      *)
(* forest, its threshold, and the indices with which the LSTM predictor     *)
(* reads its arrays.  Floating point values are left out.                   *)
(***************************************************************************)
EXTENDS Integers, FiniteSets, FiniteSetTheorems, TLAPS

-----------------------------------------------------------------------------
(* isolation_forest.c *)

\* Trees is the set of trees, above those whose feature exceeds the threshold.
ScoreAcc(trees, above) == Cardinality(above) + 5 * Cardinality(trees \ above)
Average(trees, above) == ScoreAcc(trees, above) \div Cardinality(trees)

Clamp(n) == IF n < 0 THEN 0 ELSE IF n > 100 THEN 100 ELSE n
Divisor(depth) == IF depth > 0 THEN depth ELSE 1
Score(trees, above, depth) == Clamp(100 - (Average(trees, above) * 10) \div Divisor(depth))

\* ai_engine.c: g_threshold, and the depth ai_init and ai_thread ask for.
Threshold == 85
Depth == 8

-----------------------------------------------------------------------------
(* lstm_predictor.c, for inputs and hidden units numbered from 0 *)

WeightCount(in, hs) == in * hs * 4 + hs * hs * 4
BiasCount(hs) == hs * 4

InputWeight(hs, j, i) == j * hs * 4 + i
HiddenWeight(in, hs, j, i) == in * hs * 4 + j * hs * 4 + i
Bias(hs, gate, i) == gate * hs + i
InputAt(in, t, j) == t * in + j
OutCount(hs, outlen) == IF outlen < hs THEN outlen ELSE hs

-----------------------------------------------------------------------------

LEMMA Quotient ==
  ASSUME NEW n \in Nat \ {0}, NEW x \in Nat, n <= x, x <= 5 * n
  PROVE  x \div n \in 1 .. 5
<1>1. x \div n \in Int /\ n * (x \div n) <= x /\ x < n * (x \div n + 1)
  OBVIOUS
<1>2. ASSUME NEW q \in Int, n * q <= x, x < n * (q + 1)
      PROVE  q \in 1 .. 5
  <2>1. CASE q <= 0
    <3>1. n * (q + 1) <= n
      BY <2>1
    <3>2. QED  BY <1>2, <3>1
  <2>2. CASE q >= 6
    <3>1. n * q >= n * 6
      BY <2>2
    <3>2. QED  BY <1>2, <3>1
  <2>3. QED  BY <2>1, <2>2
<1>3. QED  BY <1>1, <1>2

\* A tree adds 1 or 5, so the average of a forest that is not empty lies in 1..5,
\* whatever the trees and the features are.
LEMMA AverageRange ==
  ASSUME NEW trees, IsFiniteSet(trees), trees # {}, NEW above \in SUBSET trees
  PROVE  Average(trees, above) \in 1 .. 5
<1> DEFINE n == Cardinality(trees)
           a == Cardinality(above)
           b == Cardinality(trees \ above)
<1>1. n \in Nat \ {0}
  BY FS_CardinalityType, FS_EmptySet
<1>2. a \in Nat /\ b \in Nat /\ a + b = n
  <2>1. IsFiniteSet(above) /\ IsFiniteSet(trees \ above)
    BY FS_Subset, FS_Difference
  <2>2. above \cup (trees \ above) = trees /\ above \cap (trees \ above) = {}
    OBVIOUS
  <2>3. Cardinality(trees) = a + b - Cardinality({})
    BY <2>1, <2>2, FS_Union
  <2>4. QED  BY <2>1, <2>3, FS_CardinalityType, FS_EmptySet
<1> HIDE DEF n, a, b
<1>3. a + 5 * b \in Nat /\ n <= a + 5 * b /\ a + 5 * b <= 5 * n
  BY <1>1, <1>2
<1>4. (a + 5 * b) \div n \in 1 .. 5
  BY <1>1, <1>3, Quotient
<1>5. QED  BY <1>4 DEF Average, ScoreAcc, n, a, b

\* The score is a percentage for every forest, also for one that was loaded with
\* another depth (isolation_forest.c:36-39).
THEOREM ScoreInRange ==
  ASSUME NEW trees, IsFiniteSet(trees), trees # {}, NEW above \in SUBSET trees,
         NEW depth \in Int
  PROVE  Score(trees, above, depth) \in 0 .. 100
<1>1. Average(trees, above) \in 1 .. 5
  BY AverageRange
<1>2. Divisor(depth) \in Nat \ {0}
  BY DEF Divisor
<1>3. 100 - (Average(trees, above) * 10) \div Divisor(depth) \in Int
  BY <1>1, <1>2
<1>4. QED  BY <1>3 DEF Score, Clamp

\* With the depth the engine asks for, every event of every forest scores above
\* the threshold: the branch of ai_engine.c:36 is always taken.
THEOREM EveryEventAlerts ==
  ASSUME NEW trees, IsFiniteSet(trees), trees # {}, NEW above \in SUBSET trees
  PROVE  /\ Score(trees, above, Depth) \in 94 .. 99
         /\ Score(trees, above, Depth) >= Threshold
<1>1. Average(trees, above) \in {1, 2, 3, 4, 5}
  BY AverageRange
<1>2. /\ 10 \div 8 = 1 /\ 20 \div 8 = 2 /\ 30 \div 8 = 3
      /\ 40 \div 8 = 5 /\ 50 \div 8 = 6
  OBVIOUS
<1>3. (Average(trees, above) * 10) \div 8 \in 1 .. 6
  BY <1>1, <1>2
<1>4. QED  BY <1>3 DEF Score, Clamp, Divisor, Depth, Threshold

LEMMA RowsFit ==
  ASSUME NEW rows \in Nat, NEW width \in Nat, NEW r \in Nat, r < rows,
         NEW c \in Nat, c < width
  PROVE  r * width + c \in Nat /\ r * width + c < rows * width
<1>1. r + 1 <= rows
  OBVIOUS
<1>2. (r + 1) * width <= rows * width
  BY <1>1
<1>3. (r + 1) * width = r * width + width
  OBVIOUS
<1>4. QED  BY <1>2, <1>3

\* Whatever its sizes are and however long the sequence, the predictor reads
\* within what lstm_init_model allocated and the caller passed
\* (lstm_predictor.c:17-20, 44-53, 66-67).
THEOREM LstmReadsInBounds ==
  ASSUME NEW in \in Nat \ {0}, NEW hs \in Nat \ {0}, NEW len \in Nat, NEW outlen \in Nat,
         NEW i \in 0 .. hs - 1, NEW j \in 0 .. in - 1, NEW k \in 0 .. hs - 1,
         NEW t \in 0 .. len - 1, NEW gate \in 0 .. 3
  PROVE  /\ InputWeight(hs, j, i) \in 0 .. WeightCount(in, hs) - 1
         /\ HiddenWeight(in, hs, k, i) \in 0 .. WeightCount(in, hs) - 1
         /\ Bias(hs, gate, i) \in 0 .. BiasCount(hs) - 1
         /\ InputAt(in, t, j) \in 0 .. len * in - 1
         /\ OutCount(hs, outlen) <= hs /\ OutCount(hs, outlen) <= outlen
<1> DEFINE w == hs * 4
<1>1. w \in Nat /\ i < w
  OBVIOUS
<1>2. in * hs * 4 = in * w /\ hs * hs * 4 = hs * w /\ j * hs * 4 = j * w /\ k * hs * 4 = k * w
  OBVIOUS
<1>3. in * w \in Nat /\ hs * w \in Nat /\ j * w \in Nat /\ k * w \in Nat
  OBVIOUS
<1> HIDE DEF w
<1>4. j * w + i \in Nat /\ j * w + i < in * w
  BY <1>1, RowsFit
<1>5. k * w + i \in Nat /\ k * w + i < hs * w
  BY <1>1, RowsFit
<1>6. InputWeight(hs, j, i) \in 0 .. WeightCount(in, hs) - 1
  BY <1>2, <1>3, <1>4 DEF InputWeight, WeightCount
<1>7. HiddenWeight(in, hs, k, i) \in 0 .. WeightCount(in, hs) - 1
  BY <1>2, <1>3, <1>5 DEF HiddenWeight, WeightCount
<1>8. Bias(hs, gate, i) \in 0 .. BiasCount(hs) - 1
  BY DEF Bias, BiasCount
<1>9. t * in + j \in Nat /\ t * in + j < len * in
  BY RowsFit
<1>10. InputAt(in, t, j) \in 0 .. len * in - 1
  BY <1>9 DEF InputAt
<1>11. OutCount(hs, outlen) <= hs /\ OutCount(hs, outlen) <= outlen
  BY DEF OutCount
<1>12. QED  BY <1>6, <1>7, <1>8, <1>10, <1>11
=============================================================================
