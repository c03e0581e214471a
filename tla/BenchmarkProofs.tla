--------------------------- MODULE BenchmarkProofs ---------------------------
(***************************************************************************)
(* Lemmas about the operators of Benchmark, for any plan, results and      *)
(* thresholds: rounding, the verdict, the plan, and the report's groups.   *)
(***************************************************************************)
EXTENDS Benchmark, FiniteSetTheorems, WellFoundedInduction, TLAPS

-----------------------------------------------------------------------------
(* Rounding                                                                *)

LEMMA NatProduct ==
    ASSUME NEW a \in Nat, NEW b \in Nat
    PROVE  a * b \in Nat
  BY SMT

(* Round() is off by half a unit at most.                                  *)
LEMMA RoundNearest ==
    ASSUME NEW n \in Nat, NEW d \in Nat, d > 0
    PROVE  /\ Round(n, d) \in Nat
           /\ 2 * (Round(n, d) * d) <= 2 * n + d
           /\ 2 * n <= 2 * (Round(n, d) * d) + d
<1> DEFINE q == n \div d
           r == n % d
<1>1. q \in Nat /\ r \in Nat /\ r < d /\ n = q * d + r
  BY SMT
<1>2. (q + 1) * d = q * d + d /\ q * d \in Nat
  BY <1>1, SMT
<1>3. Round(n, d) \in {q, q + 1}
  BY DEF Round
<1>4. CASE Round(n, d) = q
  <2>1. ~(2 * r > d)
    BY <1>1, <1>4 DEF Round
  <2> HIDE DEF q, r
  <2> QED
    BY <1>1, <1>2, <1>4, <2>1, SMT
<1>5. CASE Round(n, d) = q + 1
  <2>1. 2 * r >= d
    BY <1>1, <1>5 DEF Round
  <2> HIDE DEF q, r
  <2> QED
    BY <1>1, <1>2, <1>5, <2>1, SMT
<1> QED
  BY <1>3, <1>4, <1>5

(* What is no less than an integer does not round to less.                 *)
LEMMA RoundReaches ==
    ASSUME NEW n \in Nat, NEW d \in Nat, d > 0, NEW m \in Nat, m * d <= n
    PROVE  m <= Round(n, d)
<1> DEFINE q == n \div d
           r == n % d
<1>1. q \in Nat /\ r \in Nat /\ r < d /\ n = q * d + r
  BY SMT
<1>2. m <= q
  <2> HIDE DEF q, r
  <2> SUFFICES ASSUME m >= q + 1 PROVE FALSE
    BY <1>1, SMT
  <2>1. m * d >= (q + 1) * d
    BY <1>1, SMT
  <2>2. (q + 1) * d = q * d + d
    BY <1>1, SMT
  <2> QED
    BY <1>1, <2>1, <2>2, SMT
<1> QED
  BY <1>1, <1>2 DEF Round

(* More does not round to less.                                            *)
LEMMA RoundMonotone ==
    ASSUME NEW m \in Nat, NEW n \in Nat, m <= n, NEW d \in Nat, d > 0
    PROVE  Round(m, d) <= Round(n, d)
<1> DEFINE a == Round(m, d)
           b == Round(n, d)
<1>1. a \in Nat /\ 2 * (a * d) <= 2 * m + d
  BY RoundNearest
<1>2. b \in Nat /\ 2 * n <= 2 * (b * d) + d
  BY RoundNearest
<1>3. CASE m = n
  BY <1>1, <1>3
<1>4. CASE m < n
  <2> HIDE DEF a, b
  <2>1. ASSUME a >= b + 1 PROVE FALSE
    <3>1. a * d >= (b + 1) * d
      BY <1>1, <1>2, <2>1, SMT
    <3>2. (b + 1) * d = b * d + d /\ a * d \in Nat /\ b * d \in Nat
      BY <1>1, <1>2, SMT
    <3> QED
      BY <1>1, <1>2, <1>4, <3>1, <3>2, SMT
  <2>2. a <= b
    BY <1>1, <1>2, <2>1, SMT
  <2> QED
    BY <2>2 DEF a, b
<1> QED
  BY <1>3, <1>4

-----------------------------------------------------------------------------
(* The verdict                                                             *)

(* The verdict is PASSED exactly when none of the conditions is violated.  *)
LEMMA PassedMeans ==
    ASSUME NEW benchmark, NEW steps, NEW raw, NEW normalized
    PROVE  evaluate_benchmark(benchmark, steps, raw, normalized).status = "PASSED" <=>
             /\ ~Incomplete(steps, raw, normalized)
             /\ ~Mismapped(steps, raw, normalized)
             /\ ~NormalizationFailed(normalized)
             /\ ~NonFinal(normalized)
             /\ ~BelowMinimum(benchmark, steps, normalized)
             /\ ~TooManyFailed(benchmark, normalized)
<1> DEFINE V == Violations(benchmark, steps, raw, normalized)
<1>1. evaluate_benchmark(benchmark, steps, raw, normalized).status
        = IF V = {} THEN "PASSED" ELSE "FAILED"
  BY DEF evaluate_benchmark
<1>2. /\ "incomplete_normalized_evidence" \in V <=> Incomplete(steps, raw, normalized)
      /\ "result_mapping_invalid" \in V <=> Mismapped(steps, raw, normalized)
      /\ "normalization_failed" \in V <=> NormalizationFailed(normalized)
      /\ "non_final_result" \in V <=> NonFinal(normalized)
      /\ "minimum_pass_rate_not_met" \in V <=> BelowMinimum(benchmark, steps, normalized)
      /\ "critical_failures_exceeded" \in V <=> TooManyFailed(benchmark, normalized)
  BY DEF Violations, Codes, EvidenceCodes
<1>3. V \subseteq Codes
  BY DEF Violations
<1> QED
  BY <1>1, <1>2, <1>3 DEF Codes, EvidenceCodes

(* There are n places in a list of n.                                      *)
LEMMA PlacesFinite ==
    ASSUME NEW n \in Nat
    PROVE  IsFiniteSet(1..n) /\ Cardinality(1..n) = n
  BY FS_Interval

(* The results with a status can be counted.                               *)
LEMMA CountType ==
    ASSUME NEW n \in Nat, NEW s, DOMAIN s = 1..n, NEW status
    PROVE  /\ IsFiniteSet(Having(s, status))
           /\ Count(s, status) \in Nat /\ Count(s, status) <= n
<1>1. IsFiniteSet(1..n) /\ Cardinality(1..n) = n
  BY PlacesFinite
<1>2. Having(s, status) \in SUBSET (1..n)
  BY DEF Having
<1> QED
  BY <1>1, <1>2, FS_Subset, FS_CardinalityType DEF Count

(* The passed and the failed steps add up to n exactly when there are      *)
(* no others.                                                              *)
LEMMA CountsAddUp ==
    ASSUME NEW n \in Nat, NEW s, DOMAIN s = 1..n
    PROVE  Count(s, "PASSED") + Count(s, "FAILED") = n
             <=> \A i \in 1..n : s[i].status \in {"PASSED", "FAILED"}
<1> DEFINE P == Having(s, "PASSED")
           F == Having(s, "FAILED")
<1>1. IsFiniteSet(P) /\ IsFiniteSet(F) /\ Count(s, "PASSED") \in Nat /\ Count(s, "FAILED") \in Nat
  BY CountType
<1>2. P \cap F = {} /\ P \cup F \in SUBSET (1..n)
  BY DEF Having
<1>3. Cardinality({}) = 0
  BY FS_EmptySet
<1>4. IsFiniteSet(1..n) /\ Cardinality(1..n) = n
  BY PlacesFinite
<1>5. Cardinality(P \cup F) = Count(s, "PASSED") + Count(s, "FAILED")
  <2>1. Cardinality(P \cup F) = Cardinality(P) + Cardinality(F) - Cardinality(P \cap F)
    BY <1>1, FS_Union
  <2>2. Cardinality(P) = Count(s, "PASSED") /\ Cardinality(F) = Count(s, "FAILED")
    BY DEF Count
  <2>3. Cardinality(P \cap F) = 0
    BY <1>2, <1>3
  <2> HIDE DEF P, F
  <2> QED
    BY <1>1, <2>1, <2>2, <2>3
<1>6. P \cup F = 1..n <=> Cardinality(P \cup F) = n
  BY <1>2, <1>4, FS_Subset
<1>7. P \cup F = 1..n <=> \A i \in 1..n : s[i].status \in {"PASSED", "FAILED"}
  BY <1>2 DEF Having
<1> QED
  BY <1>5, <1>6, <1>7

(* A rate is a percentage, and with a minimum of 100 percent the rounding  *)
(* passes nobody: in a plan of less than 200000 steps the rate is 100 only *)
(* when every step passed (benchmark_evaluator.py rounds before it         *)
(* compares).                                                              *)
THEOREM FullRateMeansAll ==
    ASSUME NEW passed \in Nat, NEW planned \in Nat, passed <= planned
    PROVE  /\ PassRate(passed, planned) \in 0..Whole
           /\ planned < 2 * Whole /\ PassRate(passed, planned) = Whole => passed = planned
<1>1. CASE planned = 0
  BY <1>1 DEF PassRate, Whole
<1>2. CASE planned > 0
  <2> DEFINE n == Whole * passed
             rate == Round(n, planned)
  <2>1. n \in Nat /\ Whole \in Nat
    BY DEF Whole
  <2>2. rate \in Nat /\ 2 * (rate * planned) <= 2 * n + planned
    BY <1>2, <2>1, RoundNearest
  <2>3. PassRate(passed, planned) = rate
    BY <1>2 DEF PassRate
  <2> HIDE DEF rate
  <2>4. ASSUME rate >= Whole + 1 PROVE FALSE
    <3>1. rate * planned >= (Whole + 1) * planned
      BY <1>2, <2>1, <2>2, <2>4, SMT
    <3>2. (Whole + 1) * planned = Whole * planned + planned
      BY DEF Whole
    <3>3. n <= Whole * planned
      BY DEF Whole
    <3>4. Whole * planned \in Nat /\ rate * planned \in Nat
      BY <2>1, <2>2, SMT
    <3> HIDE DEF n
    <3> QED
      BY <1>2, <2>1, <2>2, <3>1, <3>2, <3>3, <3>4, SMT
  <2>5. ASSUME planned < 2 * Whole, rate = Whole, passed # planned PROVE FALSE
    <3>1. n + Whole <= Whole * planned
      BY <2>5 DEF Whole
    <3>2. rate * planned = Whole * planned
      BY <2>5
    <3>3. Whole * planned \in Nat
      BY <2>1, SMT
    <3> HIDE DEF n
    <3> QED
      BY <2>1, <2>2, <2>5, <3>1, <3>2, <3>3, SMT
  <2> QED
    BY <2>1, <2>2, <2>3, <2>4, <2>5
<1> QED
  BY <1>1, <1>2

\* Products keep the order of their factors, and give it back.
LEMMA Scaled ==
    ASSUME NEW a \in Nat, NEW b \in Nat, NEW n \in Nat
    PROVE  /\ a <= b => n * a <= n * b
           /\ n > 0 /\ n * a <= n * b => a <= b
<1>1. ASSUME a <= b PROVE n * a <= n * b
  BY <1>1, SMT
<1>2. ASSUME n > 0, a >= b + 1 PROVE n * a > n * b
  <2>1. n * a >= n * (b + 1) /\ n * (b + 1) = n * b + n
    BY <1>2, SMT
  <2>2. n * a \in Nat /\ n * b \in Nat
    BY NatProduct
  <2> QED
    BY <1>2, <2>1, <2>2
<1>3. n * a \in Nat /\ n * b \in Nat
  BY NatProduct
<1> QED
  BY <1>1, <1>2, <1>3

\* The sum of halves, times Grain: what the two lemmas below are about.
LEMMA GrainTimes ==
    ASSUME NEW w \in Nat, NEW x \in Nat, NEW n \in Nat
    PROVE  /\ Grain * w \in Nat /\ Grain * x \in Nat /\ Grain * n \in Nat
           /\ 2 * x <= 2 * w + n => 2 * (Grain * x) <= 2 * (Grain * w) + Grain * n
           /\ 2 * w <= 2 * x + n => 2 * (Grain * w) <= 2 * (Grain * x) + Grain * n
<1> DEFINE g == Grain
<1>1. g \in Nat
  BY GrainAssumption
<1> HIDE DEF g
<1>2. g * (2 * w + n) = 2 * (g * w) + g * n /\ g * (2 * x) = 2 * (g * x)
  BY <1>1, SMT
<1>3. g * (2 * x + n) = 2 * (g * x) + g * n /\ g * (2 * w) = 2 * (g * w)
  BY <1>1, SMT
<1>4. g * w \in Nat /\ g * x \in Nat /\ g * n \in Nat
  BY <1>1, NatProduct
<1>5. 2 * x <= 2 * w + n => g * (2 * x) <= g * (2 * w + n)
  BY <1>1, Scaled
<1>6. 2 * w <= 2 * x + n => g * (2 * w) <= g * (2 * x + n)
  BY <1>1, Scaled
<1> QED
  BY <1>2, <1>3, <1>4, <1>5, <1>6 DEF g

(* A minimum of any precision that the rounded rate w/d reaches exceeds    *)
(* the exact one by half a thousandth of a percent at most.                *)
LEMMA ReachedWithin ==
    ASSUME NEW w \in Nat, NEW d \in Nat, d > 0, NEW minimum \in Nat,
           minimum <= Grain * Round(w, d)
    PROVE  2 * (minimum * d) <= 2 * (Grain * w) + Grain * d
<1> DEFINE R == Round(w, d)
<1>1. R \in Nat /\ 2 * (R * d) <= 2 * w + d
  BY RoundNearest
<1> HIDE DEF R
<1>2. R * d \in Nat /\ minimum * d \in Nat /\ Grain * R \in Nat
  BY <1>1, GrainAssumption, NatProduct
<1>3. 2 * (Grain * (R * d)) <= 2 * (Grain * w) + Grain * d
  BY <1>1, <1>2, GrainTimes
<1>4. d * minimum <= d * (Grain * R)
  BY <1>2, Scaled DEF R
<1>5. d * minimum = minimum * d /\ d * (Grain * R) = Grain * (R * d)
  BY <1>1, GrainAssumption, SMT
<1>6. Grain * (R * d) \in Nat /\ Grain * w \in Nat /\ Grain * d \in Nat
  BY <1>2, GrainTimes
<1> QED
  BY <1>2, <1>3, <1>4, <1>5, <1>6

(* The rounded rate reaches a minimum that the exact one reaches by half a *)
(* thousandth of a percent.                                                *)
LEMMA ExceededReaches ==
    ASSUME NEW w \in Nat, NEW d \in Nat, d > 0, NEW minimum \in Nat,
           2 * (minimum * d) + Grain * d <= 2 * (Grain * w)
    PROVE  minimum <= Grain * Round(w, d)
<1> DEFINE R == Round(w, d)
<1>1. R \in Nat /\ 2 * w <= 2 * (R * d) + d
  BY RoundNearest
<1> HIDE DEF R
<1>2. R * d \in Nat /\ minimum * d \in Nat /\ Grain * R \in Nat
  BY <1>1, GrainAssumption, NatProduct
<1>3. 2 * (Grain * w) <= 2 * (Grain * (R * d)) + Grain * d
  BY <1>1, <1>2, GrainTimes
<1>4. Grain * (R * d) \in Nat /\ Grain * w \in Nat /\ Grain * d \in Nat
  BY <1>2, GrainTimes
<1>5. d * minimum = minimum * d /\ d * (Grain * R) = Grain * (R * d)
  BY <1>1, GrainAssumption, SMT
<1>6. d * minimum <= d * (Grain * R)
  BY <1>2, <1>3, <1>4, <1>5
<1>7. minimum <= Grain * R
  BY <1>2, <1>6, Scaled
<1> QED
  BY <1>7 DEF R

(* And it reaches a minimum of no more digits that the exact rate reaches. *)
LEMMA WholeReaches ==
    ASSUME NEW w \in Nat, NEW d \in Nat, d > 0, NEW minimum \in Nat,
           minimum % Grain = 0, minimum * d <= Grain * w
    PROVE  minimum <= Grain * Round(w, d)
<1> DEFINE R == Round(w, d)
           m == minimum \div Grain
<1>1. m \in Nat /\ minimum = Grain * m
  <2>1. Grain \in Nat /\ Grain > 0
    BY GrainAssumption
  <2> QED
    BY <2>1, SMT
<1> HIDE DEF R, m
<1>2. minimum * d = Grain * (m * d) /\ m * d \in Nat
  BY <1>1, GrainAssumption, SMT
<1>3. m * d <= w
  BY <1>2, Scaled, GrainAssumption
<1>4. m <= R /\ R \in Nat
  BY <1>1, <1>3, RoundReaches, RoundNearest DEF R
<1>5. Grain * m <= Grain * R
  BY <1>1, <1>4, Scaled, GrainAssumption
<1> QED
  BY <1>1, <1>5 DEF R

(* A run that asks for less passes whatever passes for one that asks for   *)
(* more: the thresholds are compared each in its own direction.            *)
THEOREM LooserNeverFails ==
    ASSUME NEW strict, NEW loose, NEW steps, NEW raw, NEW n \in Nat, NEW normalized,
           DOMAIN normalized = 1..n, Len(steps) \in Nat,
           strict.minimum_pass_rate \in Nat, loose.minimum_pass_rate \in Nat,
           strict.critical_failures_allowed \in Nat, loose.critical_failures_allowed \in Nat,
           loose.minimum_pass_rate <= strict.minimum_pass_rate,
           strict.critical_failures_allowed <= loose.critical_failures_allowed,
           evaluate_benchmark(strict, steps, raw, normalized).status = "PASSED"
    PROVE  evaluate_benchmark(loose, steps, raw, normalized).status = "PASSED"
<1> DEFINE rate == PassRate(Count(normalized, "PASSED"), Len(steps))
<1>1. /\ ~Incomplete(steps, raw, normalized) /\ ~Mismapped(steps, raw, normalized)
      /\ ~NormalizationFailed(normalized) /\ ~NonFinal(normalized)
      /\ ~BelowMinimum(strict, steps, normalized) /\ ~TooManyFailed(strict, normalized)
  BY PassedMeans
<1>2. Count(normalized, "FAILED") \in Nat /\ Count(normalized, "PASSED") \in Nat
  BY CountType
<1>3. rate \in Nat
  <2> DEFINE w == Whole * Count(normalized, "PASSED")
             d == Len(steps)
  <2>1. w \in Nat /\ d \in Nat
    BY <1>2 DEF Whole
  <2>2. rate = IF d = 0 THEN 0 ELSE Round(w, d)
    BY DEF PassRate
  <2> HIDE DEF w, d, rate
  <2>3. ASSUME d > 0 PROVE Round(w, d) \in Nat
    BY <2>1, <2>3, RoundNearest
  <2> QED
    BY <2>1, <2>2, <2>3
<1>4. ~TooManyFailed(loose, normalized)
  BY <1>1, <1>2 DEF TooManyFailed
<1>5. ~(Grain * rate < strict.minimum_pass_rate)
  BY <1>1 DEF BelowMinimum
<1> HIDE DEF rate
<1>6. ~(Grain * rate < loose.minimum_pass_rate)
  <2>1. Grain * rate \in Nat
    BY <1>3, GrainAssumption, NatProduct
  <2> QED
    BY <1>5, <2>1
<1>7. ~BelowMinimum(loose, steps, normalized)
  BY <1>6 DEF BelowMinimum, rate
<1> QED
  BY <1>1, <1>4, <1>7, PassedMeans

-----------------------------------------------------------------------------
(* The plan                                                                *)

\* Division has one quotient and one remainder.
LEMMA Divides ==
    ASSUME NEW q \in Nat, NEW r \in Nat, NEW d \in Nat, r < d
    PROVE  (q * d + r) \div d = q /\ (q * d + r) % d = r
<1> DEFINE a == q * d + r
           x == a \div d
           y == a % d
<1>1. a \in Nat /\ d > 0
  BY SMT
<1>2. x \in Nat /\ y \in Nat /\ y < d /\ a = x * d + y
  BY <1>1, SMT
<1>3. a = q * d + r
  OBVIOUS
<1> HIDE DEF a, x, y
<1>4. ASSUME x >= q + 1 PROVE FALSE
  <2>1. x * d >= (q + 1) * d
    BY <1>2, <1>4, SMT
  <2>2. (q + 1) * d = q * d + d /\ q * d \in Nat /\ x * d \in Nat
    BY <1>2, SMT
  <2> QED
    BY <1>2, <1>3, <2>1, <2>2, SMT
<1>5. ASSUME q >= x + 1 PROVE FALSE
  <2>1. q * d >= (x + 1) * d
    BY <1>2, <1>5, SMT
  <2>2. (x + 1) * d = x * d + d /\ q * d \in Nat /\ x * d \in Nat
    BY <1>2, SMT
  <2> QED
    BY <1>2, <1>3, <2>1, <2>2, SMT
<1>6. x = q
  BY <1>2, <1>4, <1>5, SMT
<1>7. q * d \in Nat
  BY SMT
<1>8. y = r
  BY <1>2, <1>3, <1>6, <1>7, SMT
<1> QED
  BY <1>6, <1>8 DEF a, x, y

\* Where a plan with d suites has the step of component c and suite t.
Place(c, t, d) == (c - 1) * d + t

(* The steps of a plan are the pairs of a component and a suite: each pair *)
(* has a place and each place a pair.                                      *)
LEMMA PlacesArePairs ==
    ASSUME NEW m \in Nat, NEW d \in Nat
    PROVE  /\ m * d \in Nat
           /\ \A c \in 1..m, t \in 1..d :
                /\ Place(c, t, d) \in 1..(m * d)
                /\ ((Place(c, t, d) - 1) \div d) + 1 = c
                /\ ((Place(c, t, d) - 1) % d) + 1 = t
           /\ \A i \in 1..(m * d) :
                \E c \in 1..m, t \in 1..d : i = Place(c, t, d)
           /\ \A c, e \in 1..m, t, u \in 1..d :
                Place(c, t, d) = Place(e, u, d) => c = e /\ t = u
<1>1. m * d \in Nat
  BY SMT
<1>2. ASSUME NEW c \in 1..m, NEW t \in 1..d
      PROVE  /\ Place(c, t, d) \in 1..(m * d)
             /\ ((Place(c, t, d) - 1) \div d) + 1 = c
             /\ ((Place(c, t, d) - 1) % d) + 1 = t
  <2> DEFINE q == c - 1
             r == t - 1
  <2>1. q \in Nat /\ r \in Nat /\ r < d /\ q + 1 <= m /\ c = q + 1 /\ t = r + 1
    OBVIOUS
  <2>2. Place(c, t, d) = q * d + t
    BY DEF Place
  <2> HIDE DEF q, r
  <2>3. q * d \in Nat
    BY <2>1, SMT
  <2>4. Place(c, t, d) - 1 = q * d + r
    BY <2>1, <2>2, <2>3
  <2>5. (q * d + r) \div d = q /\ (q * d + r) % d = r
    BY <2>1, Divides
  <2>6. Place(c, t, d) \in 1..(m * d)
    <3>1. (q + 1) * d <= m * d
      BY <2>1, SMT
    <3>2. (q + 1) * d = q * d + d
      BY <2>1, SMT
    <3> QED
      BY <1>1, <2>1, <2>2, <2>3, <3>1, <3>2
  <2> QED
    BY <2>1, <2>4, <2>5, <2>6
<1>3. ASSUME NEW i \in 1..(m * d)
      PROVE  \E c \in 1..m, t \in 1..d : i = Place(c, t, d)
  <2> DEFINE a == i - 1
             q == a \div d
             r == a % d
  <2>1. a \in Nat /\ a + 1 = i /\ a < m * d
    BY <1>1
  <2>2. d > 0
    <3>1. ASSUME d = 0 PROVE FALSE
      <4>1. m * d = 0
        BY <3>1, SMT
      <4> QED
        BY <2>1, <4>1
    <3> QED
      BY <3>1
  <2> HIDE DEF a
  <2>3. q \in Nat /\ r \in Nat /\ r < d /\ a = q * d + r
    BY <2>1, <2>2, SMT
  <2> HIDE DEF q, r
  <2>4. ASSUME q >= m PROVE FALSE
    <3>1. q * d >= m * d /\ q * d \in Nat
      BY <2>3, <2>4, SMT
    <3> QED
      BY <1>1, <2>1, <2>3, <3>1, SMT
  <2>5. q + 1 \in 1..m /\ r + 1 \in 1..d
    BY <2>2, <2>3, <2>4
  <2>6. i = Place(q + 1, r + 1, d)
    <3>1. (q + 1) - 1 = q /\ q * d \in Nat
      BY <2>3, SMT
    <3> QED
      BY <2>1, <2>3, <3>1 DEF Place
  <2> QED
    BY <2>5, <2>6
<1>4. ASSUME NEW c \in 1..m, NEW e \in 1..m, NEW t \in 1..d, NEW u \in 1..d,
             Place(c, t, d) = Place(e, u, d)
      PROVE  c = e /\ t = u
  <2>1. /\ ((Place(c, t, d) - 1) \div d) + 1 = c
        /\ ((Place(c, t, d) - 1) % d) + 1 = t
    BY <1>2
  <2>2. /\ ((Place(e, u, d) - 1) \div d) + 1 = e
        /\ ((Place(e, u, d) - 1) % d) + 1 = u
    BY <1>2
  <2> DEFINE quotient == ((Place(c, t, d) - 1) \div d) + 1
             remainder == ((Place(c, t, d) - 1) % d) + 1
  <2>3. quotient = e /\ remainder = u
    BY <1>4, <2>2
  <2> QED
    BY <2>1, <2>3
<1> QED
  BY <1>1, <1>2, <1>3, <1>4

\* Pairs are the same only when their parts are.
LEMMA SameParts ==
    ASSUME NEW a, NEW b, NEW x, NEW y, <<a, b>> = <<x, y>>
    PROVE  a = x /\ b = y
  OBVIOUS

\* What a suite adds to an id: its two names with a colon between them.
JoinedName(suite) == suite.provider \o suite.suite_id

\* The step is of this component and this suite.
IsStepOf(step, component, suite) ==
    /\ step.step_id = <<component, JoinedName(suite)>>
    /\ step.component = component
    /\ step.provider = suite.provider /\ step.suite_id = suite.suite_id
    /\ step.suite_config = suite.suite_config

(* A plan has one step for each component and each suite, component by     *)
(* component in the order of the configuration (_build_plan() of           *)
(* orchestrator.py): none is left out and none is added.                   *)
THEOREM PlanIsProduct ==
    ASSUME NEW components, NEW suites, Len(components) \in Nat, Len(suites) \in Nat
    PROVE  LET steps == BuildPlan(components, suites)
               d     == Len(suites)
           IN  /\ \A c \in 1..Len(components), t \in 1..d :
                    /\ Place(c, t, d) \in DOMAIN steps
                    /\ IsStepOf(steps[Place(c, t, d)], components[c], suites[t])
               /\ \A i \in DOMAIN steps :
                    \E c \in 1..Len(components), t \in 1..d : i = Place(c, t, d)
<1> DEFINE m == Len(components)
           d == Len(suites)
           steps == BuildPlan(components, suites)
<1>1. DOMAIN steps = 1..(m * d)
  BY DEF BuildPlan
<1>2. \A i \in DOMAIN steps :
         IsStepOf(steps[i], components[((i - 1) \div d) + 1], suites[((i - 1) % d) + 1])
  BY DEF BuildPlan, IsStepOf, JoinedName
<1>3. m \in Nat /\ d \in Nat
  OBVIOUS
<1> HIDE DEF steps, m, d
<1>4. /\ \A c \in 1..m, t \in 1..d :
            /\ Place(c, t, d) \in 1..(m * d)
            /\ ((Place(c, t, d) - 1) \div d) + 1 = c
            /\ ((Place(c, t, d) - 1) % d) + 1 = t
      /\ \A i \in 1..(m * d) : \E c \in 1..m, t \in 1..d : i = Place(c, t, d)
  BY <1>3, PlacesArePairs
<1>5. ASSUME NEW c \in 1..m, NEW t \in 1..d
      PROVE  /\ Place(c, t, d) \in DOMAIN steps
             /\ IsStepOf(steps[Place(c, t, d)], components[c], suites[t])
  BY <1>1, <1>2, <1>4
<1>6. \A i \in DOMAIN steps : \E c \in 1..m, t \in 1..d : i = Place(c, t, d)
  BY <1>1, <1>4
<1> QED
  BY <1>5, <1>6 DEF steps, m, d

\* No component is named twice, and no two suites have names that join to one.
NamedOnce(components, suites) ==
    /\ \A c, e \in 1..Len(components) : components[c] = components[e] => c = e
    /\ \A t, u \in 1..Len(suites) : JoinedName(suites[t]) = JoinedName(suites[u]) => t = u

(* The ids of a plan differ exactly when its configuration names each      *)
(* component once and each suite by a joined name of its own (or the plan  *)
(* is empty): the condition under which results tell which steps were run. *)
THEOREM UniqueMeansNamedOnce ==
    ASSUME NEW components, NEW suites, Len(components) \in Nat, Len(suites) \in Nat,
           Len(components) > 0, Len(suites) > 0
    PROVE  Unique(BuildPlan(components, suites)) <=> NamedOnce(components, suites)
<1> DEFINE m == Len(components)
           d == Len(suites)
           steps == BuildPlan(components, suites)
<1>1. /\ \A c \in 1..m, t \in 1..d :
            /\ Place(c, t, d) \in DOMAIN steps
            /\ IsStepOf(steps[Place(c, t, d)], components[c], suites[t])
      /\ \A i \in DOMAIN steps : \E c \in 1..m, t \in 1..d : i = Place(c, t, d)
  BY PlanIsProduct
<1>2. /\ m \in Nat /\ d \in Nat /\ 1 \in 1..m /\ 1 \in 1..d
  OBVIOUS
<1> HIDE DEF m, d, steps
<1>3. \A c, e \in 1..m, t, u \in 1..d : Place(c, t, d) = Place(e, u, d) => c = e /\ t = u
  BY <1>2, PlacesArePairs
<1>4. ASSUME Unique(steps) PROVE NamedOnce(components, suites)
  <2>1. ASSUME NEW c \in 1..m, NEW e \in 1..m, components[c] = components[e] PROVE c = e
    <3>1. /\ IsStepOf(steps[Place(c, 1, d)], components[c], suites[1])
          /\ IsStepOf(steps[Place(e, 1, d)], components[c], suites[1])
          /\ Place(c, 1, d) \in DOMAIN steps /\ Place(e, 1, d) \in DOMAIN steps
      BY <1>1, <1>2, <2>1
    <3>2. Place(c, 1, d) = Place(e, 1, d)
      BY <1>4, <3>1 DEF Unique, IsStepOf
    <3> QED
      BY <1>2, <1>3, <3>2
  <2>2. ASSUME NEW t \in 1..d, NEW u \in 1..d, JoinedName(suites[t]) = JoinedName(suites[u])
        PROVE  t = u
    <3>1. /\ IsStepOf(steps[Place(1, t, d)], components[1], suites[t])
          /\ IsStepOf(steps[Place(1, u, d)], components[1], suites[u])
          /\ Place(1, t, d) \in DOMAIN steps /\ Place(1, u, d) \in DOMAIN steps
      BY <1>1, <1>2
    <3>2. Place(1, t, d) = Place(1, u, d)
      BY <1>4, <2>2, <3>1 DEF Unique, IsStepOf
    <3> QED
      BY <1>2, <1>3, <3>2
  <2> QED
    BY <2>1, <2>2 DEF NamedOnce, m, d
<1>5. ASSUME NamedOnce(components, suites) PROVE Unique(steps)
  <2> SUFFICES ASSUME NEW i \in DOMAIN steps, NEW k \in DOMAIN steps,
                      steps[i].step_id = steps[k].step_id
               PROVE  i = k
    BY DEF Unique
  <2>1. PICK c \in 1..m, t \in 1..d : i = Place(c, t, d)
    BY <1>1
  <2>2. PICK e \in 1..m, u \in 1..d : k = Place(e, u, d)
    BY <1>1
  <2>3. /\ IsStepOf(steps[i], components[c], suites[t])
        /\ IsStepOf(steps[k], components[e], suites[u])
    BY <1>1, <2>1, <2>2
  <2>4. components[c] = components[e] /\ JoinedName(suites[t]) = JoinedName(suites[u])
    <3>1. <<components[c], JoinedName(suites[t])>> = <<components[e], JoinedName(suites[u])>>
      BY <2>3, Zenon DEF IsStepOf
    <3> QED
      BY <3>1, SameParts
  <2>5. c = e /\ t = u
    BY <1>5, <2>4 DEF NamedOnce, m, d
  <2> QED
    BY <2>1, <2>2, <2>5
<1> QED
  BY <1>4, <1>5 DEF steps

\* A provider without a colon is the first part of a joined name, and the
\* suite's name is the rest.
LEMMA ColonFree ==
    ASSUME NEW T, NEW a \in T, NEW b \in T, NEW s \in Seq(T), NEW t \in Seq(T),
           <<a>> \o s = <<b>> \o t
    PROVE  a = b /\ s = t
<1>1. /\ Len(<<a>> \o s) = Len(s) + 1 /\ Len(<<b>> \o t) = Len(t) + 1
      /\ (<<a>> \o s)[1] = a /\ (<<b>> \o t)[1] = b
  OBVIOUS
<1>2. a = b /\ Len(s) = Len(t)
  BY <1>1
<1>3. ASSUME NEW i \in 1..Len(s) PROVE s[i] = t[i]
  <2>1. (<<a>> \o s)[i + 1] = s[i] /\ (<<b>> \o t)[i + 1] = t[i]
    BY <1>2
  <2> QED
    BY <2>1
<1> QED
  BY <1>2, <1>3

(* Where no provider has a colon in its name, as no registered one has,    *)
(* naming each component and each suite of a provider once is enough.      *)
THEOREM ColonFreeIsNamedOnce ==
    ASSUME NEW components, NEW suites, NEW Parts,
           \A t \in 1..Len(suites) : \E p \in Parts : suites[t].provider = <<p>>,
           \A t \in 1..Len(suites) : suites[t].suite_id \in Seq(Parts),
           \A c, e \in 1..Len(components) : components[c] = components[e] => c = e,
           \A t, u \in 1..Len(suites) :
              suites[t].provider = suites[u].provider /\ suites[t].suite_id = suites[u].suite_id
                => t = u
    PROVE  NamedOnce(components, suites)
<1>1. ASSUME NEW t \in 1..Len(suites), NEW u \in 1..Len(suites),
             JoinedName(suites[t]) = JoinedName(suites[u])
      PROVE  t = u
  <2>1. PICK p \in Parts : suites[t].provider = <<p>>
    OBVIOUS
  <2>2. PICK q \in Parts : suites[u].provider = <<q>>
    OBVIOUS
  <2>3. <<p>> \o suites[t].suite_id = <<q>> \o suites[u].suite_id
    BY <1>1, <2>1, <2>2 DEF JoinedName
  <2>4. suites[t].suite_id \in Seq(Parts) /\ suites[u].suite_id \in Seq(Parts)
    OBVIOUS
  <2>5. p = q /\ suites[t].suite_id = suites[u].suite_id
    <3> DEFINE x == suites[t].suite_id
               y == suites[u].suite_id
    <3>1. x \in Seq(Parts) /\ y \in Seq(Parts) /\ <<p>> \o x = <<q>> \o y
      BY <2>3, <2>4
    <3> HIDE DEF x, y
    <3>2. p = q /\ x = y
      BY <3>1, ColonFree
    <3> QED
      BY <3>2 DEF x, y
  <2> QED
    BY <2>1, <2>2, <2>5
<1> QED
  BY <1>1 DEF NamedOnce

-----------------------------------------------------------------------------
(* The report's groups                                                     *)

(* Induction over the length of a list, as far as it can be stated: a set  *)
(* of numbers that is not empty has a least one.                           *)
LEMMA LeastNumber ==
    ASSUME NEW T \in SUBSET Nat, T # {}
    PROVE  \E m \in T : \A k \in T : m <= k
<1> DEFINE R == OpToRel(<, Nat)
<1>1. IsWellFoundedOn(R, Nat)
  BY NatLessThanWellFounded, Zenon
<1>2. \A x, y \in Nat : x < y => <<x, y>> \in R
  BY Zenon DEF OpToRel
<1> HIDE DEF R
<1>3. PICK m \in T : \A y \in T : ~(<<y, m>> \in R)
  BY <1>1, WFMin, Zenon
<1>4. \A y \in T : ~(y < m)
  BY <1>2, <1>3, Zenon
<1>5. ASSUME NEW y \in T
      PROVE  m <= y
  <2>1. y \in Nat /\ m \in Nat /\ ~(y < m)
    BY <1>4
  <2> QED
    BY <2>1, SMT
<1> QED
  BY <1>5

\* The places of a list whose entry is in a set, and those that have a value too.
Places(s, R) == {i \in DOMAIN s : s[i] \in R}
PlacesOf(s, n, key, value, R) == {i \in 1..n : s[i][key] = value /\ s[i] \in R}

\* The groups of the first n steps: one for each value, and of each kind of
\* record as many as there are steps with that value.
GroupsOf(groups, s, n, key, S) ==
    /\ DOMAIN groups = {s[i][key] : i \in 1..n}
    /\ \A v \in DOMAIN groups :
          /\ groups[v] \in Seq(S)
          /\ \A R \in SUBSET S :
                Cardinality(Places(groups[v], R)) = Cardinality(PlacesOf(s, n, key, v, R))

\* One entry more is one place more if it is in the set.
LEMMA PlacesAppend ==
    ASSUME NEW S, NEW g \in Seq(S), NEW x \in S, NEW R
    PROVE  /\ IsFiniteSet(Places(g, R)) /\ Cardinality(Places(g, R)) \in Nat
           /\ Cardinality(Places(Append(g, x), R))
                = Cardinality(Places(g, R)) + (IF x \in R THEN 1 ELSE 0)
<1> DEFINE n == Len(g)
           h == Append(g, x)
<1>1. n \in Nat /\ DOMAIN g = 1..n
  OBVIOUS
<1>2. /\ DOMAIN h = 1..(n + 1) /\ h[n + 1] = x
      /\ \A i \in 1..n : h[i] = g[i]
  OBVIOUS
<1>3. IsFiniteSet(1..n)
  BY <1>1, FS_Interval
<1>4. IsFiniteSet(Places(g, R)) /\ Cardinality(Places(g, R)) \in Nat
  <2>1. Places(g, R) \subseteq 1..n
    BY <1>1 DEF Places
  <2> QED
    BY <1>3, <2>1, FS_Subset, FS_CardinalityType
<1> HIDE DEF n, h
<1>5. CASE x \in R
  <2>1. Places(h, R) = Places(g, R) \cup {n + 1} /\ n + 1 \notin Places(g, R)
    BY <1>1, <1>2, <1>5 DEF Places
  <2>2. Cardinality(Places(h, R)) = Cardinality(Places(g, R)) + 1
    BY <1>4, <2>1, FS_AddElement
  <2> QED
    BY <1>4, <1>5, <2>2 DEF h
<1>6. CASE x \notin R
  <2>1. Places(h, R) = Places(g, R)
    BY <1>1, <1>2, <1>6 DEF Places
  <2> QED
    BY <1>4, <1>6, <2>1 DEF h
<1> QED
  BY <1>5, <1>6

\* The same of the steps with a value.
LEMMA PlacesOfNext ==
    ASSUME NEW s, NEW n \in Nat, NEW key, NEW v, NEW R
    PROVE  /\ IsFiniteSet(PlacesOf(s, n, key, v, R))
           /\ Cardinality(PlacesOf(s, n, key, v, R)) \in Nat
           /\ Cardinality(PlacesOf(s, n + 1, key, v, R))
                = Cardinality(PlacesOf(s, n, key, v, R))
                    + (IF s[n + 1][key] = v /\ s[n + 1] \in R THEN 1 ELSE 0)
<1> DEFINE P == PlacesOf(s, n, key, v, R)
           Q == PlacesOf(s, n + 1, key, v, R)
<1>1. IsFiniteSet(P) /\ Cardinality(P) \in Nat
  <2>1. IsFiniteSet(1..n) /\ P \subseteq 1..n
    BY FS_Interval DEF PlacesOf
  <2> QED
    BY <2>1, FS_Subset, FS_CardinalityType
<1>2. CASE s[n + 1][key] = v /\ s[n + 1] \in R
  <2>1. Q = P \cup {n + 1} /\ n + 1 \notin P
    BY <1>2 DEF PlacesOf
  <2> HIDE DEF P, Q
  <2>2. Cardinality(Q) = Cardinality(P) + 1
    BY <1>1, <2>1, FS_AddElement
  <2> QED
    BY <1>1, <1>2, <2>2 DEF P, Q
<1>3. CASE ~(s[n + 1][key] = v /\ s[n + 1] \in R)
  <2>1. Q = P
    BY <1>3 DEF PlacesOf
  <2> HIDE DEF P, Q
  <2>2. Cardinality(Q) = Cardinality(P) + 0
    BY <1>1, <2>1
  <2> QED
    BY <1>1, <1>3, <2>2 DEF P, Q
<1> QED
  BY <1>2, <1>3

(* One step of the loop puts the next step into its group and no other.    *)
LEMMA AddKeepsGroups ==
    ASSUME NEW S, NEW s \in Seq(S), NEW key, NEW n \in Nat, n + 1 <= Len(s),
           NEW groups, GroupsOf(groups, s, n, key, S)
    PROVE  GroupsOf(AddToGroup(groups, s[n + 1][key], s[n + 1]), s, n + 1, key, S)
<1> DEFINE x == s[n + 1]
           value == x[key]
           old == IF value \in DOMAIN groups THEN groups[value] ELSE <<>>
           added == AddToGroup(groups, value, x)
<1>1. x \in S
  <2>1. n + 1 \in 1..Len(s)
    OBVIOUS
  <2> QED
    BY <2>1
<1>2. /\ DOMAIN added = DOMAIN groups \cup {value}
      /\ added[value] = Append(old, x)
      /\ \A v \in DOMAIN groups : v # value => added[v] = groups[v]
  BY DEF AddToGroup
<1>3. DOMAIN added = {s[i][key] : i \in 1..(n + 1)}
  <2>1. 1..(n + 1) = 1..n \cup {n + 1}
    OBVIOUS
  <2> HIDE DEF added
  <2> QED
    BY <1>2, <2>1 DEF GroupsOf
<1>4. old \in Seq(S)
  <2>1. CASE value \in DOMAIN groups
    BY <2>1 DEF GroupsOf
  <2>2. CASE value \notin DOMAIN groups
    BY <2>2
  <2> QED
    BY <2>1, <2>2
<1>5. ASSUME NEW R \in SUBSET S
      PROVE  Cardinality(Places(old, R)) = Cardinality(PlacesOf(s, n, key, value, R))
  <2>1. CASE value \in DOMAIN groups
    BY <2>1 DEF GroupsOf
  <2>2. CASE value \notin DOMAIN groups
    <3>1. Places(old, R) = {}
      BY <2>2 DEF Places
    <3>2. PlacesOf(s, n, key, value, R) = {}
      BY <2>2 DEF PlacesOf, GroupsOf
    <3> QED
      BY <3>1, <3>2
  <2> QED
    BY <2>1, <2>2
<1> HIDE DEF old, added
<1>6. ASSUME NEW v \in DOMAIN added
      PROVE  /\ added[v] \in Seq(S)
             /\ \A R \in SUBSET S :
                  Cardinality(Places(added[v], R)) = Cardinality(PlacesOf(s, n + 1, key, v, R))
  <2>1. CASE v = value
    <3>1. added[v] \in Seq(S)
      <4>1. Append(old, x) \in Seq(S)
        BY <1>1, <1>4
      <4> QED
        BY <1>2, <2>1, <4>1
    <3>2. ASSUME NEW R \in SUBSET S
          PROVE  Cardinality(Places(added[v], R)) = Cardinality(PlacesOf(s, n + 1, key, v, R))
      <4>1. Cardinality(Places(Append(old, x), R))
              = Cardinality(Places(old, R)) + (IF x \in R THEN 1 ELSE 0)
        BY <1>1, <1>4, PlacesAppend
      <4>2. Cardinality(PlacesOf(s, n + 1, key, v, R))
              = Cardinality(PlacesOf(s, n, key, v, R)) + (IF x \in R THEN 1 ELSE 0)
        BY <2>1, PlacesOfNext
      <4> QED
        BY <1>2, <1>5, <2>1, <4>1, <4>2
    <3> QED
      BY <3>1, <3>2
  <2>2. CASE v # value
    <3>1. v \in DOMAIN groups /\ added[v] = groups[v]
      BY <1>2, <2>2
    <3>2. ASSUME NEW R \in SUBSET S
          PROVE  Cardinality(PlacesOf(s, n + 1, key, v, R)) = Cardinality(PlacesOf(s, n, key, v, R))
      <4>1. PlacesOf(s, n + 1, key, v, R) = PlacesOf(s, n, key, v, R)
        BY <2>2 DEF PlacesOf
      <4> QED
        BY <4>1
    <3> QED
      BY <3>1, <3>2 DEF GroupsOf
  <2> QED
    BY <2>1, <2>2
<1>7. GroupsOf(added, s, n + 1, key, S)
  BY <1>3, <1>6 DEF GroupsOf
<1> QED
  BY <1>7 DEF added

\* The loop's groups after each step, as far as the first n steps.
UpTo(f, s, key, n) ==
    f = [k \in 0..n |-> IF k = 0 THEN <<>>
                        ELSE AddToGroup(f[k - 1], s[k][key], s[k])]

(* The recursion over the steps has a value, however many there are.       *)
LEMMA LoopExists ==
    ASSUME NEW s, NEW key
    PROVE  \A n \in Nat : \E f : UpTo(f, s, key, n)
<1> DEFINE T == {n \in Nat : ~ \E f : UpTo(f, s, key, n)}
<1>1. ASSUME T # {} PROVE FALSE
  <2>1. PICK m \in T : \A k \in T : m <= k
    <3>1. T \in SUBSET Nat
      OBVIOUS
    <3> HIDE DEF T
    <3> QED
      BY <1>1, <3>1, LeastNumber
  <2>2. m \in Nat /\ ~ \E f : UpTo(f, s, key, m)
    OBVIOUS
  <2>3. CASE m = 0
    <3>1. UpTo([k \in 0..0 |-> <<>>], s, key, 0)
      BY DEF UpTo
    <3> QED
      BY <2>2, <2>3, <3>1
  <2>4. CASE m # 0
    <3>1. m - 1 \in Nat /\ ~(m <= m - 1)
      BY <2>2, <2>4
    <3>2. m - 1 \notin T
      BY <2>1, <3>1
    <3>3. PICK f : UpTo(f, s, key, m - 1)
      BY <3>1, <3>2
    <3> DEFINE g == [k \in 0..m |-> IF k = m THEN AddToGroup(f[m - 1], s[m][key], s[m])
                                    ELSE f[k]]
    <3>4. /\ DOMAIN f = 0..(m - 1)
          /\ \A k \in 0..(m - 1) :
                f[k] = IF k = 0 THEN <<>> ELSE AddToGroup(f[k - 1], s[k][key], s[k])
      BY <3>3 DEF UpTo
    <3>5. \A k \in 0..(m - 1) : g[k] = f[k]
      BY <2>2
    <3>6. ASSUME NEW k \in 0..m
          PROVE  g[k] = IF k = 0 THEN <<>> ELSE AddToGroup(g[k - 1], s[k][key], s[k])
      <4>1. CASE k = m
        <5>1. m - 1 \in 0..(m - 1) /\ g[m] = AddToGroup(f[m - 1], s[m][key], s[m])
          BY <3>1, <2>2
        <5>2. g[m - 1] = f[m - 1]
          BY <3>5, <5>1
        <5> HIDE DEF g
        <5> QED
          BY <2>4, <4>1, <5>1, <5>2
      <4>2. CASE k # m
        <5>1. k \in 0..(m - 1) /\ (k # 0 => k - 1 \in 0..(m - 1))
          BY <2>2, <4>2
        <5> HIDE DEF g
        <5> QED
          BY <3>4, <3>5, <5>1
      <4> QED
        BY <4>1, <4>2
    <3>7. UpTo(g, s, key, m)
      <4>1. g = [k \in 0..m |-> g[k]]
        OBVIOUS
      <4> HIDE DEF g
      <4>2. g = [k \in 0..m |-> IF k = 0 THEN <<>> ELSE AddToGroup(g[k - 1], s[k][key], s[k])]
        BY <3>6, <4>1
      <4> QED
        BY <4>2 DEF UpTo
    <3> QED
      BY <2>2, <3>7
  <2> QED
    BY <2>3, <2>4
<1>2. T = {}
  BY <1>1
<1> QED
  BY <1>2

(* The whole loop: each step is in the group of its value, once, and       *)
(* nothing else is in any.                                                 *)
LEMMA GroupedInto ==
    ASSUME NEW S, NEW s \in Seq(S), NEW key
    PROVE  GroupsOf(Grouped(s, key), s, Len(s), key, S)
<1> DEFINE L == Len(s)
<1>1. L \in Nat
  OBVIOUS
<1>2. PICK f : UpTo(f, s, key, L) /\ Grouped(s, key) = f[L]
  <2>1. \E f : UpTo(f, s, key, L)
    BY <1>1, LoopExists
  <2> QED
    BY <2>1 DEF UpTo, Grouped
<1>3. \A k \in 0..L : f[k] = IF k = 0 THEN <<>> ELSE AddToGroup(f[k - 1], s[k][key], s[k])
  BY <1>2 DEF UpTo
<1> DEFINE T == {n \in 0..L : ~ GroupsOf(f[n], s, n, key, S)}
<1>4. ASSUME T # {} PROVE FALSE
  <2>1. PICK m \in T : \A k \in T : m <= k
    <3>1. T \in SUBSET Nat
      OBVIOUS
    <3> HIDE DEF T
    <3> QED
      BY <1>4, <3>1, LeastNumber
  <2>2. m \in 0..L /\ ~ GroupsOf(f[m], s, m, key, S)
    OBVIOUS
  <2>3. CASE m = 0
    <3>1. f[0] = <<>>
      BY <1>1, <1>3
    <3>2. GroupsOf(<<>>, s, 0, key, S)
      BY DEF GroupsOf
    <3> QED
      BY <2>2, <2>3, <3>1, <3>2
  <2>4. CASE m # 0
    <3> DEFINE n == m - 1
    <3>1. n \in Nat /\ n \in 0..L /\ n + 1 = m /\ n + 1 <= L /\ ~(m <= n)
      BY <1>1, <2>2, <2>4
    <3> HIDE DEF n
    <3>2. GroupsOf(f[n], s, n, key, S)
      BY <2>1, <3>1
    <3>3. GroupsOf(AddToGroup(f[n], s[n + 1][key], s[n + 1]), s, n + 1, key, S)
      BY <3>1, <3>2, AddKeepsGroups
    <3>4. f[m] = AddToGroup(f[n], s[n + 1][key], s[n + 1])
      BY <1>3, <2>2, <2>4, <3>1 DEF n
    <3> QED
      BY <2>2, <3>1, <3>3, <3>4
  <2> QED
    BY <2>3, <2>4
<1>5. GroupsOf(f[L], s, L, key, S)
  BY <1>1, <1>4
<1> QED
  BY <1>2, <1>5

\* Lines for the values that by has of the steps of s, with the totals of those.
Tally(lines, by, s, key) ==
    /\ DOMAIN lines = {by[i][key] : i \in 1..Len(s)}
    /\ \A value \in DOMAIN lines :
          LET line  == lines[value]
              steps == {i \in 1..Len(s) : by[i][key] = value}
          IN  /\ line.total_steps = Cardinality(steps)
              /\ line.passed = Cardinality(steps \cap Having(s, "PASSED"))
              /\ line.failed = Cardinality(steps \cap Having(s, "FAILED"))
              /\ line.passed + line.failed + line.non_final = line.total_steps

(* However many results and whatever values: a report has a line for each  *)
(* value there is and for no other, and counts in it the steps with that   *)
(* value, those of them that passed, that failed and that did neither,     *)
(* which add up.                                                           *)
THEOREM BreakdownTotals ==
    ASSUME NEW S, NEW s \in Seq(S), NEW key
    PROVE  Tally(Breakdown(s, key), s, s, key)
<1> DEFINE n == Len(s)
           groups == Grouped(s, key)
<1>1. GroupsOf(groups, s, n, key, S)
  BY GroupedInto
<1>2. DOMAIN Breakdown(s, key) = DOMAIN groups
  BY DEF Breakdown
<1>3. DOMAIN Breakdown(s, key) = {s[i][key] : i \in 1..n}
  BY <1>1, <1>2 DEF GroupsOf
<1>4. ASSUME NEW value \in DOMAIN Breakdown(s, key)
      PROVE  LET line  == Breakdown(s, key)[value]
                 steps == {i \in 1..Len(s) : s[i][key] = value}
             IN  /\ line.total_steps = Cardinality(steps)
                 /\ line.passed = Cardinality(steps \cap Having(s, "PASSED"))
                 /\ line.failed = Cardinality(steps \cap Having(s, "FAILED"))
                 /\ line.passed + line.failed + line.non_final = line.total_steps
  <2> DEFINE g == groups[value]
             line == Breakdown(s, key)[value]
             steps == {i \in 1..n : s[i][key] = value}
             With(status) == {x \in S : x.status = status}
             rest == {i \in DOMAIN g : g[i].status \notin {"PASSED", "FAILED"}}
  <2>1. /\ line.total_steps = Len(g) /\ line.passed = Count(g, "PASSED")
        /\ line.failed = Count(g, "FAILED") /\ line.non_final = Cardinality(rest)
    BY <1>2 DEF Breakdown
  <2>2. /\ g \in Seq(S)
        /\ \A R \in SUBSET S :
              Cardinality(Places(g, R)) = Cardinality(PlacesOf(s, n, key, value, R))
    BY <1>1, <1>2 DEF GroupsOf
  <2> HIDE DEF g, groups, line
  <2>3. DOMAIN g = 1..Len(g) /\ Len(g) \in Nat /\ \A i \in 1..Len(g) : g[i] \in S
    BY <2>2
  <2>4. DOMAIN s = 1..n /\ \A i \in 1..n : s[i] \in S
    OBVIOUS
  <2>5. Len(g) = Cardinality(steps)
    <3>1. Places(g, S) = 1..Len(g)
      BY <2>3 DEF Places
    <3>2. PlacesOf(s, n, key, value, S) = steps
      BY <2>4 DEF PlacesOf
    <3>3. Cardinality(1..Len(g)) = Len(g)
      BY <2>3, PlacesFinite
    <3> QED
      BY <2>2, <3>1, <3>2, <3>3
  <2>6. ASSUME NEW status
        PROVE  Count(g, status) = Cardinality(steps \cap Having(s, status))
    <3>1. Places(g, With(status)) = Having(g, status)
      BY <2>3 DEF Places, Having
    <3>2. PlacesOf(s, n, key, value, With(status)) = steps \cap Having(s, status)
      BY <2>4 DEF PlacesOf, Having
    <3>3. With(status) \in SUBSET S
      OBVIOUS
    <3> HIDE DEF With, steps
    <3> QED
      BY <2>2, <3>1, <3>2, <3>3 DEF Count
  <2>7. Count(g, "PASSED") + Count(g, "FAILED") + Cardinality(rest) = Len(g)
    <3> DEFINE P == Having(g, "PASSED")
               F == Having(g, "FAILED")
    <3>1. IsFiniteSet(P) /\ IsFiniteSet(F)
      BY <2>3, CountType
    <3>2. IsFiniteSet(rest)
      <4>1. IsFiniteSet(1..Len(g)) /\ rest \subseteq 1..Len(g)
        BY <2>3, PlacesFinite
      <4> QED
        BY <4>1, FS_Subset
    <3>3. P \cap F = {} /\ (P \cup F) \cap rest = {} /\ (P \cup F) \cup rest = 1..Len(g)
      BY <2>3 DEF Having
    <3> HIDE DEF P, F, rest
    <3>4. IsFiniteSet(P \cup F)
          /\ Cardinality(P \cup F) = Cardinality(P) + Cardinality(F) - Cardinality({})
      BY <3>1, <3>3, FS_Union
    <3>5. Cardinality((P \cup F) \cup rest)
            = Cardinality(P \cup F) + Cardinality(rest) - Cardinality({})
      BY <3>2, <3>3, <3>4, FS_Union
    <3>6. Cardinality({}) = 0 /\ Cardinality(1..Len(g)) = Len(g)
      BY <2>3, FS_EmptySet, PlacesFinite
    <3>7. Cardinality(P) \in Nat /\ Cardinality(F) \in Nat /\ Cardinality(rest) \in Nat
      BY <3>1, <3>2, FS_CardinalityType
    <3>8. Cardinality(P) + Cardinality(F) + Cardinality(rest) = Len(g)
      <4>1. Cardinality(P \cup F) = Cardinality(P) + Cardinality(F)
        BY <3>4, <3>6, <3>7
      <4>2. Cardinality((P \cup F) \cup rest) = Len(g)
        BY <3>3, <3>6, Zenon
      <4>3. Len(g) = Cardinality(P \cup F) + Cardinality(rest)
        BY <3>5, <3>6, <3>7, <4>1, <4>2
      <4> QED
        BY <4>1, <4>3
    <3> QED
      BY <3>8 DEF Count, P, F
  <2>8. line.total_steps = Cardinality(steps)
    BY <2>1, <2>5
  <2>9. /\ line.passed = Cardinality(steps \cap Having(s, "PASSED"))
        /\ line.failed = Cardinality(steps \cap Having(s, "FAILED"))
    BY <2>1, <2>6
  <2>10. line.passed + line.failed + line.non_final = line.total_steps
    BY <2>1, <2>7
  <2> QED
    BY <2>8, <2>9, <2>10 DEF line
<1> QED
  BY <1>3, <1>4 DEF Tally
=============================================================================
