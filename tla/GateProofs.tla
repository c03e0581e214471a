----------------------------- MODULE GateProofs -----------------------------
(***************************************************************************)
(* Proofs about Gate: what a verdict rests on, what the report says of it  *)
(* and what the exit codes tell, for any test runs.                        *)
(***************************************************************************)
EXTENDS Gate, BenchmarkProofs

-----------------------------------------------------------------------------
(* The invariant                                                           *)

\* What may be stored of the plan's steps.
RawResults == [step_id : Ids(plan), status : Statuses]
Forms == [step_id : Ids(plan), status : Statuses \cup {"FAILED"},
          normalization_failed : BOOLEAN,
          component : {plan[i].component : i \in DOMAIN plan},
          provider  : {plan[i].provider : i \in DOMAIN plan},
          suite_id  : {plan[i].suite_id : i \in DOMAIN plan}]

\* What every passed step had.
MayPass(step) == step.provider \in Registered /\ AcceptedWhenNew(step.suite_config)

\* Each step's own result, as it is or as a fallback.
StoredStep(raw, normalized, i) ==
    /\ raw[i].step_id = plan[i].step_id
    /\ normalized[i].step_id = plan[i].step_id
    /\ normalized[i].normalization_failed => normalized[i].status = "FAILED"
    /\ ~normalized[i].normalization_failed => normalized[i].status = raw[i].status
    /\ raw[i].status = "PASSED" => MayPass(plan[i])
    /\ \A key \in Keys : normalized[i][key] = plan[i][key]

StoredSteps(raw, normalized) ==
    /\ raw \in Seq(RawResults) /\ normalized \in Seq(Forms)
    /\ Len(normalized) = Len(raw) /\ Len(raw) <= Len(plan)
    /\ \A i \in 1..Len(raw) : StoredStep(raw, normalized, i)

Stored ==
    /\ DOMAIN execution = {"status", "results", "normalized", "evaluation"}
    /\ StoredSteps(execution.results, execution.normalized)

\* Once there is a verdict, the evidence it was given on no longer changes.
Judged ==
    Evaluated =>
        /\ server \notin {"none", "requested", "planned", "running"}
        /\ Evaluation = evaluate_benchmark(run, plan, Results, execution.normalized)

\* How far the request is, the stored status says.
Phase ==
    /\ server \in {"none", "requested"} => execution.status = "none"
    /\ server = "planned" => execution.status = "QUEUED"
    /\ server = "running" => execution.status = "RUNNING"

Told ==
    /\ client = "ready" => server = "none"
    /\ server \in {"judged", "answered"} => Evaluated
    /\ client = "reading" => server = "answered"
    /\ client = "EXIT_PASSED" => Evaluation.status = "PASSED"
    /\ client = "EXIT_GATE_FAILED" /\ ~uncaught =>
         server = "answered" /\ Evaluation.status = "FAILED"

IInv == TypeOK /\ Stored /\ Judged /\ Phase /\ Told

LEMMA PlanType ==
    ASSUME run \in Runs
    PROVE  Len(plan) \in Nat /\ DOMAIN plan = 1..Len(plan)
<1> DEFINE n == Len(run.components) * Len(run.test_suites)
           S == {plan[i] : i \in 1..n}
<1>1. n \in Nat
  <2>1. Len(run.components) \in Nat /\ Len(run.test_suites) \in Nat
    BY RunsAssumption
  <2> DEFINE c == Len(run.components)
             t == Len(run.test_suites)
  <2> HIDE DEF c, t
  <2>2. c \in Nat /\ t \in Nat
    BY <2>1 DEF c, t
  <2>3. c * t \in Nat
    BY <2>2, SMT
  <2> QED
    BY <2>3 DEF c, t
<1>2. plan \in [1..n -> S]
  BY DEF plan, BuildPlan
<1> HIDE DEF n, S
<1> QED
  BY <1>1, <1>2

LEMMA InitIInv == Init => IInv
<1> SUFFICES ASSUME Init PROVE IInv
  OBVIOUS
<1>1. Len(plan) \in Nat
  BY PlanType DEF Init
<1>2. StoredSteps(<<>>, <<>>)
  BY <1>1 DEF StoredSteps
<1>3. Stored
  BY <1>2 DEF Init, Stored
<1> QED
  <2>1. execution.evaluation.status = "none" /\ ~Evaluated
    BY DEF Init, NotEvaluated, Evaluated, Evaluation
  <2>2. TypeOK
    BY <1>3, <2>1 DEF Init, TypeOK, Stored, StoredSteps
  <2> QED
    BY <1>3, <2>1, <2>2 DEF Init, IInv, Judged, Phase, Told

(* A step that may end as PASSED has an executor, and what its destinations *)
(* are accepted for with DNS includes what they are accepted for without.   *)
LEMMA PassedMayPass ==
    ASSUME NEW step, NEW dns, NEW statuses, "PASSED" \in Outcomes(step, dns, statuses)
    PROVE  MayPass(step)
<1>1. AcceptedNow(step.suite_config, dns) /\ step.provider \in Registered
  BY DEF Outcomes
<1>2. AcceptedWhenNew(step.suite_config)
  BY <1>1 DEF AcceptedNow, AcceptedWhenNew, RejectedNow
<1> QED
  BY <1>1, <1>2 DEF MayPass

(* One step of run_execution() keeps what is stored in order.              *)
LEMMA StepStored ==
    ASSUME run \in Runs, NEW raw, NEW normalized, StoredSteps(raw, normalized),
           Len(raw) < Len(plan), NEW status \in Statuses, NEW raises \in BOOLEAN,
           status = "PASSED" => MayPass(plan[Len(raw) + 1])
    PROVE  LET step   == plan[Len(raw) + 1]
               result == [step_id |-> step.step_id, status |-> status]
           IN  StoredSteps(Append(raw, result), Append(normalized,
                   IF raises THEN normalization_failure_result(result, step)
                             ELSE normalize_step_result(result, step)))
<1> DEFINE n == Len(raw)
           step == plan[n + 1]
           result == [step_id |-> step.step_id, status |-> status]
           form == IF raises THEN normalization_failure_result(result, step)
                             ELSE normalize_step_result(result, step)
           raw2 == Append(raw, result)
           normalized2 == Append(normalized, form)
<1>1. n \in Nat /\ Len(plan) \in Nat /\ n + 1 \in DOMAIN plan
  BY PlanType DEF StoredSteps
<1>2. result \in RawResults
  BY <1>1 DEF RawResults, Ids
<1>3. form \in Forms
  <2>1. form = Normalized(step, step.step_id, IF raises THEN "FAILED" ELSE status, raises)
    BY DEF normalization_failure_result, normalize_step_result
  <2>2. step.step_id \in Ids(plan)
    BY <1>1 DEF Ids
  <2> HIDE DEF form
  <2> QED
    BY <1>1, <2>1, <2>2 DEF Forms, Normalized
<1>4. /\ form.step_id = step.step_id
      /\ form.normalization_failed => form.status = "FAILED"
      /\ ~form.normalization_failed => form.status = status
      /\ \A key \in Keys : form[key] = step[key]
  BY DEF normalization_failure_result, normalize_step_result, Normalized, Keys
<1> HIDE DEF form
<1>5. raw \in Seq(RawResults) /\ normalized \in Seq(Forms) /\ Len(normalized) = n
  BY DEF StoredSteps
<1>6. /\ raw2 \in Seq(RawResults) /\ Len(raw2) = n + 1 /\ raw2[n + 1] = result
      /\ \A i \in 1..n : raw2[i] = raw[i]
  BY <1>2, <1>5
<1>7. /\ normalized2 \in Seq(Forms) /\ Len(normalized2) = n + 1 /\ normalized2[n + 1] = form
      /\ \A i \in 1..n : normalized2[i] = normalized[i]
  BY <1>3, <1>5
<1>8. ASSUME NEW i \in 1..(n + 1) PROVE StoredStep(raw2, normalized2, i)
  <2>1. CASE i = n + 1
    BY <1>4, <1>6, <1>7, <2>1 DEF StoredStep
  <2>2. CASE i \in 1..n
    <3>1. StoredStep(raw, normalized, i)
      BY <2>2 DEF StoredSteps
    <3> HIDE DEF raw2, normalized2
    <3> QED
      BY <1>6, <1>7, <2>2, <3>1 DEF StoredStep
  <2> QED
    BY <1>1, <2>1, <2>2
<1> HIDE DEF raw2, normalized2
<1>9. StoredSteps(raw2, normalized2)
  BY <1>1, <1>6, <1>7, <1>8 DEF StoredSteps
<1> QED
  BY <1>9 DEF raw2, normalized2, form

\* What is stored is of the run's plan, which does not change.
LEMMA StoredSame ==
    ASSUME run' = run, DOMAIN execution' = {"status", "results", "normalized", "evaluation"},
           StoredSteps(execution'.results, execution'.normalized)
    PROVE  Stored'
<1>1. plan' = plan
  BY DEF plan
<1>2. RawResults' = RawResults /\ Forms' = Forms
  BY <1>1 DEF RawResults, Forms, Ids
<1>3. ASSUME NEW i \in 1..Len(execution'.results)
      PROVE  StoredStep(execution.results, execution.normalized, i)'
  <2>1. StoredStep(execution'.results, execution'.normalized, i)
    BY DEF StoredSteps
  <2> QED
    BY <1>1, <2>1 DEF StoredStep
<1> QED
  BY <1>1, <1>2, <1>3 DEF Stored, StoredSteps

LEMMA NextIInv == IInv /\ [Next]_vars => IInv'
<1> SUFFICES ASSUME IInv, [Next]_vars PROVE IInv'
  OBVIOUS
<1>0. TypeOK /\ Stored /\ Judged /\ Phase /\ Told
  BY DEF IInv
<1>1. CASE UNCHANGED vars \/ Refuse \/ Answer \/ Raise \/ Client
  <2>1. UNCHANGED <<run, execution>>
    BY <1>1 DEF vars, Refuse, Answer, Raise, Client, BadUsage, UsageRaises, Uncaught, Post, HttpError, Open,
       NetworkError, BrokenAnswer, BadResponse, ReadVerdict, Exit
  <2>2. Stored'
    BY <1>0, <2>1, StoredSame DEF Stored
  <2>3. TypeOK'
    BY <1>0, <1>1, <2>1 DEF TypeOK, plan, vars, Refuse, Answer, Raise, Client, BadUsage, UsageRaises, Uncaught, Post,
       HttpError, Open, NetworkError, BrokenAnswer, BadResponse, ReadVerdict, Exit
  <2>4. Judged' /\ Phase' /\ Told'
    BY <1>0, <1>1, <2>1 DEF TypeOK, Judged, Phase, Told, Evaluated, Evaluation, Results, plan, vars, Refuse,
       Answer, Raise, Client, BadUsage, UsageRaises, Uncaught, Post, HttpError, Open, NetworkError,
       BrokenAnswer, BadResponse, ReadVerdict, Exit
  <2> QED
    BY <2>2, <2>3, <2>4 DEF IInv
<1>2. CASE Plan \/ Begin
  <2>1. /\ UNCHANGED <<run, client, uncaught>> /\ server \in {"requested", "planned"}
        /\ \/ server' = "planned" /\ execution'.status = "QUEUED"
           \/ server' = "running" /\ execution'.status = "RUNNING"
        /\ DOMAIN execution' = DOMAIN execution
        /\ execution'.results = execution.results
        /\ execution'.normalized = execution.normalized
        /\ execution'.evaluation = execution.evaluation
    BY <1>0, <1>2 DEF Plan, Begin, Stored
  <2>2. Stored'
    BY <1>0, <2>1, StoredSame DEF Stored
  <2>3. TypeOK'
    BY <1>0, <2>1 DEF TypeOK, plan
  <2>4. Judged' /\ Phase' /\ Told'
    BY <1>0, <2>1 DEF Judged, Phase, Told, Evaluated, Evaluation
  <2> QED
    BY <2>2, <2>3, <2>4 DEF IInv
<1>3. ASSUME NEW status \in Statuses, NEW raises \in BOOLEAN, NEW dns \in Answers,
             RunStep(status, raises, dns)
      PROVE  IInv'
  <2>1. Len(execution.results) < Len(plan)
    BY <1>0, <1>3, PlanType DEF RunStep, StepsDone, TypeOK, Stored, StoredSteps
  <2>2. StoredSteps(execution'.results, execution'.normalized)
    <3>1. status \in Outcomes(plan[Len(execution.results) + 1], dns, Statuses)
      BY <1>3 DEF RunStep
    <3>2. status = "PASSED" => MayPass(plan[Len(execution.results) + 1])
      BY <3>1, PassedMayPass
    <3> QED
      BY <1>0, <1>3, <2>1, <3>2, StepStored DEF RunStep, Stored, TypeOK
  <2>3. DOMAIN execution' = {"status", "results", "normalized", "evaluation"}
        /\ UNCHANGED <<run, client, server, uncaught>>
        /\ execution'.status = execution.status /\ execution'.evaluation = execution.evaluation
        /\ server = "running"
    BY <1>0, <1>3 DEF RunStep, Stored
  <2>4. Stored'
    BY <2>2, <2>3, StoredSame
  <2>5. TypeOK'
    BY <1>0, <2>2, <2>3 DEF TypeOK, StoredSteps, plan
  <2>6. Judged' /\ Phase' /\ Told'
    BY <1>0, <2>3 DEF Judged, Phase, Told, Evaluated, Evaluation
  <2> QED
    BY <2>4, <2>5, <2>6 DEF IInv
<1>4. CASE Finish
  <2>1. /\ UNCHANGED <<run, client, uncaught>> /\ server' = "judged" /\ server = "running"
        /\ DOMAIN execution' = DOMAIN execution
        /\ execution'.results = execution.results
        /\ execution'.normalized = execution.normalized
        /\ execution'.status \in {"PASSED", "FAILED"}
        /\ execution'.evaluation
             = evaluate_benchmark(run, plan, execution.results, execution.normalized)
    BY <1>0, <1>4 DEF Finish, Stored
  <2>2. execution'.evaluation.status \in {"PASSED", "FAILED"}
    BY <2>1 DEF evaluate_benchmark
  <2>3. Stored'
    BY <1>0, <2>1, StoredSame DEF Stored
  <2>4. TypeOK'
    BY <1>0, <2>1, <2>2 DEF TypeOK, plan
  <2>5. Judged'
    BY <1>0, <2>1 DEF Judged, Evaluation, Results, plan
  <2>6. Phase' /\ Told'
    BY <1>0, <2>1, <2>2 DEF Phase, Told, Judged, TypeOK, Evaluated, Evaluation
  <2> QED
    BY <2>3, <2>4, <2>5, <2>6 DEF IInv
<1> QED
  BY <1>1, <1>2, <1>3, <1>4 DEF Next, Backend

(* The invariant, for any test runs and any statuses an executor returns.  *)
THEOREM GateInvariant == Spec => []IInv
  BY InitIInv, NextIInv, PTL DEF Spec

(* No action of script, backend or network stores what is out of range.    *)
THEOREM GateTypeOK == Spec => []TypeOK
<1>1. IInv => TypeOK
  BY DEF IInv
<1> QED
  BY <1>1, GateInvariant, PTL

-----------------------------------------------------------------------------
(* What the verdict rests on                                               *)

(* The thresholds of the run are numbers.                                  *)
LEMMA Thresholds ==
    ASSUME IInv
    PROVE  run.minimum_pass_rate \in Nat /\ run.critical_failures_allowed \in Nat
<1>1. run \in Runs
  BY DEF IInv, TypeOK
<1>2. run.minimum_pass_rate \in 0..(Grain * Whole) /\ run.critical_failures_allowed \in Nat
  BY <1>1, RunsAssumption
<1>3. \A m \in 0..(Grain * Whole) : m \in Nat
  OBVIOUS
<1> QED
  BY <1>2, <1>3

(* Stored results: as many as normalized ones, each of its step.           *)
LEMMA StoredFacts ==
    ASSUME IInv
    PROVE  LET n == Len(Results)
               normalized == execution.normalized
           IN  /\ n \in Nat /\ Len(plan) \in Nat /\ n <= Len(plan)
               /\ Len(normalized) = n
               /\ DOMAIN plan = 1..Len(plan)
               /\ DOMAIN Results = 1..n /\ DOMAIN normalized = 1..n
               /\ \A i \in 1..n : StoredStep(Results, normalized, i)
  BY PlanType DEF IInv, TypeOK, Stored, StoredSteps, Results

(* Without a fallback record, each status is the executor's.               *)
LEMMA SameStatuses ==
    ASSUME IInv, ~NormalizationFailed(execution.normalized), NEW status
    PROVE  /\ Having(execution.normalized, status) = Having(Results, status)
           /\ Count(execution.normalized, status) = Count(Results, status)
<1>1. Having(execution.normalized, status) = Having(Results, status)
  BY StoredFacts DEF NormalizationFailed, Having, StoredStep
<1> QED
  BY <1>1 DEF Count

(* A passed plan whose ids differ was run to its end.                      *)
LEMMA PassedIsComplete ==
    ASSUME IInv, Unique(plan), ~Incomplete(plan, Results, execution.normalized)
    PROVE  Len(Results) = Len(plan)
<1> DEFINE n == Len(Results)
<1>0. n \in Nat /\ Len(plan) \in Nat /\ n <= Len(plan)
  BY StoredFacts
<1>1. SUFFICES ASSUME n < Len(plan) PROVE FALSE
  BY <1>0
<1>2. n + 1 \in DOMAIN plan
  BY <1>0, <1>1, StoredFacts
<1>3. plan[n + 1].step_id \in Ids(execution.normalized)
  BY <1>2 DEF Incomplete, Ids
<1>4. PICK k \in 1..n : execution.normalized[k].step_id = plan[n + 1].step_id
  BY <1>3, StoredFacts DEF Ids
<1>5. plan[k].step_id = plan[n + 1].step_id /\ k \in DOMAIN plan
  BY <1>4, StoredFacts DEF StoredStep
<1>6. k = n + 1
  BY <1>2, <1>5 DEF Unique
<1> QED
  BY <1>4, <1>6, StoredFacts

(* A plan whose configuration names everything once has different ids.     *)
LEMMA PassedIsWhole ==
    ASSUME IInv, NamedOnce(run.components, run.test_suites)
    PROVE  NoPassFromPartialEvidence
<1> DEFINE m == Len(run.components)
           d == Len(run.test_suites)
<1> SUFFICES ASSUME Evaluation.status = "PASSED" PROVE Len(Results) = Len(plan)
  BY DEF NoPassFromPartialEvidence
<1>1. Evaluation = evaluate_benchmark(run, plan, Results, execution.normalized)
  BY DEF IInv, Judged, Evaluated
<1>2. ~Incomplete(plan, Results, execution.normalized)
  BY <1>1, PassedMeans
<1>3. m \in Nat /\ d \in Nat
  BY RunsAssumption DEF IInv, TypeOK
<1>4. m * d # 0
  <2>1. DOMAIN plan = 1..(m * d)
    BY DEF plan, BuildPlan
  <2>2. Len(plan) # 0 /\ DOMAIN plan = 1..Len(plan) /\ Len(plan) \in Nat
    BY <1>2, StoredFacts DEF Incomplete
  <2>3. 1 \in DOMAIN plan
    BY <2>2
  <2> HIDE DEF m, d
  <2>4. 1 \in 1..(m * d)
    BY <2>1, <2>3, Zenon
  <2>5. m * d \in Nat
    BY <1>3, SMT
  <2> QED
    BY <2>4, <2>5
<1>5. m > 0 /\ d > 0
  <2> HIDE DEF m, d
  <2> QED
    BY <1>3, <1>4, SMT
<1>6. Unique(plan)
  BY <1>3, <1>5, UniqueMeansNamedOnce DEF plan
<1> QED
  BY <1>2, <1>6, PassedIsComplete

(* Whatever the client saw, PASSED is exit code 0 only with a result for   *)
(* the id of each planned step and no fallback record.                     *)
LEMMA PassRests == IInv => PassNeedsEvidence
<1> SUFFICES ASSUME IInv, client = "EXIT_PASSED" PROVE PassNeedsEvidence
  BY DEF PassNeedsEvidence
<1>1. Evaluation.status = "PASSED"
  BY DEF IInv, Told
<1>2. Evaluation = evaluate_benchmark(run, plan, Results, execution.normalized)
  BY <1>1 DEF IInv, Judged, Evaluated
<1>3. /\ ~Incomplete(plan, Results, execution.normalized)
      /\ ~Mismapped(plan, Results, execution.normalized)
      /\ ~NormalizationFailed(execution.normalized)
  BY <1>1, <1>2, PassedMeans
<1>4. Ids(plan) = Ids(Results)
  BY <1>3 DEF Incomplete, Mismapped
<1>5. \A i \in Having(Results, "PASSED") : MayPass(plan[i])
  BY StoredFacts DEF StoredStep, Having
<1> QED
  BY <1>1, <1>3, <1>4, <1>5 DEF PassNeedsEvidence, MayPass

(* Half a thousandth of a percent is all that rounding gives.              *)
LEMMA PassedIsEarned ==
    ASSUME IInv, Unique(plan), Evaluation.status = "PASSED"
    PROVE  Earned(1)
<1> DEFINE N == Len(plan)
           P == Count(Results, "PASSED")
           minimum == run.minimum_pass_rate
<1>1. Evaluation = evaluate_benchmark(run, plan, Results, execution.normalized)
  BY DEF IInv, Judged, Evaluated
<1>2. /\ ~Incomplete(plan, Results, execution.normalized)
      /\ ~NormalizationFailed(execution.normalized)
      /\ ~NonFinal(execution.normalized)
      /\ ~BelowMinimum(run, plan, execution.normalized)
      /\ ~TooManyFailed(run, execution.normalized)
  BY <1>1, PassedMeans
<1>3. N \in Nat /\ N > 0 /\ Len(Results) = N
  <2>1. Len(Results) = N
    BY <1>2, PassedIsComplete
  <2>2. N # 0 /\ N \in Nat
    BY <1>2, StoredFacts DEF Incomplete
  <2> QED
    BY <2>1, <2>2
<1>4. \A status : /\ Having(execution.normalized, status) = Having(Results, status)
                  /\ Count(execution.normalized, status) = Count(Results, status)
  BY <1>2, SameStatuses
<1>5. P + Count(Results, "FAILED") = N
  <2>1. \A i \in 1..N : execution.normalized[i].status \in {"PASSED", "FAILED"}
    BY <1>2, <1>3, StoredFacts DEF NonFinal
  <2>2. DOMAIN execution.normalized = 1..N
    BY <1>3, StoredFacts
  <2> QED
    BY <1>3, <1>4, <2>1, <2>2, CountsAddUp
<1>6. P \in Nat /\ Count(Results, "FAILED") \in Nat
  BY <1>3, StoredFacts, CountType
<1>7. minimum \in Nat /\ run.critical_failures_allowed \in Nat
  BY Thresholds
<1>8. Count(Results, "FAILED") <= run.critical_failures_allowed
  BY <1>2, <1>4, <1>6, <1>7 DEF TooManyFailed
<1>9. 2 * (minimum * N) <= 2 * (Grain * (Whole * P)) + 1 * (Grain * N)
  <2> DEFINE W == Whole * P
  <2>1. W \in Nat
    BY <1>6 DEF Whole
  <2>2. ~(Grain * Round(W, N) < minimum)
    BY <1>2, <1>3, <1>4 DEF BelowMinimum, PassRate
  <2> HIDE DEF W, N, minimum
  <2>3. Grain * Round(W, N) \in Nat
    BY <1>3, <2>1, RoundNearest, GrainAssumption, NatProduct
  <2>4. minimum <= Grain * Round(W, N)
    BY <1>7, <2>2, <2>3
  <2>5. 2 * (minimum * N) <= 2 * (Grain * W) + Grain * N
    BY <1>3, <1>7, <2>1, <2>4, ReachedWithin
  <2>6. 1 * (Grain * N) = Grain * N
    BY <1>3, GrainAssumption, SMT
  <2> QED
    BY <2>5, <2>6 DEF W
<1> QED
  BY <1>2, <1>3, <1>5, <1>8, <1>9 DEF Earned

(* And it costs no more, and nothing where the minimum is as coarse.       *)
LEMMA EarnedIsPassed ==
    ASSUME IInv, Unique(plan), Evaluated, NEW halves \in {-1, 0}, Earned(halves),
           halves = 0 => run.minimum_pass_rate % Grain = 0
    PROVE  Evaluation.status = "PASSED"
<1> DEFINE N == Len(plan)
           P == Count(Results, "PASSED")
           minimum == run.minimum_pass_rate
<1>1. N \in Nat /\ N > 0 /\ Len(Results) = N
  BY StoredFacts DEF Earned
<1>2. ~NormalizationFailed(execution.normalized)
  BY DEF Earned
<1>3. \A status : /\ Having(execution.normalized, status) = Having(Results, status)
                  /\ Count(execution.normalized, status) = Count(Results, status)
  BY <1>2, SameStatuses
<1>4. \A i \in 1..N : /\ Results[i].step_id = plan[i].step_id
                       /\ execution.normalized[i].step_id = plan[i].step_id
  BY <1>1, StoredFacts DEF StoredStep
<1>5. /\ DOMAIN plan = 1..N /\ DOMAIN Results = 1..N /\ DOMAIN execution.normalized = 1..N
      /\ Len(execution.normalized) = N
  BY <1>1, StoredFacts
<1>6. Ids(Results) = Ids(plan) /\ Ids(execution.normalized) = Ids(plan)
  BY <1>4, <1>5 DEF Ids
<1>7. ~Incomplete(plan, Results, execution.normalized)
  BY <1>1, <1>5, <1>6 DEF Incomplete
<1>8. ~Mismapped(plan, Results, execution.normalized)
  BY <1>4, <1>5, <1>6 DEF Mismapped, Unique
<1>9. ~NonFinal(execution.normalized)
  <2>1. Count(execution.normalized, "PASSED") + Count(execution.normalized, "FAILED") = N
    BY <1>3 DEF Earned
  <2> QED
    BY <1>1, <1>5, <2>1, CountsAddUp DEF NonFinal
<1>10. P \in Nat /\ Count(Results, "FAILED") \in Nat
  BY <1>1, <1>5, CountType
<1>11. minimum \in Nat /\ run.critical_failures_allowed \in Nat
  BY Thresholds
<1>12. ~BelowMinimum(run, plan, execution.normalized)
  <2> DEFINE W == Whole * P
  <2>1. W \in Nat
    BY <1>10 DEF Whole
  <2>2. 2 * (minimum * N) <= 2 * (Grain * W) + halves * (Grain * N)
    BY DEF Earned
  <2> HIDE DEF W, N, minimum
  <2>3. Grain * W \in Nat /\ Grain * N \in Nat /\ minimum * N \in Nat
    BY <1>1, <1>11, <2>1, GrainAssumption, NatProduct
  <2>4. minimum <= Grain * Round(W, N)
    <3>1. CASE halves = -1
      <4> DEFINE GN == Grain * N
      <4>1. GN \in Nat
        BY <2>3
      <4> HIDE DEF GN
      <4>2. halves * GN = -GN
        BY <3>1, <4>1
      <4>3. 2 * (minimum * N) + GN <= 2 * (Grain * W)
        BY <2>2, <2>3, <4>1, <4>2 DEF GN
      <4> QED
        BY <1>1, <1>11, <2>1, <4>3, ExceededReaches DEF GN
    <3>2. CASE halves = 0
      <4>1. halves * (Grain * N) = 0
        BY <2>3, <3>2
      <4>2. minimum * N <= Grain * W
        BY <2>2, <2>3, <4>1
      <4>3. minimum % Grain = 0
        BY <3>2 DEF minimum
      <4> QED
        BY <1>1, <1>11, <2>1, <4>2, <4>3, WholeReaches
    <3> QED
      BY <3>1, <3>2
  <2>5. Round(W, N) \in Nat
    BY <1>1, <2>1, RoundNearest
  <2>6. Grain * Round(W, N) \in Nat
    BY <2>5, GrainAssumption, NatProduct
  <2>7. ~(Grain * Round(W, N) < minimum)
    BY <1>11, <2>4, <2>6
  <2> QED
    BY <1>1, <1>3, <2>7 DEF BelowMinimum, PassRate, W, N, minimum
<1>13. ~TooManyFailed(run, execution.normalized)
  BY <1>3, <1>10, <1>11 DEF Earned, TooManyFailed
<1>14. Evaluation = evaluate_benchmark(run, plan, Results, execution.normalized)
  BY DEF IInv, Judged
<1> QED
  BY <1>2, <1>7, <1>8, <1>9, <1>12, <1>13, <1>14, PassedMeans

(* With one more passed step instead of a failed one the rate and the      *)
(* failures allowed are kept, and nothing else looks at the status.        *)
LEMMA BetterPasses ==
    ASSUME IInv, Evaluation.status = "PASSED",
           NEW i \in Having(execution.normalized, "FAILED")
    PROVE  evaluate_benchmark(run, plan, Results,
               [execution.normalized EXCEPT ![i].status = "PASSED"]).status = "PASSED"
<1> DEFINE s == execution.normalized
           better == [s EXCEPT ![i].status = "PASSED"]
           n == Len(Results)
           N == Len(plan)
<1>1. Evaluation = evaluate_benchmark(run, plan, Results, s)
  BY DEF IInv, Judged, Evaluated
<1>2. /\ ~Incomplete(plan, Results, s) /\ ~Mismapped(plan, Results, s)
      /\ ~NormalizationFailed(s) /\ ~NonFinal(s)
      /\ ~BelowMinimum(run, plan, s) /\ ~TooManyFailed(run, s)
  BY <1>1, PassedMeans
<1>3. /\ n \in Nat /\ DOMAIN s = 1..n /\ Len(s) = n
      /\ s \in Seq(Forms) /\ i \in 1..n /\ s[i].status = "FAILED"
  <2>1. n \in Nat /\ DOMAIN s = 1..n /\ Len(s) = n
    BY StoredFacts
  <2>2. s \in Seq(Forms)
    BY DEF IInv, Stored, StoredSteps
  <2> QED
    BY <2>1, <2>2 DEF Having
<1>4. \A k \in 1..n : s[k] \in Forms
  BY <1>3
<1>5. /\ DOMAIN better = 1..n /\ Len(better) = n
      /\ \A k \in 1..n : /\ better[k].step_id = s[k].step_id
                         /\ better[k].normalization_failed = s[k].normalization_failed
                         /\ better[k].status = IF k = i THEN "PASSED" ELSE s[k].status
  <2>1. DOMAIN better = 1..n
    BY <1>3
  <2>2. \A k \in 1..n : better[k] = IF k = i THEN [s[k] EXCEPT !.status = "PASSED"] ELSE s[k]
    BY <1>3
  <2>3. Len(better) = n
    BY <1>3, <1>4, <2>1
  <2> HIDE DEF better
  <2>4. ASSUME NEW k \in 1..n
        PROVE  /\ better[k].step_id = s[k].step_id
               /\ better[k].normalization_failed = s[k].normalization_failed
               /\ better[k].status = IF k = i THEN "PASSED" ELSE s[k].status
    <3>1. s[k] \in Forms
      BY <1>4
    <3> HIDE DEF s
    <3> QED
      BY <2>2, <3>1 DEF Forms
  <2> QED
    BY <2>1, <2>3, <2>4
<1> HIDE DEF better, s
<1>6. /\ Ids(better) = Ids(s) /\ (Unique(better) <=> Unique(s))
      /\ ~NormalizationFailed(better) /\ ~NonFinal(better)
  BY <1>2, <1>3, <1>5 DEF Ids, Unique, NormalizationFailed, NonFinal
<1>7. ~Incomplete(plan, Results, better) /\ ~Mismapped(plan, Results, better)
  BY <1>2, <1>3, <1>5, <1>6 DEF Incomplete, Mismapped
<1>8. /\ Having(better, "PASSED") = Having(s, "PASSED") \cup {i}
      /\ Having(better, "FAILED") = Having(s, "FAILED") \ {i}
      /\ i \notin Having(s, "PASSED") /\ i \in Having(s, "FAILED")
  BY <1>3, <1>5 DEF Having
<1>9. \A t : /\ IsFiniteSet(Having(s, t))
             /\ Count(s, t) \in Nat /\ Count(s, t) = Cardinality(Having(s, t))
  BY <1>3, CountType DEF Count
<1>10. Count(better, "PASSED") = Count(s, "PASSED") + 1
  BY <1>8, <1>9, FS_AddElement DEF Count
<1>11. Count(better, "FAILED") = Count(s, "FAILED") - 1
  BY <1>8, <1>9, FS_RemoveElement DEF Count
<1>12. run.minimum_pass_rate \in Nat /\ run.critical_failures_allowed \in Nat
  BY Thresholds
<1>13. N \in Nat /\ N > 0
  BY <1>2, StoredFacts DEF Incomplete
<1>14. ~TooManyFailed(run, better)
  BY <1>2, <1>9, <1>11, <1>12 DEF TooManyFailed
<1>15. ~BelowMinimum(run, plan, better)
  <2> DEFINE a == Round(Whole * Count(s, "PASSED"), N)
             b == Round(Whole * Count(better, "PASSED"), N)
  <2>1. /\ Whole * Count(s, "PASSED") \in Nat /\ Whole * Count(better, "PASSED") \in Nat
        /\ Whole * Count(s, "PASSED") <= Whole * Count(better, "PASSED")
    BY <1>9, <1>10 DEF Whole
  <2>2. a \in Nat /\ b \in Nat /\ a <= b
    BY <1>13, <2>1, RoundNearest, RoundMonotone
  <2> HIDE DEF a, b
  <2>3. PassRate(Count(s, "PASSED"), N) = a /\ PassRate(Count(better, "PASSED"), N) = b
    BY <1>13 DEF PassRate, a, b
  <2>4. Grain * a \in Nat /\ Grain * b \in Nat /\ Grain * a <= Grain * b
    BY <2>2, GrainAssumption, NatProduct, Scaled
  <2>5. ~(Grain * a < run.minimum_pass_rate)
    BY <1>2, <2>3 DEF BelowMinimum
  <2>6. ~(Grain * b < run.minimum_pass_rate)
    BY <1>12, <2>4, <2>5
  <2> QED
    BY <2>3, <2>6 DEF BelowMinimum
<1>16. evaluate_benchmark(run, plan, Results, better).status = "PASSED"
  BY <1>6, <1>7, <1>14, <1>15, PassedMeans
<1> QED
  BY <1>16 DEF better, s

(* The fields the report groups by are those of the plan's steps.          *)
LEMMA ReportOfStored == IInv => ReportAgrees
<1> DEFINE report == build_conformance_report(execution)
           n == Len(Results)
           s == execution.normalized
<1> SUFFICES ASSUME IInv PROVE ReportAgrees
  OBVIOUS
<1>1. /\ n \in Nat /\ Len(s) = n /\ s \in Seq(Forms)
      /\ \A i \in 1..n, key \in Keys : s[i][key] = plan[i][key]
  BY StoredFacts DEF IInv, Stored, StoredSteps, StoredStep
<1>2. ASSUME NEW key \in Keys
      PROVE  Tally(report.breakdowns[key], plan, s, key)
  <2> DEFINE lines == Breakdown(s, key)
  <2>1. report.breakdowns[key] = lines
    BY DEF build_conformance_report
  <2>2. Tally(lines, s, s, key)
    BY <1>1, BreakdownTotals
  <2> HIDE DEF s, lines, n
  <2>3. /\ {s[i][key] : i \in 1..n} = {plan[i][key] : i \in 1..n}
        /\ \A value : {i \in 1..n : s[i][key] = value} = {i \in 1..n : plan[i][key] = value}
    BY <1>1
  <2>4. Tally(lines, plan, s, key)
    BY <1>1, <2>2, <2>3 DEF Tally
  <2> QED
    BY <2>1, <2>4
<1>3. report.completed_steps = Len(s)
  BY <1>1 DEF build_conformance_report, Results
<1> QED
  BY <1>2, <1>3 DEF ReportAgrees, Tally

-----------------------------------------------------------------------------

(* Exit code 0 rests on a PASSED verdict, a result of every planned id, no *)
(* fallback record, and destinations accepted for every step that passed,  *)
(* for any test runs, statuses and answers of DNS.                         *)
THEOREM GatePassNeedsEvidence == Spec => []PassNeedsEvidence
  BY GateInvariant, PassRests, PTL

(* A plan with distinct ids passes as documented, within the rounding of   *)
(* the rate and no further, whatever its length and for minima of any      *)
(* precision.                                                              *)
THEOREM GateVerdictDeserved == Spec => []VerdictDeserved
<1>1. IInv => VerdictDeserved
  <2> SUFFICES ASSUME IInv, Evaluated, Unique(plan) PROVE VerdictDeserved
    BY DEF VerdictDeserved
  <2>1. Evaluation.status = "PASSED" => Earned(1)
    BY PassedIsEarned
  <2>2. Earned(-1) => Evaluation.status = "PASSED"
    BY EarnedIsPassed
  <2>3. Earned(0) /\ run.minimum_pass_rate % Grain = 0 => Evaluation.status = "PASSED"
    BY EarnedIsPassed
  <2> QED
    BY <2>1, <2>2, <2>3 DEF VerdictDeserved
<1> QED
  BY <1>1, GateInvariant, PTL

(* The claim of docs/architecture.md:533-534 that a gate is never passed   *)
(* from partial evidence, which a configuration that repeats itself        *)
(* refutes, holds for every one that names each component once and no two  *)
(* of whose suites have names that join to one.                            *)
THEOREM GateWholeEvidence ==
    Spec => [](NamedOnce(run.components, run.test_suites) => NoPassFromPartialEvidence)
<1>1. IInv => (NamedOnce(run.components, run.test_suites) => NoPassFromPartialEvidence)
  BY PassedIsWhole
<1> QED
  BY <1>1, GateInvariant, PTL

(* Whatever the plan and the thresholds, a step that passes instead of     *)
(* failing costs no pass.                                                  *)
THEOREM GateImprovementNeverFails == Spec => []ImprovementNeverFails
<1>1. IInv => ImprovementNeverFails
  BY BetterPasses DEF ImprovementNeverFails
<1> QED
  BY <1>1, GateInvariant, PTL

(* The report, which is computed from the stored results alone, has a line *)
(* for each planned component, suite and provider of a step that was run,  *)
(* with the totals of the verdict's evidence, for a plan of any length.    *)
THEOREM GateReportAgrees == Spec => []ReportAgrees
<1>1. IInv => ReportAgrees
  BY ReportOfStored
<1> QED
  BY <1>1, GateInvariant, PTL

(* Exit code 1 is the answer of a FAILED verdict or an exception nobody    *)
(* caught, for any test runs.                                              *)
THEOREM GateExitTellsVerdict == Spec => []ExitTellsVerdict
<1>1. IInv => ExitTellsVerdict
  BY DEF IInv, Told, ExitTellsVerdict
<1> QED
  BY <1>1, GateInvariant, PTL

-----------------------------------------------------------------------------
(* One execution among those of Orchestrator.                              *)

\* The steps that store something, and what they leave alone.
LEMMA StoringSteps ==
    ASSUME IInv, [Next]_vars
    PROVE  \/ UNCHANGED execution
           \/ Plan \/ Begin \/ Finish
           \/ \E status \in Statuses, raises \in BOOLEAN, dns \in Answers :
                 RunStep(status, raises, dns)
  BY DEF Next, Backend, vars, Refuse, Answer, Raise, Client, BadUsage, UsageRaises, Uncaught, Post, HttpError, Open,
     NetworkError, BrokenAnswer, BadResponse, ReadVerdict, Exit

(* The evidence a verdict was given on, and the verdict itself, are final  *)
(* as soon as the verdict is stored, so that a report made later agrees    *)
(* with the exit code (orchestrator.py:166-170, executions.py).            *)
THEOREM GateVerdictFrozen ==
    Spec => [][Evaluated => UNCHANGED <<Results, execution.normalized, Evaluation>>]_vars
<1>1. ASSUME IInv, [Next]_vars, Evaluated
      PROVE  UNCHANGED <<Results, execution.normalized, Evaluation>>
  <2>1. server \notin {"requested", "planned", "running"}
    BY <1>1 DEF IInv, Judged
  <2>2. UNCHANGED execution
    BY <1>1, <2>1, StoringSteps DEF Plan, Begin, Finish, RunStep
  <2> QED
    BY <2>2 DEF Results, Evaluation
<1>2. IInv /\ [Next]_vars
        => [Evaluated => UNCHANGED <<Results, execution.normalized, Evaluation>>]_vars
  BY <1>1
<1> QED
  BY <1>2, GateInvariant, PTL DEF Spec

\* The lifecycle of this execution alone.
This   == "this"
State  == [e \in {This} |-> execution.status]
Judgement == {e \in {This} : Evaluated}

Lifecycle == INSTANCE ExecutionLifecycle WITH
    Executions <- {This}, state <- State, evaluated <- Judgement

LEMMA LifecycleStep ==
    ASSUME IInv, [Next]_vars
    PROVE  [Lifecycle!Next]_<<State, Judgement>>
<1>0. TypeOK /\ Stored /\ Judged /\ Phase
  BY DEF IInv
<1>1. CASE UNCHANGED execution
  BY <1>1 DEF State, Judgement, Evaluated, Evaluation
<1>2. CASE Plan
  <2>1. /\ execution.status = "none" /\ execution'.status = "QUEUED"
        /\ execution'.evaluation = execution.evaluation
    BY <1>0, <1>2 DEF Plan, Phase, Stored
  <2>2. Lifecycle!Plan(This)
    BY <2>1 DEF Lifecycle!Plan, Lifecycle!Move, State, Judgement, Evaluated, Evaluation
  <2> QED
    BY <2>2 DEF Lifecycle!Next
<1>3. CASE Begin
  <2>1. /\ execution.status = "QUEUED" /\ execution'.status = "RUNNING"
        /\ execution'.evaluation = execution.evaluation
    BY <1>0, <1>3 DEF Begin, Phase, Stored
  <2>2. Lifecycle!Begin(This)
    BY <2>1 DEF Lifecycle!Begin, Lifecycle!Move, State, Judgement, Evaluated, Evaluation
  <2> QED
    BY <2>2 DEF Lifecycle!Next
<1>4. CASE Finish
  <2>1. /\ execution.status = "RUNNING" /\ execution'.status \in {"PASSED", "FAILED"}
        /\ execution'.evaluation
             = evaluate_benchmark(run, plan, execution.results, execution.normalized)
    BY <1>0, <1>4 DEF Finish, Phase, Stored
  <2>2. Evaluated'
    BY <2>1 DEF Evaluated, Evaluation, evaluate_benchmark
  <2>3. Judgement' = Judgement \cup {This}
    BY <2>2 DEF Judgement
  <2>4. State' = [State EXCEPT ![This] = execution'.status] /\ State[This] = "RUNNING"
    BY <2>1 DEF State
  <2>5. Lifecycle!Conclude(This)
    BY <2>1, <2>3, <2>4 DEF Lifecycle!Conclude, Lifecycle!Move
  <2> QED
    BY <2>5 DEF Lifecycle!Next
<1>5. ASSUME NEW status \in Statuses, NEW raises \in BOOLEAN, NEW dns \in Answers,
             RunStep(status, raises, dns)
      PROVE  UNCHANGED <<State, Judgement>>
  <2>1. execution'.status = execution.status /\ execution'.evaluation = execution.evaluation
    BY <1>0, <1>5 DEF RunStep, Stored
  <2> QED
    BY <2>1 DEF State, Judgement, Evaluated, Evaluation
<1> QED
  BY <1>1, <1>2, <1>3, <1>4, <1>5, StoringSteps

(* The execution whose verdict the script reads goes through the lifecycle *)
(* that Orchestrator's executions implement, and its benchmark evaluation  *)
(* is the evaluation of that lifecycle: it comes with the verdict, once.   *)
THEOREM GateImplementsLifecycle == Spec => Lifecycle!Spec
<1>1. Init => Lifecycle!Init
  BY DEF Init, Lifecycle!Init, NotEvaluated, Evaluated, Evaluation, State, Judgement
<1>2. IInv /\ [Next]_vars => [Lifecycle!Next]_<<State, Judgement>>
  BY LifecycleStep
<1> QED
  BY <1>1, <1>2, GateInvariant, PTL DEF Spec, Lifecycle!Spec
=============================================================================
