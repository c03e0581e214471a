------------------------------ MODULE Benchmark ------------------------------
(***************************************************************************)
(* How the outcome of an execution becomes a verdict and a report: the     *)
(* plan (orchestrator.py), result_normalizer.py, benchmark_evaluator.py    *)
(* and report_generator.py as operators.                                   *)
(*                                                                         *)
(* A rate is in thousandths of a percent, the precision evaluate_benchmark *)
(* rounds to.  A minimum is any number: it is in Grain parts of such a     *)
(* thousandth, and is not rounded.  The name of a provider or a suite is   *)
(* the sequence of its parts between colons.  The details of a result,     *)
(* which the evaluator does not look at, are left out.                     *)
(***************************************************************************)
EXTENDS Naturals, Sequences, FiniteSets

CONSTANT Grain

ASSUME GrainAssumption == Grain \in Nat \ {0}

Whole == 100000   \* 100 percent

\* A step for each component and each suite.  An id is the names joined with
\* ":", and nothing makes it distinct: a component or a suite may be named
\* twice, and "a:b" with "c" gives the id of "a" with "b:c".  The components
\* are known, and none of them has a colon.
BuildPlan(components, suites) ==
    [i \in 1..(Len(components) * Len(suites)) |->
        LET component == components[((i - 1) \div Len(suites)) + 1]
            suite     == suites[((i - 1) % Len(suites)) + 1]
        IN  [step_id   |-> <<component, suite.provider \o suite.suite_id>>,
             component |-> component,
             provider  |-> suite.provider,
             suite_id  |-> suite.suite_id,
             marked    |-> suite.marked,
             suite_config |-> suite.suite_config]]

-----------------------------------------------------------------------------
(* result_normalizer.py                                                    *)

Normalized(step, id, status, failed) ==
    [step_id |-> id, component |-> step.component, provider |-> step.provider,
     suite_id |-> step.suite_id, status |-> status, normalization_failed |-> failed]

normalize_step_result(result, step) ==
    Normalized(step, result.step_id, result.status, FALSE)

\* The record stored in its place when the normalizer raises.
normalization_failure_result(result, step) ==
    Normalized(step, result.step_id, "FAILED", TRUE)

-----------------------------------------------------------------------------
(* benchmark_evaluator.py                                                  *)

Ids(s)    == {s[i].step_id : i \in DOMAIN s}
Unique(s) == \A i, k \in DOMAIN s : s[i].step_id = s[k].step_id => i = k

Having(s, status) == {i \in DOMAIN s : s[i].status = status}
Count(s, status)  == Cardinality(Having(s, status))

\* Mutated: rounded up.
RoundUp(n, d) == IF n % d = 0 THEN n \div d ELSE (n \div d) + 1

\* The integer nearest to n/d, the even one of two.
Round(n, d) ==
    LET q == n \div d
        r == n % d
    IN  IF 2 * r > d \/ (2 * r = d /\ q % 2 = 1) THEN q + 1 ELSE q

PassRate(passed, planned) ==
    IF planned = 0 THEN 0 ELSE Round(Whole * passed, planned)

EvidenceCodes == {"incomplete_normalized_evidence", "result_mapping_invalid",
                  "normalization_failed", "non_final_result"}
Codes == EvidenceCodes \cup {"minimum_pass_rate_not_met", "critical_failures_exceeded"}

Incomplete(plan, raw, normalized) ==
    \/ Len(plan) = 0
    \/ Len(raw) # Len(normalized)
    \/ ~(Ids(plan) \subseteq Ids(normalized))

Mismapped(plan, raw, normalized) ==
    \/ ~Unique(raw) \/ ~Unique(normalized)
    \/ Ids(raw) # Ids(normalized)
    \/ ~(Ids(normalized) \subseteq Ids(plan))

NormalizationFailed(normalized) ==
    \E i \in DOMAIN normalized : normalized[i].normalization_failed

NonFinal(normalized) ==
    \E i \in DOMAIN normalized : normalized[i].status \notin {"PASSED", "FAILED"}

BelowMinimum(benchmark, plan, normalized) ==
    Grain * PassRate(Count(normalized, "PASSED"), Len(plan)) < benchmark.minimum_pass_rate

\* Mutated: so many failures are allowed, and no other number.
TooManyFailedUnlessEqual(benchmark, normalized) ==
    Count(normalized, "FAILED") # benchmark.critical_failures_allowed

TooManyFailed(benchmark, normalized) ==
    Count(normalized, "FAILED") > benchmark.critical_failures_allowed

\* The reasons not to pass the gate; _add_violation() keeps one of each code.
Violations(benchmark, plan, raw, normalized) ==
    {code \in Codes :
        \/ code = "incomplete_normalized_evidence"  /\ Incomplete(plan, raw, normalized)
        \/ code = "result_mapping_invalid"          /\ Mismapped(plan, raw, normalized)
        \/ code = "normalization_failed"            /\ NormalizationFailed(normalized)
        \/ code = "non_final_result"                /\ NonFinal(normalized)
        \/ code = "minimum_pass_rate_not_met"       /\ BelowMinimum(benchmark, plan, normalized)
        \/ code = "critical_failures_exceeded"      /\ TooManyFailed(benchmark, normalized)}

evaluate_benchmark(benchmark, plan, raw, normalized) ==
    LET violations == Violations(benchmark, plan, raw, normalized)
    IN  [status              |-> IF violations = {} THEN "PASSED" ELSE "FAILED",
         evidence_complete   |-> violations \cap EvidenceCodes = {},
         total_planned_steps |-> Len(plan),
         passed_steps        |-> Count(normalized, "PASSED"),
         failed_steps        |-> Count(normalized, "FAILED"),
         pass_rate           |-> PassRate(Count(normalized, "PASSED"), Len(plan)),
         violations          |-> violations]

-----------------------------------------------------------------------------
(* report_generator.py                                                     *)

\* Mutated: the totals are of all results.
BreakdownUngrouped(normalized, key) ==
    [value \in {normalized[i][key] : i \in DOMAIN normalized} |->
        [total_steps |-> Len(normalized), passed |-> Count(normalized, "PASSED"),
         failed |-> Count(normalized, "FAILED"), non_final |-> 0]]

\* grouped.setdefault(value, []).append(step)
AddToGroup(groups, value, step) ==
    [v \in DOMAIN groups \cup {value} |->
        IF v # value THEN groups[v]
        ELSE Append(IF v \in DOMAIN groups THEN groups[v] ELSE <<>>, step)]

\* The results grouped by the value of a field: one loop through them.
Grouped(steps, key) ==
    LET grouped[n \in 0..Len(steps)] ==
          IF n = 0 THEN <<>>
          ELSE AddToGroup(grouped[n - 1], steps[n][key], steps[n])
    IN  grouped[Len(steps)]

\* A line for each group, with its totals.
Breakdown(normalized, key) ==
    LET groups == Grouped(normalized, key)
    IN  [value \in DOMAIN groups |->
            LET group == groups[value]
            IN  [total_steps |-> Len(group),
                 passed      |-> Count(group, "PASSED"),
                 failed      |-> Count(group, "FAILED"),
                 non_final   |-> Cardinality(
                    {i \in DOMAIN group : group[i].status \notin {"PASSED", "FAILED"}})]]

Keys == {"component", "suite_id", "provider"}

build_conformance_report(execution) ==
    [status          |-> execution.status,
     completed_steps |-> Len(execution.results),
     benchmark       |-> execution.evaluation,
     breakdowns      |-> [key \in Keys |-> Breakdown(execution.normalized, key)]]
=============================================================================
