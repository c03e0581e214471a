-------------------------------- MODULE Gate --------------------------------
(***************************************************************************)
(* One call of scripts/ci_gate.py and the execution it asks for: what the  *)
(* loop of run_execution() stores step by step, the verdict, the report,   *)
(* and the exit code, with a network between client and backend.           *)
(*                                                                         *)
(* The client reads the answer to its own request, so that other           *)
(* executions of the run do not matter here (Orchestrator has them).  The  *)
(* client may give up at any time; the backend does not notice.            *)
(***************************************************************************)
EXTENDS Integers, Benchmark, StepRouting

CONSTANTS Runs,       \* test runs: components, test_suites and the benchmark
          Statuses,   \* what an executor may return
          Answers     \* of DNS: from names to sets of addresses

ASSUME RunsAssumption ==
    /\ \A r \in Runs : /\ Len(r.components) \in Nat /\ Len(r.test_suites) \in Nat
                       /\ r.minimum_pass_rate \in 0..(Grain * Whole)
                       /\ r.critical_failures_allowed \in Nat
    /\ {"PASSED", "FAILED"} \subseteq Statuses
    /\ Statuses \subseteq {"QUEUED", "RUNNING", "PASSED", "FAILED", "ERROR", "CANCELLED"}

VARIABLES run,        \* the test run, as it was read
          client,     \* where ci_gate.py is, or its exit code
          server,     \* where the request is
          execution,  \* the stored record
          uncaught    \* history: the script was ended by an exception

vars == <<run, client, server, execution, uncaught>>

plan == BuildPlan(run.components, run.test_suites)

NotEvaluated == [status |-> "none"]

Init ==
    /\ run \in Runs
    /\ client = "ready"
    /\ server = "none"
    /\ execution = [status |-> "none", results |-> <<>>, normalized |-> <<>>,
                    evaluation |-> NotEvaluated]
    /\ uncaught = FALSE

-----------------------------------------------------------------------------
(* The backend: Orchestrator.execute() for this request                    *)

\* 401, 404, 400 or 429.
Refuse ==
    /\ server = "requested"
    /\ server' = "error"
    /\ UNCHANGED <<run, client, execution, uncaught>>

Plan ==
    /\ server = "requested" /\ Len(plan) > 0
    /\ server' = "planned"
    /\ execution' = [execution EXCEPT !.status = "QUEUED"]
    /\ UNCHANGED <<run, client, uncaught>>

\* run_execution() finds both records.
Begin ==
    /\ server = "planned"
    /\ server' = "running"
    /\ execution' = [execution EXCEPT !.status = "RUNNING"]
    /\ UNCHANGED <<run, client, uncaught>>

\* The last step was run, or one that did not pass.
StepsDone ==
    LET n == Len(execution.results)
    IN  n = Len(plan) \/ (n > 0 /\ execution.results[n].status # "PASSED")

\* A step ends; its result is normalized, or the normalizer raises.
RunStep(status, raises, dns) ==
    /\ server = "running" /\ ~StepsDone
    /\ LET step   == plan[Len(execution.results) + 1]
           result == [step_id |-> step.step_id, status |-> status]
       IN  /\ status \in Outcomes(step, dns, Statuses)
           /\ execution' = [execution EXCEPT
                 !.results = Append(@, result),
                 !.normalized = Append(@,
                    IF raises THEN normalization_failure_result(result, step)
                              ELSE normalize_step_result(result, step))]
    /\ UNCHANGED <<run, client, server, uncaught>>

Finish ==
    /\ server = "running" /\ StepsDone
    /\ server' = "judged"
    /\ execution' = [execution EXCEPT
         !.status = IF \A i \in DOMAIN execution.results :
                        execution.results[i].status = "PASSED"
                      THEN "PASSED" ELSE "FAILED",
         !.evaluation = evaluate_benchmark(run, plan, execution.results, execution.normalized)]
    /\ UNCHANGED <<run, client, uncaught>>

\* The test run is updated too, and the execution returned.
Answer ==
    /\ server = "judged"
    /\ server' = "answered"
    /\ UNCHANGED <<run, client, execution, uncaught>>

\* Mutated: the execution is given up.
RaiseMarking ==
    /\ server \in {"planned", "running", "judged"}
    /\ server' = "error"
    /\ execution' = [execution EXCEPT !.status = "ERROR"]
    /\ UNCHANGED <<run, client, uncaught>>

\* A repository call raises (500) or the run is gone (404), and the record stays
\* as it is.
Raise ==
    /\ server \in {"planned", "running", "judged"}
    /\ server' = "error"
    /\ UNCHANGED <<run, client, execution, uncaught>>

-----------------------------------------------------------------------------
(* ci_gate.py                                                              *)

Exit(code) == client' = code /\ UNCHANGED <<run, server, execution>>

\* main() finds a mistake in the arguments, or argparse does, whose exit code
\* is 2 as well.
BadUsage ==
    /\ client = "ready"
    /\ \E code \in {"EXIT_USAGE", "EXIT_BAD_RESPONSE"} : Exit(code)
    /\ UNCHANGED uncaught

\* An exception that nothing catches: the interpreter exits with 1.
Uncaught == uncaught' = TRUE /\ Exit("EXIT_GATE_FAILED")

\* Arguments that the checks let through: half a bracket in the host raises in
\* urlparse(); a port that is no number, a time-out that is nan or inf, or a key
\* with a line break raises in urlopen(), before anything is sent.
UsageRaises == client = "ready" /\ Uncaught

Post ==
    /\ client = "ready"
    /\ client' = "waiting"
    /\ server' = "requested"
    /\ UNCHANGED <<run, execution, uncaught>>

\* The backend refuses or fails, or a proxy answers in its place.
HttpError ==
    /\ client = "waiting"
    /\ Exit("EXIT_HTTP_ERROR") /\ UNCHANGED uncaught

\* urlopen() returns with the head of the answer.
Open ==
    /\ client = "waiting" /\ server = "answered"
    /\ client' = "reading"
    /\ UNCHANGED <<run, server, execution, uncaught>>

\* Unreachable, reset or timed out, before the answer or within it.
NetworkError ==
    /\ client \in {"waiting", "reading"}
    /\ Exit("EXIT_NETWORK_ERROR") /\ UNCHANGED uncaught

\* The connection is closed within the body, or its first line is no HTTP:
\* IncompleteRead and BadStatusLine are no OSErrors.  So ends JSON nested too
\* deeply, violations that are no list, and a line that print() cannot write.
BrokenAnswer == client \in {"waiting", "reading"} /\ Uncaught

\* Mutated: what is no verdict counts as FAILED.
BadResponseFailing ==
    /\ client = "waiting"
    /\ Exit("EXIT_GATE_FAILED") /\ UNCHANGED uncaught

\* Something between the two answers 200 with a page of its own: no JSON, no
\* execution, no evaluation, or no status of one.
BadResponse ==
    /\ client = "waiting"
    /\ Exit("EXIT_BAD_RESPONSE") /\ UNCHANGED uncaught

ReadVerdict ==
    /\ client = "reading"
    /\ Exit(IF execution.evaluation.status = "PASSED"
              THEN "EXIT_PASSED" ELSE "EXIT_GATE_FAILED")
    /\ UNCHANGED uncaught

-----------------------------------------------------------------------------

Backend ==
    \/ Refuse \/ Plan \/ Begin \/ Finish \/ Answer \/ Raise
    \/ \E status \in Statuses, raises \in BOOLEAN, dns \in Answers :
          RunStep(status, raises, dns)

Client ==
    \/ BadUsage \/ UsageRaises \/ Post \/ HttpError \/ Open \/ NetworkError
    \/ BrokenAnswer \/ BadResponse \/ ReadVerdict

Next == Backend \/ Client

Spec == Init /\ [][Next]_vars

-----------------------------------------------------------------------------

TypeOK ==
    /\ run \in Runs
    /\ client \in {"ready", "waiting", "reading", "EXIT_PASSED", "EXIT_GATE_FAILED",
                   "EXIT_BAD_RESPONSE", "EXIT_HTTP_ERROR", "EXIT_NETWORK_ERROR", "EXIT_USAGE"}
    /\ server \in {"none", "requested", "planned", "running", "judged", "answered", "error"}
    /\ execution.status \in {"none", "QUEUED", "RUNNING", "PASSED", "FAILED"}
    /\ Len(execution.results) <= Len(plan)
    /\ execution.evaluation.status \in {"none", "PASSED", "FAILED"}
    /\ uncaught \in BOOLEAN

Results    == execution.results
Evaluation == execution.evaluation
Evaluated  == Evaluation.status # "none"

\* The gate as documented: the whole plan was run and its results are known,
\* few enough failed, and the exact pass rate plus halves/2 thousandths of a
\* percent is no less than the minimum, which may be of any precision.
Earned(halves) ==
    /\ Len(plan) > 0 /\ Len(Results) = Len(plan)
    /\ ~NormalizationFailed(execution.normalized)
    /\ Count(Results, "PASSED") + Count(Results, "FAILED") = Len(plan)
    /\ Count(Results, "FAILED") <= run.critical_failures_allowed
    /\ 2 * (run.minimum_pass_rate * Len(plan))
         <= 2 * (Grain * (Whole * Count(Results, "PASSED"))) + halves * (Grain * Len(plan))

(* A plan whose steps have different ids passes only when the gate's        *)
(* conditions hold but for half a thousandth of a percent, and does pass    *)
(* when they hold by half a thousandth, or hold at all for a minimum of no  *)
(* more digits than the rate: fail-fast, fallback records and rounding      *)
(* neither add up to a pass that was not earned nor cost more than that.    *)
(* Rounding does cost a pass whose rate exceeds a finer minimum by less     *)
(* (benchmark_evaluator.py:111-122): 5 of 6 are refused at 83.3333.         *)
VerdictDeserved ==
    Evaluated /\ Unique(plan) =>
        /\ Evaluation.status = "PASSED" => Earned(1)
        /\ Earned(-1) => Evaluation.status = "PASSED"
        /\ Earned(0) /\ run.minimum_pass_rate % Grain = 0 => Evaluation.status = "PASSED"

(* Whatever happens on the way, the script exits with 0 only when this      *)
(* execution has a stored PASSED verdict, a result for the id of each       *)
(* planned step and none of an unknown normalization; and a step among them *)
(* that passed had an executor and destinations that a new run may have,    *)
(* though the run may have been stored before there was a policy            *)
(* (schemas.py:194-198, orchestrator.py:195-221).                           *)
PassNeedsEvidence ==
    client = "EXIT_PASSED" =>
        /\ Evaluation.status = "PASSED"
        /\ Ids(plan) = Ids(Results)
        /\ ~NormalizationFailed(execution.normalized)
        /\ \A i \in Having(Results, "PASSED") :
              plan[i].provider \in Registered /\ AcceptedWhenNew(plan[i].suite_config)

(* Exit 1 says that the gate failed, that is, that the backend answered     *)
(* with a FAILED verdict, except where an exception ended the script, which *)
(* has the same exit code.                                                  *)
ExitTellsVerdict ==
    client = "EXIT_GATE_FAILED" =>
        uncaught \/ (server = "answered" /\ Evaluation.status = "FAILED")

(* A step that passes instead of failing never turns PASSED into FAILED.    *)
ImprovementNeverFails ==
    Evaluation.status = "PASSED" =>
        \A i \in Having(execution.normalized, "FAILED") :
            LET better == [execution.normalized EXCEPT ![i].status = "PASSED"]
            IN  evaluate_benchmark(run, plan, Results, better).status = "PASSED"

(* The report's breakdowns agree with the plan they do not look at: each    *)
(* planned component, suite and provider of an executed step has a line,    *)
(* and its totals are those of the verdict's evidence.                      *)
ReportAgrees ==
    Evaluated => LET report == build_conformance_report(execution)
                     done   == 1..report.completed_steps
                 IN \A key \in Keys :
        LET lines == report.breakdowns[key]
        IN  /\ DOMAIN lines = {plan[i][key] : i \in done}
            /\ \A value \in DOMAIN lines :
                 LET steps == {i \in done : plan[i][key] = value}
                 IN  /\ lines[value].total_steps = Cardinality(steps)
                     /\ lines[value].passed =
                          Cardinality(steps \cap Having(execution.normalized, "PASSED"))
                     /\ lines[value].passed + lines[value].failed
                          + lines[value].non_final = lines[value].total_steps

(* "It never produces a successful gate from partial evidence"              *)
(* (docs/architecture.md:533-534): a pass has a result of every planned step.*)
NoPassFromPartialEvidence ==
    Evaluation.status = "PASSED" => Len(Results) = Len(plan)
=============================================================================
