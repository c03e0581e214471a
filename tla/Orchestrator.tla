---------------------------- MODULE Orchestrator ----------------------------
(***************************************************************************)
(* backend/app/orchestrator.py with the two JSON repositories it writes,   *)
(* the API that creates and deletes test runs (test_runs.py), the worker's *)
(* error handler and the startup cleanup (async_runner.py).                *)
(*                                                                         *)
(* Any number of executions are under way at once, on request threads and  *)
(* on the worker's.  A repository call is atomic (it holds the             *)
(* repository's lock and replaces the file), so it is one step; between    *)
(* two calls anything may happen.  An Execution object is written by its   *)
(* own thread only and a TestRunConfig object differs from the stored one  *)
(* only in the status about to be stored, so the copies the code carries   *)
(* need no variables; but update() is create(): it stores the run whether  *)
(* it is still there or not.                                               *)
(*                                                                         *)
(* How executions share slots and the queue is ExecutionLimiter's and      *)
(* AsyncRunner's matter: here a planned execution may begin at any time.   *)
(***************************************************************************)
EXTENDS Naturals, Sequences, FiniteSets

CONSTANTS Runs, Jobs,
          AsyncJobs,   \* the jobs of POST .../execute-async; the others are synchronous
          RunOf,       \* the test run each job executes
          PlanOf,      \* how many steps _build_plan() makes for each run
          MaxCrashes,  \* bound: how often the process dies
          MaxFaults    \* bound: how often a repository call raises

ASSUME JobsAssumption ==
    /\ AsyncJobs \subseteq Jobs /\ RunOf \in [Jobs -> Runs] /\ PlanOf \in [Runs -> Nat]
    /\ MaxCrashes \in Nat /\ MaxFaults \in Nat

VARIABLES test_runs,   \* the status stored for each run; "absent": no such key
          deleted,     \* runs a DELETE was answered 204 for (ids are never reused)
          executions,  \* the execution stored for each job; status "none": no such key
          order,       \* the keys of the executions file, in their order
          pc,          \* where the thread of each job is
          mode,        \* of the process: "up", "down", or "cleanup" of the stale
          stale,       \* the executions cleanup_stale_executions() has yet to mark
          crashes, faults

repositories == <<test_runs, executions, order>>
process      == <<mode, stale, crashes>>
vars == <<repositories, deleted, pc, process, faults>>

Steps(j) == PlanOf[RunOf[j]]

\* pc values with a repository call ahead, in the order of the code.
Planning  == {"plan_store", "plan_mark"}
Running   == {"mark_execution", "mark_run", "step", "stepping", "finish", "finish_run"}
Failing   == {"error", "error_run", "error_mark"}
Live      == Planning \cup {"planned"} \cup Running \cup Failing

NoExecution(j) ==
    [status |-> "none", steps |-> [i \in 1..Steps(j) |-> "QUEUED"],
     results |-> <<>>, current |-> 0, evaluated |-> FALSE]

Init ==
    /\ test_runs = [r \in Runs |-> "absent"]
    /\ deleted = {}
    /\ executions = [j \in Jobs |-> NoExecution(j)]
    /\ order = <<>>
    /\ pc = [j \in Jobs |-> "new"]
    /\ mode = "up" /\ stale = {}
    /\ crashes = 0 /\ faults = 0

Goto(j, loc) == pc' = [pc EXCEPT ![j] = loc]
SetRun(r, s) == test_runs' = [test_runs EXCEPT ![r] = s]
At(j, loc)   == mode = "up" /\ pc[j] = loc

-----------------------------------------------------------------------------
(* test_runs.py                                                            *)

CreateRun(r) ==
    /\ mode = "up" /\ test_runs[r] = "absent" /\ r \notin deleted
    /\ SetRun(r, "CONFIGURED")
    /\ UNCHANGED <<deleted, executions, order, pc, process, faults>>

DeleteRun(r) ==
    /\ mode = "up" /\ test_runs[r] # "absent"
    /\ SetRun(r, "absent")
    /\ deleted' = deleted \cup {r}
    /\ UNCHANGED <<executions, order, pc, process, faults>>

-----------------------------------------------------------------------------
(* plan_execution()                                                        *)

\* The run is read; without it, or without steps, the request is refused.
PlanLoad(j) ==
    /\ At(j, "new")
    /\ Goto(j, IF test_runs[RunOf[j]] = "absent" \/ Steps(j) = 0
                 THEN "refused" ELSE "plan_store")
    /\ UNCHANGED <<repositories, deleted, process, faults>>

PlanStore(j) ==
    /\ At(j, "plan_store")
    /\ executions' = [executions EXCEPT ![j].status = "QUEUED"]
    /\ order' = Append(order, j)
    /\ Goto(j, "plan_mark")
    /\ UNCHANGED <<test_runs, deleted, process, faults>>

PlanMark(j) ==
    /\ At(j, "plan_mark")
    /\ SetRun(RunOf[j], "QUEUED")
    /\ Goto(j, "planned")
    /\ UNCHANGED <<executions, order, deleted, process, faults>>

-----------------------------------------------------------------------------
(* run_execution()                                                         *)

\* Mutated: the worker passes over a job whose run is gone.
RunLoadPassingOver(j) ==
    /\ At(j, "planned")
    /\ Goto(j, IF test_runs[RunOf[j]] # "absent" THEN "mark_execution" ELSE "done")
    /\ UNCHANGED <<repositories, deleted, process, faults>>

\* Both records are read.  Without the run it raises: the client of a
\* synchronous request gets a 404, the worker handles an error.
RunLoad(j) ==
    /\ At(j, "planned")
    /\ Goto(j, IF test_runs[RunOf[j]] # "absent" THEN "mark_execution"
               ELSE IF j \in AsyncJobs THEN "error" ELSE "raised")
    /\ UNCHANGED <<repositories, deleted, process, faults>>

MarkExecution(j) ==
    /\ At(j, "mark_execution")
    /\ executions' = [executions EXCEPT ![j].status = "RUNNING"]
    /\ Goto(j, "mark_run")
    /\ UNCHANGED <<test_runs, order, deleted, process, faults>>

MarkRun(j) ==
    /\ At(j, "mark_run")
    /\ SetRun(RunOf[j], "RUNNING")
    /\ Goto(j, "step")
    /\ UNCHANGED <<executions, order, deleted, process, faults>>

StepBegin(j) ==
    /\ At(j, "step")
    /\ executions' = [executions EXCEPT ![j].current = Len(executions[j].results) + 1]
    /\ Goto(j, "stepping")
    /\ UNCHANGED <<test_runs, order, deleted, process, faults>>

\* Mutated: no end after the last step; no break after one that did not pass.
StepEndUnending(j, outcome) ==
    /\ At(j, "stepping")
    /\ LET e == executions[j] IN
         /\ executions' = [executions EXCEPT
              ![j].steps[e.current] = outcome, ![j].results = Append(e.results, outcome)]
         /\ Goto(j, IF outcome # "PASSED" THEN "finish" ELSE "step")
    /\ UNCHANGED <<test_runs, order, deleted, process, faults>>
StepEndGoingOn(j, outcome) ==
    /\ At(j, "stepping")
    /\ LET e == executions[j] IN
         /\ executions' = [executions EXCEPT
              ![j].steps[e.current] = outcome, ![j].results = Append(e.results, outcome)]
         /\ Goto(j, IF e.current = Steps(j) THEN "finish" ELSE "step")
    /\ UNCHANGED <<test_runs, order, deleted, process, faults>>

\* The step's result, its normalized form and the count of completed steps
\* are stored together; a step that did not pass is the last one.
StepEnd(j, outcome) ==
    /\ At(j, "stepping")
    /\ LET e == executions[j] IN
         /\ executions' = [executions EXCEPT
              ![j].steps[e.current] = outcome,
              ![j].results = Append(e.results, outcome)]
         /\ Goto(j, IF outcome # "PASSED" \/ e.current = Steps(j) THEN "finish" ELSE "step")
    /\ UNCHANGED <<test_runs, order, deleted, process, faults>>

Failed(j) == \E i \in 1..Len(executions[j].results) : executions[j].results[i] # "PASSED"
Verdict(j) == IF Failed(j) THEN "FAILED" ELSE "PASSED"

\* Mutated: the benchmark is not evaluated.
FinishUnevaluated(j) ==
    /\ At(j, "finish")
    /\ executions' = [executions EXCEPT ![j].status = Verdict(j), ![j].current = 0]
    /\ Goto(j, "finish_run")
    /\ UNCHANGED <<test_runs, order, deleted, process, faults>>

Finish(j) ==
    /\ At(j, "finish")
    /\ executions' = [executions EXCEPT
         ![j].status = Verdict(j), ![j].current = 0, ![j].evaluated = TRUE]
    /\ Goto(j, "finish_run")
    /\ UNCHANGED <<test_runs, order, deleted, process, faults>>

\* Mutated: PASSED whatever the verdict; the run's status not updated.
FinishRunPassed(j) ==
    /\ At(j, "finish_run") /\ SetRun(RunOf[j], "PASSED") /\ Goto(j, "done")
    /\ UNCHANGED <<executions, order, deleted, process, faults>>
FinishRunSkipped(j) ==
    /\ At(j, "finish_run") /\ Goto(j, "done")
    /\ UNCHANGED <<repositories, deleted, process, faults>>

FinishRun(j) ==
    /\ At(j, "finish_run")
    /\ SetRun(RunOf[j], Verdict(j))
    /\ Goto(j, "done")
    /\ UNCHANGED <<executions, order, deleted, process, faults>>

-----------------------------------------------------------------------------
(* Errors.  A repository call may raise before it changes the file.        *)

Fault(j) ==
    /\ mode = "up" /\ pc[j] \in Planning \cup Running \cup Failing
    /\ faults < MaxFaults /\ faults' = faults + 1
    /\ Goto(j, IF j \in AsyncJobs /\ pc[j] \in Running THEN "error" ELSE "raised")
    /\ UNCHANGED <<repositories, deleted, process>>

\* Mutated: an ERROR record in place of the stored one.
ErrorExecutionAnew(j) ==
    /\ At(j, "error")
    /\ executions' = [executions EXCEPT ![j] = [NoExecution(j) EXCEPT !.status = "ERROR"]]
    /\ Goto(j, "error_run")
    /\ UNCHANGED <<test_runs, order, deleted, process, faults>>

\* The worker's handler: get the execution and mark it,
ErrorExecution(j) ==
    /\ At(j, "error")
    /\ executions' = [executions EXCEPT ![j].status = "ERROR"]
    /\ Goto(j, "error_run")
    /\ UNCHANGED <<test_runs, order, deleted, process, faults>>

\* get the run,
ErrorRun(j) ==
    /\ At(j, "error_run")
    /\ Goto(j, IF test_runs[RunOf[j]] = "absent" THEN "done" ELSE "error_mark")
    /\ UNCHANGED <<repositories, deleted, process, faults>>

\* and mark it too.
ErrorMark(j) ==
    /\ At(j, "error_mark")
    /\ SetRun(RunOf[j], "FAILED")
    /\ Goto(j, "done")
    /\ UNCHANGED <<executions, order, deleted, process, faults>>

-----------------------------------------------------------------------------
(* Crash, restart and cleanup_stale_executions().                          *)

Crash ==
    /\ mode # "down" /\ crashes < MaxCrashes
    /\ crashes' = crashes + 1
    /\ mode' = "down" /\ stale' = {}
    /\ pc' = [j \in Jobs |-> IF pc[j] \in Live THEN "lost" ELSE pc[j]]
    /\ UNCHANGED <<repositories, deleted, faults>>

IsStale(j) == executions[j].status \in {"QUEUED", "RUNNING"}

\* Mutated: QUEUED executions are not cleaned up.
BootRunningOnly ==
    /\ mode = "down"
    /\ mode' = "cleanup" /\ stale' = {j \in Jobs : executions[j].status = "RUNNING"}
    /\ UNCHANGED <<repositories, deleted, pc, crashes, faults>>

\* _read_all(): the records to clean up, one after the other.  They are taken
\* in any order; the file's is one of them.
Boot ==
    /\ mode = "down"
    /\ mode' = "cleanup" /\ stale' = {j \in Jobs : IsStale(j)}
    /\ UNCHANGED <<repositories, deleted, pc, crashes, faults>>

\* The one whose execution is marked and whose run is not yet.
HalfClean(j) == j \in stale /\ ~IsStale(j)

CleanExecution(j) ==
    /\ mode = "cleanup" /\ j \in stale
    /\ \A k \in Jobs : ~HalfClean(k)
    /\ executions' = [executions EXCEPT ![j].status = "ERROR"]
    /\ UNCHANGED <<test_runs, order, deleted, pc, process, faults>>

CleanRun(j) ==
    /\ mode = "cleanup" /\ HalfClean(j)
    /\ IF test_runs[RunOf[j]] = "absent"
         THEN UNCHANGED test_runs ELSE SetRun(RunOf[j], "FAILED")
    /\ stale' = stale \ {j}
    /\ UNCHANGED <<executions, order, deleted, pc, mode, crashes, faults>>

Serve ==
    /\ mode = "cleanup" /\ stale = {}
    /\ mode' = "up"
    /\ UNCHANGED <<repositories, deleted, pc, stale, crashes, faults>>

-----------------------------------------------------------------------------

Advance(j) ==
    \/ PlanStore(j) \/ PlanMark(j)
    \/ RunLoad(j) \/ MarkExecution(j) \/ MarkRun(j)
    \/ StepBegin(j) \/ \E outcome \in {"PASSED", "FAILED"} : StepEnd(j, outcome)
    \/ Finish(j) \/ FinishRun(j)
    \/ ErrorExecution(j) \/ ErrorRun(j) \/ ErrorMark(j)

Startup == Boot \/ (\E j \in Jobs : CleanExecution(j) \/ CleanRun(j)) \/ Serve

Next ==
    \/ \E r \in Runs : CreateRun(r) \/ DeleteRun(r)
    \/ \E j \in Jobs : PlanLoad(j) \/ Advance(j) \/ Fault(j)
    \/ Crash \/ Startup

Spec == Init /\ [][Next]_vars

(* A thread that has begun goes on and a dead process is restarted; the    *)
(* worker takes every job it was given (AsyncRunner).  Nothing is obliged  *)
(* to be requested, to fail or to crash.                                   *)
Fairness == WF_vars(Startup) /\ \A j \in Jobs : WF_vars(Advance(j))

FairSpec == Spec /\ Fairness

-----------------------------------------------------------------------------

ExecutionStatuses == {"none", "QUEUED", "RUNNING", "PASSED", "FAILED", "ERROR"}

Execution(j) ==
    [status : ExecutionStatuses, steps : [1..Steps(j) -> ExecutionStatuses],
     results : Seq({"PASSED", "FAILED"}), current : 0..Steps(j), evaluated : BOOLEAN]

TypeOK ==
    /\ test_runs \in [Runs -> {"absent", "CONFIGURED", "QUEUED", "RUNNING", "PASSED", "FAILED"}]
    /\ deleted \in SUBSET Runs
    /\ DOMAIN executions = Jobs
    /\ \A j \in Jobs : executions[j] \in Execution(j)
    /\ order \in Seq(Jobs)
    /\ pc \in [Jobs -> Live \cup {"new", "refused", "raised", "lost", "done"}]
    /\ mode \in {"up", "down", "cleanup"} /\ stale \in SUBSET Jobs
    /\ crashes \in 0..MaxCrashes /\ faults \in 0..MaxFaults

Evidence(j) ==
    LET e == executions[j]
        n == Len(e.results)
    IN  /\ n <= Steps(j)
        /\ \A i \in 1..Steps(j) : e.steps[i] = IF i <= n THEN e.results[i] ELSE "QUEUED"
        /\ \A i \in 1..n : i < n => e.results[i] = "PASSED"
        /\ e.status = "PASSED" => n = Steps(j) /\ ~Failed(j)
        /\ e.status = "FAILED" => Failed(j)
        /\ e.status \in {"PASSED", "FAILED"} => e.evaluated /\ e.current = 0
        /\ e.evaluated => e.status \in {"PASSED", "FAILED", "ERROR"}

(* Fail-fast, and a verdict that follows from the stored evidence: the     *)
(* results are those of the first steps, only the last may have failed,    *)
(* later steps stay QUEUED; PASSED needs every step, FAILED a failed one;  *)
(* and the benchmark is evaluated when the verdict is, not before          *)
(* (orchestrator.py:134-170).                                              *)
EvidenceConsistent == \A j \in Jobs : Evidence(j)

Of(r) == {j \in Jobs : RunOf[j] = r}

\* Some execution of the run accounts for the status s.
Supported(r, s) ==
    /\ s = "PASSED" => \E j \in Of(r) :
          executions[j].evaluated /\ ~Failed(j) /\ Len(executions[j].results) = Steps(j)
    /\ s = "FAILED" => \E j \in Of(r) :
          (executions[j].evaluated /\ Failed(j)) \/ executions[j].status = "ERROR"
    /\ s = "RUNNING" => \E j \in Of(r) : executions[j].status \notin {"none", "QUEUED"}
    /\ s = "QUEUED" => \E j \in Of(r) : executions[j].status # "none"

(* A run's status is never ahead of the executions file, whatever crashes, *)
(* fails or is deleted in between: it says PASSED only if an execution of  *)
(* its passed every step and was evaluated, FAILED only if one failed or   *)
(* was given up, RUNNING only if one began (orchestrator.py:108-126,       *)
(* 166-177; async_runner.py:85-92,118-124).                                *)
RunStatusHasEvidence == \A r \in Runs : Supported(r, test_runs[r])

(* While the process serves requests, an execution stored as QUEUED or     *)
(* RUNNING is one some thread of this process still works on, or one whose *)
(* request ended with an exception; none is left over from before the last *)
(* restart (async_runner.py:106-124).                                      *)
StaleHasOwner ==
    mode = "up" => \A j \in Jobs : IsStale(j) => pc[j] \in Live \cup {"raised"}

(* "re-executing a run creates a new Execution record rather than mutating *)
(* the previous one" (docs/architecture.md:112-113): from its evaluation   *)
(* on, the evidence a report is built from never changes.                  *)
EvidenceFrozen ==
    [][\A j \in Jobs : executions[j].evaluated =>
          /\ executions'[j].evaluated
          /\ executions'[j].steps = executions[j].steps
          /\ executions'[j].results = executions[j].results]_vars

Lifecycle == INSTANCE ExecutionLifecycle WITH
    Executions <- Jobs,
    state      <- [j \in Jobs |-> executions[j].status],
    evaluated  <- {j \in Jobs : executions[j].evaluated}

(* The stored executions go through the promised lifecycle.                *)
RefinesLifecycle == Lifecycle!Spec

Settled(r) == mode = "up" /\ \A j \in Of(r) : pc[j] \notin Live
Planned(r) == {j \in Of(r) : executions[j].status # "none"}

\* get_latest_for_run(): the last key that belongs to the run.
Latest(r) ==
    LET last == CHOOSE i \in 1..Len(order) :
                  /\ RunOf[order[i]] = r
                  /\ \A k \in 1..Len(order) : RunOf[order[k]] = r => k <= i
    IN  order[last]

Mirror(status) == IF status = "ERROR" THEN "FAILED" ELSE status

(* A run that is executed once, without a crash or an error, ends with the *)
(* status of that execution (orchestrator.py:115-179).                     *)
MirrorsWhenAlone ==
    \A r \in Runs :
        Settled(r) /\ Cardinality(Planned(r)) = 1 /\ r \notin deleted
            /\ crashes = 0 /\ faults = 0
          => test_runs[r] = Mirror(executions[Latest(r)].status)

(* A planned execution gets a final status, across crashes and restarts,   *)
(* unless the request that runs it ends with an exception; the worker's    *)
(* handler rules that out for a queued job as long as the files can be     *)
(* written (async_runner.py:78-94,106-124).                                *)
PlannedSettles ==
    \A j \in Jobs :
        pc[j] = "planned" ~>
            \/ executions[j].status \in {"PASSED", "FAILED", "ERROR"}
            \/ pc[j] = "raised" /\ (j \in AsyncJobs => faults > 0)

(* test_deleted_run_is_no_longer_retrievable (backend/tests/               *)
(* test_test_runs.py:151): a run whose DELETE was answered stays deleted.  *)
DeletedStaysDeleted == \A r \in deleted : test_runs[r] = "absent"

(* "The owning Test Run's own status field mirrors this" (docs/            *)
(* architecture.md:86-87): when nothing executes it any more, a run that    *)
(* nobody deleted has the status of the execution the API shows for it.    *)
RunMirrorsLatest ==
    \A r \in Runs :
        Settled(r) /\ Planned(r) # {} /\ r \notin deleted
          => test_runs[r] = Mirror(executions[Latest(r)].status)
=============================================================================
