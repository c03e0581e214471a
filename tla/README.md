# A formal model of the conformance orchestrator

This directory specifies the backend of *Automated Conformance Testing for Inji
Certify and Inji Verify* in TLA+. TLC checks the specifications on small
instances, and TLAPS proves the main safety properties for every value of the
constants. Paths below are relative to the repository root.

## 1. The system

A client configures a *test run* (components x suites, a benchmark), then asks
for it to be executed, now (`POST .../execute`) or in the background (`POST
.../execute-async`). An *execution* is planned as a list of steps, each of which
is handed to an executor (mock, the OpenID Conformance Suite over REST, the
Inji test rigs as Java processes). Results are normalized and judged by the
benchmark; a report is derived from the stored execution.

| component | state | operations | interacts with |
|---|---|---|---|
| execution limiter (`backend/app/concurrency.py`) | `_in_use`, a Condition | `try_acquire`, `acquire`, `release` | request threads, worker's pool threads |
| async runner (`async_runner.py`, `executions.py`, `main.py`) | `_queue_semaphore`, `queue`, `_loop`, `_shutdown`, worker task | `try_reserve`, `enqueue`, worker loop, `start`, `stop`, cleanup | handlers (threads) -> loop (callback) -> worker (task) -> pool threads |
| orchestrator (`orchestrator.py`) | none of its own: the two files | `plan_execution`, `run_execution`, `execute` | repositories, executors, limiter |
| repositories (`json_repository.py`, `json_execution_repository.py`) | one JSON file each, one lock each | `create`, `update` (= `create`), `get`, `delete`, `get_latest_for_run` | everybody |
| test-run API (`test_runs.py`, `schemas.py`) | - | create, list, get, delete | test-run repository |
| OpenID client and executor (`openid_client.py`, `openid_executor.py`) | - (the suite's plans and modules) | create, start, poll, retry | the remote suite |
| test rig executors (`inji_executors.py`, `inji_process.py`, `inji_report.py`) | the process, report files | run, time out, kill, locate and parse the report | the operating system |
| normalizer, benchmark, report (`result_normalizer.py`, `benchmark_evaluator.py`, `report_generator.py`) | - | pure functions of an execution | orchestrator, report API |
| CI gate (`scripts/ci_gate.py`) | - | one request, one exit code | `POST .../execute` over a network |
| outbound policy (`outbound.py`, used by `schemas.py` and `orchestrator.py`), executor registry and mock (`executors.py`) | - | what may happen to a step before an executor has it | DNS, executors |
| redaction, authentication | - | stateless | every request |
| frontend (`frontend/`) | the state of the page of a run: the execution shown, the history, an interval | load, polls, execute, view, delete | the API, through a proxy |

What is hard here, and what no unit test of the repository reaches:

* executions of one run overlap on any number of threads, and each writes its
  copy of the run back;
* the two files are updated one after the other, and the process may die, or a
  write may fail, between the two;
* a DELETE may come between a read and the update that follows it;
* a job passes from a thread to a loop callback to a task to two pool threads,
  and the task may be cancelled at any of its awaits while the threads go on;
* a reservation has six ways out and must be returned once on each;
* a blocking and a non-blocking client share one condition variable;
* the rigs' report lies in a directory shared by all steps of a provider, and a
  rig outlives the backend that started it;
* step ids are not distinct when a component or a suite is named twice or names with a
  colon join to one text, and the benchmark looks for missing results by id;
* the CI gate's request may be answered by a proxy, in part, or not at all while
  the execution goes on;
* a remote suite may carry out a request whose answer never comes, or comes as
  an error;
* the page of a run polls every three seconds whether or not the last answer came,
  and nothing cancels a poll already sent;
* a destination is accepted when a run is created and looked up again, perhaps
  years later, when it is executed.

`PROJECT.json` lists these hazards at their lines, with the properties that
watch them. For each component the properties that make it correct are:

* limiter: never more holders than slots; a waiter sleeps only while there is
  no slot for it;
* async runner: reservations are conserved, an accepted job is in one place
  once, is executed, and ends with a final status; a slot has an owner;
* orchestrator and repositories: an execution goes through its lifecycle, its
  evidence agrees with its verdict at every store and is never rewritten, the
  run's status follows from its executions, nothing stale survives a start;
* outbound policy and registry: a step without an executor or with a destination
  a new run may not have never passes;
* evaluator, normalizer, report: fail closed, agree with each other, a verdict is
  neither given nor refused by fail-fast or fallback records, and by rounding only
  within half a thousandth of a percent;
* CI gate: an exit code 0 tells a verdict that is stored, and so does 1 unless an exception
  ended the script;
* OpenID client: nothing is created twice, a verdict rests on the suite's, the
  step ends;
* test rig: no process outlives its result unless it cannot be killed, a verdict rests
  on a report, and on the step's own;
* frontend: what is shown was asked for and is true of the backend, the history
  agrees with it, and an execution shown as pending is shown as final in the end.

## 2. The modules

| module | models | refines |
|---|---|---|
| `Semaphore` | what a capacity gate promises | |
| `ExecutionLimiter` | `concurrency.py`, method by method | `Semaphore` |
| `AsyncRunner` | `async_runner.py` and the `execute-async` handler | `Semaphore`, in the use it makes of the limiter (a theorem, no run) |
| `ExecutionLifecycle` | what a client may rely on about an execution | |
| `Orchestrator` | `orchestrator.py`, both repositories, test-run create and delete, the worker's error handler, crash and cleanup | `ExecutionLifecycle` |
| `ConformanceStep` | `openid_executor.py` and `openid_client.py` against an external suite | |
| `TestRig` | `inji_executors.py`, `inji_process.py`, `inji_report.py` with the external process and its report | |
| `Benchmark` | plan, `result_normalizer.py`, `benchmark_evaluator.py`, `report_generator.py` as operators | |
| `StepRouting` | `outbound.py`, its use in `schemas.py` and `orchestrator.py`, the registry and the mock of `executors.py` as operators | |
| `Gate` | one call of `scripts/ci_gate.py`, the execution it asks for, the network between them; uses `Benchmark` and `StepRouting` | `ExecutionLifecycle` (a theorem, no run) |
| `RunPage` | the page of a run (`page.tsx`, `testRuns.ts`, the proxy) with its requests and the executions behind them | |
| `ExecutionLimiterProofs`, `AsyncRunnerProofs`, `OrchestratorProofs`, `ConformanceStepProofs`, `TestRigProofs`, `BenchmarkProofs`, `GateProofs`, `RunPageProofs` | theorems about the eight | |
| `MC...` | the instances for TLC | |

The composition is by abstraction. `ExecutionLimiter` is shown to implement
`Semaphore`; `AsyncRunner` keeps of the limiter its count, which any `release()` lowers,
and is shown to use it as `Semaphore` promises, and of `run_execution()` only the
stores that matter to the queue; `Orchestrator` keeps every repository call and lets a planned execution
begin at any time, which is all the queue and the limiter guarantee about it.
`ConformanceStep` is what happens inside one `StepEnd` of `Orchestrator` for
provider `openid`; it has no state in common with the rest but its result. `TestRig` is the same
for `injicertify` and `injiverify`, except that its steps share a directory and
therefore are modelled together. `Gate` is one execution of `Orchestrator` again, seen
from its data: it keeps each step's record and the verdict, which `Orchestrator`
abstracts to `evaluated`, and leaves out other executions, which share nothing
with the answer to this request. What joins the two is `ExecutionLifecycle`, which both
implement: the record of which `Orchestrator` says that it is `evaluated` is the one
whose evaluation `Gate` computes and the script reads. `RunPage` sees the backend as a browser does: of an
execution only that it exists, is pending or is final.

### ExecutionLimiter

`in_use` is `_in_use`, `waiters` the queue inside `threading.Condition`, `pc`
where each thread is. A method body holds the Condition's lock, so it is one
step; `cond.wait()` gives the lock up and splits the blocking `acquire` in
`Acquire` (up to the wait) and `Resume` (after a notify: the `while` again).
`Release` has the code's `in_use > 0` guard and its `notify(1)`.

### AsyncRunner

`request[j]` is how far the handler of job `j` is (429, 404 and 503 are final
values), `free` the value of `_queue_semaphore`, `soon` the callbacks given to
`call_soon_threadsafe`, `queue` the `asyncio.Queue`, `worker` the await at which
the task is, with its job, `thread[j]` the pool threads of `j`, `in_use` the
limiter's count, `syncing` the synchronous requests with a slot, `status` the stored
status. `Release` is by whoever calls it; who holds a slot (`Holders`) is not part of the
state but of the statement of `SlotHasOwner`. Handler, loop and threads interleave freely;
a stretch of the task between two awaits is one step, since nothing else runs
on the loop meanwhile. `Stop` marks the task cancelled; `WorkerCancelled` is the
`CancelledError` at the await it was in, with the `finally` blocks that apply
there. A pool thread cannot be cancelled: it acquires its slot or stores its
verdict afterwards all the same. `Start` clears what belongs to the old loop,
marks stale executions and begins anew. `WorkerDone` marks a job that raised as ERROR, or
fails to: the history variable `unmarked` has the jobs whose execution then stays as it
was.

### Orchestrator

`test_runs` and `executions` are the two files, `order` the order of keys (which
`get_latest_for_run` uses), `pc[j]` the repository call the thread of `j` makes
next. Every repository call is one step. The object copies the code carries
differ from the stored record only in what is about to be stored (an execution
has one writer; a run changes in nothing but its status), so they need no
variables, with one exception the model does keep: `update` stores a run that
has been deleted in the meantime. `StepEnd(j, outcome)` stands for validation,
executor and normalizer of a step: whatever happens there becomes a result that
is `PASSED` or not. `Fault` lets a repository call raise before it changes the
file (the temporary file is replaced atomically), `Crash` stops the process
between any two calls, `Boot`, `CleanExecution`, `CleanRun`, `Serve` are the
startup cleanup, record by record, during which the process may die again.

### ConformanceStep

`pc` is the client call `execute()` is in, `module` the position of the module
in hand, `attempt` the counter of `_request()`, `answer` what came back for the
request under way, `ids` whose ids the executor has been given. `Send` is
`_do_request()` up to the network, `Retry` the `except` of `_request()` that goes
round again, `Raises` what leaves it; `PlanCreated`, `TestCreated`, `Started`,
`StateReached`, `InfoRead` and `Error` are what `execute()` and `_run_module()` do
with an answer or an exception. `Call`, the next call, resets the request.

The suite is external and as unhelpful as HTTP allows: a request stays in `wire`
until it is handled or lost, which may be long after the client gave up on it;
an error may answer a request that was carried out; a module may end without
having been started, or never. A timeout or a broken connection needs no
message: `Transient` holds while no answer has come. What is assumed of the
suite is that a request is handled once and that an ended module stays as it
is.

### TestRig

`pc[j]` is where `execute()` is: waiting in `communicate()`, killing, locating or
parsing the report. `Refuse` is every early return up to `Popen`, `Collect` the
return of `communicate()`, `TimeOut` and `Kill` its `TimeoutExpired` branch,
`Locate` and `Parse` are `_interpret_report()`, whose two looks at the file are
two steps. A report is its numbers of passed and failed tests, as `all_passed`
reads them; a directory has at most one, with its `author`, and `whole` says
whether it can be parsed. External are the process (`Open`, `Close`, `Exit`: it
may end or hang anywhere, with or without a report), `Clean` and `Crash`. Two
processes that write at once leave either report or neither. `evidence` stands
for the counts in the result's `details`, `overlapped` is a history variable for
the statement of `OwnReportWhenAlone`, `left` one for the processes that `Kill` could not
kill, since the group, or the child in its place, may refuse. A report is assumed to have one place in
its directory, which is so for a given JAR.

### Benchmark, StepRouting and Gate

`Benchmark` has an operator for each condition of `evaluate_benchmark()`;
`Violations` collects their codes, once each as `_add_violation()` does. Rates are
in thousandths of a percent, the digits that `round(..., 3)` keeps: `Round` is
Python's rounding to even. A minimum is not rounded: it is given in parts of such a
thousandth, `Grain` of them to one, for any `Grain`.
`BuildPlan` gives each step the id that `_build_plan()` makes of component,
provider and suite. A name is the sequence of its parts between colons and an id their
concatenation, so that repeated names give repeated ids and so do different names that
join to one text. `Breakdown` is the loop of the report
over the results (`AddToGroup`, one round of it) and the lines made of the groups. In `Gate`,
`Plan` and `Begin` store the execution as QUEUED and as RUNNING, `RunStep` is one
round of the loop in `run_execution()` up to its store, with or without an
exception of the normalizer and with any answer of DNS, `Finish` the verdict, `Raise` a repository call that
fails. `Post`, `Open`, `ReadVerdict` are the client's way to a verdict and the
other actions the ways off it, each a branch of `main()` or an exception that none of them
catches (`UsageRaises`, `BrokenAnswer`; the history variable `uncaught`). The client's exits are
not tied to what the backend does, since a proxy or a broken network need
not know of it.

`StepRouting` says how a step may end before or with its executor. A destination
is what `validate_outbound_url()` looks at once the text is parsed: scheme,
userinfo, port, and the class of the host; `Destinations` is which URLs of a
configuration are looked at. `AcceptedWhenNew` is the check of a new run
(no DNS), `AcceptedNow` the one before each step, `Outcomes` is
`_run_step_safely()`: refused, no executor, the mock's rule, or whatever an
executor returns. A `Gate` run may be one that was stored before there was a policy
or an executor was removed, which is the case the second check exists for. What
an executor's own process connects to later is outside the policy, as
`outbound.py:23-31` says.

### RunPage

The state is React's: `shown` is `execution`, `history` is `executionHistory`,
`timer` the interval of the effect with the execution it polls. A request is in
flight in its own place: `load` for the three of the first render, `polls[p]` for what
one tick of the interval is doing, `handler` for the click on Execute. Each is at
an await: sent, handled by the backend (the snapshot is taken), applied to the page,
or failed, so that requests overtake each other in any order. `Effect` is the effect of
`[execution, runId]`, which React runs some time after the state was set and
whose cleanup clears the interval but cancels no tick. `PollApplied` sets the
execution and, after a final answer, asks for the list; `ExecuteApplied`, `RunRead`
and `ExecuteListApplied` are the three awaits of `handleExecute()`. The backend is
`records`: a status per execution, which `Elsewhere` (another client) and
`ExecuteHandled` plan and `Ends` ends. `asked` and `torn` are history variables for
the statements of the properties. The badge of the run (`setRun`) is read when the
page is loaded and after Execute only, and is left out.

## 3. What is checked

| run | instance | shows |
|---|---|---|
| `limiter` | 2 request threads, 3 workers, 2 slots | capacity and its counter, no lost wake-up, refinement of `Semaphore`; a waiting worker is served unless newcomers overtake it for ever |
| `runner` | 3 jobs, 2 places, 1 slot, 1 synchronous request, 2 lifespans | the reservation ledger, `QueueFull` never raised, accepted jobs in one place, slots with an owner; accepted jobs settle, reservations return |
| `orchestrator` | 1 run of 2 steps, a synchronous and a queued execution, 2 crashes, 1 fault | evidence, run status, cleanup, frozen evidence, refinement of `ExecutionLifecycle`, the mirror of a run executed alone, and a final status for each planned execution |
| `openid_step` | plans of 1 or 2 modules, 2 retries | nothing is created twice, at most one creation escapes the executor, the verdict and the modules reported with it rest on the suite's, the step ends |
| `rig` | 2 steps of one rig, 1 crash, counts 0 and 1 | no process outlives its result unless it cannot be killed, every pass has a report, a step alone is judged by its own, a step ends |
| `gate` | plans of 2, 3 and 6 steps, some with repeated names or names that join to one, 12 minima, 0 or 1 allowed failures; providers and destinations of each kind | verdict as documented but for half a thousandth of a percent, a passed step had an executor and acceptable destinations, exit codes 0 and 1, a better result never fails, the breakdowns agree with plan and verdict |
| `run_page` | 2 executions, 2 polls at a time | the page shows what its user asked for, the history agrees with what is shown, a pending execution comes to be shown as final |

The remaining runs check one sentence each of the repository's documentation,
comments or tests that the code does not keep; each ends with a counterexample,
and `findings` in `PROJECT.json` quotes the sentence:

* `runner_limit`: the 503 path returns its reservation twice. A request refused before
  the first start (a client that never enters the lifespan, as in
  `tests/test_main.py:7`; a shutdown does the same) makes one place two, and after the start
  two accepted jobs wait for it.
* `deleted_run`: an execution under way stores its deleted run again.
* `run_mirror`: after two overlapping executions the run has the status of the
  one that ended last, the API shows the one planned last.
* `rig_missing_report`: a rig that ended without a report passes on the one another
  step left in the directory.
* `gate_partial`: with a suite named twice, or two whose ids are one text, a fail-fast stop
  before the second passes the gate although a planned step was never run.

More disagreements were met while modelling and have no run of their own.

* When the last update of a run raises, the worker turns an execution stored as
  `PASSED` into `ERROR` (`async_runner.py:85`), which the lifecycle of
  `docs/architecture.md:83` does not have and `ExecutionLifecycle` therefore allows.
* An error in a later module drops the results of the modules that did run
  (`openid_executor.py:134`), against `openid_executor.py:12-14`.
* `ci_gate.py` exits with 1, the code of a failed gate, whenever an exception ends it. A
  connection closed within the answer's body raises `IncompleteRead`, where
  `docs/architecture.md:590-591,603-604` say 4 (`BrokenAnswer`); a port that is no number, a
  time-out of `nan` or a key with a line break raise before anything is sent, where line 591
  says 5 (`UsageRaises`). Mistakes that `argparse` finds exit with 2, the code
  of a malformed response (`BadUsage`).
* The pass rate is rounded before it is compared with a minimum that is not
  (`benchmark_evaluator.py:116-122`): 5 of 6 steps are refused at a minimum of 83.3333, which
  `passed_steps / total_planned_steps * 100` (`docs/architecture.md:521,526`) exceeds.
  As rounding goes both ways, 2 of 3 also pass at 66.667. `VerdictDeserved` says what it may
  do: give half a thousandth of a percent, and take as much, but nothing of a minimum of three
  digits.
* A process that cannot be killed is left running behind its step's result
  (`inji_process.py:116-122`), against `inji_process.py:61-63`; `Kill` has it.
* A crash between the two files' updates (`orchestrator.py:170` and `:177`) leaves the run
  `RUNNING` with an execution that is final, and the cleanup, which starts from stale
  executions (`async_runner.py:114`), does not look at it: `Crash` and `Boot` have it.
* Delete answers 204, which the proxy cannot pass on (`route.ts:74`:
  `NextResponse.json` allows no body-less status), so the page reports a failure
  although the run is gone; `RunPage` has it as `Delete`.

What `RunPage` may do without contradicting any documentation, and the
properties therefore allow: two polls that overtake each other show a final
execution as pending for a while, and polling then starts again; a late poll of
an older execution, answered after Execute, puts the page back to that one
(`ShowsWhatWasAsked` excepts a page that was polling); an Execute whose answer is lost leaves
an execution the page does not show, next to an error; and the history may stay
behind for good after a failed or a crossing list (`torn`).

Where a property would fail for one of these reasons its statement says so:
`ReservationLedger` counts the refused requests, `PutNeverFull` assumes none,
`MirrorsWhenAlone` is about a single execution, `StaleHasOwner` and
`PlannedSettles` allow for a request that ended with an exception, `AcceptedSettles` for a
job whose status ERROR could not be stored either (`unmarked`),
`NoneLeftRunning` for a process that could not be killed (`left`),
`VerdictDeserved` is about plans whose ids differ, `ExitTellsVerdict` excepts an
exception that ends the script (`uncaught`).

**Bounds.** Two slots and three workers make every case of the wait queue
happen: empty, one, several, a notified thread overtaken. In `runner` three
jobs for two places let one be refused, one wait in the queue behind another, and
one be in the worker's hands; `runner_limit` has one place, which a 503 turns into
two. Two lifespans let a thread of the first survive into the second. In `orchestrator` two executions of one run are
what can interleave on the run's record; two steps give fail-fast a step to skip
and a step to reach; two crashes let one fall into the cleanup of the other. The
bounds are the constants `MaxStarts`, `MaxCrashes` and `MaxFaults`, in the guards
of `Start`, `Crash` and `Fault`. In `rig` what goes wrong takes a pair of steps in a
directory, and a count (`MaxTests`) only has to be zero or not. In `openid_step` two retries are the code's own
number (`max_retries`), and with two modules (`MaxModules`) a late request of one
can meet the next; the executor treats a third like the second. In `gate` plans of
three and six steps have rates that are not whole thousandths, and the minima are tenths of a
thousandth on both sides of the exact rates and of the rounded ones;
a rate halfway between two thousandths needs 64 steps and is left to the proof, as is any
other `Grain`.
Its suites have among them every registered provider but one, a provider that is not
registered, a name that DNS may not know or give public or other addresses at each step
anew, a public address, and, in runs older than the policy, a local name, an address with
another in it and a scheme that is not allowed. In `run_page` two polls are what can overtake each other, and two
executions (`MaxExecutions`) are an older and a newer one.

**Deadlock** is checked for the limiter. The other models stop when every
request has been answered and the bounds are used up.

**Fairness.** Limiter: a notified thread gets the lock, an execution ends.
Runner: a handler that began ends, the loop runs its callbacks and its task, a
pool thread makes progress, an execution ends (every remote wait has a timeout).
Orchestrator: a thread that began goes on, a dead process is restarted. OpenID step: the
executor goes on, since every request has a timeout; the suite owes nothing, not
even an answer. Test rig: the thread goes on, and `communicate()` times out; the
process may hang for ever. Run page: the browser runs effects and ticks, an
execution ends, a poll is answered or fails, and polls do not fail for ever
(strong fairness of being handled and of being applied: a poll that fails leaves both
disabled for a while, and without it the page may poll a dead backend for ever). All the rest is weak fairness of single threads; nobody is obliged to send a request, and
nothing is obliged to fail. Barging is not excluded: `acquire` lets a newcomer
take a slot before a notified waiter, so `WorkerServed`, `AcceptedSettles` and
`ReservationReturns` state it as the escape.

## 4. What is proved

All theorems hold for any sets of threads, runs and jobs, any capacity, any precision of
a minimum and any bounds; the assumptions are the modules' named `ASSUME`s.

*Limiter* (`ExecutionLimiterProofs`). The invariant `IInv` adds to the types
that the counter is the cardinality of the holders and that `waiters` lists the
sleeping threads once each: `NoLostWakeup` is not inductive without them,
because `Notify` must be known to wake a sleeping thread that is queued once.
From it follow `LimiterWithinCapacity`, `LimiterLosesNoWakeup`,
`LimiterImplementsSemaphore`, and `LimiterNeverAllAsleep`: without holders each slot is
free, hence promised to a woken thread if anybody waits.

*Async runner* (`AsyncRunnerProofs`). `IInv` says where the worker task waits and how
far the pool threads of its job are (`WorkerOK`), that only accepted jobs have threads
and that one nobody waits for was left by a shutdown (`ThreadOK`), who holds a slot
(`HolderOK`), and that queue and scheduled puts together list a job once (`Once`).
None is inductive alone: a slot is given back by the worker, so that its owner must be
known, and a place in the queue by whoever ends the job. With the ledger, kept as
cardinalities, `RunnerReturnsReservations`, `RunnerAcceptsOnce` and
`RunnerSlotHasOwner` are parts of it; `RunnerPutNeverFull` follows from an injection of
the pending jobs into the reserved places, while no 503 has returned one twice.
`RunnerJobsWithinLimit` says what is left of the limit that `runner_limit` refutes: the jobs
that wait exceed it by the number of 503s at most. `RunnerForgetsNobody` is the safety half of
`AcceptedSettles`: without a stop or a 503 an accepted job is queued, with the worker, or settled
(`SettledOK` of the invariant keeps what is settled so). `RunnerImplementsSemaphore` is the
other half of the composition with the limiter: the count does not know who lowers it, and it is
`SlotHasOwner`, with who holds a slot where (`HolderOK`), that shows each `Release` to be made
by one who holds a slot and each `Acquire` by one who does not. `RunnerWithinCapacity`
bounds the executions by the slots until a shutdown; afterwards the thread of a cancelled
job runs on although its slot was returned, and the bound does not hold.
`RunnerExecutesOnce` orders the stages of a job's threads: no step goes back, since a job
on the queue is there once and has no thread.

*Orchestrator* (`OrchestratorProofs`). The invariant `IInv` relates the program
counter of each job to what is stored for it: at `finish`, say, the results are
complete or end with a failure, and at `finish_run` the execution is evaluated.
With it each store keeps `Evidence`, each status written to a run is supported
(`RunStatusHasEvidence`: the evidence never goes away, so support by some
execution is stable), and `Boot` puts every ownerless stale record in `stale`
(`StaleHasOwner`). `EvidenceFrozen` and `RefinesLifecycle` follow step by step.
`MirrorsWhenAlone` needs a second invariant, `AloneInv`, on top of the first: the file
has one key for each execution (so `Latest` is the run's only one), a planned run is
missing only if it was deleted (so nothing else leads to the error handler), and no
other thread writes the status of a run with one execution. `OrchestratorGoneForGood` marks
the end of the hazard of `deleted_run`: once a deleted run has no thread between reading and
storing it (`Gone`) it stays so, whatever is still queued or cleaned up.
`OrchestratorEnds` is a measure: `ToCome` counts the steps from each place to the end, each
step of the thread makes it smaller, and no other step makes it larger.

*OpenID step* (`ConformanceStepProofs`). `IInv` gives each module (and the plan)
a *slot*: before it is asked for it is nowhere, then it is in the one request
that creates it or at the suite but not in both, and once its id is known that
request is gone. This needs `attempt = 0` in every creating call, which is what
"never retryable" comes to. `Told` says that what the executor was told about
the module in hand is so at the suite and stays so. From them follow
`StepCreatesOnce`, `StepVerdict` and `StepLeavesOneUnknown`; for `StepVerdict`,
`AllReported` is part of the invariant wherever a result names modules. The measure of
`StepIsBounded` adds up the sends and answers left to the call in hand, to the calls after it
in its module, and to the modules after that, which at the first call makes 2 + n(4r + 8)
steps for n modules and r retries.

*Test rig* (`TestRigProofs`). `IInv` says who may have written what lies in a
directory: two steps that are busy there at the same time are `overlapped`
(`Met`), so nobody writes over the report of a step that is not (`Sole`), from
the opening of the report until it is read. Results keep what they were read
from (`Sourced`), since a report's counts are set once. `RigLeavesNoneRunning`,
`RigPassHasReport` and `RigOwnReport` follow, and `RigResultStands`: a report that was read
was complete, so that its counts never change, even when the file does.

*Benchmark* (`BenchmarkProofs`). `RoundNearest` and `RoundReaches` bound the rounding,
`RoundMonotone` compares two; with them `FullRateMeansAll` and `LooserNeverFails`.
`ReachedWithin`, `ExceededReaches` and `WholeReaches` compare a rounded rate with a minimum of
any `Grain`. `PlanIsProduct` says which step is where, and `UniqueMeansNamedOnce` when the ids
of a plan differ, the condition of `VerdictDeserved`: when the joined names do, not just the
names. `ColonFreeIsNamedOnce` has the case in which that is the same, a provider's name
without a colon. `BreakdownTotals` is about a loop over the
results: each round keeps that the groups so far partition the positions so far
(`AddToGroup`), and the rounds are put together by the least number of rounds for which it
would fail, which takes the library's well-founded sets where an induction theorem would take an
operator as its parameter.

*Gate* (`GateProofs`). `IInv` says that the stored records are those of the first
steps of the plan, each with its step's id and, unless it is a fallback, its raw
status (`Stored`), that the verdict is that of the stored evidence (`Judged`), which status
the execution has where (`Phase`) and what each exit code knows (`Told`). When a plan's ids differ, a plan that was not run to its end misses an
id (`PassedIsComplete`), and counts that add up leave no other status
(`CountsAddUp`); from these follows `GateVerdictDeserved` in both directions.
The step from counts to rates, and the half thousandth, are `BenchmarkProofs`'.
`GatePassNeedsEvidence` and `GateExitTellsVerdict` hold for repeated ids too, and so
does `GateImprovementNeverFails`, from `RoundMonotone` and the two counts. `GateWholeEvidence` is what is left of the
claim that `gate_partial` refutes: it holds for a configuration that names no component twice and no two of whose suites'
names join to one.
`GateReportAgrees` applies `BreakdownTotals` to the stored results, `GateVerdictFrozen` and
`GateImplementsLifecycle` follow step by step. For
`PassNeedsEvidence` the invariant also says that a stored step may be PASSED only if `MayPass`
holds of it: its provider is registered and, since `RejectedNow` includes
`Rejected`, its destinations would have been accepted of a new run.

*Run page* (`RunPageProofs`). `IInv` has four parts. `Truth`: what an answer, the page
or the history says of an execution was once so, and what is final stays so
(`PollTruth`, `HandlerTruth`, `PageTruth`). `Quiet`: before the page is loaded nothing of it
has changed. `Asked`: where the execution asked for last is on its way to the
page, and that no poll can replace it. `Lists`: an untorn final execution
is in the history or in a list under way. `PageTypeOK`, `PageShowsWhatWasAsked` and
`PageHistoryAgrees` follow, `PageNeverAhead` from `Truth` alone, and from `Lists` that an
untorn list never goes back (`PageListForward`).

Each module's `TypeOK` is a theorem as well, and so is every invariant and every action
property a passing run checks. Only model-checked are the liveness properties
(`WorkerServed`, `AcceptedSettles`, `ReservationReturns`, `PlannedSettles`, `StepEnds`,
`RigStepEnds` and `PageSettles`): fairness and ENABLED are out of the prover's reach.
Of two of them the other half is proved: `OrchestratorEnds` and `StepIsBounded` leave to
fairness only that a next step is taken. The five sentences that a run refutes are no
theorems, of course; of three the theorems above say when they hold.

## 5. What is not modelled

Timestamps, messages, details and the wording of errors; request validation other
than of destinations, authentication and redaction, which are stateless; how the
text of a URL is parsed; the frontend's list of runs, form and layout, which keep no state
across requests, and the run's badge. The Markdown form of a report, and the counts, modules and mismatch notes the normalizer takes from a
result's details. Of the test rigs the arguments, the environment and the
redaction of output are left out. Of the OpenID step the contents of plans
and results, which values count as passing, the length of timeouts and the
pauses between retries are left out. Real concurrency across processes is
excluded by the documented single-worker deployment.

## 6. Plan

1. *done* - limiter, async runner, orchestrator with repositories; first proofs.
2. *done* - `ConformanceStep` with its proofs.
3. *done* - `TestRig` with its proofs.
4. *done* - `Benchmark` and `Gate` with their proofs.
5. *done* - `RunPage` with its proofs; `StepRouting`, used by `Gate`.
6. *done* - `AsyncRunnerProofs`; `MirrorsWhenAlone`, `ImprovementNeverFails` and the
   remaining type invariants.
7. *done* - the composition of `Orchestrator` and `Gate` through `ExecutionLifecycle`;
   `BenchmarkProofs` with the report's groups; measures of an execution and of an
   OpenID step; what is left of the refuted limits.
8. *done* - the runner with the limiter's bare count and a failing error handler; minima of
   any precision, ids as joined text and uncaught exceptions in `Gate`; processes that cannot
   be killed in `TestRig`.
9. A measure of a test-rig step and of a job in the runner; that the results of a step
   without an executor or with refused destinations are the same whatever DNS answers.
