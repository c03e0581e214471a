----------------------------- MODULE AsyncRunner -----------------------------
(***************************************************************************)
(* backend/app/async_runner.py and the handler that feeds it,              *)
(* execute_test_run_async in backend/app/executions.py.                    *)
(*                                                                         *)
(* Request threads reserve a place (a semaphore), plan the execution, and  *)
(* hand its id to the event loop, where a callback puts it on an           *)
(* asyncio.Queue.  One worker task takes an id at a time and awaits two    *)
(* pool threads in turn: one that waits for a slot of the ExecutionLimiter *)
(* and one that runs the execution.  stop() cancels the worker at its      *)
(* await; a pool thread cannot be cancelled and goes on.  Synchronous      *)
(* requests (Syncs) share the slots of the limiter, which keeps their      *)
(* count only: release() does not ask who calls it.                        *)
(*                                                                         *)
(* Start is the lifespan's startup, Stop its shutdown.  A process may      *)
(* enter the lifespan again (the tests' TestClient does, each time on a    *)
(* new event loop) and may serve requests outside it.                      *)
(***************************************************************************)
EXTENDS Naturals, Sequences, FiniteSets

CONSTANTS Jobs,       \* the executions asked for with execute-async
          NoJob,      \* the worker serves none
          Syncs,      \* threads of POST .../execute
          MaxSize,    \* settings.max_async_queue_size
          Capacity,   \* settings.max_concurrent_executions
          MaxStarts   \* bound: how often the process enters the lifespan

ASSUME SizesAssumption ==
    MaxSize \in Nat \ {0} /\ Capacity \in Nat \ {0} /\ MaxStarts \in Nat
ASSUME JobsAssumption ==
    /\ IsFiniteSet(Jobs) /\ IsFiniteSet(Syncs) /\ Jobs \cap Syncs = {}
    /\ NoJob \notin Jobs

VARIABLES request,    \* how far the handler of each job has come
          free,       \* the value of _queue_semaphore
          shutdown,   \* _shutdown
          starts,     \* how often start() was called; 0: no queue, no loop yet
          soon,       \* callbacks the loop has been given and not yet run
          queue,      \* the asyncio.Queue
          worker,     \* where the worker task waits, and the job it serves
          cancelled,  \* stop() has cancelled the task, which does not know yet
          thread,     \* the pool threads of each job
          in_use,     \* ExecutionLimiter._in_use
          syncing,    \* the synchronous requests that have taken a slot
          status,     \* the status stored for each execution
          unmarked    \* history: jobs whose status ERROR could not be stored

rvars == <<request, free>>
lvars == <<shutdown, starts>>
wvars == <<worker, cancelled>>
slots == <<in_use, syncing>>
kept  == <<status, unmarked>>
vars  == <<rvars, lvars, soon, queue, wvars, thread, slots, kept>>

RequestStates == {"new", "reserved", "planned", "accepted",
                  "full", "missing", "refused"}   \* the last three: 429, 404, 503

TypeOK ==
    /\ request \in [Jobs -> RequestStates]
    /\ free \in Nat
    /\ shutdown \in BOOLEAN /\ starts \in 0..MaxStarts
    /\ soon \in Seq(Jobs) /\ queue \in Seq(Jobs)
    /\ worker \in [at : {"down", "get", "acquire", "run"}, job : Jobs \cup {NoJob}]
    /\ cancelled \in BOOLEAN
    /\ thread \in [Jobs -> {"none", "acquiring", "acquired", "running",
                           "executing", "stored", "done", "raised"}]
    /\ in_use \in 0..Capacity /\ syncing \subseteq Syncs
    /\ status \in [Jobs -> {"none", "QUEUED", "RUNNING", "FINISHED", "ERROR"}]
    /\ unmarked \subseteq Jobs

Init ==
    /\ request = [j \in Jobs |-> "new"]
    /\ free = MaxSize
    /\ shutdown = FALSE /\ starts = 0
    /\ soon = <<>> /\ queue = <<>>
    /\ worker = [at |-> "down", job |-> NoJob]
    /\ cancelled = FALSE
    /\ thread = [j \in Jobs |-> "none"]
    /\ in_use = 0 /\ syncing = {}
    /\ status = [j \in Jobs |-> "none"]
    /\ unmarked = {}

-----------------------------------------------------------------------------
(* The handler of POST .../execute-async, on a request thread.             *)

\* Mutated: acquire() taken to succeed.
ReserveUnchecked(j) ==
    /\ request[j] = "new" /\ ~shutdown
    /\ request' = [request EXCEPT ![j] = "reserved"] /\ free' = free - 1
    /\ UNCHANGED <<lvars, soon, queue, wvars, thread, slots, kept>>

\* try_reserve(), answered with 429 when it fails.
Reserve(j) ==
    /\ request[j] = "new"
    /\ IF shutdown \/ free = 0
         THEN request' = [request EXCEPT ![j] = "full"] /\ UNCHANGED free
         ELSE request' = [request EXCEPT ![j] = "reserved"] /\ free' = free - 1
    /\ UNCHANGED <<lvars, soon, queue, wvars, thread, slots, kept>>

\* plan_execution() stores the execution ...
Plan(j) ==
    /\ request[j] = "reserved"
    /\ request' = [request EXCEPT ![j] = "planned"]
    /\ status' = [status EXCEPT ![j] = "QUEUED"]
    /\ UNCHANGED <<free, lvars, soon, queue, wvars, thread, slots, unmarked>>

\* Mutated: an except clause without release_reservation().
PlanRaisesKeeping(j) ==
    /\ request[j] = "reserved"
    /\ request' = [request EXCEPT ![j] = "missing"]
    /\ UNCHANGED <<free, lvars, soon, queue, wvars, thread, slots, kept>>

\* ... or raises (no such run, no steps), and the reservation is returned.
PlanRaises(j) ==
    /\ request[j] = "reserved"
    /\ request' = [request EXCEPT ![j] = "missing"]
    /\ free' = free + 1
    /\ UNCHANGED <<lvars, soon, queue, wvars, thread, slots, kept>>

Unavailable == shutdown \/ starts = 0

\* Mutated: the reservation is returned by a successful enqueue() as well; the
\* callback is not scheduled.
EnqueueReturning(j) ==
    /\ request[j] = "planned" /\ ~Unavailable
    /\ request' = [request EXCEPT ![j] = "accepted"]
    /\ soon' = Append(soon, j) /\ free' = free + 1
    /\ UNCHANGED <<lvars, queue, wvars, thread, slots, kept>>
EnqueueForgetting(j) ==
    /\ request[j] = "planned" /\ ~Unavailable
    /\ request' = [request EXCEPT ![j] = "accepted"]
    /\ UNCHANGED <<free, lvars, soon, queue, wvars, thread, slots, kept>>

\* enqueue() gives the job to the loop.
Enqueue(j) ==
    /\ request[j] = "planned" /\ ~Unavailable
    /\ request' = [request EXCEPT ![j] = "accepted"]
    /\ soon' = Append(soon, j)
    /\ UNCHANGED <<free, lvars, queue, wvars, thread, slots, kept>>

\* enqueue() returns the reservation and False; the 503 raised for that is
\* caught by the handler's own "except Exception", which returns it again.
EnqueueRefused(j) ==
    /\ request[j] = "planned" /\ Unavailable
    /\ request' = [request EXCEPT ![j] = "refused"]
    /\ free' = free + 2
    /\ UNCHANGED <<lvars, soon, queue, wvars, thread, slots, kept>>

-----------------------------------------------------------------------------
(* The event loop.                                                         *)

\* _put(): put_nowait raises QueueFull in the callback when there is no room,
\* and nobody hears of the job again.
Put ==
    /\ soon # <<>>
    /\ soon' = Tail(soon)
    /\ queue' = IF Len(queue) < MaxSize THEN Append(queue, Head(soon)) ELSE queue
    /\ UNCHANGED <<rvars, lvars, wvars, thread, slots, kept>>

\* Mutated: the job is looked at and stays in the queue.
WorkerGetPeeking ==
    /\ worker.at = "get" /\ ~cancelled /\ queue # <<>>
    /\ worker' = [at |-> "acquire", job |-> Head(queue)]
    /\ thread' = [thread EXCEPT ![Head(queue)] = "acquiring"]
    /\ UNCHANGED <<rvars, lvars, soon, queue, cancelled, slots, kept>>

\* The worker takes a job and awaits the thread that acquires a slot.
WorkerGet ==
    /\ worker.at = "get" /\ ~cancelled /\ queue # <<>>
    /\ queue' = Tail(queue)
    /\ worker' = [at |-> "acquire", job |-> Head(queue)]
    /\ thread' = [thread EXCEPT ![Head(queue)] = "acquiring"]
    /\ UNCHANGED <<rvars, lvars, soon, cancelled, slots, kept>>

\* The slot is there: the worker awaits the thread of run_execution().
WorkerRun ==
    /\ worker.at = "acquire" /\ ~cancelled /\ thread[worker.job] = "acquired"
    /\ worker' = [worker EXCEPT !.at = "run"]
    /\ thread' = [thread EXCEPT ![worker.job] = "running"]
    /\ UNCHANGED <<rvars, lvars, soon, queue, cancelled, slots, kept>>

\* acquire(): taken when one is free (blocking) or refused (try_acquire).
Acquire == in_use < Capacity /\ in_use' = in_use + 1

\* release(), by whoever calls it.
Release == in_use' = IF in_use > 0 THEN in_use - 1 ELSE in_use

\* run_execution() of the worker's job is over.
Over == worker.at = "run" /\ ~cancelled /\ thread[worker.job] \in {"done", "raised"}

\* Mutated: the slot is released on success only; an exception of the job ends
\* the worker.
WorkerDoneKeeping ==
    /\ Over
    /\ IF thread[worker.job] = "done" THEN Release ELSE UNCHANGED in_use
    /\ free' = free + 1 /\ worker' = [at |-> "get", job |-> NoJob]
    /\ UNCHANGED <<request, lvars, soon, queue, cancelled, thread, syncing, kept>>
WorkerDoneForGood ==
    /\ Over
    /\ Release /\ free' = free + 1
    /\ worker' = [at |-> IF thread[worker.job] = "raised" THEN "down" ELSE "get", job |-> NoJob]
    /\ UNCHANGED <<request, lvars, soon, queue, cancelled, thread, syncing, kept>>

\* If the job raised, its execution is marked ERROR, which may fail in turn;
\* slot and reservation are given back, and _shutdown is looked at again.
WorkerDone ==
    /\ Over
    /\ \/ thread[worker.job] = "done" /\ UNCHANGED kept
       \/ /\ thread[worker.job] = "raised"
          /\ status' = [status EXCEPT ![worker.job] = "ERROR"] /\ UNCHANGED unmarked
       \/ /\ thread[worker.job] = "raised"
          /\ unmarked' = unmarked \cup {worker.job} /\ UNCHANGED status
    /\ Release
    /\ free' = free + 1
    /\ worker' = [at |-> IF shutdown THEN "down" ELSE "get", job |-> NoJob]
    /\ UNCHANGED <<request, lvars, soon, queue, cancelled, thread, syncing>>

\* CancelledError at the worker's await.  Before a job is taken there is
\* nothing to undo; while a slot is being acquired only the reservation is
\* returned; while the job runs, its slot as well.
WorkerCancelled ==
    /\ cancelled /\ cancelled' = FALSE
    /\ worker' = [at |-> "down", job |-> NoJob]
    /\ CASE worker.at = "get"     -> UNCHANGED <<free, in_use>>
         [] worker.at = "acquire" -> free' = free + 1 /\ UNCHANGED in_use
         [] worker.at = "run"     -> free' = free + 1 /\ Release
    /\ UNCHANGED <<request, lvars, soon, queue, thread, syncing, kept>>

\* Startup: cleanup_stale_executions() and start().  The queue, the worker
\* and the loop are new; what the old loop still had to do is gone.
Start ==
    /\ worker.at = "down" /\ starts < MaxStarts
    /\ starts' = starts + 1 /\ shutdown' = FALSE
    /\ soon' = <<>> /\ queue' = <<>>
    /\ worker' = [at |-> "get", job |-> NoJob]
    /\ status' = [j \in Jobs |->
                    IF status[j] \in {"QUEUED", "RUNNING"} THEN "ERROR" ELSE status[j]]
    /\ UNCHANGED <<rvars, cancelled, thread, slots, unmarked>>

\* Shutdown: stop() sets _shutdown, cancels the worker and awaits it.
Stop ==
    /\ worker.at # "down" /\ ~shutdown
    /\ shutdown' = TRUE /\ cancelled' = TRUE
    /\ UNCHANGED <<rvars, starts, soon, queue, worker, thread, slots, kept>>

-----------------------------------------------------------------------------
(* Threads.                                                                *)

\* limiter.acquire(True) returns.
ThreadAcquires(j) ==
    /\ thread[j] = "acquiring"
    /\ Acquire
    /\ thread' = [thread EXCEPT ![j] = "acquired"]
    /\ UNCHANGED <<rvars, lvars, soon, queue, wvars, syncing, kept>>

\* run_execution() stores RUNNING, then the verdict, and returns;
ThreadRuns(j) ==
    /\ thread[j] = "running"
    /\ status' = [status EXCEPT ![j] = "RUNNING"]
    /\ thread' = [thread EXCEPT ![j] = "executing"]
    /\ UNCHANGED <<rvars, lvars, soon, queue, wvars, slots, unmarked>>

ThreadFinishes(j) ==
    /\ thread[j] = "executing"
    /\ status' = [status EXCEPT ![j] = "FINISHED"]
    /\ thread' = [thread EXCEPT ![j] = "stored"]
    /\ UNCHANGED <<rvars, lvars, soon, queue, wvars, slots, unmarked>>

ThreadReturns(j) ==
    /\ thread[j] = "stored"
    /\ thread' = [thread EXCEPT ![j] = "done"]
    /\ UNCHANGED <<rvars, lvars, soon, queue, wvars, slots, kept>>

\* or it raises on its way (the run is gone, a file cannot be written).
ThreadRaises(j) ==
    /\ thread[j] \in {"running", "executing", "stored"}
    /\ thread' = [thread EXCEPT ![j] = "raised"]
    /\ UNCHANGED <<rvars, lvars, soon, queue, wvars, slots, kept>>

\* Orchestrator.execute() of a synchronous request: try_acquire() and the
\* release() in its finally.
SyncAcquires(s) ==
    /\ s \notin syncing /\ syncing' = syncing \cup {s}
    /\ Acquire
    /\ UNCHANGED <<rvars, lvars, soon, queue, wvars, thread, kept>>

SyncReleases(s) ==
    /\ s \in syncing /\ syncing' = syncing \ {s}
    /\ Release
    /\ UNCHANGED <<rvars, lvars, soon, queue, wvars, thread, kept>>

-----------------------------------------------------------------------------

Handler(j) == Reserve(j) \/ Plan(j) \/ PlanRaises(j) \/ Enqueue(j) \/ EnqueueRefused(j)
Loop       == Put \/ WorkerGet \/ WorkerRun \/ WorkerDone \/ WorkerCancelled
Thread(j)  == \/ ThreadAcquires(j) \/ ThreadRuns(j) \/ ThreadFinishes(j)
              \/ ThreadReturns(j) \/ ThreadRaises(j)

Next ==
    \/ \E j \in Jobs : Handler(j) \/ Thread(j)
    \/ Loop \/ Start \/ Stop
    \/ \E s \in Syncs : SyncAcquires(s) \/ SyncReleases(s)

Spec == Init /\ [][Next]_vars

(* A request thread finishes what it began, the loop runs its callbacks    *)
(* and its task, pool threads make progress, and every execution ends      *)
(* (the remote waits of the executors have timeouts).  No request is       *)
(* obliged to come, no process to start or stop.                           *)
Fairness ==
    /\ \A j \in Jobs : WF_vars(Handler(j) /\ request[j] # "new")
    /\ WF_vars(Put) /\ WF_vars(WorkerGet \/ WorkerRun \/ WorkerDone \/ WorkerCancelled)
    /\ \A j \in Jobs : WF_vars(Thread(j))
    /\ \A s \in Syncs : WF_vars(SyncReleases(s))

FairSpec == Spec /\ Fairness

-----------------------------------------------------------------------------

Refused == {j \in Jobs : request[j] = "refused"}

\* The worker has job j in hand.
Owned(j) == worker.at \in {"acquire", "run"} /\ worker.job = j

\* The reservation of job j has been made and not been returned.
Reserved(j) ==
    \/ request[j] \in {"reserved", "planned"}
    \/ request[j] = "accepted" /\ (thread[j] = "none" \/ Owned(j))

\* Started once, never stopped, and no request refused with 503 before.
Undisturbed == starts <= 1 /\ ~shutdown /\ Refused = {}

(* Every reservation is returned once, whichever of the six ways out the   *)
(* job takes, except that a 503 returns one that was never made            *)
(* (async_runner.py:24-30,52,101 and executions.py:58-86).                 *)
ReservationLedger ==
    free + Cardinality({j \in Jobs : Reserved(j)}) = MaxSize + Cardinality(Refused)

(* "Maximum number of async jobs allowed in the queue" (config.py:25): no  *)
(* more accepted jobs wait for the worker than there are places.           *)
JobsWithinLimit == Len(soon) + Len(queue) <= MaxSize

(* What the reservations are for: with none returned twice, _put() never   *)
(* finds the queue full, although it runs long after try_reserve()         *)
(* (async_runner.py:55-58).                                                *)
PutNeverFull == Refused = {} => JobsWithinLimit

(* A job between the handler and the worker is in one place, once, and a   *)
(* job the client was told is accepted (202) is not forgotten before the   *)
(* worker takes it (async_runner.py:50-64).                                *)
AcceptedOnce ==
    LET pending == queue \o soon
    IN  /\ \A i, k \in 1..Len(pending) : pending[i] = pending[k] => i = k
        /\ \A i \in 1..Len(pending) :
               request[pending[i]] = "accepted" /\ thread[pending[i]] = "none"
        /\ Undisturbed => \A j \in Jobs :
               request[j] = "accepted" /\ thread[j] = "none"
                 => \E i \in 1..Len(pending) : pending[i] = j

\* Whose slots are counted: a job's from the moment its thread has acquired one
\* until the worker gives it back.
Holders ==
    {j \in Jobs : thread[j] = "acquired" \/ (worker.at = "run" /\ worker.job = j)}
        \cup syncing

(* The count, which anybody may lower, is the number of those who hold a   *)
(* slot, at whichever await the worker is cancelled, and only a shutdown   *)
(* can leave a slot to a job nobody waits for (async_runner.py:69-96).     *)
SlotHasOwner ==
    /\ in_use = Cardinality(Holders)
    /\ Undisturbed => \A j \in Jobs \cap Holders : Owned(j)

\* What the limiter promises, and the runner has of it (a theorem).
Limiter == INSTANCE Semaphore WITH Clients <- Jobs \cup Syncs, holders <- Holders

(* An accepted job gets a final status, whatever it raises, unless the     *)
(* status ERROR cannot be stored either, the runner is stopped or          *)
(* synchronous requests take every slot for ever (async_runner.py:60-104). *)
AcceptedSettles ==
    \A j \in Jobs :
        \/ []<><<\E s \in Syncs : SyncAcquires(s)>>_vars
        \/ request[j] = "accepted" ~>
             status[j] \in {"FINISHED", "ERROR"} \/ j \in unmarked \/ ~Undisturbed

(* And every reservation comes back, on the error paths as well.           *)
ReservationReturns ==
    \A j \in Jobs :
        \/ []<><<\E s \in Syncs : SyncAcquires(s)>>_vars
        \/ Reserved(j) ~> ~Reserved(j) \/ ~Undisturbed
=============================================================================
