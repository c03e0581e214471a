-------------------------- MODULE ExecutionLimiter --------------------------
(***************************************************************************)
(* backend/app/concurrency.py: the process-wide gate in front of every     *)
(* execution.  Request threads (Orchestrator.execute) ask with             *)
(* try_acquire, the threads AsyncRunner hands a job to ask with            *)
(* acquire(True); both give the slot back with release.                    *)
(*                                                                         *)
(* Each method body runs under the Condition's lock, so it is one step up  *)
(* to cond.wait(), which is where the lock is given up: the rest of a      *)
(* blocking acquire is the step Resume, after a notify.  cond.wait() is    *)
(* Python's: waiters are notified in the order in which they began to      *)
(* wait, and none wakes up without a notify.                               *)
(***************************************************************************)
EXTENDS Naturals, Sequences, FiniteSets

CONSTANTS Requests,  \* request threads, which never wait
          Workers,   \* threads of async jobs, which wait for a slot
          Capacity   \* settings.max_concurrent_executions

ASSUME CapacityAssumption == Capacity \in Nat \ {0}
ASSUME ThreadsAssumption ==
    /\ IsFiniteSet(Requests) /\ IsFiniteSet(Workers)
    /\ Requests \cap Workers = {}

VARIABLES in_use,    \* ExecutionLimiter._in_use
          waiters,   \* the Condition's queue of waiters
          pc         \* where each thread is

vars == <<in_use, waiters, pc>>

Threads == Requests \cup Workers

At(loc) == {t \in Threads : pc[t] = loc}
Holders == At("holding")

TypeOK ==
    /\ in_use \in Nat
    /\ waiters \in Seq(Threads)
    /\ pc \in [Threads -> {"idle", "waiting", "notified", "holding"}]

Init ==
    /\ in_use = 0
    /\ waiters = <<>>
    /\ pc = [t \in Threads |-> "idle"]

Take(t) ==
    /\ in_use < Capacity
    /\ in_use' = in_use + 1
    /\ pc' = [pc EXCEPT ![t] = "holding"]
    /\ UNCHANGED waiters

Wait(t) ==
    /\ in_use >= Capacity
    /\ waiters' = Append(waiters, t)
    /\ pc' = [pc EXCEPT ![t] = "waiting"]
    /\ UNCHANGED in_use

\* acquire(blocking=False).  Refused at capacity, it changes nothing.
TryAcquire(r) == pc[r] = "idle" /\ Take(r)

\* acquire(blocking=True), as far as its first wait.
Acquire(w) == pc[w] = "idle" /\ (Take(w) \/ Wait(w))

\* Mutated: an if in place of the while.
ResumeUnchecked(w) ==
    /\ pc[w] = "notified"
    /\ in_use' = in_use + 1 /\ pc' = [pc EXCEPT ![w] = "holding"] /\ UNCHANGED waiters

\* A notified waiter has the lock again and evaluates the while once more.
Resume(w) == pc[w] = "notified" /\ (Take(w) \/ Wait(w))

\* Mutated: no notify.
NotifyNobody(t) == pc' = [pc EXCEPT ![t] = "idle"] /\ UNCHANGED waiters

\* notify(1), on behalf of a releasing thread t that is idle afterwards.
Notify(t) ==
    IF waiters = <<>>
      THEN pc' = [pc EXCEPT ![t] = "idle"] /\ UNCHANGED waiters
      ELSE /\ pc' = [pc EXCEPT ![t] = "idle", ![Head(waiters)] = "notified"]
           /\ waiters' = Tail(waiters)

\* Mutated: released by a thread that holds nothing, without the in_use > 0.
ReleaseUnpaired(t) == pc[t] \in {"idle", "holding"} /\ in_use' = in_use - 1 /\ Notify(t)

Release(t) ==
    /\ pc[t] = "holding"
    /\ IF in_use > 0
         THEN in_use' = in_use - 1 /\ Notify(t)
         ELSE pc' = [pc EXCEPT ![t] = "idle"] /\ UNCHANGED <<in_use, waiters>>

Next ==
    \/ \E r \in Requests : TryAcquire(r)
    \/ \E w \in Workers : Acquire(w) \/ Resume(w)
    \/ \E t \in Threads : Release(t)

Spec == Init /\ [][Next]_vars

(* A woken thread gets the lock and an execution ends; nobody is obliged   *)
(* to start one.                                                           *)
Fairness ==
    /\ \A w \in Workers : WF_vars(Resume(w))
    /\ \A t \in Threads : WF_vars(Release(t))

FairSpec == Spec /\ Fairness

-----------------------------------------------------------------------------

(* The counter agrees with the threads that are executing, and there are   *)
(* never more of them than max_concurrent_executions                       *)
(* (concurrency.py:39-59).                                                 *)
WithinCapacity ==
    /\ in_use = Cardinality(Holders)
    /\ in_use <= Capacity

(* No wake-up is lost: while anybody waits, each free slot is already      *)
(* promised to a notified thread (release's notify(1), one per slot).      *)
NoLostWakeup ==
    waiters # <<>> => Capacity - in_use <= Cardinality(At("notified"))

(* The gate is a counting semaphore over the executing threads.            *)
Gate == INSTANCE Semaphore WITH Clients <- Threads, holders <- Holders
RefinesSemaphore == Gate!Spec

(* A slot taken by a thread that never waited for it.                      *)
Overtake ==
    \/ \E r \in Requests : TryAcquire(r)
    \/ \E w \in Workers : pc[w] = "idle" /\ Take(w)

(* A job waiting for a slot gets one, unless newcomers go on overtaking it *)
(* for ever: the queue of waiters by itself starves nobody, although a     *)
(* woken thread that comes too late goes back to its end.                  *)
WorkerServed ==
    \A w \in Workers :
        \/ []<><<Overtake>>_vars
        \/ pc[w] \in {"waiting", "notified"} ~> pc[w] = "holding"
=============================================================================
