----------------------- MODULE ExecutionLimiterProofs -----------------------
(***************************************************************************)
(* Proofs about ExecutionLimiter, for any capacity and any finite set of   *)
(* threads.  IInv is inductive: the counter and the executing threads      *)
(* agree, and the queue of waiters holds exactly the sleeping threads.     *)
(***************************************************************************)
EXTENDS ExecutionLimiter, FiniteSetTheorems, SequenceTheorems, TLAPS

(* A thread in the Condition's queue is asleep, and is queued once: what   *)
(* notify(1) needs to wake a thread that is really waiting.                *)
WaitersAsleep ==
    /\ \A i \in 1..Len(waiters) : waiters[i] \in Workers /\ pc[waiters[i]] = "waiting"
    /\ \A i, j \in 1..Len(waiters) : waiters[i] = waiters[j] => i = j
    /\ \A t \in At("waiting") : \E i \in 1..Len(waiters) : waiters[i] = t

IInv == TypeOK /\ WithinCapacity /\ WaitersAsleep /\ NoLostWakeup

\* Any group of threads is finite.
LEMMA AtFinite ==
    ASSUME NEW loc
    PROVE  IsFiniteSet(At(loc)) /\ Cardinality(At(loc)) \in Nat
<1>1. IsFiniteSet(Threads)
  BY ThreadsAssumption, FS_Union DEF Threads
<1>2. At(loc) \in SUBSET Threads
  BY DEF At
<1> QED
  BY <1>1, <1>2, FS_Subset, FS_CardinalityType

\* Leaving a group makes it smaller by one at most.
LEMMA RemoveFromAt ==
    ASSUME NEW loc, NEW t
    PROVE  /\ Cardinality(At(loc) \ {t}) \in Nat
           /\ Cardinality(At(loc) \ {t}) >= Cardinality(At(loc)) - 1
<1>1. IsFiniteSet(At(loc)) /\ Cardinality(At(loc)) \in Nat
  BY AtFinite
<1>2. IsFiniteSet(At(loc) \ {t})
  BY <1>1, FS_RemoveElement
<1>3. Cardinality(At(loc) \ {t}) \in Nat
  BY <1>2, FS_CardinalityType
<1>4. Cardinality(At(loc) \ {t}) =
        IF t \in At(loc) THEN Cardinality(At(loc)) - 1 ELSE Cardinality(At(loc))
  BY <1>1, FS_RemoveElement
<1> QED
  BY <1>1, <1>3, <1>4

\* A thread that takes a slot: one more executing, one fewer notified at most.
LEMMA TakeKeeps ==
    ASSUME IInv, NEW t \in Threads, Take(t),
           pc[t] \in {"idle", "notified"}
    PROVE  IInv'
<1> USE DEF IInv, TypeOK
<1>1. TypeOK'
  BY DEF Take
<1>2. pc' = [pc EXCEPT ![t] = "holding"] /\ waiters' = waiters
      /\ in_use' = in_use + 1 /\ in_use < Capacity
  BY DEF Take
<1>3. At("holding")' = At("holding") \cup {t} /\ t \notin At("holding")
  BY <1>2 DEF At
<1>4. WithinCapacity'
  BY <1>2, <1>3, AtFinite, FS_AddElement, CapacityAssumption
     DEF WithinCapacity, Holders
<1>5. WaitersAsleep'
  <2>1. At("waiting")' = At("waiting")
    BY <1>2 DEF At
  <2>2. \A i \in 1..Len(waiters) : waiters[i] # t
    BY DEF WaitersAsleep
  <2> QED
    BY <1>2, <2>1, <2>2 DEF WaitersAsleep, Threads
<1>6. NoLostWakeup'
  <2>1. CASE waiters = <<>>
    BY <1>2, <2>1 DEF NoLostWakeup
  <2>2. CASE waiters # <<>>
    <3>1. Capacity - in_use <= Cardinality(At("notified"))
      BY <2>2 DEF NoLostWakeup
    <3>2. At("notified")' = At("notified") \ {t}
      BY <1>2 DEF At
    <3>3. /\ Cardinality(At("notified") \ {t}) \in Nat
          /\ Cardinality(At("notified") \ {t}) >= Cardinality(At("notified")) - 1
      BY RemoveFromAt
    <3>4. Capacity - (in_use + 1) <= Cardinality(At("notified") \ {t})
      BY <3>1, <3>3, AtFinite, CapacityAssumption
    <3> QED
      BY <1>2, <3>2, <3>4 DEF NoLostWakeup
  <2> QED
    BY <2>1, <2>2
<1> QED
  BY <1>1, <1>4, <1>5, <1>6

\* A thread that begins to wait does so at capacity.
LEMMA WaitKeeps ==
    ASSUME IInv, NEW w \in Workers, Wait(w),
           pc[w] \in {"idle", "notified"}
    PROVE  IInv'
<1> USE DEF IInv, TypeOK
<1>0. w \in Threads
  BY DEF Threads
<1>1. TypeOK'
  BY <1>0, AppendProperties DEF Wait
<1>2. pc' = [pc EXCEPT ![w] = "waiting"] /\ waiters' = Append(waiters, w)
      /\ in_use' = in_use /\ in_use >= Capacity
  BY DEF Wait
<1>3. At("holding")' = At("holding")
  BY <1>2 DEF At
<1>4. WithinCapacity'
  BY <1>2, <1>3 DEF WithinCapacity, Holders
<1>5. WaitersAsleep'
  <2>1. At("waiting")' = At("waiting") \cup {w} /\ w \notin At("waiting")
    BY <1>0, <1>2 DEF At
  <2>2. /\ Len(waiters') = Len(waiters) + 1
        /\ waiters'[Len(waiters) + 1] = w
        /\ \A i \in 1..Len(waiters) : waiters'[i] = waiters[i] /\ waiters[i] # w
    BY <1>0, <1>2, AppendProperties DEF WaitersAsleep
  <2>3. 1..Len(waiters') = 1..Len(waiters) \cup {Len(waiters) + 1}
    BY <2>2, LenProperties
  <2>4. \A i \in 1..Len(waiters') : waiters'[i] \in Workers /\ pc'[waiters'[i]] = "waiting"
    BY <1>0, <1>2, <2>2, <2>3 DEF WaitersAsleep, Threads
  <2>5. \A i, j \in 1..Len(waiters') : waiters'[i] = waiters'[j] => i = j
    BY <2>2, <2>3 DEF WaitersAsleep
  <2>6. \A t \in At("waiting")' : \E i \in 1..Len(waiters') : waiters'[i] = t
    BY <2>1, <2>2, <2>3 DEF WaitersAsleep
  <2> QED
    BY <2>4, <2>5, <2>6 DEF WaitersAsleep
<1>6. NoLostWakeup'
  <2>1. At("notified")' = At("notified") \ {w}
    BY <1>2 DEF At
  <2>2. Cardinality(At("notified") \ {w}) \in Nat
    BY RemoveFromAt
  <2>3. in_use' \in Nat /\ in_use' >= Capacity
    BY <1>2
  <2>4. Capacity - in_use' <= Cardinality(At("notified") \ {w})
    BY <2>2, <2>3, CapacityAssumption
  <2> QED
    BY <2>1, <2>4 DEF NoLostWakeup
<1> QED
  BY <1>1, <1>4, <1>5, <1>6

\* A released slot is promised to the first waiter, if there is one.
LEMMA ReleaseKeeps ==
    ASSUME IInv, NEW t \in Threads, Release(t)
    PROVE  IInv'
<1> USE DEF IInv, TypeOK
<1>1. pc[t] = "holding" /\ t \in Holders
  BY DEF Release, Holders, At
<1>2. in_use > 0
  BY <1>1, AtFinite, FS_EmptySet DEF WithinCapacity, Holders
<1>3. in_use' = in_use - 1 /\ Notify(t)
  BY <1>2 DEF Release
<1>4. CASE waiters = <<>>
  <2>1. pc' = [pc EXCEPT ![t] = "idle"] /\ waiters' = <<>>
    BY <1>3, <1>4 DEF Notify
  <2>2. TypeOK'
    BY <1>2, <1>3, <2>1
  <2>3. At("holding")' = At("holding") \ {t} /\ At("waiting")' = At("waiting")
    BY <1>1, <2>1 DEF At
  <2>4. WithinCapacity'
    BY <1>1, <1>2, <1>3, <2>3, AtFinite, FS_RemoveElement, CapacityAssumption
       DEF WithinCapacity, Holders
  <2>5. WaitersAsleep'
    BY <1>4, <2>1, <2>3 DEF WaitersAsleep
  <2>6. NoLostWakeup'
    BY <2>1 DEF NoLostWakeup
  <2> QED
    BY <2>2, <2>4, <2>5, <2>6
<1>5. CASE waiters # <<>>
  <2> DEFINE h == Head(waiters)
  <2>0. /\ Len(waiters) \in Nat /\ Len(waiters) >= 1
        /\ h = waiters[1] /\ h \in Threads /\ pc[h] = "waiting" /\ h # t
    BY <1>1, <1>5, HeadTailProperties, EmptySeq, LenProperties
       DEF WaitersAsleep, Threads
  <2>1. pc' = [pc EXCEPT ![t] = "idle", ![h] = "notified"] /\ waiters' = Tail(waiters)
    BY <1>3, <1>5 DEF Notify
  <2>2. TypeOK'
    BY <1>2, <1>3, <1>5, <2>0, <2>1, HeadTailProperties
  <2>3. /\ At("holding")' = At("holding") \ {t}
        /\ At("waiting")' = At("waiting") \ {h}
        /\ At("notified")' = At("notified") \cup {h}
        /\ h \notin At("notified")
    BY <1>1, <2>0, <2>1 DEF At
  <2>4. WithinCapacity'
    BY <1>1, <1>2, <1>3, <2>3, AtFinite, FS_RemoveElement, CapacityAssumption
       DEF WithinCapacity, Holders
  <2>5. WaitersAsleep'
    <3>1. /\ Len(waiters') = Len(waiters) - 1
          /\ \A i \in 1..Len(waiters') : waiters'[i] = waiters[i + 1]
      BY <1>5, <2>1, HeadTailProperties
    <3>2. \A i \in 1..Len(waiters') : i + 1 \in 1..Len(waiters) /\ waiters'[i] # h
      BY <2>0, <3>1 DEF WaitersAsleep
    <3>3. \A i \in 1..Len(waiters') : waiters'[i] \in Workers /\ pc'[waiters'[i]] = "waiting"
      BY <1>1, <2>1, <3>1, <3>2 DEF WaitersAsleep, Threads
    <3>4. \A i, j \in 1..Len(waiters') : waiters'[i] = waiters'[j] => i = j
      <4>1. SUFFICES ASSUME NEW i \in 1..Len(waiters'), NEW j \in 1..Len(waiters'),
                            waiters'[i] = waiters'[j]
                     PROVE  i = j
        OBVIOUS
      <4>2. waiters[i + 1] = waiters[j + 1]
        BY <3>1, <4>1
      <4>3. i + 1 = j + 1
        BY <3>2, <4>2 DEF WaitersAsleep
      <4> QED
        BY <4>3
    <3>5. ASSUME NEW u \in At("waiting")'
          PROVE  \E i \in 1..Len(waiters') : waiters'[i] = u
      <4>1. PICK k \in 1..Len(waiters) : waiters[k] = u
        BY <2>3 DEF WaitersAsleep
      <4>2. k # 1
        BY <2>0, <2>3, <4>1
      <4>3. k - 1 \in 1..Len(waiters') /\ k - 1 + 1 = k
        BY <2>0, <3>1, <4>2
      <4> QED
        BY <3>1, <4>1, <4>3
    <3> QED
      BY <3>3, <3>4, <3>5 DEF WaitersAsleep
  <2>6. NoLostWakeup'
    <3>1. Capacity - in_use <= Cardinality(At("notified"))
      BY <1>5 DEF NoLostWakeup
    <3>2. Cardinality(At("notified")') = Cardinality(At("notified")) + 1
      BY <2>3, AtFinite, FS_AddElement
    <3> QED
      BY <1>2, <1>3, <3>1, <3>2, AtFinite, CapacityAssumption DEF NoLostWakeup
  <2> QED
    BY <2>2, <2>4, <2>5, <2>6
<1> QED
  BY <1>4, <1>5

LEMMA InitIInv == Init => IInv
<1> SUFFICES ASSUME Init PROVE IInv
  OBVIOUS
<1>1. TypeOK /\ waiters = <<>> /\ in_use = 0
  BY DEF Init, TypeOK
<1>2. \A loc : loc # "idle" => At(loc) = {}
  BY DEF Init, At
<1>3. WithinCapacity
  BY <1>1, <1>2, FS_EmptySet, CapacityAssumption DEF WithinCapacity, Holders
<1>4. WaitersAsleep /\ NoLostWakeup
  BY <1>1, <1>2 DEF WaitersAsleep, NoLostWakeup
<1> QED
  BY <1>1, <1>3, <1>4 DEF IInv

LEMMA NextIInv == IInv /\ [Next]_vars => IInv'
<1> SUFFICES ASSUME IInv, [Next]_vars PROVE IInv'
  OBVIOUS
<1>1. ASSUME NEW r \in Requests, TryAcquire(r) PROVE IInv'
  BY <1>1, TakeKeeps DEF TryAcquire, Threads
<1>2. ASSUME NEW w \in Workers, Acquire(w) PROVE IInv'
  BY <1>2, TakeKeeps, WaitKeeps DEF Acquire, Threads
<1>3. ASSUME NEW w \in Workers, Resume(w) PROVE IInv'
  BY <1>3, TakeKeeps, WaitKeeps DEF Resume, Threads
<1>4. ASSUME NEW t \in Threads, Release(t) PROVE IInv'
  BY <1>4, ReleaseKeeps
<1>5. ASSUME UNCHANGED vars PROVE IInv'
  BY <1>5 DEF vars, IInv, TypeOK, WithinCapacity, WaitersAsleep, NoLostWakeup,
              Holders, At
<1> QED
  BY <1>1, <1>2, <1>3, <1>4, <1>5 DEF Next

(* The inductive invariant holds of every reachable state.                 *)
THEOREM LimiterInvariant == Spec => []IInv
  BY InitIInv, NextIInv, PTL DEF Spec

(* No thread, counter or queue entry leaves its range.                     *)
THEOREM LimiterTypeOK == Spec => []TypeOK
<1>1. IInv => TypeOK
  BY DEF IInv
<1> QED
  BY <1>1, LimiterInvariant, PTL

(* However requests, jobs and releases interleave, the counter equals the  *)
(* number of executing threads and stays within max_concurrent_executions. *)
THEOREM LimiterWithinCapacity == Spec => []WithinCapacity
<1>1. IInv => WithinCapacity
  BY DEF IInv
<1> QED
  BY <1>1, LimiterInvariant, PTL

(* No number of waiting threads and no order of releases loses a wake-up.  *)
THEOREM LimiterLosesNoWakeup == Spec => []NoLostWakeup
<1>1. IInv => NoLostWakeup
  BY DEF IInv
<1> QED
  BY <1>1, LimiterInvariant, PTL

(* The Condition-based limiter implements a counting semaphore.            *)
THEOREM LimiterImplementsSemaphore == Spec => RefinesSemaphore
<1>1. Init => Gate!Init
  BY DEF Init, Gate!Init, Holders, At
<1>2. IInv /\ [Next]_vars => [Gate!Next]_Holders
  <2> SUFFICES ASSUME IInv, [Next]_vars PROVE [Gate!Next]_Holders
    OBVIOUS
  <2> USE DEF IInv, TypeOK
  <2>1. ASSUME NEW t \in Threads, Take(t), pc[t] # "holding"
        PROVE  Gate!Next
    <3>1. Holders' = Holders \cup {t} /\ t \notin Holders
      BY <2>1 DEF Take, Holders, At
    <3>2. Cardinality(Holders) < Capacity
      BY <2>1 DEF Take, WithinCapacity
    <3>3. Gate!Acquire(t)
      BY <3>1, <3>2 DEF Gate!Acquire, Gate!Cardinality, Cardinality
    <3> QED
      BY <3>3 DEF Gate!Next
  <2>2. ASSUME NEW w \in Workers, Wait(w), pc[w] # "holding"
        PROVE  Holders' = Holders
    BY <2>2 DEF Wait, Holders, At, Threads
  <2>3. ASSUME NEW t \in Threads, Release(t)
        PROVE  Gate!Next
    <3>1. Holders' = Holders \ {t} /\ t \in Holders
      <4>1. pc[t] = "holding" /\ t \in Holders
        BY <2>3 DEF Release, Holders, At
      <4>2. CASE waiters = <<>> \/ in_use = 0
        BY <2>3, <4>1, <4>2 DEF Release, Notify, Holders, At
      <4>3. CASE waiters # <<>> /\ in_use > 0
        <5>1. Head(waiters) = waiters[1] /\ Len(waiters) \in Nat /\ Len(waiters) >= 1
          BY <4>3, HeadTailProperties, EmptySeq, LenProperties
        <5>2. pc[Head(waiters)] = "waiting" /\ Head(waiters) \in Threads
          BY <5>1 DEF WaitersAsleep, Threads
        <5>3. pc' = [pc EXCEPT ![t] = "idle", ![Head(waiters)] = "notified"]
          BY <2>3, <4>3 DEF Release, Notify
        <5> QED
          BY <4>1, <5>2, <5>3 DEF Holders, At
      <4> QED
        BY <4>2, <4>3
    <3>2. Gate!Release(t)
      BY <3>1 DEF Gate!Release
    <3> QED
      BY <3>2 DEF Gate!Next
  <2>4. CASE Next
    <3>1. ASSUME NEW r \in Requests, TryAcquire(r) PROVE Gate!Next
      BY <2>1, <3>1 DEF TryAcquire, Threads
    <3>2. ASSUME NEW w \in Workers, Acquire(w) PROVE [Gate!Next]_Holders
      BY <2>1, <2>2, <3>2 DEF Acquire, Threads
    <3>3. ASSUME NEW w \in Workers, Resume(w) PROVE [Gate!Next]_Holders
      BY <2>1, <2>2, <3>3 DEF Resume, Threads
    <3> QED
      BY <2>3, <2>4, <3>1, <3>2, <3>3 DEF Next
  <2>5. CASE UNCHANGED vars
    BY <2>5 DEF vars, Holders, At
  <2> QED
    BY <2>4, <2>5
<1> QED
  BY <1>1, <1>2, LimiterInvariant, PTL DEF Spec, RefinesSemaphore, Gate!Spec

\* Somebody has a slot to give back, or is awake and about to ask for one.
SomebodyAwake == Holders # {} \/ At("notified") # {}

(* Waiting threads are never all there is: while anybody sleeps in         *)
(* acquire(True), a slot is held or another thread has been woken, so that *)
(* nothing but these threads is needed for the gate to move                *)
(* (concurrency.py:32-59).                                                 *)
THEOREM LimiterNeverAllAsleep == Spec => [](waiters # <<>> => SomebodyAwake)
<1>1. IInv => (waiters # <<>> => SomebodyAwake)
  <2> SUFFICES ASSUME IInv, waiters # <<>>, Holders = {} PROVE At("notified") # {}
    BY DEF SomebodyAwake
  <2>1. in_use = 0
    BY FS_EmptySet DEF IInv, WithinCapacity
  <2>2. Capacity <= Cardinality(At("notified"))
    BY <2>1, CapacityAssumption DEF IInv, NoLostWakeup
  <2> QED
    BY <2>2, FS_EmptySet, CapacityAssumption
<1> QED
  BY <1>1, LimiterInvariant, PTL
=============================================================================
