-------------------------- MODULE AsyncRunnerProofs --------------------------
(***************************************************************************)
(* Proofs about AsyncRunner, for any finite sets of jobs and synchronous   *)
(* requests, any sizes and any number of lifespans.  IInv is inductive:    *)
(* it relates the place where the worker task waits to the pool threads of *)
(* its job, and these to how far the job's request has come.               *)
(***************************************************************************)
EXTENDS AsyncRunner, FiniteSetTheorems, SequenceTheorems, TLAPS

\* A cancelled task has not ended, and is cancelled by a shutdown only.
WorkerOK ==
    /\ worker.at \in {"down", "get"} => worker.job = NoJob
    /\ worker.at \in {"acquire", "run"} => worker.job \in Jobs
    /\ worker.at = "acquire" => thread[worker.job] \in {"acquiring", "acquired"}
    /\ worker.at = "run" =>
         thread[worker.job] \in {"running", "executing", "stored", "done", "raised"}
    /\ cancelled => worker.at # "down" /\ shutdown

\* The thread of the job is inside run_execution().
InRun == {"running", "executing", "stored"}

\* Only accepted jobs have threads, and nothing is accepted before a start; a
\* thread that the worker does not await is one that a shutdown has left.
ThreadOK ==
    /\ \A j \in Jobs : thread[j] # "none" => request[j] = "accepted"
    /\ starts = 0 => \A j \in Jobs : request[j] # "accepted"
    /\ starts <= 1 /\ ~shutdown =>
         \A j \in Jobs : thread[j] \in {"acquiring", "acquired"} \cup InRun => Owned(j)

HolderOK == in_use = Cardinality(Holders)

\* A verdict is stored before the thread returns; in a first lifespan a job that
\* raised and was let go is marked ERROR, or could not be.
Final == {"FINISHED", "ERROR"}
SettledOK ==
    /\ \A j \in Jobs : thread[j] \in {"stored", "done"} => status[j] \in Final
    /\ starts <= 1 /\ ~shutdown =>
         \A j \in Jobs : thread[j] = "raised" /\ ~Owned(j) => status[j] \in Final \/ j \in unmarked

-----------------------------------------------------------------------------
(* Slots and reservations, counted.                                        *)

Holding == {j \in Jobs : Reserved(j)}

LEMMA Counted ==
    /\ IsFiniteSet(Holding) /\ Cardinality(Holding) \in Nat
    /\ IsFiniteSet(Refused) /\ Cardinality(Refused) \in Nat
<1>1. Holding \in SUBSET Jobs /\ Refused \in SUBSET Jobs
  BY DEF Holding, Refused
<1> QED
  BY <1>1, JobsAssumption, FS_Subset, FS_CardinalityType

LEMMA HoldersFinite ==
    ASSUME TypeOK
    PROVE  IsFiniteSet(Holders) /\ Cardinality(Holders) \in Nat
<1>1. IsFiniteSet(Jobs \cup Syncs) /\ Holders \subseteq Jobs \cup Syncs
  BY JobsAssumption, FS_Union DEF TypeOK, Holders
<1> QED
  BY <1>1, FS_Subset, FS_CardinalityType

LEMMA HolderAdded ==
    ASSUME TypeOK, HolderOK, NEW c, c \notin Holders,
           Holders' = Holders \cup {c}, Acquire
    PROVE  HolderOK' /\ in_use' \in 0..Capacity
<1>1. Cardinality(Holders \cup {c}) = Cardinality(Holders) + 1
  BY HoldersFinite, FS_AddElement
<1>2. Cardinality(Holders') = in_use + 1
  BY <1>1 DEF HolderOK
<1> QED
  BY <1>2, SizesAssumption DEF HolderOK, Acquire, TypeOK

LEMMA HolderRemoved ==
    ASSUME TypeOK, HolderOK, NEW c \in Holders,
           Holders' = Holders \ {c}, Release
    PROVE  HolderOK' /\ in_use' \in 0..Capacity
<1>1. Cardinality(Holders \ {c}) = Cardinality(Holders) - 1
  BY HoldersFinite, FS_RemoveElement
<1>2. /\ Cardinality(Holders') = in_use - 1
      /\ in_use \in 0..Capacity
  BY <1>1 DEF HolderOK, TypeOK
<1>3. in_use # 0
  <2>1. Holders # {}
    OBVIOUS
  <2> QED
    BY <2>1, HoldersFinite, FS_EmptySet DEF HolderOK
<1>4. in_use' = in_use - 1 /\ in_use' \in 0..Capacity
  BY <1>2, <1>3, SizesAssumption DEF Release
<1> QED
  BY <1>2, <1>4 DEF HolderOK

LEMMA LedgerSame ==
    ASSUME ReservationLedger, Holding' = Holding, Refused' = Refused, free' = free
    PROVE  ReservationLedger'
BY DEF ReservationLedger, Holding

LEMMA LedgerTaken ==
    ASSUME TypeOK, ReservationLedger, NEW j \in Jobs, ~Reserved(j), free # 0,
           Holding' = Holding \cup {j}, Refused' = Refused, free' = free - 1
    PROVE  ReservationLedger'
<1>1. Cardinality(Holding \cup {j}) = Cardinality(Holding) + 1
  BY Counted, FS_AddElement DEF Holding
<1>2. free \in Nat /\ Cardinality(Holding) \in Nat
  BY Counted DEF TypeOK
<1>3. Cardinality(Holding') = Cardinality(Holding) + 1
  BY <1>1
<1>4. Cardinality(Refused') = Cardinality(Refused)
  OBVIOUS
<1>5. free + Cardinality(Holding) = MaxSize + Cardinality(Refused)
  BY DEF ReservationLedger, Holding
<1>6. free' + Cardinality(Holding') = MaxSize + Cardinality(Refused')
  BY <1>2, <1>3, <1>4, <1>5
<1> QED
  BY <1>6 DEF ReservationLedger, Holding

LEMMA LedgerReturned ==
    ASSUME TypeOK, ReservationLedger, NEW j \in Jobs, Reserved(j),
           Holding' = Holding \ {j}, Refused' = Refused, free' = free + 1
    PROVE  ReservationLedger'
<1>1. Cardinality(Holding \ {j}) = Cardinality(Holding) - 1
  BY Counted, FS_RemoveElement DEF Holding
<1>2. free \in Nat /\ Cardinality(Holding) \in Nat
  BY Counted DEF TypeOK
<1>3. Cardinality(Holding') = Cardinality(Holding) - 1
  BY <1>1
<1>4. Cardinality(Refused') = Cardinality(Refused)
  OBVIOUS
<1>5. free + Cardinality(Holding) = MaxSize + Cardinality(Refused)
  BY DEF ReservationLedger, Holding
<1>6. free' + Cardinality(Holding') = MaxSize + Cardinality(Refused')
  BY <1>2, <1>3, <1>4, <1>5
<1> QED
  BY <1>6 DEF ReservationLedger, Holding

\* A 503 returns two reservations for the one that was made.
LEMMA LedgerRefused ==
    ASSUME TypeOK, ReservationLedger, NEW j \in Jobs, Reserved(j), j \notin Refused,
           Holding' = Holding \ {j}, Refused' = Refused \cup {j}, free' = free + 2
    PROVE  ReservationLedger'
<1>1. Cardinality(Holding \ {j}) = Cardinality(Holding) - 1
  BY Counted, FS_RemoveElement DEF Holding
<1>2. Cardinality(Refused \cup {j}) = Cardinality(Refused) + 1
  BY Counted, FS_AddElement
<1>3. /\ free \in Nat /\ Cardinality(Holding) \in Nat /\ Cardinality(Refused) \in Nat
      /\ MaxSize \in Nat
  BY Counted, SizesAssumption DEF TypeOK
<1>4. /\ Cardinality(Holding') = Cardinality(Holding) - 1
      /\ Cardinality(Refused') = Cardinality(Refused) + 1
  BY <1>1, <1>2
<1>5. free + Cardinality(Holding) = MaxSize + Cardinality(Refused)
  BY DEF ReservationLedger, Holding
<1>6. free' + Cardinality(Holding') = MaxSize + Cardinality(Refused')
  BY <1>3, <1>4, <1>5
<1> QED
  BY <1>6 DEF ReservationLedger, Holding

-----------------------------------------------------------------------------
(* The queue with the callbacks that fill it.                              *)

Pending == queue \o soon
Queued  == {j \in Jobs : request[j] = "accepted" /\ thread[j] = "none"}

\* AcceptedOnce, in these words.
Once ==
    /\ \A i, k \in 1..Len(Pending) : Pending[i] = Pending[k] => i = k
    /\ \A i \in 1..Len(Pending) : Pending[i] \in Queued
    /\ Undisturbed => \A j \in Queued : \E i \in 1..Len(Pending) : Pending[i] = j

IInv == TypeOK /\ WorkerOK /\ ThreadOK /\ HolderOK /\ SettledOK /\ Once /\ ReservationLedger

\* The elements of a concatenation.
LEMMA Joined ==
    ASSUME NEW s \in Seq(Jobs), NEW t \in Seq(Jobs)
    PROVE  /\ Len(s) \in Nat /\ Len(t) \in Nat
           /\ s \o t \in Seq(Jobs) /\ Len(s \o t) = Len(s) + Len(t)
           /\ \A i \in 1..Len(s) : (s \o t)[i] = s[i]
           /\ \A i \in 1..Len(t) : (s \o t)[Len(s) + i] = t[i]
           /\ \A i \in 1..Len(s \o t) :
                i \notin 1..Len(s) => i - Len(s) \in 1..Len(t) /\ (s \o t)[i] = t[i - Len(s)]
<1>1. Len(s) \in Nat /\ Len(t) \in Nat
  BY LenProperties
<1>2. /\ s \o t \in Seq(Jobs) /\ Len(s \o t) = Len(s) + Len(t)
      /\ \A i \in 1 .. Len(s) + Len(t) :
           (s \o t)[i] = IF i <= Len(s) THEN s[i] ELSE t[i - Len(s)]
  BY ConcatProperties
<1>3. \A i \in 1..Len(s) : (s \o t)[i] = s[i]
  <2> TAKE i \in 1..Len(s)
  <2>1. i \in 1 .. Len(s) + Len(t) /\ i <= Len(s)
    BY <1>1
  <2> QED
    BY <1>2, <2>1
<1>4. \A i \in 1..Len(t) : (s \o t)[Len(s) + i] = t[i]
  <2> TAKE i \in 1..Len(t)
  <2>1. /\ Len(s) + i \in 1 .. Len(s) + Len(t) /\ ~(Len(s) + i <= Len(s))
        /\ (Len(s) + i) - Len(s) = i
    BY <1>1
  <2> QED
    BY <1>2, <2>1
<1>5. \A i \in 1..Len(s \o t) :
        i \notin 1..Len(s) => i - Len(s) \in 1..Len(t) /\ (s \o t)[i] = t[i - Len(s)]
  <2> TAKE i \in 1..Len(s \o t)
  <2>1. HAVE i \notin 1..Len(s)
  <2>2. i \in 1 .. Len(s) + Len(t) /\ ~(i <= Len(s)) /\ i - Len(s) \in 1..Len(t)
    BY <1>1, <1>2, <2>1
  <2> QED
    BY <1>2, <2>2
<1> QED
  BY <1>1, <1>2, <1>3, <1>4, <1>5

LEMMA PendingElements ==
    ASSUME TypeOK
    PROVE  /\ queue \in Seq(Jobs) /\ Len(queue) \in Nat
           /\ soon \in Seq(Jobs) /\ Len(soon) \in Nat
           /\ Pending \in Seq(Jobs) /\ Len(Pending) = Len(queue) + Len(soon)
           /\ Len(Pending) \in Nat
           /\ \A i \in 1..Len(Pending) :
                Pending[i] = IF i <= Len(queue) THEN queue[i] ELSE soon[i - Len(queue)]
           /\ \A i \in 1..Len(Pending) : Pending[i] \in Jobs
<1>1. queue \in Seq(Jobs) /\ soon \in Seq(Jobs)
  BY DEF TypeOK
<1>2. Len(queue) \in Nat /\ Len(soon) \in Nat
  BY <1>1, LenProperties
<1>3. /\ Pending \in Seq(Jobs) /\ Len(Pending) = Len(queue) + Len(soon)
      /\ \A i \in 1..Len(Pending) :
           Pending[i] = IF i <= Len(queue) THEN queue[i] ELSE soon[i - Len(queue)]
  BY <1>1, ConcatProperties DEF Pending
<1>4. \A i \in 1..Len(Pending) : Pending[i] \in Jobs
  BY <1>3, ElementOfSeq
<1>5. Len(Pending) \in Nat
  BY <1>2, <1>3
<1> QED
  BY <1>1, <1>2, <1>3, <1>4, <1>5

LEMMA OnceIs ==
    ASSUME TypeOK
    PROVE  Once <=> AcceptedOnce
BY PendingElements DEF Once, AcceptedOnce, Pending, Queued

\* Nothing joins or leaves.
LEMMA OnceSame ==
    ASSUME Once, UNCHANGED <<queue, soon>>, Queued' = Queued, Undisturbed' => Undisturbed
    PROVE  Once'
<1>1. Pending' = Pending
  BY DEF Pending
<1> QED
  BY <1>1 DEF Once

-----------------------------------------------------------------------------
(* The handler.                                                            *)

\* What a step of a handler before enqueue() leaves alone.
LEMMA RequestKeeps ==
    ASSUME IInv, NEW j \in Jobs,
           request[j] \in {"new", "reserved", "planned"},
           request' = [request EXCEPT ![j] = request'[j]],
           request'[j] \in RequestStates \ {"accepted"}, free' \in Nat,
           status' \in [Jobs -> {"none", "QUEUED", "RUNNING", "FINISHED", "ERROR"}],
           \A k \in Jobs \ {j} : status'[k] = status[k],
           UNCHANGED <<lvars, soon, queue, wvars, thread, slots, unmarked>>
    PROVE  TypeOK' /\ WorkerOK' /\ ThreadOK' /\ HolderOK' /\ SettledOK' /\ Once'
<1>1. TypeOK'
  BY DEF IInv, TypeOK, lvars, wvars, slots
<1>2. \A k \in Jobs : request'[k] = IF k = j THEN request'[j] ELSE request[k]
  BY DEF IInv, TypeOK
<1>3. WorkerOK' /\ HolderOK'
  BY DEF IInv, WorkerOK, HolderOK, Holders, lvars, wvars, slots
<1>4. ThreadOK'
  BY <1>2 DEF IInv, ThreadOK, Owned, lvars, wvars
<1>7. thread[j] = "none"
  BY DEF IInv, ThreadOK
<1>8. SettledOK'
  BY <1>7 DEF IInv, SettledOK, Owned, lvars, wvars
<1>5. Queued' = Queued
  BY <1>2 DEF Queued
<1>6. Undisturbed' => Undisturbed
  BY <1>2 DEF Undisturbed, Refused, lvars
<1> QED
  BY <1>1, <1>3, <1>4, <1>5, <1>6, <1>8, OnceSame DEF IInv

\* An accepted job joins at the end.
LEMMA EnqueueKeeps ==
    ASSUME IInv, NEW j \in Jobs, Enqueue(j)
    PROVE  IInv'
<1>1. /\ request[j] = "planned" /\ ~shutdown /\ starts # 0
      /\ request' = [request EXCEPT ![j] = "accepted"] /\ soon' = Append(soon, j)
      /\ UNCHANGED <<free, lvars, queue, wvars, thread, slots, kept>>
  BY DEF Enqueue, Unavailable
<1>2. TypeOK /\ WorkerOK /\ ThreadOK /\ HolderOK /\ SettledOK /\ Once /\ ReservationLedger
  BY DEF IInv
<1>3. TypeOK'
  BY <1>1, <1>2, AppendProperties DEF TypeOK, RequestStates, lvars, wvars, slots, kept
<1>4. \A k \in Jobs : request'[k] = IF k = j THEN "accepted" ELSE request[k]
  BY <1>1, <1>2 DEF TypeOK
<1>5. WorkerOK' /\ HolderOK' /\ SettledOK'
  BY <1>1, <1>2 DEF WorkerOK, HolderOK, Holders, SettledOK, Owned, lvars, wvars, slots, kept
<1>6. ThreadOK'
  BY <1>1, <1>2, <1>4 DEF ThreadOK, Owned, lvars, wvars
<1>7. thread[j] = "none" /\ ~Owned(j)
  BY <1>1, <1>2 DEF ThreadOK, WorkerOK, Owned
<1>8. Queued' = Queued \cup {j} /\ j \notin Queued
  BY <1>1, <1>4, <1>7 DEF Queued
<1>9. /\ Len(Pending') = Len(Pending) + 1 /\ Len(Pending) \in Nat
      /\ \A i \in 1..Len(Pending) : Pending'[i] = Pending[i]
      /\ Pending'[Len(Pending) + 1] = j
  <2>1. /\ Len(soon') = Len(soon) + 1 /\ queue' = queue
        /\ \A i \in 1..Len(soon) : soon'[i] = soon[i]
        /\ soon'[Len(soon) + 1] = j
    BY <1>1, <1>2, AppendProperties DEF TypeOK
  <2>2. /\ queue \in Seq(Jobs) /\ soon \in Seq(Jobs) /\ soon' \in Seq(Jobs)
        /\ Pending = queue \o soon /\ Pending' = queue \o soon'
    BY <1>2, <1>3, <2>1 DEF TypeOK, Pending
  <2>3. Len(queue) \in Nat /\ Len(soon) \in Nat /\ Len(soon') \in Nat
    BY <2>2, LenProperties
  <2>4. Len(Pending') = Len(Pending) + 1 /\ Len(Pending) \in Nat
    <3>1. Len(Pending) = Len(queue) + Len(soon) /\ Len(Pending') = Len(queue) + Len(soon')
      BY <2>2, Joined
    <3> QED
      BY <2>1, <2>3, <3>1
  <2>5. \A i \in 1..Len(Pending) : Pending'[i] = Pending[i]
    <3> TAKE i \in 1..Len(Pending)
    <3>1. CASE i \in 1..Len(queue)
      BY <2>2, <3>1, Joined
    <3>2. CASE i \notin 1..Len(queue)
      <4>1. i - Len(queue) \in 1..Len(soon) /\ Pending[i] = soon[i - Len(queue)]
        BY <2>2, <3>2, Joined
      <4>2. i \in 1..Len(Pending')
        BY <2>4
      <4>3. Pending'[i] = soon'[i - Len(queue)]
        BY <2>2, <3>2, <4>2, Joined
      <4> QED
        BY <2>1, <4>1, <4>3
    <3> QED
      BY <3>1, <3>2
  <2>6. Pending'[Len(Pending) + 1] = j
    <3>1. Len(Pending) + 1 = Len(queue) + Len(soon') /\ Len(soon') \in 1..Len(soon')
      BY <2>1, <2>2, <2>3, Joined
    <3>2. Pending'[Len(queue) + Len(soon')] = soon'[Len(soon')]
      BY <2>2, <3>1, Joined
    <3> QED
      BY <2>1, <3>1, <3>2
  <2> QED
    BY <2>4, <2>5, <2>6
<1>10. Undisturbed' => Undisturbed
  BY <1>1, <1>4 DEF Undisturbed, Refused, lvars
<1>11. Once'
  <2>1. /\ \A i \in 1..Len(Pending) : Pending[i] \in Queued /\ Pending[i] # j
        /\ \A i, k \in 1..Len(Pending) : Pending[i] = Pending[k] => i = k
    BY <1>2, <1>8 DEF Once
  <2>2. 1..Len(Pending') = 1..Len(Pending) \cup {Len(Pending) + 1}
    BY <1>9
  <2>3. \A i, k \in 1..Len(Pending') : Pending'[i] = Pending'[k] => i = k
    BY <1>9, <2>1, <2>2
  <2>4. \A i \in 1..Len(Pending') : Pending'[i] \in Queued'
    BY <1>8, <1>9, <2>1, <2>2
  <2>5. Undisturbed' => \A k \in Queued' : \E i \in 1..Len(Pending') : Pending'[i] = k
    BY <1>2, <1>8, <1>9, <1>10, <2>2 DEF Once
  <2> QED
    BY <2>3, <2>4, <2>5 DEF Once
<1>12. Holding' = Holding /\ Refused' = Refused
  BY <1>1, <1>4, <1>7 DEF Holding, Reserved, Owned, Refused, wvars
<1> QED
  BY <1>1, <1>2, <1>3, <1>5, <1>6, <1>11, <1>12, LedgerSame DEF IInv

LEMMA HandlerKeeps ==
    ASSUME IInv, NEW j \in Jobs, Handler(j)
    PROVE  IInv'
<1>1. /\ request \in [Jobs -> RequestStates] /\ free \in Nat
      /\ status \in [Jobs -> {"none", "QUEUED", "RUNNING", "FINISHED", "ERROR"}]
  BY DEF IInv, TypeOK
<1>2. TypeOK /\ ReservationLedger /\ Once /\ WorkerOK
  BY DEF IInv
<1>3. request[j] # "accepted" => thread[j] = "none" /\ ~Owned(j)
  BY DEF IInv, ThreadOK, WorkerOK, Owned
<1>4. ASSUME NEW r \in RequestStates, request' = [request EXCEPT ![j] = r],
             r # "accepted", request[j] # "accepted", UNCHANGED <<wvars, thread>>
      PROVE  /\ request'[j] = r
             /\ \A k \in Jobs \ {j} : Reserved(k)' <=> Reserved(k)
             /\ Reserved(j) <=> request[j] \in {"reserved", "planned"}
             /\ Reserved(j)' <=> r \in {"reserved", "planned"}
             /\ Refused' \ {j} = Refused \ {j}
             /\ j \in Refused <=> request[j] = "refused"
             /\ j \in Refused' <=> r = "refused"
  BY <1>1, <1>3, <1>4 DEF Reserved, Owned, wvars, Refused
<1>5. CASE Reserve(j)
  <2>1. CASE shutdown \/ free = 0
    <3>1. /\ request[j] = "new" /\ request' = [request EXCEPT ![j] = "full"] /\ free' = free
          /\ UNCHANGED <<lvars, soon, queue, wvars, thread, slots, kept>>
      BY <1>5, <2>1 DEF Reserve
    <3>2. TypeOK' /\ WorkerOK' /\ ThreadOK' /\ HolderOK' /\ SettledOK' /\ Once'
      BY <1>1, <3>1, RequestKeeps DEF RequestStates, kept
    <3>3. Holding' = Holding /\ Refused' = Refused
      BY <3>1, <1>4 DEF Holding, RequestStates
    <3> QED
      BY <1>2, <3>1, <3>2, <3>3, LedgerSame DEF IInv
  <2>2. CASE ~(shutdown \/ free = 0)
    <3>1. /\ request[j] = "new" /\ request' = [request EXCEPT ![j] = "reserved"]
          /\ free' = free - 1 /\ free # 0
          /\ UNCHANGED <<lvars, soon, queue, wvars, thread, slots, kept>>
      BY <1>5, <2>2 DEF Reserve
    <3>0. free' \in Nat
      BY <1>1, <3>1
    <3>2. TypeOK' /\ WorkerOK' /\ ThreadOK' /\ HolderOK' /\ SettledOK' /\ Once'
      BY <1>1, <3>0, <3>1, RequestKeeps DEF RequestStates, kept
    <3>3. Holding' = Holding \cup {j} /\ Refused' = Refused /\ ~Reserved(j)
      BY <3>1, <1>4 DEF Holding, RequestStates
    <3> QED
      BY <1>2, <3>1, <3>2, <3>3, LedgerTaken DEF IInv
  <2> QED
    BY <2>1, <2>2
<1>6. CASE Plan(j)
  <2>1. /\ request[j] = "reserved" /\ request' = [request EXCEPT ![j] = "planned"]
        /\ status' = [status EXCEPT ![j] = "QUEUED"]
        /\ UNCHANGED <<free, lvars, soon, queue, wvars, thread, slots, unmarked>>
    BY <1>6 DEF Plan
  <2>2. TypeOK' /\ WorkerOK' /\ ThreadOK' /\ HolderOK' /\ SettledOK' /\ Once'
    BY <1>1, <2>1, RequestKeeps DEF RequestStates, kept
  <2>3. Holding' = Holding /\ Refused' = Refused
    BY <2>1, <1>4 DEF Holding, RequestStates
  <2> QED
    BY <1>2, <2>1, <2>2, <2>3, LedgerSame DEF IInv
<1>7. CASE PlanRaises(j)
  <2>1. /\ request[j] = "reserved" /\ request' = [request EXCEPT ![j] = "missing"]
        /\ free' = free + 1
        /\ UNCHANGED <<lvars, soon, queue, wvars, thread, slots, kept>>
    BY <1>7 DEF PlanRaises
  <2>0. free' \in Nat
    BY <1>1, <2>1
  <2>2. TypeOK' /\ WorkerOK' /\ ThreadOK' /\ HolderOK' /\ SettledOK' /\ Once'
    BY <1>1, <2>0, <2>1, RequestKeeps DEF RequestStates, kept
  <2>3. Holding' = Holding \ {j} /\ Refused' = Refused /\ Reserved(j)
    BY <2>1, <1>4 DEF Holding, RequestStates
  <2> QED
    BY <1>2, <2>1, <2>2, <2>3, LedgerReturned DEF IInv
<1>8. CASE Enqueue(j)
  BY <1>8, EnqueueKeeps
<1>9. CASE EnqueueRefused(j)
  <2>1. /\ request[j] = "planned" /\ request' = [request EXCEPT ![j] = "refused"]
        /\ free' = free + 2
        /\ UNCHANGED <<lvars, soon, queue, wvars, thread, slots, kept>>
    BY <1>9 DEF EnqueueRefused
  <2>0. free' \in Nat
    BY <1>1, <2>1
  <2>2. TypeOK' /\ WorkerOK' /\ ThreadOK' /\ HolderOK' /\ SettledOK' /\ Once'
    BY <1>1, <2>0, <2>1, RequestKeeps DEF RequestStates, kept
  <2>3. /\ Holding' = Holding \ {j} /\ Refused' = Refused \cup {j}
        /\ Reserved(j) /\ j \notin Refused
    BY <2>1, <1>4 DEF Holding, RequestStates, Refused
  <2> QED
    BY <1>2, <2>1, <2>2, <2>3, LedgerRefused DEF IInv
<1> QED
  BY <1>5, <1>6, <1>7, <1>8, <1>9 DEF Handler

-----------------------------------------------------------------------------
(* The pool threads and the synchronous requests.                          *)

LEMMA ThreadKeeps ==
    ASSUME IInv, NEW j \in Jobs, Thread(j)
    PROVE  IInv'
<1> DEFINE Places == {"none", "acquiring", "acquired", "running",
                      "executing", "stored", "done", "raised"}
<1>1. TypeOK /\ WorkerOK /\ ThreadOK /\ HolderOK /\ SettledOK /\ Once /\ ReservationLedger
  BY DEF IInv
<1>2. /\ thread \in [Jobs -> Places]
      /\ status \in [Jobs -> {"none", "QUEUED", "RUNNING", "FINISHED", "ERROR"}]
  BY <1>1 DEF TypeOK
<1>3. /\ UNCHANGED <<rvars, lvars, soon, queue, wvars, syncing, unmarked>>
      /\ thread[j] \notin {"none", "acquired", "done", "raised"}
      /\ thread' = [thread EXCEPT ![j] = thread'[j]]
      /\ status' \in [Jobs -> {"none", "QUEUED", "RUNNING", "FINISHED", "ERROR"}]
      /\ \A k \in Jobs \ {j} : status'[k] = status[k]
      /\ thread[j] \in {"running", "executing", "stored"}
           => \/ thread'[j] \in {"stored", "done"} /\ status'[j] \in Final
              \/ thread'[j] \in {"executing", "raised"}
      /\ \/ /\ thread[j] = "acquiring" /\ thread'[j] = "acquired"
            /\ Acquire
         \/ /\ thread[j] \in {"running", "executing", "stored"} /\ in_use' = in_use
            /\ thread'[j] \in {"executing", "stored", "done", "raised"}
  <2>1. CASE ThreadAcquires(j)
    BY <1>2, <2>1 DEF ThreadAcquires, kept
  <2>2. CASE ThreadRuns(j)
    BY <1>2, <2>2 DEF ThreadRuns, slots
  <2>3. CASE ThreadFinishes(j)
    BY <1>2, <2>3 DEF ThreadFinishes, slots, Final
  <2>4. CASE ThreadReturns(j)
    BY <1>1, <1>2, <2>4 DEF ThreadReturns, slots, kept, SettledOK
  <2>5. CASE ThreadRaises(j)
    BY <1>2, <2>5 DEF ThreadRaises, slots, kept
  <2> QED
    BY <2>1, <2>2, <2>3, <2>4, <2>5 DEF Thread
<1>4. /\ \A k \in Jobs : thread'[k] = IF k = j THEN thread'[j] ELSE thread[k]
      /\ thread'[j] \in Places /\ thread[j] # "none" /\ thread'[j] # "none"
      /\ worker' = worker /\ cancelled' = cancelled /\ request' = request /\ free' = free
      /\ shutdown' = shutdown /\ starts' = starts
      /\ syncing' = syncing /\ unmarked' = unmarked
  BY <1>2, <1>3 DEF rvars, lvars, wvars
<1>8. HolderOK' /\ in_use' \in 0..Capacity
  <2>0. j \notin Syncs
    BY JobsAssumption
  <2>1. CASE thread[j] = "acquiring"
    <3>1. thread'[j] = "acquired" /\ Acquire
      BY <1>3, <2>1
    <3>2. worker.at = "run" => worker.job # j
      BY <1>1, <2>1 DEF WorkerOK
    <3>3. j \notin Holders /\ Holders' = Holders \cup {j}
      BY <1>1, <1>4, <2>0, <2>1, <3>1, <3>2 DEF Holders, TypeOK
    <3> QED
      BY <1>1, <3>1, <3>3, HolderAdded
  <2>2. CASE thread[j] # "acquiring"
    <3>1. in_use' = in_use /\ thread[j] # "acquired" /\ thread'[j] # "acquired"
      BY <1>3, <2>2
    <3>2. Holders' = Holders
      BY <1>4, <3>1 DEF Holders
    <3> QED
      BY <1>1, <3>1, <3>2 DEF HolderOK, TypeOK
  <2> QED
    BY <2>1, <2>2
<1>5. TypeOK'
  BY <1>1, <1>2, <1>3, <1>4, <1>8 DEF TypeOK
<1>6. WorkerOK'
  BY <1>1, <1>3, <1>4 DEF WorkerOK
<1>7. ThreadOK'
  BY <1>1, <1>3, <1>4 DEF ThreadOK, Owned, InRun
<1>11. SettledOK'
  <2>1. thread[j] \in InRun /\ starts <= 1 /\ ~shutdown => Owned(j)
    BY <1>1 DEF ThreadOK
  <2>2. thread'[j] = "raised" => thread[j] \in InRun
    BY <1>3 DEF InRun
  <2> QED
    BY <1>1, <1>3, <1>4, <2>1, <2>2 DEF SettledOK, Owned, InRun
<1>9. Queued' = Queued /\ (Undisturbed' => Undisturbed)
  BY <1>4 DEF Queued, Undisturbed, Refused
<1>10. Holding' = Holding /\ Refused' = Refused
  BY <1>4 DEF Holding, Reserved, Owned, Refused
<1> QED
  BY <1>1, <1>3, <1>4, <1>5, <1>6, <1>7, <1>8, <1>9, <1>10, <1>11, OnceSame, LedgerSame DEF IInv

LEMMA SyncKeeps ==
    ASSUME IInv, NEW s \in Syncs, SyncAcquires(s) \/ SyncReleases(s)
    PROVE  IInv'
<1>1. TypeOK /\ WorkerOK /\ ThreadOK /\ HolderOK /\ SettledOK /\ Once /\ ReservationLedger
  BY DEF IInv
<1>2. /\ UNCHANGED <<rvars, lvars, soon, queue, wvars, thread, kept>>
      /\ \/ s \notin syncing /\ syncing' = syncing \cup {s} /\ Acquire
         \/ s \in syncing /\ syncing' = syncing \ {s} /\ Release
  BY DEF SyncAcquires, SyncReleases
<1>3. /\ worker' = worker /\ cancelled' = cancelled /\ request' = request /\ free' = free
      /\ shutdown' = shutdown /\ starts' = starts /\ soon' = soon /\ queue' = queue
      /\ thread' = thread /\ status' = status /\ unmarked' = unmarked
  BY <1>2 DEF rvars, lvars, wvars, kept
<1>6. HolderOK' /\ in_use' \in 0..Capacity
  <2>0. s \notin Jobs
    BY JobsAssumption
  <2>1. CASE s \notin syncing
    <3>1. s \notin Holders /\ Holders' = Holders \cup {s} /\ Acquire
      BY <1>2, <1>3, <2>0, <2>1 DEF Holders
    <3> QED
      BY <1>1, <3>1, HolderAdded
  <2>2. CASE s \in syncing
    <3>1. s \in Holders /\ Holders' = Holders \ {s} /\ Release
      BY <1>2, <1>3, <2>0, <2>2 DEF Holders
    <3> QED
      BY <1>1, <3>1, HolderRemoved
  <2> QED
    BY <2>1, <2>2
<1>4. TypeOK'
  <2>1. syncing' \subseteq Syncs
    BY <1>1, <1>2 DEF TypeOK
  <2> QED
    BY <1>1, <1>3, <1>6, <2>1 DEF TypeOK
<1>5. WorkerOK' /\ ThreadOK' /\ SettledOK'
  BY <1>1, <1>3 DEF WorkerOK, ThreadOK, SettledOK, Owned
<1>7. Queued' = Queued /\ (Undisturbed' => Undisturbed)
  BY <1>3 DEF Queued, Undisturbed, Refused
<1>8. Holding' = Holding /\ Refused' = Refused
  BY <1>3 DEF Holding, Reserved, Owned, Refused
<1> QED
  BY <1>1, <1>3, <1>4, <1>5, <1>6, <1>7, <1>8, OnceSame, LedgerSame DEF IInv

-----------------------------------------------------------------------------
(* The loop.                                                               *)

\* The job taken is the first.
LEMMA FirstPending ==
    ASSUME TypeOK, Once, queue # <<>>
    PROVE  /\ Head(queue) \in Jobs /\ Tail(queue) \in Seq(Jobs)
           /\ Head(queue) \in Queued
           /\ Tail(queue) \o soon \in Seq(Jobs)
           /\ Len(Tail(queue) \o soon) = Len(Pending) - 1 /\ Len(Pending) \in Nat \ {0}
           /\ Pending[1] = Head(queue)
           /\ \A i \in 1..(Len(Pending) - 1) : (Tail(queue) \o soon)[i] = Pending[i + 1]
<1>1. queue \in Seq(Jobs) /\ soon \in Seq(Jobs)
  BY DEF TypeOK
<1>2. /\ Head(queue) \in Jobs /\ Tail(queue) \in Seq(Jobs)
      /\ Len(Tail(queue)) = Len(queue) - 1 /\ Len(queue) \in Nat \ {0}
      /\ \A i \in 1..Len(Tail(queue)) : Tail(queue)[i] = queue[i + 1]
      /\ Head(queue) = queue[1]
  BY <1>1, HeadTailProperties, EmptySeq
<1>3. Len(soon) \in Nat
  BY <1>1, LenProperties
<1>4. /\ Tail(queue) \o soon \in Seq(Jobs)
      /\ Len(Tail(queue) \o soon) = Len(Tail(queue)) + Len(soon)
      /\ Len(Pending) = Len(queue) + Len(soon)
  BY <1>1, <1>2, Joined DEF Pending
<1>5. Len(Tail(queue) \o soon) = Len(Pending) - 1 /\ Len(Pending) \in Nat \ {0}
  BY <1>2, <1>3, <1>4
<1>6. Pending[1] = queue[1] /\ 1 \in 1..Len(Pending)
  <2>1. 1 \in 1..Len(queue)
    BY <1>2
  <2> QED
    BY <1>1, <1>5, <2>1, Joined DEF Pending
<1>7. \A i \in 1..(Len(Pending) - 1) : (Tail(queue) \o soon)[i] = Pending[i + 1]
  <2> TAKE i \in 1..(Len(Pending) - 1)
  <2>1. CASE i \in 1..Len(Tail(queue))
    <3>1. i + 1 \in 1..Len(queue)
      BY <1>2, <2>1
    <3>2. (Tail(queue) \o soon)[i] = Tail(queue)[i]
      BY <1>1, <1>2, <2>1, Joined
    <3>3. Pending[i + 1] = queue[i + 1]
      BY <1>1, <3>1, Joined DEF Pending
    <3> QED
      BY <1>2, <2>1, <3>2, <3>3
  <2>2. CASE i \notin 1..Len(Tail(queue))
    <3>1. /\ i \in 1..Len(Tail(queue) \o soon) /\ i + 1 \in 1..Len(Pending)
          /\ i + 1 \notin 1..Len(queue) /\ i - Len(Tail(queue)) = (i + 1) - Len(queue)
      BY <1>2, <1>5, <2>2
    <3>2. (Tail(queue) \o soon)[i] = soon[i - Len(Tail(queue))]
      BY <1>1, <1>2, <2>2, <3>1, Joined
    <3>3. Pending[i + 1] = soon[(i + 1) - Len(queue)]
      BY <1>1, <3>1, Joined DEF Pending
    <3> QED
      BY <3>1, <3>2, <3>3
  <2> QED
    BY <2>1, <2>2
<1>8. Head(queue) \in Queued
  BY <1>2, <1>6 DEF Once
<1> QED
  BY <1>2, <1>4, <1>5, <1>6, <1>7, <1>8

\* What is left of the pending jobs is pending once.
LEMMA OnceKept ==
    ASSUME Once, NEW m \in [1..Len(Pending') -> 1..Len(Pending)],
           \A i, k \in 1..Len(Pending') : m[i] = m[k] => i = k,
           \A i \in 1..Len(Pending') : Pending'[i] = Pending[m[i]]
    PROVE  /\ \A i, k \in 1..Len(Pending') : Pending'[i] = Pending'[k] => i = k
           /\ \A i \in 1..Len(Pending') : Pending'[i] \in Queued
<1>1. \A i \in 1..Len(Pending') : m[i] \in 1..Len(Pending)
  OBVIOUS
<1>2. \A i \in 1..Len(Pending') : Pending'[i] \in Queued
  BY <1>1 DEF Once
<1>3. ASSUME NEW i \in 1..Len(Pending'), NEW k \in 1..Len(Pending'), Pending'[i] = Pending'[k]
      PROVE  i = k
  <2>1. Pending[m[i]] = Pending[m[k]]
    BY <1>3
  <2>2. m[i] = m[k]
    BY <1>1, <2>1 DEF Once
  <2> QED
    BY <2>2
<1> QED
  BY <1>2, <1>3

\* A pending job has a reservation, and no two have the same.
LEMMA NeverFull ==
    ASSUME IInv
    PROVE  PutNeverFull /\ Len(soon) + Len(queue) <= MaxSize + Cardinality(Refused)
<1>1. TypeOK /\ Once /\ ReservationLedger
  BY DEF IInv
<1>2. Len(Pending) = Len(soon) + Len(queue) /\ Len(Pending) \in Nat
  BY <1>1, PendingElements
<1>3. \A i \in 1..Len(Pending) : Pending[i] \in Holding
  BY <1>1 DEF Once, Queued, Holding, Reserved
<1>4. Pending \in [1..Len(Pending) -> Holding]
  <2>1. Pending \in Seq(Jobs)
    BY <1>1, PendingElements
  <2>2. Pending \in [1..Len(Pending) -> Jobs]
    BY <2>1, LenProperties
  <2> QED
    BY <1>3, <2>2
<1>5. Pending \in Injection(1..Len(Pending), Holding)
  BY <1>1, <1>4 DEF Once, Injection, IsInjective
<1>6. Cardinality(1..Len(Pending)) <= Cardinality(Holding)
  BY <1>5, Counted, FS_Injection
<1>7. Cardinality(1..Len(Pending)) = Len(Pending)
  BY <1>2, FS_Interval
<1>8. Len(Pending) <= MaxSize + Cardinality(Refused)
  <2>1. free + Cardinality(Holding) = MaxSize + Cardinality(Refused)
    BY <1>1 DEF ReservationLedger, Holding
  <2>2. /\ free \in Nat /\ Cardinality(Holding) \in Nat /\ MaxSize \in Nat
        /\ Cardinality(Refused) \in Nat
    BY <1>1, Counted, SizesAssumption DEF TypeOK
  <2> QED
    BY <1>2, <1>6, <1>7, <2>1, <2>2
<1>9. ASSUME Refused = {} PROVE Len(Pending) <= MaxSize
  <2>1. Cardinality(Refused) = 0
    BY <1>9, FS_EmptySet
  <2> QED
    BY <1>2, <1>8, <2>1, SizesAssumption
<1> QED
  BY <1>2, <1>8, <1>9 DEF PutNeverFull, JobsWithinLimit

LEMMA PutKeeps ==
    ASSUME IInv, Put
    PROVE  IInv'
<1>1. TypeOK /\ WorkerOK /\ ThreadOK /\ HolderOK /\ SettledOK /\ Once /\ ReservationLedger
  BY DEF IInv
<1>2. /\ soon # <<>> /\ soon' = Tail(soon)
      /\ queue' = IF Len(queue) < MaxSize THEN Append(queue, Head(soon)) ELSE queue
      /\ worker' = worker /\ cancelled' = cancelled /\ request' = request /\ free' = free
      /\ shutdown' = shutdown /\ starts' = starts /\ thread' = thread /\ status' = status
      /\ in_use' = in_use /\ syncing' = syncing /\ unmarked' = unmarked
  BY DEF Put, rvars, lvars, wvars, slots, kept
<1>3. /\ queue \in Seq(Jobs) /\ soon \in Seq(Jobs) /\ Len(queue) \in Nat
  BY <1>1, LenProperties DEF TypeOK
<1>4. /\ Head(soon) \in Jobs /\ Tail(soon) \in Seq(Jobs) /\ Head(soon) = soon[1]
      /\ Len(Tail(soon)) = Len(soon) - 1 /\ Len(soon) \in Nat \ {0}
      /\ \A i \in 1..Len(Tail(soon)) : Tail(soon)[i] = soon[i + 1]
  BY <1>2, <1>3, HeadTailProperties, EmptySeq
<1>5. /\ Append(queue, Head(soon)) \in Seq(Jobs)
      /\ Len(Append(queue, Head(soon))) = Len(queue) + 1
      /\ \A i \in 1..Len(queue) : Append(queue, Head(soon))[i] = queue[i]
      /\ Append(queue, Head(soon))[Len(queue) + 1] = Head(soon)
  BY <1>3, <1>4, AppendProperties
<1>6. queue' \in Seq(Jobs) /\ soon' \in Seq(Jobs)
  BY <1>2, <1>3, <1>4, <1>5
<1>7. TypeOK' /\ WorkerOK' /\ ThreadOK' /\ HolderOK' /\ SettledOK'
  BY <1>1, <1>2, <1>6 DEF TypeOK, WorkerOK, ThreadOK, HolderOK, Holders, SettledOK, Owned
<1>8. /\ Queued' = Queued /\ (Undisturbed' <=> Undisturbed)
      /\ Holding' = Holding /\ Refused' = Refused
  BY <1>2 DEF Queued, Undisturbed, Holding, Reserved, Owned, Refused
<1>9. Len(Pending) = Len(queue) + Len(soon)
  BY <1>3, Joined DEF Pending
<1>10. /\ \A i \in 1..Len(queue) : Pending[i] = queue[i]
       /\ \A i \in 1..Len(soon) : Pending[Len(queue) + i] = soon[i]
  BY <1>3, Joined DEF Pending
<1>11. Once'
  <2>1. CASE Len(queue) < MaxSize
    <3>1. Pending' = Append(queue, Head(soon)) \o Tail(soon)
      BY <1>2, <2>1 DEF Pending
    <3>2. Len(Pending') = Len(Pending)
      BY <1>3, <1>4, <1>5, <1>9, <3>1, Joined
    <3>3. \A i \in 1..Len(Pending) : Pending'[i] = Pending[i]
      <4> TAKE i \in 1..Len(Pending)
      <4>1. CASE i \in 1..Len(queue)
        <5>1. i \in 1..Len(Append(queue, Head(soon)))
          BY <1>3, <1>5, <4>1
        <5> QED
          BY <1>4, <1>5, <1>10, <3>1, <4>1, <5>1, Joined
      <4>2. CASE i = Len(queue) + 1
        <5>1. i \in 1..Len(Append(queue, Head(soon))) /\ 1 \in 1..Len(soon)
          BY <1>3, <1>4, <1>5, <4>2
        <5>2. Pending'[i] = soon[1]
          BY <1>4, <1>5, <3>1, <4>2, <5>1, Joined
        <5> QED
          BY <1>10, <4>2, <5>1, <5>2
      <4>3. CASE i \notin 1..(Len(queue) + 1)
        <5>1. /\ i \in 1..Len(Pending') /\ i \notin 1..Len(Append(queue, Head(soon)))
              /\ i - (Len(queue) + 1) \in 1..Len(Tail(soon))
          BY <1>3, <1>4, <1>5, <1>9, <3>2, <4>3
        <5>2. Pending'[i] = Tail(soon)[i - (Len(queue) + 1)]
          BY <1>4, <1>5, <3>1, <5>1, Joined
        <5>3. Tail(soon)[i - (Len(queue) + 1)] = soon[(i - (Len(queue) + 1)) + 1]
          BY <1>4, <5>1
        <5>4. /\ (i - (Len(queue) + 1)) + 1 \in 1..Len(soon)
              /\ Len(queue) + ((i - (Len(queue) + 1)) + 1) = i
          BY <1>3, <1>4, <5>1
        <5> QED
          BY <1>10, <5>2, <5>3, <5>4
      <4>4. i \in 1..Len(queue) \/ i = Len(queue) + 1 \/ i \notin 1..(Len(queue) + 1)
        BY <1>3
      <4> QED
        BY <4>1, <4>2, <4>3, <4>4
    <3> QED
      BY <1>1, <1>8, <3>2, <3>3 DEF Once
  <2>2. CASE ~(Len(queue) < MaxSize)
    <3> DEFINE m == [i \in 1..Len(Pending') |-> IF i <= Len(queue) THEN i ELSE i + 1]
    <3>1. ~Undisturbed
      <4>1. MaxSize \in Nat
        BY SizesAssumption
      <4>2. ~(Len(soon) + Len(queue) <= MaxSize)
        BY <1>3, <1>4, <2>2, <4>1
      <4> QED
        BY <4>2, NeverFull DEF PutNeverFull, JobsWithinLimit, Undisturbed
    <3>2. queue' = queue /\ Pending' = queue \o Tail(soon)
      BY <1>2, <2>2 DEF Pending
    <3>3. Len(Pending') = Len(queue) + Len(Tail(soon)) /\ Len(Tail(soon)) \in Nat
      BY <1>3, <1>4, <3>2, Joined
    <3>4. Len(Pending') = Len(Pending) - 1 /\ Len(Pending) \in Nat
      BY <1>3, <1>4, <1>9, <3>3
    <3>5. /\ m \in [1..Len(Pending') -> 1..Len(Pending)]
          /\ \A i, k \in 1..Len(Pending') : m[i] = m[k] => i = k
      BY <1>3, <3>4
    <3>6. \A i \in 1..Len(Pending') : Pending'[i] = Pending[m[i]]
      <4> TAKE i \in 1..Len(Pending')
      <4>1. CASE i \in 1..Len(queue)
        BY <1>3, <1>4, <1>10, <3>2, <4>1, Joined
      <4>2. CASE i \notin 1..Len(queue)
        <5>1. i - Len(queue) \in 1..Len(Tail(soon))
          BY <1>3, <3>3, <4>2
        <5>2. Pending'[i] = Tail(soon)[i - Len(queue)]
          BY <1>3, <1>4, <3>2, <4>2, Joined
        <5>3. Tail(soon)[i - Len(queue)] = soon[(i - Len(queue)) + 1]
          BY <1>4, <5>1
        <5>4. /\ (i - Len(queue)) + 1 \in 1..Len(soon)
              /\ Len(queue) + ((i - Len(queue)) + 1) = i + 1 /\ m[i] = i + 1
          BY <1>3, <1>4, <4>2, <5>1
        <5> QED
          BY <1>10, <5>2, <5>3, <5>4
      <4> QED
        BY <4>1, <4>2
    <3> HIDE DEF m
    <3>7. /\ \A i, k \in 1..Len(Pending') : Pending'[i] = Pending'[k] => i = k
          /\ \A i \in 1..Len(Pending') : Pending'[i] \in Queued
      BY <1>1, <3>5, <3>6, OnceKept
    <3> QED
      BY <1>8, <3>1, <3>7 DEF Once
  <2> QED
    BY <2>1, <2>2
<1> QED
  BY <1>1, <1>2, <1>7, <1>8, <1>11, LedgerSame DEF IInv

LEMMA WorkerGetKeeps ==
    ASSUME IInv, WorkerGet
    PROVE  IInv'
<1> DEFINE job == Head(queue)
<1>1. TypeOK /\ WorkerOK /\ ThreadOK /\ HolderOK /\ SettledOK /\ Once /\ ReservationLedger
  BY DEF IInv
<1>2. /\ worker.at = "get" /\ ~cancelled /\ queue # <<>>
      /\ queue' = Tail(queue) /\ worker' = [at |-> "acquire", job |-> job]
      /\ thread' = [thread EXCEPT ![job] = "acquiring"]
      /\ cancelled' = cancelled /\ request' = request /\ free' = free /\ soon' = soon
      /\ shutdown' = shutdown /\ starts' = starts /\ status' = status
      /\ in_use' = in_use /\ syncing' = syncing /\ unmarked' = unmarked
  BY DEF WorkerGet, rvars, lvars, slots, kept
<1>3. /\ job \in Jobs /\ Tail(queue) \in Seq(Jobs) /\ job \in Queued
      /\ Len(Tail(queue) \o soon) = Len(Pending) - 1 /\ Len(Pending) \in Nat \ {0}
      /\ Pending[1] = job
      /\ \A i \in 1..(Len(Pending) - 1) : (Tail(queue) \o soon)[i] = Pending[i + 1]
  BY <1>1, <1>2, FirstPending
<1>4. Pending' = Tail(queue) \o soon
  BY <1>2 DEF Pending
<1> HIDE DEF job
<1>5. /\ \A k \in Jobs : thread'[k] = IF k = job THEN "acquiring" ELSE thread[k]
      /\ request[job] = "accepted" /\ thread[job] = "none"
      /\ worker'.at = "acquire" /\ worker'.job = job
  BY <1>1, <1>2, <1>3 DEF TypeOK, Queued
<1>6. TypeOK'
  BY <1>1, <1>2, <1>3 DEF TypeOK
<1>7. WorkerOK'
  BY <1>1, <1>2, <1>3, <1>5 DEF WorkerOK
<1>8. ThreadOK'
  BY <1>1, <1>2, <1>3, <1>5 DEF ThreadOK, Owned
<1>9. HolderOK' /\ SettledOK'
  <2>1. Holders' = Holders
    BY <1>1, <1>2, <1>3, <1>5 DEF Holders
  <2> QED
    BY <1>1, <1>2, <1>3, <1>5, <2>1 DEF HolderOK, SettledOK, Owned
<1>10. Queued' = Queued \ {job}
  BY <1>2, <1>3, <1>5 DEF Queued
<1>11. Once'
  <2> DEFINE m == [i \in 1..Len(Pending') |-> i + 1]
  <2>1. /\ m \in [1..Len(Pending') -> 1..Len(Pending)]
        /\ \A i, k \in 1..Len(Pending') : m[i] = m[k] => i = k
        /\ \A i \in 1..Len(Pending') : Pending'[i] = Pending[m[i]]
    <3>1. Len(Pending') = Len(Pending) - 1
      BY <1>3, <1>4
    <3>2. \A i \in 1..Len(Pending') : i + 1 \in 1..Len(Pending)
      BY <1>3, <3>1
    <3>3. \A i \in 1..Len(Pending') : Pending'[i] = Pending[i + 1]
      BY <1>3, <1>4, <3>1
    <3> QED
      BY <3>2, <3>3
  <2>2. \A i \in 1..Len(Pending') : m[i] # 1 /\ 1 \in 1..Len(Pending)
    BY <1>3
  <2>3. \A k \in 1..Len(Pending) : k # 1 => k - 1 \in 1..Len(Pending') /\ m[k - 1] = k
    BY <1>3, <1>4
  <2> HIDE DEF m
  <2>4. /\ \A i, k \in 1..Len(Pending') : Pending'[i] = Pending'[k] => i = k
        /\ \A i \in 1..Len(Pending') : Pending'[i] \in Queued
    BY <1>1, <2>1, OnceKept
  <2>5. \A i \in 1..Len(Pending') : Pending'[i] # job
    <3> TAKE i \in 1..Len(Pending')
    <3>1. m[i] \in 1..Len(Pending) /\ m[i] # 1 /\ 1 \in 1..Len(Pending)
      BY <2>1, <2>2
    <3>2. Pending[m[i]] # Pending[1]
      BY <1>1, <3>1 DEF Once
    <3> QED
      BY <1>3, <2>1, <3>2
  <2>6. ASSUME Undisturbed', NEW j \in Queued'
        PROVE  \E i \in 1..Len(Pending') : Pending'[i] = j
    <3>1. Undisturbed
      BY <1>2, <2>6 DEF Undisturbed, Refused
    <3>2. PICK k \in 1..Len(Pending) : Pending[k] = j
      BY <1>1, <1>10, <3>1 DEF Once
    <3>3. k # 1
      BY <1>3, <1>10, <3>2
    <3> QED
      BY <2>1, <2>3, <3>2, <3>3
  <2> QED
    BY <1>10, <2>4, <2>5, <2>6 DEF Once
<1>12. Holding' = Holding /\ Refused' = Refused
  BY <1>1, <1>2, <1>3, <1>5 DEF Holding, Reserved, Owned, Refused
<1> QED
  BY <1>1, <1>2, <1>6, <1>7, <1>8, <1>9, <1>11, <1>12, LedgerSame DEF IInv

LEMMA WorkerRunKeeps ==
    ASSUME IInv, WorkerRun
    PROVE  IInv'
<1>1. TypeOK /\ WorkerOK /\ ThreadOK /\ HolderOK /\ SettledOK /\ Once /\ ReservationLedger
  BY DEF IInv
<1>2. /\ worker.at = "acquire" /\ ~cancelled /\ thread[worker.job] = "acquired"
      /\ worker' = [worker EXCEPT !.at = "run"]
      /\ thread' = [thread EXCEPT ![worker.job] = "running"]
      /\ cancelled' = cancelled /\ request' = request /\ free' = free /\ soon' = soon
      /\ queue' = queue
      /\ shutdown' = shutdown /\ starts' = starts /\ status' = status
      /\ in_use' = in_use /\ syncing' = syncing /\ unmarked' = unmarked
  BY DEF WorkerRun, rvars, lvars, slots, kept
<1>3. /\ worker.job \in Jobs /\ worker'.at = "run" /\ worker'.job = worker.job
      /\ \A k \in Jobs : thread'[k] = IF k = worker.job THEN "running" ELSE thread[k]
  BY <1>1, <1>2 DEF TypeOK, WorkerOK
<1>4. TypeOK'
  BY <1>1, <1>2, <1>3 DEF TypeOK
<1>5. WorkerOK' /\ ThreadOK' /\ HolderOK' /\ SettledOK'
  <2>1. Holders' = Holders
    BY <1>1, <1>2, <1>3 DEF Holders
  <2> QED
    BY <1>1, <1>2, <1>3, <2>1 DEF WorkerOK, ThreadOK, HolderOK, SettledOK, Owned
<1>6. /\ Queued' = Queued /\ (Undisturbed' => Undisturbed)
      /\ Holding' = Holding /\ Refused' = Refused
  BY <1>1, <1>2, <1>3 DEF Queued, Undisturbed, Holding, Reserved, Owned, Refused
<1> QED
  BY <1>1, <1>2, <1>4, <1>5, <1>6, OnceSame, LedgerSame DEF IInv

\* The task lets go of its job and gives back the reservation, and the slot of
\* one that it has run.
LEMMA LetGoKeeps ==
    ASSUME IInv, worker.at \in {"acquire", "run"},
           worker' \in [at : {"down", "get"}, job : {NoJob}],
           cancelled' = FALSE,
           starts <= 1 /\ ~shutdown => thread[worker.job] \in {"done", "raised"},
           IF worker.at = "run" THEN Release ELSE in_use' = in_use,
           free' = free + 1,
           status' \in [Jobs -> {"none", "QUEUED", "RUNNING", "FINISHED", "ERROR"}],
           \A k \in Jobs : status'[k] = status[k] \/ status'[k] \in Final,
           unmarked' \in {unmarked, unmarked \cup {worker.job}},
           starts <= 1 /\ ~shutdown /\ thread[worker.job] = "raised" =>
             status'[worker.job] \in Final \/ worker.job \in unmarked',
           UNCHANGED <<request, lvars, soon, queue, thread, syncing>>
    PROVE  IInv'
<1>1. TypeOK /\ WorkerOK /\ ThreadOK /\ HolderOK /\ SettledOK /\ Once /\ ReservationLedger
  BY DEF IInv
<1>2. /\ request' = request /\ shutdown' = shutdown /\ starts' = starts /\ soon' = soon
      /\ queue' = queue /\ thread' = thread /\ syncing' = syncing
  BY DEF lvars
<1>3. /\ worker.job \in Jobs /\ worker'.at \in {"down", "get"} /\ worker'.job = NoJob
      /\ thread[worker.job] # "none" /\ request[worker.job] = "accepted"
  BY <1>1 DEF WorkerOK, ThreadOK
<1>9. HolderOK' /\ in_use' \in 0..Capacity
  <2>1. CASE worker.at = "run"
    <3>1. worker.job \in Holders /\ worker.job \notin syncing /\ thread[worker.job] # "acquired"
      BY <1>1, <1>3, <2>1, JobsAssumption DEF Holders, WorkerOK, TypeOK
    <3>2. Holders' = Holders \ {worker.job}
      BY <1>2, <1>3, <2>1, <3>1 DEF Holders
    <3> QED
      BY <1>1, <2>1, <3>1, <3>2, HolderRemoved
  <2>2. CASE worker.at = "acquire"
    <3>1. in_use' = in_use /\ Holders' = Holders
      BY <1>2, <1>3, <2>2 DEF Holders
    <3> QED
      BY <1>1, <3>1 DEF HolderOK, TypeOK
  <2> QED
    BY <2>1, <2>2
<1>4. TypeOK'
  <2>1. free' \in Nat
    BY <1>1 DEF TypeOK
  <2>2. unmarked' \subseteq Jobs
    BY <1>1, <1>3 DEF TypeOK
  <2> QED
    BY <1>1, <1>2, <1>9, <2>1, <2>2 DEF TypeOK
<1>5. WorkerOK'
  BY <1>1, <1>2, <1>3 DEF WorkerOK
<1>6. ThreadOK'
  BY <1>1, <1>2, <1>3 DEF WorkerOK, ThreadOK, Owned, InRun
<1>10. SettledOK'
  <2>1. \A j \in Jobs : thread'[j] \in {"stored", "done"} => status'[j] \in Final
    BY <1>1, <1>2 DEF SettledOK
  <2>2. ASSUME NEW j \in Jobs, starts <= 1, ~shutdown, thread[j] = "raised"
        PROVE  status'[j] \in Final \/ j \in unmarked'
    <3>1. CASE j = worker.job
      BY <2>2, <3>1
    <3>2. CASE j # worker.job
      BY <1>1, <2>2, <3>2 DEF SettledOK, Owned
    <3> QED
      BY <3>1, <3>2
  <2> QED
    BY <1>2, <2>1, <2>2 DEF SettledOK
<1>7. Queued' = Queued /\ (Undisturbed' => Undisturbed) /\ Refused' = Refused
  BY <1>2 DEF Queued, Undisturbed, Refused
<1>8. Holding' = Holding \ {worker.job} /\ Reserved(worker.job)
  BY <1>2, <1>3 DEF Holding, Reserved, Owned
<1> QED
  BY <1>1, <1>2, <1>3, <1>4, <1>5, <1>6, <1>7, <1>8, <1>9, <1>10, OnceSame, LedgerReturned
     DEF IInv

LEMMA WorkerDoneKeeps ==
    ASSUME IInv, WorkerDone
    PROVE  IInv'
<1>1. TypeOK /\ WorkerOK
  BY DEF IInv
<1>2. /\ worker.at = "run" /\ cancelled' = FALSE
      /\ thread[worker.job] \in {"done", "raised"}
      /\ worker' \in [at : {"down", "get"}, job : {NoJob}]
      /\ Release /\ free' = free + 1
      /\ UNCHANGED <<request, lvars, soon, queue, thread, syncing>>
  BY <1>1 DEF WorkerDone, Over, TypeOK
<1>3. /\ status' \in [Jobs -> {"none", "QUEUED", "RUNNING", "FINISHED", "ERROR"}]
      /\ \A k \in Jobs : status'[k] = status[k] \/ status'[k] \in Final
      /\ unmarked' \in {unmarked, unmarked \cup {worker.job}}
      /\ thread[worker.job] = "raised" =>
           status'[worker.job] \in Final \/ worker.job \in unmarked'
  <2>1. worker.job \in Jobs
    BY <1>1, <1>2 DEF WorkerOK
  <2> QED
    BY <1>1, <2>1 DEF WorkerDone, TypeOK, kept, Final
<1> QED
  BY <1>2, <1>3, LetGoKeeps

LEMMA WorkerCancelledKeeps ==
    ASSUME IInv, WorkerCancelled
    PROVE  IInv'
<1>1. TypeOK /\ WorkerOK /\ ThreadOK /\ HolderOK /\ SettledOK /\ Once /\ ReservationLedger
  BY DEF IInv
<1>2. /\ cancelled /\ cancelled' = FALSE /\ worker' = [at |-> "down", job |-> NoJob]
      /\ UNCHANGED <<request, lvars, soon, queue, thread, syncing, kept>>
      /\ worker.at \in {"get", "acquire", "run"} /\ shutdown
  BY <1>1 DEF WorkerCancelled, WorkerOK, TypeOK
<1>3. CASE worker.at = "get"
  <2>1. free' = free /\ in_use' = in_use
    BY <1>3 DEF WorkerCancelled
  <2>2. /\ request' = request /\ shutdown' = shutdown /\ starts' = starts /\ soon' = soon
        /\ queue' = queue /\ thread' = thread /\ status' = status
        /\ syncing' = syncing /\ unmarked' = unmarked
        /\ worker'.at = "down" /\ worker'.job = NoJob
    BY <1>2 DEF lvars, kept
  <2>3. TypeOK'
    BY <1>1, <1>2, <2>1, <2>2 DEF TypeOK
  <2>4. WorkerOK' /\ ThreadOK' /\ HolderOK' /\ SettledOK'
    <3>1. Holders' = Holders
      BY <1>3, <2>2 DEF Holders
    <3> QED
      BY <1>1, <1>2, <1>3, <2>1, <2>2, <3>1 DEF WorkerOK, ThreadOK, HolderOK, SettledOK, Owned
  <2>5. /\ Queued' = Queued /\ (Undisturbed' => Undisturbed)
        /\ Holding' = Holding /\ Refused' = Refused
    BY <1>3, <2>2 DEF Queued, Undisturbed, Holding, Reserved, Owned, Refused
  <2> QED
    BY <1>1, <2>1, <2>2, <2>3, <2>4, <2>5, OnceSame, LedgerSame DEF IInv
<1>4. CASE worker.at \in {"acquire", "run"}
  <2>1. free' = free + 1 /\ IF worker.at = "run" THEN Release ELSE in_use' = in_use
    <3>1. CASE worker.at = "acquire"
      BY <3>1 DEF WorkerCancelled
    <3>2. CASE worker.at = "run"
      BY <3>2 DEF WorkerCancelled
    <3> QED
      BY <1>4, <3>1, <3>2
  <2>2. /\ status' = status /\ unmarked' = unmarked
        /\ status' \in [Jobs -> {"none", "QUEUED", "RUNNING", "FINISHED", "ERROR"}]
    BY <1>1, <1>2 DEF TypeOK, kept
  <2> QED
    BY <1>2, <1>4, <2>1, <2>2, LetGoKeeps
<1> QED
  BY <1>2, <1>3, <1>4

LEMMA StartKeeps ==
    ASSUME IInv, Start
    PROVE  IInv'
<1>1. TypeOK /\ WorkerOK /\ ThreadOK /\ HolderOK /\ SettledOK /\ Once /\ ReservationLedger
  BY DEF IInv
<1>2. /\ worker.at = "down" /\ starts < MaxStarts /\ starts' = starts + 1 /\ shutdown' = FALSE
      /\ soon' = <<>> /\ queue' = <<>> /\ worker'.at = "get" /\ worker'.job = NoJob
      /\ worker' \in [at : {"down", "get", "acquire", "run"}, job : Jobs \cup {NoJob}]
      /\ request' = request /\ free' = free /\ cancelled' = cancelled /\ thread' = thread
      /\ in_use' = in_use /\ syncing' = syncing /\ unmarked' = unmarked
  BY DEF Start, rvars, slots
<1>3. /\ status' \in [Jobs -> {"none", "QUEUED", "RUNNING", "FINISHED", "ERROR"}]
      /\ \A j \in Jobs : status[j] \in Final => status'[j] \in Final
  BY <1>1 DEF Start, TypeOK, Final
<1>4. starts \in Nat /\ starts' # 0 /\ starts' \in 0..MaxStarts
  BY <1>1, <1>2, SizesAssumption DEF TypeOK
<1>5. soon' \in Seq(Jobs) /\ queue' \in Seq(Jobs) /\ Len(soon') = 0 /\ Len(queue') = 0
  BY <1>2, EmptySeq
<1>6. TypeOK'
  BY <1>1, <1>2, <1>3, <1>4, <1>5 DEF TypeOK
<1>7. WorkerOK' /\ HolderOK'
  <2>1. Holders' = Holders
    BY <1>2 DEF Holders
  <2> QED
    BY <1>1, <1>2, <2>1 DEF WorkerOK, HolderOK
<1>8. starts' <= 1 => starts = 0
  BY <1>2, <1>4
<1>9. ThreadOK'
  BY <1>1, <1>2, <1>4, <1>8 DEF ThreadOK, InRun
<1>14. SettledOK'
  <2>1. starts = 0 => \A j \in Jobs : thread[j] = "none"
    BY <1>1 DEF ThreadOK
  <2> QED
    BY <1>1, <1>2, <1>3, <1>8, <2>1 DEF SettledOK
<1>10. Queued' = Queued /\ (starts = 0 => Queued = {})
  BY <1>1, <1>2 DEF Queued, ThreadOK
<1>11. Len(Pending') = 0
  <2>1. Pending' = queue' \o soon'
    BY DEF Pending
  <2> QED
    BY <1>5, <2>1, Joined
<1>12. Once'
  BY <1>8, <1>10, <1>11 DEF Once, Undisturbed
<1>13. Holding' = Holding /\ Refused' = Refused
  BY <1>2 DEF Holding, Reserved, Owned, Refused
<1> QED
  BY <1>1, <1>2, <1>6, <1>7, <1>9, <1>12, <1>13, <1>14, LedgerSame DEF IInv

LEMMA StopKeeps ==
    ASSUME IInv, Stop
    PROVE  IInv'
<1>1. TypeOK /\ WorkerOK /\ ThreadOK /\ HolderOK /\ SettledOK /\ Once /\ ReservationLedger
  BY DEF IInv
<1>2. /\ worker.at # "down" /\ shutdown' = TRUE /\ cancelled' = TRUE
      /\ request' = request /\ free' = free /\ starts' = starts /\ soon' = soon
      /\ queue' = queue /\ worker' = worker /\ thread' = thread
      /\ in_use' = in_use /\ syncing' = syncing /\ status' = status /\ unmarked' = unmarked
  BY DEF Stop, rvars, slots, kept
<1>3. TypeOK' /\ WorkerOK' /\ ThreadOK' /\ HolderOK' /\ SettledOK'
  BY <1>1, <1>2 DEF TypeOK, WorkerOK, ThreadOK, HolderOK, Holders, SettledOK
<1>4. Queued' = Queued /\ ~Undisturbed' /\ Holding' = Holding /\ Refused' = Refused
  BY <1>2 DEF Queued, Undisturbed, Holding, Reserved, Owned, Refused
<1> QED
  BY <1>1, <1>2, <1>3, <1>4, OnceSame, LedgerSame DEF IInv

-----------------------------------------------------------------------------
(* The theorems.                                                           *)

LEMMA InitIInv == Init => IInv
<1> SUFFICES ASSUME Init PROVE IInv
  OBVIOUS
<1>1. <<>> \in Seq(Jobs) /\ Len(<<>>) = 0
  BY EmptySeq
<1>2. TypeOK
  <2>1. free \in Nat /\ starts \in 0..MaxStarts /\ in_use \in 0..Capacity
    BY SizesAssumption DEF Init
  <2>2. soon \in Seq(Jobs) /\ queue \in Seq(Jobs)
    BY <1>1 DEF Init
  <2> QED
    BY <2>1, <2>2 DEF Init, TypeOK, RequestStates
<1>3. WorkerOK /\ ThreadOK /\ HolderOK /\ SettledOK
  <2>1. Holders = {}
    BY DEF Init, Holders
  <2>2. HolderOK
    BY <2>1, FS_EmptySet DEF Init, HolderOK
  <2> QED
    BY <2>2 DEF Init, WorkerOK, ThreadOK, SettledOK, InRun
<1>4. Once
  <2>1. Len(Pending) = 0
    BY <1>1, <1>2, PendingElements DEF Init
  <2>2. Queued = {}
    BY DEF Init, Queued
  <2> QED
    BY <2>1, <2>2 DEF Once
<1>5. ReservationLedger
  <2>1. Holding = {} /\ Refused = {}
    BY DEF Init, Holding, Reserved, Owned, Refused
  <2>2. Cardinality(Holding) = 0 /\ Cardinality(Refused) = 0
    BY <2>1, FS_EmptySet
  <2> QED
    BY <2>2, SizesAssumption DEF Init, ReservationLedger, Holding
<1> QED
  BY <1>2, <1>3, <1>4, <1>5 DEF IInv

LEMMA NextIInv == IInv /\ [Next]_vars => IInv'
<1> SUFFICES ASSUME IInv, [Next]_vars PROVE IInv'
  OBVIOUS
<1>1. CASE \E j \in Jobs : Handler(j) \/ Thread(j)
  BY <1>1, HandlerKeeps, ThreadKeeps
<1>2. CASE Loop
  BY <1>2, PutKeeps, WorkerGetKeeps, WorkerRunKeeps, WorkerDoneKeeps, WorkerCancelledKeeps
     DEF Loop
<1>3. CASE Start \/ Stop
  BY <1>3, StartKeeps, StopKeeps
<1>4. CASE \E s \in Syncs : SyncAcquires(s) \/ SyncReleases(s)
  BY <1>4, SyncKeeps
<1>5. CASE UNCHANGED vars
  <2>1. TypeOK /\ WorkerOK /\ ThreadOK /\ HolderOK /\ SettledOK /\ Once /\ ReservationLedger
    BY DEF IInv
  <2>2. /\ request' = request /\ free' = free /\ shutdown' = shutdown /\ starts' = starts
        /\ soon' = soon /\ queue' = queue /\ worker' = worker /\ cancelled' = cancelled
        /\ thread' = thread /\ in_use' = in_use /\ syncing' = syncing
        /\ status' = status /\ unmarked' = unmarked
    BY <1>5 DEF vars, rvars, lvars, wvars, slots, kept
  <2>3. TypeOK' /\ WorkerOK' /\ ThreadOK' /\ HolderOK' /\ SettledOK'
    BY <2>1, <2>2 DEF TypeOK, WorkerOK, ThreadOK, HolderOK, Holders, SettledOK, Owned
  <2>4. /\ Queued' = Queued /\ (Undisturbed' => Undisturbed)
        /\ Holding' = Holding /\ Refused' = Refused
    BY <2>2 DEF Queued, Undisturbed, Holding, Reserved, Owned, Refused
  <2> QED
    BY <2>1, <2>2, <2>3, <2>4, OnceSame, LedgerSame DEF IInv
<1> QED
  BY <1>1, <1>2, <1>3, <1>4, <1>5 DEF Next

(* Where the worker task waits agrees with its job's pool threads, and they *)
(* with the job's request, whatever is cancelled or restarted in between    *)
(* (async_runner.py:60-110).                                                *)
THEOREM RunnerInvariant == Spec => []IInv
<1>1. Init => IInv
  BY InitIInv
<1>2. IInv /\ [Next]_vars => IInv'
  BY NextIInv
<1> QED
  BY <1>1, <1>2, PTL DEF Spec

(* The types, for any sizes and numbers of jobs (async_runner.py:16-48).   *)
THEOREM RunnerTypeOK == Spec => []TypeOK
<1>1. IInv => TypeOK
  BY DEF IInv
<1> QED
  BY <1>1, RunnerInvariant, PTL

(* Each reservation is returned once, and a 503's once more, however jobs  *)
(* fail and wherever the worker is cancelled (async_runner.py:24-30,101).  *)
THEOREM RunnerReturnsReservations == Spec => []ReservationLedger
<1>1. IInv => ReservationLedger
  BY DEF IInv
<1> QED
  BY <1>1, RunnerInvariant, PTL

(* The callback that puts a job on the queue finds room for it, unless a   *)
(* reservation was returned twice (async_runner.py:55-58).                 *)
THEOREM RunnerPutNeverFull == Spec => []PutNeverFull
<1>1. IInv => PutNeverFull
  BY NeverFull
<1> QED
  BY <1>1, RunnerInvariant, PTL

(* A job waits in one place once, and none is forgotten before a shutdown  *)
(* (async_runner.py:50-64).                                                *)
THEOREM RunnerAcceptsOnce == Spec => []AcceptedOnce
<1>1. IInv => AcceptedOnce
  BY OnceIs DEF IInv
<1> QED
  BY <1>1, RunnerInvariant, PTL

(* The limiter's count is that of those who hold a slot, whoever lowers it *)
(* at whichever await; only a shutdown leaves a slot to a job that nobody  *)
(* waits for (async_runner.py:69-96, concurrency.py:39-59).                *)
THEOREM RunnerSlotHasOwner == Spec => []SlotHasOwner
<1>1. ASSUME IInv PROVE SlotHasOwner
  <2>1. TypeOK /\ WorkerOK /\ ThreadOK /\ HolderOK
    BY <1>1 DEF IInv
  <2>2. ASSUME Undisturbed, NEW j \in Jobs \cap Holders PROVE Owned(j)
    <3>1. j \notin Syncs /\ syncing \subseteq Syncs
      BY <2>1, JobsAssumption DEF TypeOK
    <3>2. thread[j] = "acquired" \/ (worker.at = "run" /\ worker.job = j)
      BY <3>1 DEF Holders
    <3> QED
      BY <2>1, <2>2, <3>2 DEF Undisturbed, ThreadOK, Owned
  <2> QED
    BY <2>1, <2>2 DEF HolderOK, SlotHasOwner
<1>2. IInv => SlotHasOwner
  BY <1>1
<1> QED
  BY <1>2, RunnerInvariant, PTL

\* More jobs wait than there are places by the number of 503s at most.
WaitingFit == Len(soon) + Len(queue) <= MaxSize + Cardinality(Refused)

(* What config.py:25 says of max_async_queue_size is true up to the jobs    *)
(* refused with 503, each of which lets one more wait: an accepted job has  *)
(* a place of its own, or that of a 503 (async_runner.py:24-58,             *)
(* executions.py:58-86).                                                    *)
THEOREM RunnerJobsWithinLimit == Spec => [](WaitingFit /\ (Refused = {} => JobsWithinLimit))
<1>1. IInv => WaitingFit /\ PutNeverFull
  BY NeverFull DEF WaitingFit
<1>2. IInv => WaitingFit /\ (Refused = {} => JobsWithinLimit)
  BY <1>1 DEF PutNeverFull
<1> QED
  BY <1>2, RunnerInvariant, PTL

(* Where an accepted job is, in a first lifespan without a 503: it waits,   *)
(* the worker has it, or it has a final status, unless its status ERROR     *)
(* could not be stored.  AcceptedSettles adds that it goes on               *)
(* (async_runner.py:50-104).                                                *)
Accounted ==
    Undisturbed =>
      \A j \in Jobs : request[j] = "accepted" =>
          \/ \E i \in 1..Len(Pending) : Pending[i] = j
          \/ Owned(j)
          \/ status[j] \in Final \/ j \in unmarked

THEOREM RunnerForgetsNobody == Spec => []Accounted
<1>1. ASSUME IInv, Undisturbed, NEW j \in Jobs, request[j] = "accepted", ~Owned(j),
             ~ \E i \in 1..Len(Pending) : Pending[i] = j
      PROVE  status[j] \in Final \/ j \in unmarked
  <2>1. TypeOK /\ ThreadOK /\ SettledOK /\ Once
    BY <1>1 DEF IInv
  <2>2. thread[j] # "none"
    BY <1>1, <2>1 DEF Once, Queued
  <2>3. thread[j] \notin {"acquiring", "acquired"} \cup InRun
    BY <1>1, <2>1 DEF ThreadOK, Undisturbed
  <2>4. thread[j] \in {"done", "raised"}
    BY <2>1, <2>2, <2>3 DEF TypeOK, InRun
  <2> QED
    BY <1>1, <2>1, <2>4 DEF SettledOK, Undisturbed
<1>2. IInv => Accounted
  BY <1>1 DEF Accounted
<1> QED
  BY <1>2, RunnerInvariant, PTL

-----------------------------------------------------------------------------
(* Slots.                                                                  *)

LEMMA SemaphoreAcquire ==
    ASSUME TypeOK, HolderOK, NEW c \in Jobs \cup Syncs, c \notin Holders, Acquire,
           Holders' = Holders \cup {c}
    PROVE  Limiter!Next
<1>1. Cardinality(Holders) < Capacity
  BY DEF HolderOK, Acquire
<1>2. Limiter!Acquire(c)
  BY <1>1 DEF Limiter!Acquire, Limiter!Cardinality, Cardinality
<1> QED
  BY <1>2 DEF Limiter!Next

LEMMA SemaphoreRelease ==
    ASSUME NEW c \in Jobs \cup Syncs, c \in Holders, Holders' = Holders \ {c}
    PROVE  Limiter!Next
BY DEF Limiter!Next, Limiter!Release

LEMMA SemaphoreStep == IInv /\ [Next]_vars => [Limiter!Next]_Holders
<1> SUFFICES ASSUME IInv, [Next]_vars PROVE [Limiter!Next]_Holders
  OBVIOUS
<1>1. TypeOK /\ WorkerOK /\ ThreadOK /\ HolderOK /\ Once
  BY DEF IInv
<1>2. ASSUME NEW j \in Jobs, Thread(j) PROVE [Limiter!Next]_Holders
  <2>0. j \notin Syncs /\ thread \in [Jobs -> {"none", "acquiring", "acquired", "running",
                                          "executing", "stored", "done", "raised"}]
    BY <1>1, JobsAssumption DEF TypeOK
  <2>1. CASE ThreadAcquires(j)
    <3>1. /\ thread[j] = "acquiring" /\ thread' = [thread EXCEPT ![j] = "acquired"]
          /\ Acquire /\ worker' = worker /\ syncing' = syncing
      BY <2>1 DEF ThreadAcquires, wvars
    <3>2. ~(worker.at = "run" /\ worker.job = j)
      BY <1>1, <3>1 DEF WorkerOK
    <3>3. j \notin Holders /\ Holders' = Holders \cup {j}
      BY <1>1, <2>0, <3>1, <3>2 DEF Holders, TypeOK
    <3> QED
      BY <1>1, <3>1, <3>3, SemaphoreAcquire
  <2>2. CASE ThreadRuns(j) \/ ThreadFinishes(j) \/ ThreadReturns(j) \/ ThreadRaises(j)
    <3>1. /\ thread[j] # "acquired" /\ thread'[j] # "acquired"
          /\ \A k \in Jobs \ {j} : thread'[k] = thread[k]
          /\ worker' = worker /\ syncing' = syncing
      BY <2>0, <2>2 DEF ThreadRuns, ThreadFinishes, ThreadReturns, ThreadRaises, wvars, slots
    <3>2. Holders' = Holders
      BY <3>1 DEF Holders
    <3> QED
      BY <3>2
  <2> QED
    BY <1>2, <2>1, <2>2 DEF Thread
<1>3. ASSUME NEW t \in Syncs, SyncAcquires(t) \/ SyncReleases(t) PROVE Limiter!Next
  <2>1. t \notin Jobs /\ worker' = worker /\ thread' = thread
    BY <1>3, JobsAssumption DEF SyncAcquires, SyncReleases, wvars
  <2>2. CASE SyncAcquires(t)
    <3>1. t \notin Holders /\ Holders' = Holders \cup {t} /\ Acquire
      BY <2>1, <2>2 DEF SyncAcquires, Holders
    <3> QED
      BY <1>1, <3>1, SemaphoreAcquire
  <2>3. CASE SyncReleases(t)
    <3>1. t \in Holders /\ Holders' = Holders \ {t}
      BY <2>1, <2>3 DEF SyncReleases, Holders
    <3> QED
      BY <3>1, SemaphoreRelease
  <2> QED
    BY <1>3, <2>2, <2>3
<1>4. CASE WorkerDone \/ (WorkerCancelled /\ worker.at = "run")
  <2>0. /\ worker.at = "run"
        /\ thread' = thread /\ syncing' = syncing /\ worker'.at # "run"
    <3>1. CASE WorkerDone
      BY <3>1 DEF WorkerDone, Over
    <3>2. CASE WorkerCancelled /\ worker.at = "run"
      BY <3>2 DEF WorkerCancelled
    <3> QED
      BY <1>4, <3>1, <3>2
  <2>1. /\ worker.job \in Jobs /\ worker.job \notin Syncs
        /\ thread[worker.job] # "acquired"
    BY <1>1, <2>0, JobsAssumption DEF WorkerOK
  <2>2. syncing \subseteq Syncs
    BY <1>1 DEF TypeOK
  <2>3. worker.job \in Holders /\ Holders' = Holders \ {worker.job}
    BY <2>0, <2>1, <2>2 DEF Holders
  <2> QED
    BY <2>1, <2>3, SemaphoreRelease
<1>5. CASE WorkerCancelled /\ worker.at # "run"
  <2>1. thread' = thread /\ syncing' = syncing /\ worker'.at # "run"
    BY <1>5 DEF WorkerCancelled
  <2>2. Holders' = Holders
    BY <1>5, <2>1 DEF Holders
  <2> QED
    BY <2>2
<1>6. CASE WorkerRun
  <2>1. /\ worker.at = "acquire" /\ worker.job \in Jobs /\ thread[worker.job] = "acquired"
        /\ thread' = [thread EXCEPT ![worker.job] = "running"] /\ syncing' = syncing
        /\ worker'.at = "run" /\ worker'.job = worker.job
        /\ thread \in [Jobs -> {"none", "acquiring", "acquired", "running",
                                 "executing", "stored", "done", "raised"}]
    BY <1>1, <1>6 DEF WorkerRun, WorkerOK, TypeOK, slots
  <2>2. Holders' = Holders
    BY <2>1 DEF Holders
  <2> QED
    BY <2>2
<1>7. CASE WorkerGet
  <2>1. queue # <<>>
    BY <1>7 DEF WorkerGet
  <2>2. Head(queue) \in Queued
    BY <1>1, <2>1, FirstPending
  <2>3. /\ Head(queue) \in Jobs /\ thread[Head(queue)] = "none"
        /\ thread' = [thread EXCEPT ![Head(queue)] = "acquiring"] /\ syncing' = syncing
        /\ worker.at = "get" /\ worker'.at = "acquire"
        /\ thread \in [Jobs -> {"none", "acquiring", "acquired", "running",
                                 "executing", "stored", "done", "raised"}]
    BY <1>1, <1>7, <2>2 DEF WorkerGet, TypeOK, Queued, slots
  <2>4. Holders' = Holders
    BY <2>3 DEF Holders
  <2> QED
    BY <2>4
<1>8. CASE Put \/ Start \/ Stop \/ UNCHANGED vars
  <2>1. thread' = thread /\ syncing' = syncing
    BY <1>8 DEF Put, Start, Stop, vars, slots
  <2>2. worker' = worker \/ (worker.at = "down" /\ worker'.at = "get")
    BY <1>8 DEF Put, Start, Stop, vars, wvars
  <2>3. Holders' = Holders
    BY <2>1, <2>2 DEF Holders
  <2> QED
    BY <2>3
<1>9. ASSUME NEW j \in Jobs, Handler(j) PROVE Holders' = Holders
  <2>1. thread' = thread /\ syncing' = syncing /\ worker' = worker
    BY <1>9 DEF Handler, Reserve, Plan, PlanRaises, Enqueue, EnqueueRefused, wvars, slots
  <2> QED
    BY <2>1 DEF Holders
<1> QED
  BY <1>2, <1>3, <1>4, <1>5, <1>6, <1>7, <1>8, <1>9 DEF Next, Loop

(* The runner and the synchronous requests use the limiter as a semaphore, *)
(* although it keeps a count only, which every release() lowers: nobody    *)
(* takes a second slot, and each release() is of a slot its caller holds,  *)
(* whichever await a shutdown interrupts (async_runner.py:66-104,          *)
(* orchestrator.py:78-87, concurrency.py:39-59).                           *)
THEOREM RunnerImplementsSemaphore == Spec => Limiter!Spec
<1>1. Init => Limiter!Init
  BY DEF Init, Limiter!Init, Holders
<1> QED
  BY <1>1, SemaphoreStep, RunnerInvariant, PTL DEF Spec, Limiter!Spec

HoldersFit == Cardinality(Holders) <= Capacity

\* Whoever executes: a synchronous request with a slot, a job inside its run.
Executing == syncing \cup {j \in Jobs : thread[j] \in InRun}

ExecutingFit == starts <= 1 /\ ~shutdown => Cardinality(Executing) <= Capacity

(* "max_concurrent_executions" (config.py:24): until the runner is stopped *)
(* no more executions run at once than there are slots, because each job   *)
(* in run_execution() has its own (async_runner.py:66-98).  Afterwards the *)
(* thread of a cancelled job runs on without one.                          *)
THEOREM RunnerWithinCapacity ==
    Spec => [](HoldersFit /\ ExecutingFit)
<1>1. ASSUME IInv PROVE HoldersFit
  BY <1>1, SizesAssumption DEF IInv, TypeOK, HolderOK, HoldersFit
<1>2. ASSUME IInv, HoldersFit, starts <= 1, ~shutdown
      PROVE  Cardinality(Executing) <= Capacity
  <2>1. TypeOK /\ WorkerOK /\ ThreadOK
    BY <1>2 DEF IInv
  <2>2. ASSUME NEW j \in Jobs, thread[j] \in InRun PROVE j \in Holders
    <3>1. Owned(j)
      BY <1>2, <2>1, <2>2 DEF ThreadOK
    <3>2. worker.at # "acquire"
      BY <2>1, <2>2, <3>1 DEF WorkerOK, Owned, InRun
    <3> QED
      BY <3>1, <3>2 DEF Holders, Owned
  <2>3. Executing \subseteq Holders
    BY <2>2 DEF Executing, Holders
  <2>4. IsFiniteSet(Holders) /\ Cardinality(Holders) \in Nat /\ Capacity \in Nat
    BY <2>1, HoldersFinite, SizesAssumption
  <2>5. /\ Cardinality(Executing) <= Cardinality(Holders)
        /\ Cardinality(Executing) \in Nat
    BY <2>3, <2>4, FS_Subset, FS_CardinalityType
  <2> QED
    BY <1>2, <2>4, <2>5 DEF HoldersFit
<1>3. IInv => HoldersFit /\ ExecutingFit
  BY <1>1, <1>2 DEF ExecutingFit
<1> QED
  BY <1>3, RunnerInvariant, PTL

-----------------------------------------------------------------------------
(* No job is executed twice.                                               *)

\* The pool threads of a job in the order in which they come; run_execution()
\* is entered between the third and the fourth.
Stages == <<"none", "acquiring", "acquired", "running", "executing", "stored", "done">>

\* The next of them, or an exception out of run_execution().
Onward(t) ==
    \/ \E n \in 1 .. 6 : thread[t] = Stages[n] /\ thread'[t] = Stages[n + 1]
    \/ thread[t] \in {"running", "executing", "stored"} /\ thread'[t] = "raised"

LEMMA OneStage ==
    ASSUME TypeOK, NEW j \in Jobs, NEW n \in 1 .. 6, thread[j] = Stages[n],
           thread' = [thread EXCEPT ![j] = Stages[n + 1]]
    PROVE  \A k \in Jobs : thread'[k] = thread[k] \/ Onward(k)
<1>1. \A k \in Jobs \ {j} : thread'[k] = thread[k]
  BY DEF TypeOK
<1>2. thread'[j] = Stages[n + 1]
  BY DEF TypeOK
<1>3. Onward(j)
  BY <1>2 DEF Onward
<1> QED
  BY <1>1, <1>3

LEMMA StepGoesOn ==
    IInv /\ [Next]_vars => \A k \in Jobs : thread'[k] = thread[k] \/ Onward(k)
<1> SUFFICES ASSUME IInv, [Next]_vars
             PROVE  \A k \in Jobs : thread'[k] = thread[k] \/ Onward(k)
  OBVIOUS
<1>1. TypeOK /\ WorkerOK /\ Once
  BY DEF IInv
<1>2. /\ Stages[1] = "none" /\ Stages[2] = "acquiring" /\ Stages[3] = "acquired"
      /\ Stages[4] = "running" /\ Stages[5] = "executing" /\ Stages[6] = "stored"
      /\ Stages[7] = "done"
  BY DEF Stages
<1>3. ASSUME NEW j \in Jobs, Thread(j)
      PROVE  \A k \in Jobs : thread'[k] = thread[k] \/ Onward(k)
  <2>1. CASE ThreadAcquires(j)
    BY <1>1, <1>2, <2>1, OneStage, 2 \in 1 .. 6, 2 + 1 = 3 DEF ThreadAcquires
  <2>2. CASE ThreadRuns(j)
    BY <1>1, <1>2, <2>2, OneStage, 4 \in 1 .. 6, 4 + 1 = 5 DEF ThreadRuns
  <2>3. CASE ThreadFinishes(j)
    BY <1>1, <1>2, <2>3, OneStage, 5 \in 1 .. 6, 5 + 1 = 6 DEF ThreadFinishes
  <2>4. CASE ThreadReturns(j)
    BY <1>1, <1>2, <2>4, OneStage, 6 \in 1 .. 6, 6 + 1 = 7 DEF ThreadReturns
  <2>5. CASE ThreadRaises(j)
    BY <1>1, <2>5 DEF ThreadRaises, TypeOK, Onward
  <2> QED
    BY <1>3, <2>1, <2>2, <2>3, <2>4, <2>5 DEF Thread
<1>4. CASE WorkerGet
  <2>1. queue # <<>> /\ thread' = [thread EXCEPT ![Head(queue)] = "acquiring"]
    BY <1>4 DEF WorkerGet
  <2>2. Head(queue) \in Jobs /\ thread[Head(queue)] = "none"
    <3>1. /\ queue \in Seq(Jobs) /\ Len(queue) \in Nat /\ Len(soon) \in Nat
          /\ Len(Pending) = Len(queue) + Len(soon)
          /\ \A i \in 1..Len(Pending) :
               Pending[i] = IF i <= Len(queue) THEN queue[i] ELSE soon[i - Len(queue)]
      BY <1>1, PendingElements
    <3>2. Len(queue) # 0 /\ Head(queue) = queue[1]
      BY <2>1, <3>1, EmptySeq, HeadTailProperties
    <3>3. 1 \in 1..Len(Pending) /\ 1 <= Len(queue)
      BY <3>1, <3>2
    <3>4. Pending[1] = Head(queue)
      BY <3>1, <3>2, <3>3
    <3> QED
      BY <1>1, <3>3, <3>4 DEF Once, Queued
  <2> QED
    BY <1>1, <1>2, <2>1, <2>2, OneStage, 1 \in 1 .. 6, 1 + 1 = 2
<1>5. CASE WorkerRun
  <2>1. worker.job \in Jobs
    BY <1>1, <1>5 DEF WorkerRun, WorkerOK
  <2> QED
    BY <1>1, <1>2, <1>5, <2>1, OneStage, 3 \in 1 .. 6, 3 + 1 = 4 DEF WorkerRun
<1>6. CASE Put \/ WorkerDone \/ WorkerCancelled \/ Start \/ Stop \/ UNCHANGED vars
  BY <1>6 DEF Put, WorkerDone, WorkerCancelled, Start, Stop, vars
<1>7. ASSUME NEW j \in Jobs, Handler(j) PROVE thread' = thread
  BY <1>7 DEF Handler, Reserve, Plan, PlanRaises, Enqueue, EnqueueRefused
<1>8. ASSUME NEW t \in Syncs, SyncAcquires(t) \/ SyncReleases(t) PROVE thread' = thread
  BY <1>8 DEF SyncAcquires, SyncReleases
<1> QED
  BY <1>3, <1>4, <1>5, <1>6, <1>7, <1>8 DEF Next, Loop

(* run_execution() is entered at most once for a job, whatever is cancelled *)
(* or restarted meanwhile: a step takes a job's threads to the next stage,  *)
(* or raises out of the run, and none of them ever begins again, because    *)
(* nothing puts a job on a queue twice (async_runner.py:50-110).            *)
THEOREM RunnerExecutesOnce ==
    Spec => [][\A j \in Jobs : thread'[j] = thread[j] \/ Onward(j)]_vars
<1>1. IInv /\ [Next]_vars => [\A j \in Jobs : thread'[j] = thread[j] \/ Onward(j)]_vars
  BY StepGoesOn
<1> QED
  BY <1>1, RunnerInvariant, PTL DEF Spec
=============================================================================
