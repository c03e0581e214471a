------------------------- MODULE ExecutionLifecycle -------------------------
(***************************************************************************)
(* What a client of the API may rely on about each execution: it is        *)
(* planned, begins and reaches a verdict with which its benchmark is       *)
(* evaluated once and for all; or it is given up as ERROR, and even then   *)
(* an evaluation that was published stays.                                 *)
(***************************************************************************)
CONSTANT Executions

VARIABLES state,      \* the status of each execution, "none" before it is planned
          evaluated   \* those that have a benchmark evaluation

Init ==
    /\ state = [e \in Executions |-> "none"]
    /\ evaluated = {}

Move(e, from, to) ==
    /\ state[e] \in from
    /\ state' = [state EXCEPT ![e] = to]

Plan(e)  == Move(e, {"none"}, "QUEUED") /\ UNCHANGED evaluated
Begin(e) == Move(e, {"QUEUED"}, "RUNNING") /\ UNCHANGED evaluated

Conclude(e) ==
    /\ \E verdict \in {"PASSED", "FAILED"} : Move(e, {"RUNNING"}, verdict)
    /\ evaluated' = evaluated \cup {e}

GiveUp(e) ==
    /\ Move(e, {"QUEUED", "RUNNING", "PASSED", "FAILED"}, "ERROR")
    /\ UNCHANGED evaluated

Next == \E e \in Executions : Plan(e) \/ Begin(e) \/ Conclude(e) \/ GiveUp(e)

Spec == Init /\ [][Next]_<<state, evaluated>>
=============================================================================
