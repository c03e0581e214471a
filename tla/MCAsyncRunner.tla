---------------------------- MODULE MCAsyncRunner ----------------------------
(* Three jobs for two places and one slot, which a synchronous request     *)
(* wants too; the process enters the lifespan twice.                       *)
EXTENDS AsyncRunner, TLC

CONSTANTS j1, j2, j3, s1

MCJobs  == {j1, j2, j3}
MCSyncs == {s1}
=============================================================================
