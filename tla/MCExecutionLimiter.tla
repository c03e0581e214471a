------------------------- MODULE MCExecutionLimiter -------------------------
(* Two requests and two waiting jobs contending for one or two slots: the  *)
(* runner has one worker, and a stop() may leave one abandoned thread.     *)
EXTENDS ExecutionLimiter

CONSTANTS r1, r2, w1, w2, w3

MCRequests == {r1, r2}
MCWorkers == {w1, w2, w3}
=============================================================================
