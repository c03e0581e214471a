------------------------------ MODULE MCRunPage ------------------------------
(* Two executions, planned here or elsewhere, and two overlapping polls.    *)
EXTENDS RunPage
=============================================================================
