------------------------- MODULE MCConformanceStep -------------------------
(* Two modules, and two retries as in the code.                            *)
EXTENDS ConformanceStep, TLC
=============================================================================
