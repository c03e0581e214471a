----------------------------- MODULE MCTestRig -----------------------------
(* Two steps of one rig; what goes wrong in its directory takes a pair.    *)
EXTENDS TestRig, TLC

CONSTANTS j1, j2, certify

MCJobs  == {j1, j2}
MCRigs  == {certify}
MCRigOf == [j \in MCJobs |-> certify]
=============================================================================
