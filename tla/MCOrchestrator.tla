--------------------------- MODULE MCOrchestrator ---------------------------
(* One test run of two steps, executed by a synchronous and a queued       *)
(* request, or by two of a kind, or once.                                  *)
EXTENDS Orchestrator, TLC

CONSTANTS r1, s1, s2, a1

MCRuns == {r1}
MCPlan == r1 :> 2

SyncAndAsync == {s1, a1}
TwoSync      == {s1, s2}
OneAsync     == {a1}
MCAsync      == {a1}
NoAsync      == {}

ForSyncAndAsync == [j \in SyncAndAsync |-> r1]
ForTwoSync      == [j \in TwoSync |-> r1]
ForOneAsync     == [j \in OneAsync |-> r1]
=============================================================================
