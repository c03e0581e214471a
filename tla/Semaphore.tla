----------------------------- MODULE Semaphore -----------------------------
(***************************************************************************)
(* What every capacity gate of the backend promises: a slot is held by at  *)
(* most Capacity clients, is taken by nobody who holds one already, and    *)
(* goes back only from a client that holds it.  How a client waits, who is *)
(* served first and how slots are counted is left to the implementation.   *)
(***************************************************************************)
EXTENDS Naturals, FiniteSets

CONSTANTS Clients,   \* whoever may hold a slot
          Capacity   \* how many may hold one at a time

VARIABLE holders     \* the clients holding a slot

Init == holders = {}

Acquire(c) ==
    /\ c \notin holders
    /\ Cardinality(holders) < Capacity
    /\ holders' = holders \cup {c}

Release(c) ==
    /\ c \in holders
    /\ holders' = holders \ {c}

Next == \E c \in Clients : Acquire(c) \/ Release(c)

Spec == Init /\ [][Next]_holders
=============================================================================
