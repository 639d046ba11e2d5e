----------------------------- MODULE MCEventBus -----------------------------
(* Instances of EventBus for TLC. *)
EXTENDS EventBusClaims, EventBusRefinement, EventBusInvariant, TLC

\* Threads of one role run the same code on the same constants.
ThreadSymmetry == Permutations(Producers) \cup Permutations(Consumers)
=============================================================================
