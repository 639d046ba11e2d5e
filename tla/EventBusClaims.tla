--------------------------- MODULE EventBusClaims ---------------------------
(***************************************************************************)
(* What the documentation says of the event bus, stated for the             *)
(* interleavings of EventBus.  A run refutes it.                            *)
(***************************************************************************)
EXTENDS EventBus

\* ARCHITECTURE.md:37-38, the loader publishes events and consumers "process
\* events" they consume: a consume that returns 1 hands over one complete
\* published event.
ReceivedIntact ==
  \A t \in Consumers :
    ret[t] = "got" => \E e \in Events : buf[t] = Uniform(e)
=============================================================================
