------------------------- MODULE EventBusInvariant -------------------------
(***************************************************************************)
(* The inductive invariant behind the safety properties of EventBus.  TLC   *)
(* checks it on an instance, EventBusProofs proves it for every instance.   *)
(***************************************************************************)
EXTENDS EventBus

\* Every index and every bound on indices that the invariant speaks of.
Indices == 0 .. MaxPublish + Cardinality(Consumers) + Capacity

\* Consumers whose claim below k has not been compared with g_head yet.
Undecided(k) == {t \in Threads : pc[t] = "loadHead" /\ reg[t] < k}

\* Publishers that loaded g_head when it was below b and have not claimed.
Early(b) == {t \in Threads : pc[t] \in {"loadTail", "claim"} /\ reg[t] < b}

\* No call that needs the ring is under way while it does not exist.
DownInv == ~alive => \A t \in Threads : pc[t] \in {"idle", "countTail"}

\* A thread is inside the call of its role.
RoleInv ==
  \A t \in Threads :
    /\ pc[t] \in {"loadTail", "claim", "copyIn"} => t \in Producers
    /\ pc[t] \in {"loadHead", "undo", "copyOut"} => t \in Consumers
    /\ pc[t] = "countTail" => t \in Observers

\* The bound on publishes holds with the calls under way.
BoundInv == head + Cardinality(Admitting) <= MaxPublish

\* Each speculating consumer has its own unit in g_tail to take back.
TailInv == Cardinality(Speculating) <= tail

\* A publisher's or an observer's view of g_head may be old but is never ahead.
SeenInv ==
  \A t \in Threads :
    pc[t] \in {"loadTail", "claim", "countTail"} => reg[t] <= head

\* An admitted publisher saw room that at most the speculation of consumers
\* had inflated.
AdmitInv ==
  \A t \in Threads :
    pc[t] = "claim" => reg[t] < Taken + Cardinality(Consumers) + Capacity

\* Counted below any index k not yet published: the events taken and the
\* claims that may still turn out to be good.
TakenInv ==
  \A k \in Indices :
    k >= head => Taken + Cardinality(Undecided(k)) <= k

\* Once g_head has reached a bound b that no fresh check can pass, only the
\* publishers that loaded g_head earlier still add to it.
OverrunInv ==
  \A b \in Indices :
    /\ b >= Taken + Cardinality(Consumers) + Capacity
    /\ head >= b
    => head + Cardinality(Early(b)) <= b + Cardinality(Producers) - 1

\* The inductive invariant of the racing bus (event_bus.c:31-62).
BusInv ==
  /\ TypeOK
  /\ DownInv
  /\ RoleInv
  /\ BoundInv
  /\ TailInv
  /\ SeenInv
  /\ AdmitInv
  /\ TakenInv
  /\ OverrunInv
=============================================================================
