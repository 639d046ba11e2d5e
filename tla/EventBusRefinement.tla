------------------------- MODULE EventBusRefinement -------------------------
(***************************************************************************)
(* The two abstract specifications the event bus implements: the account of *)
(* BusLedger for any threads, and the first-in first-out queue of           *)
(* BoundedQueue for a single thread that both publishes and consumes.       *)
(***************************************************************************)
EXTENDS EventBus, Sequences

Ledger ==
  INSTANCE BusLedger WITH
    Limit <- Capacity + Overrun,
    open <- alive,
    published <- head,
    taken <- Taken

\* Racing threads keep the account of event_bus.c:37 and :46-52: what consumers
\* obtain was published, and the ring overruns by a bounded amount.
LedgerSpec == Ledger!Spec

\* Indices of the events that are completely in the ring and not completely
\* copied out of it.
Oldest == tail - Cardinality(At({"loadHead", "undo", "copyOut"}))
Newest == head - Cardinality(At({"copyIn"})) - 1

Contents ==
  IF alive
  THEN [i \in 1 .. Newest - Oldest + 1 |-> ring[Slot(Oldest + i - 1)]]
  ELSE <<>>

\* The single thread of a serial client.
Client == CHOOSE t \in Threads : TRUE

Queue ==
  INSTANCE BoundedQueue WITH
    Items <- {Uniform(e) : e \in Events},
    Nothing <- Uniform(Zero),
    open <- alive,
    queue <- Contents,
    reply <- ret[Client],
    item <- IF ret[Client] = "got" THEN buf[Client] ELSE Uniform(Zero),
    size <- IF ret[Client] = "counted" THEN reg[Client] ELSE 0

\* A single-threaded client (test_event_bus.c) sees a bounded queue: full
\* exactly at its capacity, empty exactly when empty, first in first out, and
\* counted exactly.
QueueSpec == Queue!Spec

-----------------------------------------------------------------------------
(* The invariant of a serial client, on which that refinement rests *)

\* One thread makes every call.
Serial == Producers = {Client} /\ Consumers = {Client} /\ Observers \subseteq {Client}

\* The queue never holds more than the ring, and no fewer than no events; the
\* publish of line 37 finds the room that line 36 saw, the consume of line 52
\* the event that line 48 saw.
IndexInv ==
  /\ Newest + 1 - Oldest \in 0 .. Capacity
  /\ pc[Client] \in {"loadTail", "claim", "countTail"} => reg[Client] = head
  /\ pc[Client] = "claim" => head - tail < Capacity
  /\ pc[Client] = "copyIn" => reg[Client] = Newest + 1 /\ reg[Client] - tail < Capacity
  /\ pc[Client] \in {"loadHead", "undo", "copyOut"} => reg[Client] = Oldest
  /\ pc[Client] = "undo" => Oldest = Newest + 1
  /\ pc[Client] = "copyOut" => Oldest <= Newest

\* What a copy has done so far, and what it copies.
CopyInv ==
  /\ pc[Client] # "idle" => ret[Client] = "none"
  /\ pc[Client] \in {"loadTail", "claim", "copyIn"} =>
       buf[Client] \in {Uniform(e) : e \in Events}
  /\ pc[Client] \in {"copyIn", "copyOut"} =>
       /\ todo[Client] # {}
       /\ \A f \in Fields \ todo[Client] :
            ring[Slot(reg[Client])][f] = buf[Client][f]

\* Between the steps of a serial client (event_bus.c:31-62) the counters agree
\* with the events in the ring, and no slot of a queued event is being written.
SerialInv == IndexInv /\ CopyInv
=============================================================================
