------------------------------ MODULE EventBus ------------------------------
(***************************************************************************)
(* The in-memory event bus of NullEye, src/src/core/event_bus.c: a ring of  *)
(* g_capacity event structs indexed by two free-running counters, g_head    *)
(* (next index to publish) and g_tail (next index to consume).              *)
(*                                                                         *)
(* Every atomic operation of the C code is one action, so the interleavings *)
(* are those of the loads, the fetch-and-adds and the two plain memcpy's.   *)
(* A memcpy copies the parts of the struct (Fields) one by one and in any   *)
(* order: the copies race with each other, and an event read while it is    *)
(* written may mix parts of several events.  Acquire loads and acq_rel      *)
(* read-modify-writes execute here in program order.                        *)
(*                                                                         *)
(* A thread of several of the sets Producers, Consumers and Observers makes  *)
(* one call after the other, as the unit test does; the daemon's worker and  *)
(* monitor threads are in one set only, and its main thread counts.         *)
(***************************************************************************)
EXTENDS Integers, FiniteSets

CONSTANTS
  Producers,   \* threads that call event_bus_publish
  Consumers,   \* threads that call event_bus_consume
  Observers,   \* threads that call event_bus_pending
  Capacity,    \* capacity given to event_bus_init (8192 in main.c)
  Events,      \* contents a caller may publish
  Zero,        \* the content of a slot fresh from calloc
  Fields,      \* the parts of a nuleye_event_t that memcpy copies
  WordSize,    \* 2^64, the modulus of size_t
  MaxPublish   \* bound: number of publishes admitted after one init

Threads == Producers \cup Consumers \cup Observers

ASSUME ThreadsAssumption ==
  /\ IsFiniteSet(Producers) /\ Producers # {}
  /\ IsFiniteSet(Consumers) /\ Consumers # {}
  /\ IsFiniteSet(Observers)

ASSUME DataAssumption ==
  /\ Zero \notin Events
  /\ Fields # {}

\* The counters stay far from wrapping: a process never publishes 2^64 events.
ASSUME WordAssumption ==
  /\ Capacity \in Nat \ {0}
  /\ MaxPublish \in Nat
  /\ WordSize \in Nat
  /\ WordSize >= MaxPublish + Cardinality(Consumers) + Capacity

VARIABLES
  alive,  \* g_ring is not NULL
  ring,   \* g_ring
  head,   \* g_head
  tail,   \* g_tail
  pc,     \* the next shared access of each thread
  reg,    \* the thread's local: head, then idx, in publish; tail in consume;
          \* head, then the answer, in pending
  buf,    \* the struct behind the ev or out pointer of the current call
  todo,   \* the parts the current memcpy has still to copy
  ret     \* what the last call returned; "none" during a call

vars == <<alive, ring, head, tail, pc, reg, buf, todo, ret>>

Slots == 0 .. Capacity - 1
Structs == [Fields -> Events \cup {Zero}]
Uniform(e) == [f \in Fields |-> e]
ZeroRing == [s \in Slots |-> Uniform(Zero)]

\* Unsigned subtraction of two size_t values.
USub(a, b) == IF a >= b THEN a - b ELSE a - b + WordSize

Slot(index) == index % Capacity

Labels == {"idle", "loadTail", "claim", "copyIn", "loadHead", "undo", "copyOut",
           "countTail"}
Returns == {"none", "ok", "full", "got", "empty", "invalid", "counted"}

At(labels) == {t \in Threads : pc[t] \in labels}

\* Publishers that have not yet claimed an index.
Admitting == At({"loadTail", "claim"})
\* Consumers whose increment of g_tail stands for no event (yet).
Speculating == At({"loadHead", "undo"})

Init ==
  /\ alive = FALSE
  /\ ring = ZeroRing
  /\ head = 0
  /\ tail = 0
  /\ pc = [t \in Threads |-> "idle"]
  /\ reg = [t \in Threads |-> 0]
  /\ buf = [t \in Threads |-> Uniform(Zero)]
  /\ todo = [t \in Threads |-> {}]
  /\ ret = [t \in Threads |-> "none"]

-----------------------------------------------------------------------------
(* event_bus_init and event_bus_shutdown.  The caller of init has not yet    *)
(* started the threads that use the bus, the caller of shutdown has joined   *)
(* them; module Daemon checks that main does.                               *)

BusInit ==
  /\ ~alive
  /\ At(Labels \ {"idle"}) = {}
  /\ alive' = TRUE
  /\ ring' = ZeroRing
  /\ head' = 0
  /\ tail' = 0
  /\ UNCHANGED <<pc, reg, buf, todo, ret>>

BusShutdown ==
  /\ alive
  /\ At(Labels \ {"idle"}) = {}
  /\ alive' = FALSE
  /\ ring' = ZeroRing
  /\ UNCHANGED <<head, tail, pc, reg, buf, todo, ret>>

\* Lines 33 and 45: a call of either function finds no ring.
CallClosed(t) ==
  /\ ~alive
  /\ pc[t] = "idle"
  /\ ret' = [ret EXCEPT ![t] = "invalid"]
  /\ UNCHANGED <<alive, ring, head, tail, pc, reg, buf, todo>>

-----------------------------------------------------------------------------
(* event_bus_publish *)

\* Line 34: load g_head.
CallPublish(t, e) ==
  /\ alive
  /\ pc[t] = "idle"
  /\ head + Cardinality(Admitting) < MaxPublish
  /\ reg' = [reg EXCEPT ![t] = head]
  /\ buf' = [buf EXCEPT ![t] = Uniform(e)]
  /\ ret' = [ret EXCEPT ![t] = "none"]
  /\ pc' = [pc EXCEPT ![t] = "loadTail"]
  /\ UNCHANGED <<alive, ring, head, tail, todo>>

\* Lines 35-36: load g_tail; with the two loads the ring looks full.
Refuse(t) ==
  /\ pc[t] = "loadTail"
  /\ USub(reg[t], tail) >= Capacity
  /\ ret' = [ret EXCEPT ![t] = "full"]
  /\ reg' = [reg EXCEPT ![t] = 0]
  /\ buf' = [buf EXCEPT ![t] = Uniform(Zero)]
  /\ pc' = [pc EXCEPT ![t] = "idle"]
  /\ UNCHANGED <<alive, ring, head, tail, todo>>

\* Mutant of Admit: one event more than the capacity.
AdmitOffByOne(t) ==
  /\ pc[t] = "loadTail"
  /\ USub(reg[t], tail) <= Capacity
  /\ pc' = [pc EXCEPT ![t] = "claim"]
  /\ UNCHANGED <<alive, ring, head, tail, reg, buf, todo, ret>>

\* Lines 35-36: load g_tail; there is room.
Admit(t) ==
  /\ pc[t] = "loadTail"
  /\ USub(reg[t], tail) < Capacity
  /\ pc' = [pc EXCEPT ![t] = "claim"]
  /\ UNCHANGED <<alive, ring, head, tail, reg, buf, todo, ret>>

\* Mutant of Claim: the index of the check is used again.
ClaimStale(t) ==
  /\ pc[t] = "claim"
  /\ head' = reg[t] + 1
  /\ todo' = [todo EXCEPT ![t] = Fields]
  /\ pc' = [pc EXCEPT ![t] = "copyIn"]
  /\ UNCHANGED <<alive, ring, tail, reg, buf, ret>>

\* Lines 37-38: idx = g_head++.
Claim(t) ==
  /\ pc[t] = "claim"
  /\ reg' = [reg EXCEPT ![t] = head]
  /\ head' = head + 1
  /\ todo' = [todo EXCEPT ![t] = Fields]
  /\ pc' = [pc EXCEPT ![t] = "copyIn"]
  /\ UNCHANGED <<alive, ring, tail, buf, ret>>

\* Lines 39-40: one part of the memcpy into the slot; the last one returns 0.
CopyIn(t, f) ==
  /\ pc[t] = "copyIn"
  /\ f \in todo[t]
  /\ ring' = [ring EXCEPT ![Slot(reg[t])][f] = buf[t][f]]
  /\ todo' = [todo EXCEPT ![t] = @ \ {f}]
  /\ \/ /\ todo[t] # {f}
        /\ UNCHANGED <<pc, reg, buf, ret>>
     \/ /\ todo[t] = {f}
        /\ ret' = [ret EXCEPT ![t] = "ok"]
        /\ reg' = [reg EXCEPT ![t] = 0]
        /\ buf' = [buf EXCEPT ![t] = Uniform(Zero)]
        /\ pc' = [pc EXCEPT ![t] = "idle"]
  /\ UNCHANGED <<alive, head, tail>>

-----------------------------------------------------------------------------
(* event_bus_consume *)

\* Line 46: tail = g_tail++.
CallConsume(t) ==
  /\ alive
  /\ pc[t] = "idle"
  /\ reg' = [reg EXCEPT ![t] = tail]
  /\ tail' = tail + 1
  /\ buf' = [buf EXCEPT ![t] = Uniform(Zero)]
  /\ ret' = [ret EXCEPT ![t] = "none"]
  /\ pc' = [pc EXCEPT ![t] = "loadHead"]
  /\ UNCHANGED <<alive, ring, head, todo>>

\* Mutant of Miss: the newest event is never found.
MissOffByOne(t) ==
  /\ pc[t] = "loadHead"
  /\ reg[t] + 1 >= head
  /\ pc' = [pc EXCEPT ![t] = "undo"]
  /\ UNCHANGED <<alive, ring, head, tail, reg, buf, todo, ret>>

\* Lines 47-48: load g_head; there is no event at the claimed index.
Miss(t) ==
  /\ pc[t] = "loadHead"
  /\ reg[t] >= head
  /\ pc' = [pc EXCEPT ![t] = "undo"]
  /\ UNCHANGED <<alive, ring, head, tail, reg, buf, todo, ret>>

\* Mutant of Undo: the increment is not taken back.
UndoForgotten(t) ==
  /\ pc[t] = "undo"
  /\ reg' = [reg EXCEPT ![t] = 0]
  /\ ret' = [ret EXCEPT ![t] = "empty"]
  /\ pc' = [pc EXCEPT ![t] = "idle"]
  /\ UNCHANGED <<alive, ring, head, tail, buf, todo>>

\* Lines 49-50: g_tail--, return 0.
Undo(t) ==
  /\ pc[t] = "undo"
  /\ tail' = tail - 1
  /\ reg' = [reg EXCEPT ![t] = 0]
  /\ ret' = [ret EXCEPT ![t] = "empty"]
  /\ pc' = [pc EXCEPT ![t] = "idle"]
  /\ UNCHANGED <<alive, ring, head, buf, todo>>

\* Mutant of Take: <= for <.
TakeOffByOne(t) ==
  /\ pc[t] = "loadHead"
  /\ reg[t] <= head
  /\ todo' = [todo EXCEPT ![t] = Fields]
  /\ pc' = [pc EXCEPT ![t] = "copyOut"]
  /\ UNCHANGED <<alive, ring, head, tail, reg, buf, ret>>

\* Lines 47-48 and 52: load g_head; the claimed index has been published.
Take(t) ==
  /\ pc[t] = "loadHead"
  /\ reg[t] < head
  /\ todo' = [todo EXCEPT ![t] = Fields]
  /\ pc' = [pc EXCEPT ![t] = "copyOut"]
  /\ UNCHANGED <<alive, ring, head, tail, reg, buf, ret>>

\* Lines 53-54: one part of the memcpy out of the slot; the last one returns 1.
CopyOut(t, f) ==
  /\ pc[t] = "copyOut"
  /\ f \in todo[t]
  /\ buf' = [buf EXCEPT ![t][f] = ring[Slot(reg[t])][f]]
  /\ todo' = [todo EXCEPT ![t] = @ \ {f}]
  /\ \/ /\ todo[t] # {f}
        /\ UNCHANGED <<pc, reg, ret>>
     \/ /\ todo[t] = {f}
        /\ ret' = [ret EXCEPT ![t] = "got"]
        /\ reg' = [reg EXCEPT ![t] = 0]
        /\ pc' = [pc EXCEPT ![t] = "idle"]
  /\ UNCHANGED <<alive, ring, head, tail>>

-----------------------------------------------------------------------------
(* event_bus_pending.  It does not look at g_ring: a closed bus answers with *)
(* the counters as they were left.                                          *)

\* Line 59: load g_head.
CallPending(t) ==
  /\ pc[t] = "idle"
  /\ reg' = [reg EXCEPT ![t] = head]
  /\ buf' = [buf EXCEPT ![t] = Uniform(Zero)]
  /\ ret' = [ret EXCEPT ![t] = "none"]
  /\ pc' = [pc EXCEPT ![t] = "countTail"]
  /\ UNCHANGED <<alive, ring, head, tail, todo>>

\* Lines 60-61: load g_tail and return the unsigned difference.
Answer(t) ==
  /\ pc[t] = "countTail"
  /\ reg' = [reg EXCEPT ![t] = USub(@, tail)]
  /\ ret' = [ret EXCEPT ![t] = "counted"]
  /\ pc' = [pc EXCEPT ![t] = "idle"]
  /\ UNCHANGED <<alive, ring, head, tail, buf, todo>>

-----------------------------------------------------------------------------

\* A step of a publish call after its first access.
PublishStep(t) ==
  \/ Refuse(t)
  \/ Admit(t)
  \/ Claim(t)
  \/ \E f \in Fields : CopyIn(t, f)

\* A step of a consume call after its first access.
ConsumeStep(t) ==
  \/ Miss(t)
  \/ Undo(t)
  \/ Take(t)
  \/ \E f \in Fields : CopyOut(t, f)

Next ==
  \/ BusInit
  \/ BusShutdown
  \/ \E t \in Threads : CallClosed(t)
  \/ \E t \in Producers : \E e \in Events : CallPublish(t, e)
  \/ \E t \in Producers : PublishStep(t)
  \/ \E t \in Consumers : CallConsume(t)
  \/ \E t \in Consumers : ConsumeStep(t)
  \/ \E t \in Observers : CallPending(t)
  \/ \E t \in Observers : Answer(t)

Spec == Init /\ [][Next]_vars

\* Every thread is scheduled: a call that has begun goes on, and a consumer's
\* worker loop calls again.  Nobody promises to publish or to shut down.
Fairness ==
  /\ \A t \in Producers : WF_vars(PublishStep(t))
  /\ \A t \in Consumers : WF_vars(ConsumeStep(t)) /\ WF_vars(CallConsume(t))

FairSpec == Spec /\ Fairness

-----------------------------------------------------------------------------
(* Properties that hold of every interleaving *)

\* Types of the variables.
TypeOK ==
  /\ alive \in BOOLEAN
  /\ ring \in [Slots -> Structs]
  /\ head \in Nat
  /\ tail \in Nat
  /\ pc \in [Threads -> Labels]
  /\ reg \in [Threads -> Nat]
  /\ buf \in [Threads -> Structs]
  /\ todo \in [Threads -> SUBSET Fields]
  /\ ret \in [Threads -> Returns]

\* Calls of event_bus_consume that have returned or will return 1.
Taken == tail - Cardinality(Speculating)

\* The speculative increments of line 46 never let consumers obtain more
\* events than publishers claimed, although two of them may claim one index.
TakenAtMostPublished == Taken <= head

\* What two racing calls can add to a full ring: each publisher but one may
\* pass the check of line 36 on stale loads, and each consumer may take back
\* (line 49) an increment that a publisher counted as room.
Overrun == Cardinality(Producers) - 1 + Cardinality(Consumers)

\* The ring is overrun by a bounded number of events only: a stall of any
\* length costs at most Overrun overwritten events per lap.
OverrunBounded == head - Taken <= Capacity + Overrun

\* What event_bus_pending answers, with its two loads apart (lines 59-61).  It
\* misses the events published since the first load and one event for each
\* consumer between lines 46 and 49; it never counts an event that is gone, and
\* it wraps around zero exactly when it misses more than is left.
PendingAnswered ==
  [][\A t \in Observers : Answer(t) =>
       LET left == head - Taken
           missed == head - reg[t] + Cardinality(Speculating)
       IN  /\ left >= 0 /\ missed >= 0
           /\ missed <= left => reg'[t] = left - missed
           /\ missed > left => reg'[t] = WordSize - (missed - left)]_vars

\* event_bus_publish refuses an event (line 36) only when the ring holds its
\* capacity, or for one of two passing reasons: a consumer is between lines 46
\* and 49, or another publisher has claimed an index since line 34.
RefusedForCause ==
  [][\A t \in Producers : Refuse(t) =>
       head - Taken >= Capacity \/ Speculating # {} \/ head > reg[t]]_vars

-----------------------------------------------------------------------------
(* Properties of a bus that one thread consumes from *)

\* Indices are handed out one by one: the call that is answered 1 copies the
\* event with the number of events taken so far, and nothing else counts as
\* taken, whatever increments are taken back in between (lines 46-52).  With two
\* consumers one index may be copied twice and another one never.
TakesInOrder ==
  [][/\ \A t \in Consumers : Take(t) => reg[t] = Taken /\ Taken' = Taken + 1
     /\ Taken' # Taken => BusInit \/ \E t \in Consumers : Take(t)]_vars

-----------------------------------------------------------------------------
(* Liveness *)

\* Every index a publisher claimed is passed by g_tail, unless the bus is shut
\* down: events do not stay in the ring for ever.
PendingEventuallyTaken ==
  \A i \in 0 .. MaxPublish - 1 : (alive /\ head > i) ~> (Taken > i \/ ~alive)
=============================================================================
