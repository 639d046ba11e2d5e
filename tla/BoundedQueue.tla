---------------------------- MODULE BoundedQueue ----------------------------
(***************************************************************************)
(* A bounded first-in first-out queue with one client, as a caller of the   *)
(* event bus that makes one call at a time sees it: the sequence of events  *)
(* in the queue and the answer to the last call.                            *)
(***************************************************************************)
EXTENDS Integers, Sequences

CONSTANTS
  Capacity,  \* the most events the queue holds
  Items,     \* the events that may be published
  Nothing    \* stands for the missing event of an answer without one

VARIABLES
  open,   \* the queue exists
  queue,  \* its events, oldest first
  reply,  \* the answer to the last call, "none" while a call is under way
  item,   \* the event of a "got" answer
  size    \* the number of a "counted" answer

vars == <<open, queue, reply, item, size>>

Init ==
  /\ open = FALSE
  /\ queue = <<>>
  /\ reply = "none"
  /\ item = Nothing
  /\ size = 0

Open ==
  /\ ~open
  /\ open' = TRUE
  /\ UNCHANGED <<queue, reply, item, size>>

\* The events still in the queue are dropped.
Close ==
  /\ open
  /\ open' = FALSE
  /\ queue' = <<>>
  /\ UNCHANGED <<reply, item, size>>

\* Putting into or getting from a queue that does not exist.
CallClosed ==
  /\ ~open
  /\ reply' = "invalid"
  /\ item' = Nothing
  /\ size' = 0
  /\ UNCHANGED <<open, queue>>

\* The client makes its next call; it may count what a closed queue held.
Call ==
  /\ reply' = "none"
  /\ item' = Nothing
  /\ size' = 0
  /\ UNCHANGED <<open, queue>>

Put(e) ==
  /\ open
  /\ reply = "none"
  /\ Len(queue) < Capacity
  /\ queue' = Append(queue, e)
  /\ reply' = "ok"
  /\ UNCHANGED <<open, item, size>>

PutFull ==
  /\ open
  /\ reply = "none"
  /\ Len(queue) = Capacity
  /\ reply' = "full"
  /\ UNCHANGED <<open, queue, item, size>>

Get ==
  /\ open
  /\ reply = "none"
  /\ queue # <<>>
  /\ queue' = Tail(queue)
  /\ item' = Head(queue)
  /\ reply' = "got"
  /\ UNCHANGED <<open, size>>

GetEmpty ==
  /\ open
  /\ reply = "none"
  /\ queue = <<>>
  /\ reply' = "empty"
  /\ UNCHANGED <<open, queue, item, size>>

\* The number of events in the queue; of a queue that is gone, any number.
Count ==
  /\ reply = "none"
  /\ size' \in Nat
  /\ open => size' = Len(queue)
  /\ reply' = "counted"
  /\ UNCHANGED <<open, queue, item>>

Next ==
  \/ Open
  \/ Close
  \/ CallClosed
  \/ Call
  \/ \E e \in Items : Put(e)
  \/ PutFull
  \/ Get
  \/ GetEmpty
  \/ Count

Spec == Init /\ [][Next]_vars
=============================================================================
