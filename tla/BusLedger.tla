----------------------------- MODULE BusLedger -----------------------------
(***************************************************************************)
(* What the event bus promises to any number of racing threads: it keeps an *)
(* account.  A consume that returns 1 is always covered by an earlier       *)
(* publish, and publishes run ahead of consumes by at most Limit.  Which    *)
(* event a consumer is handed is not part of the promise.                   *)
(***************************************************************************)
EXTENDS Integers

CONSTANT Limit  \* the most publishes that consumes may lag behind

VARIABLES
  open,       \* the bus is initialised
  published,  \* publishes answered 0 since then
  taken       \* consumes answered 1 since then

vars == <<open, published, taken>>

Init == open = FALSE /\ published = 0 /\ taken = 0

Open ==
  /\ ~open
  /\ open' = TRUE
  /\ published' = 0
  /\ taken' = 0

Close ==
  /\ open
  /\ open' = FALSE
  /\ UNCHANGED <<published, taken>>

Publish ==
  /\ open
  /\ published - taken < Limit
  /\ published' = published + 1
  /\ UNCHANGED <<open, taken>>

Take ==
  /\ open
  /\ taken < published
  /\ taken' = taken + 1
  /\ UNCHANGED <<open, published>>

Next == Open \/ Close \/ Publish \/ Take

Spec == Init /\ [][Next]_vars
=============================================================================
