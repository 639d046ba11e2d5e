--------------------------- MODULE ServiceScopes ---------------------------
(***************************************************************************)
(* What the shared services of a process promise the threads that call      *)
(* them: each is opened once and closed once, only threads that find it     *)
(* open enter it, and it is closed when no thread is inside.  A thread may  *)
(* leave one service and enter another in one step.                         *)
(***************************************************************************)

CONSTANTS
  Services,
  Threads

VARIABLES
  state,  \* "new", "open" or "closed" for each service
  users   \* the threads inside each service

vars == <<state, users>>

Init ==
  /\ state = [s \in Services |-> "new"]
  /\ users = [s \in Services |-> {}]

Open(s) ==
  /\ state[s] = "new"
  /\ state'[s] = "open"
  /\ users'[s] = users[s]

Enter(s, t) ==
  /\ state[s] = "open"
  /\ state'[s] = "open"
  /\ users'[s] = users[s] \cup {t}

Leave(s, t) ==
  /\ state'[s] = state[s]
  /\ users'[s] = users[s] \ {t}

Close(s) ==
  /\ state[s] = "open"
  /\ users[s] = {}
  /\ state'[s] = "closed"
  /\ users'[s] = {}

Keep(s) == state'[s] = state[s] /\ users'[s] = users[s]

Next ==
  \A s \in Services :
    \/ Open(s)
    \/ \E t \in Threads : Enter(s, t) \/ Leave(s, t)
    \/ Close(s)
    \/ Keep(s)

Spec == Init /\ [][Next]_vars
=============================================================================
