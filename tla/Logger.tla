------------------------------- MODULE Logger -------------------------------
(***************************************************************************)
(* nulleye_log of logger.c: under one mutex a line goes to the log file and *)
(* to syslog, and a copy of it takes the oldest place of a ring, whose line *)
(* is freed.  logger_fini frees what the ring holds, without the mutex.     *)
(*                                                                         *)
(* A line is its message; a place of the ring is a pointer, which may be    *)
(* NULL or outlive its line.  The log file is part of module Daemon.        *)
(***************************************************************************)
EXTENDS Integers, Sequences

CONSTANTS Threads,   \* those that log
          Messages,
          RingSize,  \* LOG_RING
          None       \* no thread, no message

ASSUME RingAssumption == RingSize \in Nat \ {0}
ASSUME NoneAssumption == None \notin Threads /\ None \notin Messages

VARIABLES
  says,    \* the message a thread is in nulleye_log with
  step,    \* where it is there
  lock,    \* g_lock
  ring,    \* g_ring
  idx,     \* g_ring_idx
  down     \* logger_fini was called

logVars == <<says, step, lock, ring, idx, down>>

Places == 0 .. RingSize - 1
Null == [msg |-> None, live |-> FALSE]
Line(m) == [msg |-> m, live |-> TRUE]
Pointers == [msg : Messages \cup {None}, live : BOOLEAN]
Dangling(p) == p.msg # None /\ ~p.live

LogInit ==
  /\ says = [t \in Threads |-> None]
  /\ step = [t \in Threads |-> "out"]
  /\ lock = None
  /\ ring = [i \in Places |-> Null]
  /\ idx = 0
  /\ down = FALSE

\* A thread calls nulleye_log.
Call(t, m) ==
  /\ says' = [says EXCEPT ![t] = m]
  /\ UNCHANGED <<step, lock, ring, idx, down>>

\* Mutant: the mutex is not taken.
AcquireUnlocked(t) ==
  /\ says[t] # None /\ step[t] = "out"
  /\ lock' = t
  /\ step' = [step EXCEPT ![t] = "free"]
  /\ UNCHANGED <<says, ring, idx, down>>

\* pthread_mutex_lock, then fputs and syslog.
Acquire(t) ==
  /\ says[t] # None /\ step[t] = "out" /\ lock = None
  /\ lock' = t
  /\ step' = [step EXCEPT ![t] = "free"]
  /\ UNCHANGED <<says, ring, idx, down>>

\* free(g_ring[g_ring_idx]).
FreeOldest(t) ==
  /\ step[t] = "free"
  /\ ring' = [ring EXCEPT ![idx].live = FALSE]
  /\ step' = [step EXCEPT ![t] = "dup"]
  /\ UNCHANGED <<says, lock, idx, down>>

\* strdup, which may fail.
Duplicate(t) ==
  /\ step[t] = "dup"
  /\ \E p \in {Line(says[t]), Null} : ring' = [ring EXCEPT ![idx] = p]
  /\ step' = [step EXCEPT ![t] = "next"]
  /\ UNCHANGED <<says, lock, idx, down>>

\* The index moves on, the mutex is released, and nulleye_log returns.
Advance(t) ==
  /\ step[t] = "next"
  /\ idx' = (idx + 1) % RingSize
  /\ lock' = None
  /\ says' = [says EXCEPT ![t] = None]
  /\ step' = [step EXCEPT ![t] = "out"]
  /\ UNCHANGED <<ring, down>>

\* logger_fini, the last call main makes.  The places keep their pointers.
Fini ==
  /\ ring' = [i \in Places |-> [ring[i] EXCEPT !.live = FALSE]]
  /\ down' = TRUE
  /\ UNCHANGED <<says, step, lock, idx>>

LogStep(t) == Acquire(t) \/ FreeOldest(t) \/ Duplicate(t) \/ Advance(t)

\* What the callers owe: nobody is inside of nulleye_log when logger_fini is
\* called, and nobody calls it afterwards.
LogNext ==
  \/ \E t \in Threads : LogStep(t)
  \/ \E t \in Threads, m \in Messages : ~down /\ says[t] = None /\ Call(t, m)
  \/ ~down /\ (\A t \in Threads : says[t] = None) /\ Fini

LogSpec == LogInit /\ [][LogNext]_logVars

-----------------------------------------------------------------------------
(* Correctness *)

LogTypeOK ==
  /\ says \in [Threads -> Messages \cup {None}]
  /\ step \in [Threads -> {"out", "free", "dup", "next"}]
  /\ lock \in Threads \cup {None}
  /\ ring \in [Places -> Pointers]
  /\ idx \in Places
  /\ down \in BOOLEAN

\* One thread at a time is between lock and unlock, and it is logging.
LockInv ==
  \A t \in Threads :
    /\ step[t] # "out" <=> lock = t
    /\ lock = t => says[t] # None
    /\ down => says[t] = None

\* Every line is freed once (logger.c:66, 30): outside of the two assignments
\* no place points to a freed line until logger_fini, and a place is overwritten
\* when its line is gone.
LineInv ==
  /\ \A i \in Places :
       Dangling(ring[i]) => down \/ (i = idx /\ \E t \in Threads : step[t] = "dup")
  /\ \A i \in Places : ring[i].msg = None => ~ring[i].live
  /\ \A t \in Threads : step[t] = "dup" => ~ring[idx].live

LogInv == LogTypeOK /\ LockInv /\ LineInv

-----------------------------------------------------------------------------
(* What the ring keeps *)

\* The oldest line is at the index, or behind it while the index has yet to move.
Oldest == IF \E t \in Threads : step[t] = "next" THEN (idx + 1) % RingSize ELSE idx

Text(p) == IF p.live THEN p.msg ELSE None
Window == [k \in 1 .. RingSize |-> Text(ring[(Oldest + k - 1) % RingSize])]

Recent == INSTANCE RecentLines WITH recent <- Window

\* logger.c:64-66: the ring holds the last RingSize lines in the order in which
\* they were logged, whichever threads logged them.
RecentSpec == Recent!Spec
=============================================================================
