---------------------------- MODULE RecentLines ----------------------------
(***************************************************************************)
(* What the ring of logger.c promises ("recent messages kept in-memory",    *)
(* ARCHITECTURE.md:11): a window on the last RingSize lines, in the order    *)
(* they were logged.  A place of the window is empty before there were as   *)
(* many lines, and for a line whose copy could not be made; the oldest line *)
(* goes when a newer one is about to come.                                  *)
(***************************************************************************)
EXTENDS Naturals, Sequences

CONSTANTS Messages, RingSize,
          None  \* an empty place

VARIABLES recent,  \* the window, oldest first
          down     \* the logger is closed, and nothing is kept

Empty == [k \in 1 .. RingSize |-> None]

Init == recent = Empty /\ down = FALSE

\* Room is made for a line.
Forget == ~down /\ recent' = [recent EXCEPT ![1] = None] /\ UNCHANGED down

\* The line comes, or is missing.
Add(m) == ~down /\ recent' = Append(Tail(recent), m) /\ UNCHANGED down

\* logger_fini.
Close == ~down /\ down' = TRUE /\ recent' = Empty

Next == Forget \/ (\E m \in Messages \cup {None} : Add(m)) \/ Close

Spec == Init /\ [][Next]_<<recent, down>>
=============================================================================
