----------------------------- MODULE EventStore -----------------------------
(***************************************************************************)
(* What the worker loops do with the events they take from the bus: the     *)
(* filters of process_monitor.c, network_monitor.c and user_monitor.c, the  *)
(* scoring and retraining of ai_engine.c, the upserts of file_integrity.c,  *)
(* and the prepared statements of db.c that these threads share.            *)
(*                                                                         *)
(* db.c keeps one sqlite3_stmt per function and no lock of its own: SQLite  *)
(* serialises single calls (reset, bind, step), not the sequence of them    *)
(* that stores a row.  Bindings are SQLITE_STATIC: what the statement keeps *)
(* is the address of the caller's buffer, read when the statement steps.    *)
(* The binds of a call are two here: the label every caller passes as a     *)
(* literal or a path ("key") and the buffer it passes ("data").             *)
(*                                                                         *)
(* The bus is taken at the granularity of its calls: the races inside them  *)
(* are the subject of EventBus.  The database is open (module Daemon).      *)
(***************************************************************************)
EXTENDS Naturals, Sequences

CONSTANTS Running,    \* the modules whose worker threads run
          Capacity,   \* of the event bus
          Window,     \* events the AI engine scores before it retrains
          MaxItems    \* bound: events, log lines and files in a behaviour

\* The functions of db.c that a worker thread calls, one statement each.
Functions == {"insert_event", "insert_alert", "store_model", "update_file_entry"}

\* Who calls what.
Monitors == {"process_monitor", "network_monitor"}
Threads == Monitors \cup {"user_monitor", "ai_engine", "file_integrity"}
Uses(t) ==
  IF t = "ai_engine" THEN {"insert_alert", "store_model"}
  ELSE IF t = "file_integrity" THEN {"update_file_entry"} ELSE {"insert_event"}

\* What a monitor stores of the events it takes: an eBPF event carries a path
\* or none ("bare"), the file scanner's events carry a hash.
EbpfKinds == {"path", "bare"}
Wanted(t) == IF t = "process_monitor" THEN EbpfKinds ELSE {"bare"}
Kinds == EbpfKinds \cup {"file", "line", "model", "alert"}

\* iforest_score of g_trees trees of depth 8: a tree adds 1 or 5 to the sum, so
\* the average is 1..5.
Scores == {100 - (average * 10) \div 8 : average \in 1 .. 5}
Threshold == 85

ASSUME RunningAssumption == Running \subseteq Threads
ASSUME BoundsAssumption ==
  Capacity \in Nat /\ Window \in Nat \ {0} /\ MaxItems \in Nat
\* Whatever its features, an event scores above g_threshold: ai_thread raises
\* an alert for every one, and the branch of ai_engine.c:36 is always taken.
ASSUME EveryScoreAlerts == \A score \in Scores : score >= Threshold

Buffers == {b \in Running \X Functions : b[2] \in Uses(b[1])}
Callers(f) == {t \in Running : f \in Uses(t)}
Unbound == "unbound"

\* What a buffer holds; its memory may be freed, and an argument may be NULL.
Contents == [n : 0 .. MaxItems, kind : Kinds]
Dead == [n |-> 0, kind |-> "dead"]
Null == [n |-> 0, kind |-> "null"]

VARIABLES
  queue,      \* the event bus
  at,         \* where a thread is: in its loop, or before which SQLite call
  fn,         \* the function of db.c it is in, or was in last
  mem,        \* mem[<<t, f>>]: the buffer t passes to f
  phase,      \* of a statement: "ready", or "halted" by a step without a reset
  bound,      \* the bindings of a statement
  rows,       \* the rows a function has stored, in order of id
  seen,       \* wcount of ai_thread
  items,      \* how many events, lines and files there have been
  owed,       \* history: eBPF events the bus accepted and SQLite did not refuse
  alone       \* history: no other thread was inside t's function since t entered

vars == <<queue, at, fn, mem, phase, bound, rows, seen, items, owed, alone>>

Init ==
  /\ queue = <<>>
  /\ at = [t \in Running |-> "loop"]
  /\ fn = [t \in Running |-> "none"]
  /\ mem = [b \in Buffers |-> Dead]
  /\ phase = [f \in Functions |-> "ready"]
  /\ bound = [f \in Functions |-> [key |-> Unbound, data |-> Unbound]]
  /\ rows = [f \in Functions |-> <<>>]
  /\ seen = 0
  /\ items = 0
  /\ owed = {}
  /\ alone = [t \in Running |-> FALSE]

-----------------------------------------------------------------------------
(* The bus, at the granularity of its calls *)

NewItem(kind) == [n |-> items + 1, kind |-> kind]

\* event_bus_publish: a full bus answers -ENOBUFS and the event is dropped.
Published(e) == IF Len(queue) < Capacity THEN Append(queue, e) ELSE queue

\* handle_rb_event forwards an event of the kernel.
PublishEbpf(kind) ==
  /\ items < MaxItems
  /\ items' = items + 1
  /\ queue' = Published(NewItem(kind))
  /\ owed' = IF queue' = queue THEN owed ELSE owed \cup {NewItem(kind)}
  /\ UNCHANGED <<at, fn, mem, phase, bound, rows, seen, alone>>

-----------------------------------------------------------------------------
(* The worker loops up to a call of db.c *)

\* t is about to call f with a buffer that holds c.
Calls(t, f, c) ==
  /\ at' = [at EXCEPT ![t] = "enter"]
  /\ fn' = [fn EXCEPT ![t] = f]
  /\ mem' = [mem EXCEPT ![<<t, f>>] = c]

\* A monitor takes an event it stores.
TakeWanted(t) ==
  /\ t \in Monitors /\ at[t] = "loop" /\ queue # <<>>
  /\ Head(queue).kind \in Wanted(t)
  /\ Calls(t, "insert_event", Head(queue))
  /\ queue' = Tail(queue)
  /\ UNCHANGED <<phase, bound, rows, seen, items, owed, alone>>

\* A monitor takes an event that is not its own: ev is overwritten all the same.
TakeOther(t) ==
  /\ t \in Monitors /\ at[t] = "loop" /\ queue # <<>>
  /\ Head(queue).kind \notin Wanted(t)
  /\ mem' = [mem EXCEPT ![<<t, "insert_event">>] = Head(queue)]
  /\ queue' = Tail(queue)
  /\ UNCHANGED <<at, fn, phase, bound, rows, seen, items, owed, alone>>

\* ai_thread takes an event, scores it and raises an alert.
TakeScored(t) ==
  /\ t = "ai_engine" /\ at[t] = "loop" /\ queue # <<>>
  /\ Calls(t, "insert_alert", [n |-> 0, kind |-> "alert"])
  /\ queue' = Tail(queue)
  /\ seen' = seen + 1
  /\ UNCHANGED <<phase, bound, rows, items, owed, alone>>

\* A full window: a new forest, serialised into a block of the heap.
Retrain(t) ==
  /\ t = "ai_engine" /\ at[t] = "loopEnd" /\ seen = Window
  /\ Calls(t, "store_model", [n |-> 0, kind |-> "model"])
  /\ UNCHANGED <<queue, phase, bound, rows, seen, items, owed, alone>>

NoRetrain(t) ==
  /\ t = "ai_engine" /\ at[t] = "loopEnd" /\ seen < Window
  /\ at' = [at EXCEPT ![t] = "loop"]
  /\ UNCHANGED <<queue, fn, mem, phase, bound, rows, seen, items, owed, alone>>

\* user_thread reads a line of auth.log.
ReadLine(t) ==
  /\ t = "user_monitor" /\ at[t] = "loop" /\ items < MaxItems
  /\ items' = items + 1
  /\ Calls(t, "insert_event", NewItem("line"))
  /\ UNCHANGED <<queue, phase, bound, rows, seen, owed, alone>>

\* file_cb has hashed a file.
HashFile(t) ==
  /\ t = "file_integrity" /\ at[t] = "loop" /\ items < MaxItems
  /\ items' = items + 1
  /\ Calls(t, "update_file_entry", NewItem("file"))
  /\ UNCHANGED <<queue, phase, bound, rows, seen, owed, alone>>

\* file_cb publishes the hash and returns: its buffers are gone.
PublishFile(t) ==
  /\ at[t] = "publish"
  /\ queue' = Published(mem[<<t, "update_file_entry">>])
  /\ at' = [at EXCEPT ![t] = "loop"]
  /\ mem' = [mem EXCEPT ![<<t, "update_file_entry">>] = Dead]
  /\ UNCHANGED <<fn, phase, bound, rows, seen, items, owed, alone>>

\* g_run is cleared: the thread returns and its stack is gone.
EndThread(t) ==
  /\ at[t] = "loop"
  /\ at' = [at EXCEPT ![t] = "ended"]
  /\ mem' = [b \in Buffers |-> IF b[1] = t THEN Dead ELSE mem[b]]
  /\ UNCHANGED <<queue, fn, phase, bound, rows, seen, items, owed, alone>>

-----------------------------------------------------------------------------
(* A call of db.c, one SQLite call after the other *)

Inside(f) == {t \in Running : at[t] \in {"key", "data", "step"} /\ fn[t] = f}

\* Mutant: a call that does not reset its statement.
ResetForgotten(t) ==
  /\ at[t] = "enter"
  /\ at' = [at EXCEPT ![t] = "key"]
  /\ alone' = [u \in Running |->
                 IF u = t THEN Inside(fn[t]) = {}
                 ELSE alone[u] /\ u \notin Inside(fn[t])]
  /\ UNCHANGED <<queue, fn, mem, phase, bound, rows, seen, items, owed>>

\* sqlite3_reset keeps the bindings.
Reset(t) ==
  /\ at[t] = "enter"
  /\ phase' = [phase EXCEPT ![fn[t]] = "ready"]
  /\ at' = [at EXCEPT ![t] = "key"]
  /\ alone' = [u \in Running |->
                 IF u = t THEN Inside(fn[t]) = {}
                 ELSE alone[u] /\ u \notin Inside(fn[t])]
  /\ UNCHANGED <<queue, fn, mem, bound, rows, seen, items, owed>>

\* sqlite3_bind_text, sqlite3_bind_blob: refused with SQLITE_MISUSE, which
\* db.c does not look at, while the statement is halted.
BindKey(t) ==
  /\ at[t] = "key"
  /\ bound' = IF phase[fn[t]] = "ready" THEN [bound EXCEPT ![fn[t]].key = t] ELSE bound
  /\ at' = [at EXCEPT ![t] = "data"]
  /\ UNCHANGED <<queue, fn, mem, phase, rows, seen, items, owed, alone>>

\* Mutant: the second argument bound to the place of the first.
BindDataAsKey(t) ==
  /\ at[t] = "data"
  /\ bound' = IF phase[fn[t]] = "ready" THEN [bound EXCEPT ![fn[t]].key = t] ELSE bound
  /\ at' = [at EXCEPT ![t] = "step"]
  /\ UNCHANGED <<queue, fn, mem, phase, rows, seen, items, owed, alone>>

BindData(t) ==
  /\ at[t] = "data"
  /\ bound' = IF phase[fn[t]] = "ready" THEN [bound EXCEPT ![fn[t]].data = t] ELSE bound
  /\ at' = [at EXCEPT ![t] = "step"]
  /\ UNCHANGED <<queue, fn, mem, phase, rows, seen, items, owed, alone>>

\* Where the caller of f goes on, whatever the call returned.
After(f) == IF f = "insert_alert" THEN "loopEnd"
            ELSE IF f = "update_file_entry" THEN "publish" ELSE "loop"

\* Mutant: wcount is not reset after a retraining.
ReturnWindowKept(t) ==
  /\ at' = [at EXCEPT ![t] = After(fn[t])]
  /\ seen' = seen
  /\ mem' = IF fn[t] = "store_model" THEN [mem EXCEPT ![<<t, fn[t]>>] = Dead] ELSE mem

\* ai_model_save frees its block; ai_thread then clears wcount.
Return(t) ==
  /\ at' = [at EXCEPT ![t] = After(fn[t])]
  /\ seen' = IF fn[t] = "store_model" THEN 0 ELSE seen
  /\ mem' = IF fn[t] = "store_model" THEN [mem EXCEPT ![<<t, fn[t]>>] = Dead] ELSE mem

\* The row the bindings of f stand for when it steps.
Row(f) == [key  |-> bound[f].key,
           data |-> IF bound[f].data = Unbound THEN Null ELSE mem[<<bound[f].data, f>>]]

\* sqlite3_step executes the statement, a halted one too: SQLite resets it.
Store(t) ==
  /\ at[t] = "step"
  /\ rows' = [rows EXCEPT ![fn[t]] = Append(@, Row(fn[t]))]
  /\ phase' = [phase EXCEPT ![fn[t]] = "halted"]
  /\ Return(t)
  /\ UNCHANGED <<queue, fn, bound, items, owed, alone>>

\* sqlite3_step fails (the database is busy or full): a log line, no row.
StepFails(t) ==
  /\ at[t] = "step"
  /\ phase' = [phase EXCEPT ![fn[t]] = "halted"]
  /\ Return(t)
  /\ owed' = owed \ {mem[<<t, fn[t]>>]}
  /\ UNCHANGED <<queue, fn, bound, rows, items, alone>>

Next ==
  \/ \E kind \in EbpfKinds : PublishEbpf(kind)
  \/ \E t \in Running :
       \/ TakeWanted(t) \/ TakeOther(t) \/ TakeScored(t) \/ Retrain(t) \/ NoRetrain(t)
       \/ ReadLine(t) \/ HashFile(t) \/ PublishFile(t) \/ EndThread(t)
       \/ Reset(t) \/ BindKey(t) \/ BindData(t) \/ Store(t) \/ StepFails(t)

Spec == Init /\ [][Next]_vars

-----------------------------------------------------------------------------
(* Correctness *)

TypeOK ==
  /\ queue \in Seq(Contents) /\ Len(queue) <= Capacity
  /\ at \in [Running -> {"loop", "loopEnd", "enter", "key", "data", "step", "publish", "ended"}]
  /\ fn \in [Running -> Functions \cup {"none"}]
  /\ mem \in [Buffers -> Contents \cup {Dead}]
  /\ phase \in [Functions -> {"ready", "halted"}]
  /\ bound \in [Functions -> [key : Running \cup {Unbound}, data : Running \cup {Unbound}]]
  /\ rows \in [Functions -> Seq([key  : Running \cup {Unbound},
                                 data : Contents \cup {Dead, Null}])]
  /\ seen \in 0 .. Window
  /\ items \in 0 .. MaxItems
  /\ owed \in SUBSET Contents
  /\ alone \in [Running -> BOOLEAN]

\* A thread calls only its own functions, so a statement is bound by its callers.
CallInv ==
  /\ \A f \in Functions : {bound[f].key, bound[f].data} \subseteq Callers(f) \cup {Unbound}
  /\ \A t \in Running :
       /\ fn[t] \in Uses(t) \cup {"none"}
       /\ at[t] \in {"enter", "key", "data", "step"} => fn[t] # "none"
       /\ at[t] = "publish" => fn[t] = "update_file_entry"
       /\ at[t] = "loopEnd" => t = "ai_engine"

\* The buffer of a call lives until the call returns, and the scanner's until
\* it has published.
BufferInv ==
  \A t \in Running :
    at[t] \in {"enter", "key", "data", "step", "publish"} => mem[<<t, fn[t]>>] # Dead

\* There is room in the window whenever an event is taken.
WindowInv ==
  \A t \in Running :
    t = "ai_engine" /\ at[t] \in {"loop", "ended"} => seen < Window

\* Who binds an argument, or finds the statement halted, leaves it bound.
BoundInv ==
  /\ \A f \in Functions :
       phase[f] = "halted" => bound[f].key # Unbound /\ bound[f].data # Unbound
  /\ \A t \in Running :
       /\ at[t] \in {"data", "step"} => bound[fn[t]].key # Unbound
       /\ at[t] = "step" => bound[fn[t]].data # Unbound

\* The bindings of a call that nobody disturbs are its own.
AloneInv ==
  \A t \in Running :
    alone[t] /\ t \in Inside(fn[t]) =>
      /\ Inside(fn[t]) = {t}
      /\ phase[fn[t]] = "ready"
      /\ at[t] \in {"data", "step"} => bound[fn[t]].key = t
      /\ at[t] = "step" => bound[fn[t]].data = t

\* The inductive invariant of the shared statements (db.c:66-138).
StoreInv ==
  TypeOK /\ CallInv /\ BufferInv /\ WindowInv /\ BoundInv /\ AloneInv

\* Calls of db_insert_event that race may mix their arguments (db.c:69-72), but
\* none of them stores a row that lacks one.
NoHalfRow ==
  \A f \in Functions : \A i \in DOMAIN rows[f] :
    rows[f][i].key # Unbound /\ rows[f][i].data # Null

\* A call that no other call of the same function overlaps stores its own row,
\* whatever raced or failed before it (db.c:69, 83, 98, 128): calls of the
\* functions with one caller always do.
UndisturbedCallExact ==
  [][\A t \in Running : Store(t) /\ alone[t] =>
       LET f == fn[t] IN
         /\ rows' = [rows EXCEPT ![f] = Append(@, [key |-> t, data |-> mem[<<t, f>>]])]
         /\ mem[<<t, f>>] # Dead]_vars

\* ARCHITECTURE.md:19, "ProcessMonitor / NetworkMonitor / UserMonitor: consume
\* events from the bus and persist relevant entries": an eBPF event that the bus
\* accepted is waiting, in the hands of process_monitor, or stored under its name
\* unless SQLite refused the row.
RelevantEventsStored ==
  \A e \in owed :
    \/ \E i \in DOMAIN queue : queue[i] = e
    \/ mem[<<"process_monitor", "insert_event">>] = e
    \/ \E i \in DOMAIN rows["insert_event"] :
         rows["insert_event"][i] = [key |-> "process_monitor", data |-> e]
=============================================================================
