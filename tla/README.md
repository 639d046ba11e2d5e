# Verification of NullEye

NullEye is a host monitor in C: kernel probes and a file scanner produce events,
worker threads take them from an in-memory ring, score or filter them, and store
what they find in SQLite. This directory holds TLA+ models of its concurrent core,
TLC configurations that check them, and proofs for TLAPS.

Paths below are relative to the repository; `core/`, `modules/`, ... stand for
`src/core/`, `src/modules/`, ...

## 1. The system

### Components

| Component | State | Operations | Correct when |
|---|---|---|---|
| Event bus, `core/event_bus.c` | `g_ring`, `g_capacity`, `g_head`, `g_tail` | init, shutdown, publish, consume, pending | nothing is obtained that was not published; the ring overruns by a bounded amount; a count and a refusal are accounted for by the threads under way; a serial caller sees a FIFO queue; events do not stay for ever |
| Process life cycle, `main.c`, `utils/sandbox.c` | `g_running`, the order of start and teardown | start, serve in three modes, signals, teardown | services are open around every use; whatever is joined exists and was told to end; a stop request is carried out |
| Module registry, `core/module.c` | `g_mods`, plugin handles | register, load_all, start, stop, unload_all | each module is started, stopped and finished once |
| Worker threads, `modules/*.c` | `g_run`, `g_model`, the feature window | one loop per module | relevant events are stored; retraining after every full window |
| File scanner, `modules/file_integrity.c`, `utils/file_scan.c`, `utils/hash.c` | the buffers of one callback | walk, hash, Merkle root, stat, upsert, publish | rows and events describe the file; changes are noticed |
| Database, `core/db.c` | `g_db`, five prepared statements | insert event and alert, store and load model, upsert file | a row is made of one call's arguments; nothing of its own keeps a connection from writing |
| Logger, `core/logger.c` | `g_lock`, log file, ring of lines | log, init, fini | no lost lock, nobody logs to a closed file; the ring holds the last lines, each freed once |
| Metrics, `core/metrics.c` | `listen_fd`, `metrics_running` | start, serve, stop | its thread is joined if there is one, and its socket is closed by then |
| eBPF loader, `ebpf/loader.c` | objects, links, ring buffer, poll thread | start, poll, stop | everything taken is released, the poll thread ends first |
| AI library, `ai/*.c` | trees | init, score, save, load | score in range, indices in bounds, no forest lost over and over |
| Rules, `core/rules.c` | `g_rules` | load, evaluate | every matching rule is handed to the response engine, in order; the table is large enough |
| Response engine, `core/response_engine.c` | none | log an action and insert an alert; it executes none | each call leaves a row of its own or a write that failed, and does not disturb the rules |
| TUI, `tui/*.c` | the event table, `g_erun` | draw, consume, quit | consumer joined, quit possible |
| Configuration, BPF programs, Python runner, utilities | little or none | | |

### Interaction

`main` opens logger, database and bus, registers and initialises the modules, starts
the eBPF poll thread, the metrics thread and one thread per module, then draws the TUI
or waits. All threads share: the bus (poll thread and scanner publish; AI engine, process
monitor, network monitor and TUI consume, each event going to one of them), the
statements of `db.c` (no lock of their own), the logger's mutex, and a run flag per
thread that the main thread clears. Teardown clears flags, joins, and closes the
services in turn. The database outlives the process: the next start loads the model that the
last one saved, the service manager restarts what crashed (`nulleye.service`), and a second
instance (the packaged service and a terminal, `README.md:36-37`) opens the same file. Rules
call the response engine, which inserts an alert with the statement that the AI engine's
alerts use, and does nothing else.

### What is hard about it

- The bus has no lock: the capacity check, the claim of an index and the copy are
  separate, and a consumer advances `g_tail` before it knows whether there is an event.
- Start-up can fail at every stage, and teardown must work from what did start.
- Stop requests come at any moment, while threads hold the mutex, wait for clients or
  are in the middle of a callback.
- Prepared statements are shared: reset, binds and step of two calls interleave, and
  bindings are addresses of the callers' buffers.
- The scanner opens a file twice and stats it once, while others write, replace and
  remove it. Database and bus may refuse what it found.
- The loader acquires objects, links, a ring buffer and a thread one by one, and each
  can fail; its poll thread and its caller log under one mutex.
- What one process leaves open in the database decides what it can write once another one
  has written.
- `g_rules` is grown by a capacity that each load begins to count anew.

The `hazards` of `PROJECT.json` name each of them with its line and its properties.

## 2. The modules

| Module | Models | Role |
|---|---|---|
| `EventBus` | `core/event_bus.c` | one action per atomic access; a memcpy copies field by field |
| `BusLedger` | | abstract: an account of publishes and takes with a bounded lag |
| `BoundedQueue` | | abstract: a FIFO queue that is full at its capacity |
| `EventBusRefinement` | | the mappings of `EventBus` to both, and the invariant `SerialInv` of a lone client |
| `EventBusInvariant` | | inductive invariant `BusInv` |
| `EventBusClaims` | | a claim of the documentation that a run refutes |
| `EventBusProofs` | | proofs |
| `ThreadBodies` | the loops of all threads | which shared service a thread is in, and where it goes next |
| `Daemon` | `main.c`, `core/module.c`, `utils/sandbox.c`, start and stop of every thread | one stage of the main thread after the other, composed with `ThreadBodies` |
| `ServiceScopes` | | abstract: opened once, closed once, used only while open |
| `DaemonInvariant` | | inductive invariant `DaemonInv`, the mapping to `ServiceScopes`, liveness |
| `DaemonProofs` | | proofs |
| `EventStore` | the worker loops, `core/db.c` | one action per SQLite call; the bus as a queue of calls |
| `EventStoreProofs` | | proofs |
| `FileIntegrity` | `modules/file_integrity.c`, `utils/hash.c`, `utils/file_scan.c` | the callback step by step, against changing files; the Merkle root as a function |
| `FileIntegrityInvariant` | | inductive invariant `ScanInv`, properties |
| `FileIntegrityProofs` | | proofs |
| `Logger` | `core/logger.c` | `nulleye_log` step by step, for any threads that log; the mapping to `RecentLines` |
| `RecentLines` | | abstract: a window on the last lines, oldest first |
| `LoggerProofs` | | proofs |
| `EbpfLoader` | `ebpf/loader.c` | start, stop and poll thread, composed with `Logger` |
| `EbpfLoaderProofs` | | proofs |
| `ModelStore` | `ai/model.c`, `core/db.c`, `modules/ai_engine.c` | instances, restarts and crashes on one database file |
| `Rules` | `core/rules.c` | loads and evaluation |
| `Alerting` | `core/response_engine.c` | composes `ModelStore` and `Rules`: an action becomes an alert in the shared database, or not |
| `AlertingProofs` | | proofs |
| `AiArithmetic` | `ai/isolation_forest.c`, `ai/lstm_predictor.c` | scores and array indices as operators, with their proofs |
| `MCEventBus`, `MCDaemon`, `MCFileIntegrity`, `MCEbpfLoader`, `MCAlerting` | | instances for TLC |

State and code correspond as follows.

- **EventBus.** `head`, `tail`, `ring`, `alive` are `g_head`, `g_tail`, `g_ring` and
  `g_ring != NULL`. `pc[t]` names the next shared access of a thread, `reg[t]` its local
  `head`, `idx` or `tail`, `buf[t]` the struct behind its pointer, `todo[t]` what memcpy has
  still to copy. Publishing is `CallPublish` (line 34), `Refuse` or `Admit` (35-36), `Claim`
  (37), `CopyIn` (38-40); consuming is `CallConsume` (46), `Miss` (47) and `Undo` (49), or
  `Take` and `CopyOut` (53); counting is `CallPending` (59) and `Answer` (60-61), two loads with
  everybody's steps between them. `Observers` are the threads that count: nothing in the daemon
  calls `event_bus_pending`, the tests do. Subtraction is modulo `WordSize`.
- **Daemon.** `stage` is what `main` does next, `at[t]` the point of a thread in its body,
  `run[t]` its flag, `listening` whether `listen_fd` is an open socket, `lock` the logger's mutex, `service` the life of bus, database, logger
  and model. A worker whose `pthread_create` failed is `"failed"`: joining it is undefined
  and the stage becomes `"crashed"` or goes on, as the build may have it. `metrics_stop` is
  `StopMetrics` (the flag, `core/metrics.c:82-85`), `CloseListener` (86-90) and `JoinMetrics`; the
  thread may test its flag and call `accept` between them. The file descriptor itself is not
  modelled: `accept` of the closed number and of -1 both fail, as nothing else listens.
- **EventStore.** `at[t]` is the loop, or the next SQLite call of the call of `db.c` that
  `fn[t]` names. `phase`, `bound` are the state and bindings of the one statement of a
  function; a binding is the thread whose buffer it points to, `mem` what the buffers hold.
  Rows are appended when a statement steps, with whatever the buffers hold then.
- **FileIntegrity.** `inode`, `data` are the directory entries and files; `at` is where
  `file_cb` is, `read` what it has read since it opened `fd`, `hash`, `root`, `size` its
  locals; `entry` the table, `event` the last event of a path. `quiet` is a history variable.

- **Logger.** `says[t]` is the message of the call thread `t` is in, `step[t]` the next of its
  steps behind the lock: `FreeOldest` (line 64), `Duplicate` (65), `Advance` (66-67). A place
  of `ring` is a pointer: it names a message and whether that line still lives. `Window` reads the
  ring from the oldest place on; a place whose `strdup` failed, or whose line `logger_fini` freed, shows nothing. `LogNext` says
  what callers owe (nobody logs during or after `logger_fini`).
- **EbpfLoader.** `pc` is where the main thread is in `ebpf_loader_start` or `_stop`; `objs` and
  `links` are the tables with their counts, `open` and `attached` what the kernel really holds,
  `lost` the links no place was left for; `mapFd`, `rb`, `running` are `found_map_fd`, `rb`,
  `rb_running`, and `poll` is where `rb_poll` is. `Emit` is the kernel's action: an attached
  program leaves an event in its object's map. A thread inside `nulleye_log` does nothing else.
- **ModelStore.** The file is `log`, the sequence of its commits. `snap[p]` is the commit at which
  the open `SELECT` of `db_load_model` reads. `blocks[p]` counts the arrays of trees on the heap.
  A write has one of three `Outcomes`: stored, refused for the snapshot, failed for a lock or the disk. `End` is a stop or a crash at any step; `Start` the next start.
- **Rules.** `rules` and `alloc` are `g_rules` with its count and the memory it has, `cap` the
  local of the load, `event`, `next` an evaluation under way, `acted` its calls of
  `response_engine_perform`, each with the outcome of its alert and the row it became. A condition is the clauses
  that searches find in it, a payload what searches find in it: within its length, and,
  since two of the three searches look for a NUL, behind it. `overrun` marks a write behind the
  table, after which nothing is modelled.

SQLite's behaviour in `EventStore` is external to the repository: `sqlite3_bind_*` on a
stepped statement is refused with `SQLITE_MISUSE` (whose result `db.c` ignores),
`sqlite3_step` on a halted statement resets it, bindings outlive a reset, single calls are
serialised (the library is built thread-safe). In `ModelStore`: a statement that returned a row
and was not reset keeps its connection's read transaction; a write from a snapshot that is not
the last one is refused at once, whatever the busy timeout; a connection's own commit moves its
snapshot on. These rules were compared with `db.c` linked to SQLite: with the `SELECT` open an
instance goes on writing, until another connection commits, and never afterwards.

## 3. What the runs check

States are distinct states; every run ends within a couple of minutes.

| Run | Asks | Bounds | States |
|---|---|---|---|
| `bus_mpmc` | `BusInv`, `TakenAtMostPublished`, `OverrunBounded`, `PendingAnswered`, `RefusedForCause`, `LedgerSpec` | 2 publishers that also count, 2 consumers, ring of 2, 6 publishes, symmetry | 623,931 |
| `bus_serial` | `SerialInv`, `QueueSpec` | 1 thread that publishes, consumes and counts, ring of 3, 2 contents, 7 publishes | 2,726 |
| `bus_live` | `TakesInOrder`, `PendingEventuallyTaken` | 2 publishers, 1 consumer, 4 publishes | 5,930 |
| `daemon_scopes` | `DaemonInv`, `JoinsPrepared`, `ScopesKept` | AI engine and scanner, a plugin, 3 modes, seccomp | 701,693 |
| `daemon_stop` | `StopCarriedOut`, `LogCallsReturn` | scanner, a plugin, daemon mode, clients that may stay silent | 7,775 |
| `store_race` | `StoreInv`, `NoHalfRow`, `UndisturbedCallExact` | 4 threads, bus of 2, window of 2, 3 items | 840,550 |
| `files_scan` | `ScanInv`, `QuietFileExact`, `ChangesRecorded` | 1 path, 2 block values, 2 blocks, 2 inodes, 3 changes | 500,768 |
| `loader_run` | `LoaderInv`, `ReleasedWhenOff`, `PolledMapOpen`, `LogSpec`, `RecentSpec`, `PolledEventsRead`, `StopReturns` | 3 objects with 1, 2 and no programs, 2 with maps, tables of 2 and 2, ring of 2 lines, 2 starts | 168,822 |
| `alerts` | `ModelInv`, `ActionsAccounted`, `OverrunNeedsLongReload`, `OutrunForGood` | 2 instances, 3 commits, 2 rules to load, table of first 2, 3 rules, 1 payload | 1,398,928 |

Why these bounds are enough for the interesting cases:

- `bus_mpmc`: six publishes go three times round a ring of two, two publishers are enough
  for two stale checks, two consumers for two speculative increments; the overrun of 3
  events is reached. `MaxPublish` bounds `Admit` and `CallPublish`. All threads of one kind
  run the same code, hence the symmetry; liveness runs have none. The publishers also count, so
  that publishes of the other one and steps of both consumers fall between the two loads.
- `bus_serial`: seven publishes are two laps and one event; the ring gets full and empty.
- `bus_live`: a ring of two and two publishers that overrun it; one consumer, as
  `TakesInOrder` and the liveness property hold of one only.
- `daemon_scopes`: every helper thread exists, and two modules are enough for a
  half-done loop of `module_start_workers` and `module_stop_workers`. There is no bound on
  the steps: the state space is finite. The deadlock check is off because a main thread that the kernel kills inside
  `nulleye_log` leaves the mutex locked, and then every thread may wait for ever.
- `store_race`: process monitor and user monitor share `stmt_insert_event`; the others have
  their own. Two items per racing caller are the fewest that leave a halted statement
  behind and then race on it. The window of 2 stands for 10000. The deadlock check is off
  because threads end and items run out.
- `files_scan`: three changes suffice to change a file in both readings and before the
  stat, or to remove and recreate it under the walk. Two inodes allow a
  replaced file to be read to its end while the path names another one. Further
  paths have no part in a callback: the proof covers any number.
- `loader_run`: three objects against a table of two, three programs against two links, so that
  both tables get full and stay too small; the object without programs and the one without a map
  are the cases of the search for `events`. Two starts allow one after a failure and one after a
  stop. The ring of two lines wraps, with both threads logging. `MaxStarts` bounds `Start` and
  `NoDirectory`. The deadlock check is off because the process exits.
- `alerts`: a third commit is the fewest that outruns an instance, lets the other go on and has
  the first be restarted. The first size of the table is 2 in place of 8, and three rules are
  the fewest that a second load overruns it with. Two rules that match leave room for another
  instance's commit between the two alerts of one event. `MaxCommits` bounds `Write`, `MaxRules` the
  loads. The deadlock check is off because a write behind the table ends what the model says of
  the ruling instance.

`MCAlerting` has TLC evaluate that a condition of one clause means what `docs/RULES.md:21-23`
says, that a score decides where there is one, whatever `comm==` says, and that only the search
for text heeds the length of the payload. `MCFileIntegrity` has it evaluate that `MerkleRoot`
equals a definition from the root down for every content of up to 6 blocks, that contents of
one length have different roots, and that contents of different lengths need not (an odd last block counts twice, so
three blocks and the same with the last one doubled have one root; the SHA-256 and the
size in the row still differ).

### Disagreements with the documentation

Three runs end in a violation, each refuting what a document of the repository says:

| Run | Property | What happens |
|---|---|---|
| `bus_torn` | `ReceivedIntact` | `g_head` is public before the copy, so a consumer can get an unwritten or half written event. |
| `store_competing` | `RelevantEventsStored` | An event the AI engine takes is never seen by the monitor that would store it. |
| `alerts_outrun` | `AlertsStored` | The `SELECT` that `db_load_model` leaves open makes every later write fail once another process has written. |

Met while modelling and not made runs:

- *Bus.* Two consumers that poll in step hide an event from each other for ever
  (`PendingEventuallyTaken` is false with a second consumer), an index can be handed out twice and
  another one skipped (so is `TakesInOrder`); the ring can be overrun by stale checks (bounded, and the bound is
  proved) and an empty one may refuse a publish (`RefusedForCause` names the two causes).
  `event_bus_pending` misses what is published between its two loads, and may wrap to a huge
  number when an event is published and taken there (`PendingAnswered` says by how much it is off).
- *Life cycle.* The stop callbacks join a thread that was never created when `pthread_create` failed
  (the stage `"crashed"` of `Daemon`; `ARCHITECTURE.md:61` promises otherwise). The stdout fallback of
  the TUI prints "Press Ctrl-C to exit" (`tui/tui.c:114`) and never reads `g_running`
  (`StopCarriedOut` is false in that mode). A plugin's `fini` is never called (`core/module.c:64-71`,
  `docs/PLUGINS.md`): `DaemonInv` says that a clean exit leaves exactly the plugins unfinished.
  Where the kernel grants strict seccomp, the next system call of the main thread kills it. A client of the metrics port that sends nothing blocks the teardown for as long
  as it stays (`StopCarriedOut` promises the end once no client is being served).
- *Loader.* Only the first map `events` is polled (`ebpf/loader.c:136`), and each object has its
  own, so the events of the others are never read. A link past the 256th is never destroyed. A
  flood of events keeps `ring_buffer__poll`, and so a stop, from returning. The branch for
  libbpf does not include the headers that declare `DIR` and `SIGINT`.
- *Rules.* A second load that begins with 8 rules or more writes behind its table
  (`core/rules.c:33-39`). `docs/RULES.md:28` has matching actions "executed" and line 32 has `kill`
  request the end of a process: `response_engine_perform` executes nothing (`core/response_engine.c:18-30`),
  it logs a line and inserts an alert, which the database may not take. The closing quote of `comm=='x'` is searched for too.
- *AI.* Every score of the forest lies in 94..99, above the threshold of 85, so each event that
  the engine takes is an alert (theorem `EveryEventAlerts`). The forest made by `ai_init` is lost
  when a model is loaded.
- *Configuration.* The logger opens its file before the configuration is read (`main.c:93`, 99), and
  the bus is made with 8192 whatever the configured size (`main.c:111`).

### Liveness and fairness

- `bus_live`: weak fairness on the steps of every call under way and on a consumer's next
  call: threads are scheduled and worker loops poll. Nobody is obliged to publish. With a
  second consumer the property fails, because an enabled step of one may be
  made useless by the other; no fairness of the scheduler repairs that.
- `daemon_stop`: weak fairness on every thread that does not wait for a client, that is in `accept`
  on an open socket or in a read from a client; strong
  fairness on the end of an iteration (files and records come to an end) and on getting the mutex, strong
  fairness on the main thread's stages. Users and clients promise nothing: a client may connect and
  stay silent at any time. `StopCarriedOut` claims the end of the process only if the metrics
  thread is not for ever with clients; a thread that waits in `accept` must be freed by the close of
  the socket.
- `files_scan`: weak fairness on the scan thread; strong fairness, per path, on an upsert and
  on a publish that succeeds: SQLite and the bus refuse a call now and then, not for ever.
  `ChangesRecorded` assumes that other programs stop changing files; a file that goes on
  being changed need never be recorded.
- `loader_run`: weak fairness on the steps of the poll thread and on the end of a stop: threads are
  scheduled, a poll returns after 100 ms. Strong fairness on a thread's steps in `nulleye_log`: the
  mutex is handed on. Starts, failures and the kernel promise nothing; `StopReturns` assumes that the
  programs stop submitting events at some time.

### Mutants

Each property of a passing run has a mutant in `PROJECT.json`: an operator kept next to the
definition it would replace, such as a capacity check off by one (`AdmitOffByOne`), a
forgotten decrement (`UndoForgotten`), a thread that is not joined (`JoinEbpfDetached`) or joined
without having been made (`StopMetricsUnchecked`), a socket left open (`CloseListenerForgotten`), a
statement that is not reset (`ResetForgotten`), digests in the wrong order (`RowSwapped`).
No specification uses them.

## 4. What is proved

For every value of the constants that satisfies the modules' assumptions, with TLAPS:

| Theorem | Says |
|---|---|
| `EventBusProofs!TypeCorrect`, `BusInvariant` | types, and the inductive invariant |
| `NoMoreTakenThanPublished` | consumers obtain no more than was published |
| `OverrunIsBounded` | at most `Cardinality(Producers) - 1 + Cardinality(Consumers)` events too many |
| `PendingAccounted`, `RefusalsHaveCause` | what `event_bus_pending` answers with any steps between its two loads; why a publish is refused |
| `LedgerImplemented` | `EventBus` implements `BusLedger` |
| `OneConsumerTakesInOrder` | one consumer takes every index once and in order, however many publishers race |
| `SerialInvariant`, `QueueImplemented` | the invariant of a lone client; for it `EventBus` implements `BoundedQueue` |
| `LoneClientReceivesIntact` | a lone client gets whole events: what `bus_torn` refutes of racing threads |
| `DaemonProofs!DaemonInvariance`, `ExitIsClean` | the invariant of the stages; at a clean exit all threads have ended, and exactly the plugins were inited and never finished |
| `JoinsArePrepared` | the main thread joins only what it tried to create, has not joined yet and has told to end |
| `ScopesImplemented` | `Daemon` implements `ServiceScopes` for bus, database, logger and model |
| `EventStoreProofs!StoreInvariance` | the invariant of the shared statements |
| `RowsAreComplete` | no stored row lacks an argument, whatever races |
| `UndisturbedCallsAreExact` | a call that no other call of its function overlaps stores its own row |
| `SoleCallersAreExact` | so does every call of a function that one running thread calls: the daemon's alerts, models and file entries |
| `OneMonitorStoresAll` | a process monitor that has bus and events table for itself loses no event: what `store_competing` refutes of the others |
| `FileIntegrityProofs!ScanInvariance` | the invariant of a walk |
| `QuietFilesAreExact` | a file left alone during its callback is described exactly |
| `RootTellsContents`, `LastBlockCountsTwice` | Merkle roots tell contents of one length apart, of any length; repeating the last of an odd number of blocks does not change the root |
| `LoggerProofs!LinesFreedOnce` | each log line is freed once, whoever logs |
| `RingKeepsRecent` | `Logger` implements `RecentLines`: the ring is a window on the last lines |
| `EbpfLoaderProofs!LoaderCorrect`, `ReleasedTheorem`, `PolledTheorem` | the invariant of the loader; everything in the tables is released; the polled map is open |
| `LoaderUsesLogger` | `EbpfLoader` implements `LogSpec`: nobody logs during or after `logger_fini` |
| `LoaderKeepsRecent` | and, with it, `RecentLines` |
| `AlertingProofs!StoreCorrect`, `ForGoodTheorem` | the invariant of the instances; one that its own `SELECT` has kept a row out for stores nothing more until it is restarted |
| `OneInstanceStores` | a single instance is never refused: what `alerts_outrun` refutes of several |
| `RulesCorrect`, `OverrunTheorem` | each matching rule leaves an alert of its own, in order, or a failed write, and none behind one that the `SELECT` kept out; only a later load that begins with the first size of the table or more writes behind it |
| `AiArithmetic!ScoreInRange`, `EveryEventAlerts` | scores are percentages; at depth 8 all reach the threshold |
| `LstmReadsInBounds` | the indices of `lstm_predict`, for all sizes |

The arguments:

- **Bus.** That takes stay below publishes needs more than itself: two consumers may both
  find `tail < head` and only one be right. `TakenInv` says it for every index `k` not below
  `g_head`: the takes decided, together with the undecided claims below `k`, are at most `k`.
  `OverrunInv` does the same for room: once `g_head` has passed a bound that no fresh check
  admits, only publishers with an older load add to it, one each. Both are cardinalities of
  sets of threads; the lemmas about adding and removing one thread come first.
  What a count and a refusal are off by is said by `BusInv` of one state: `g_tail` is the takes
  plus the consumers between increment and comparison, and `g_head` only grows from a thread's load on.
  With one consumer, whoever is between increment and comparison holds the last value of `g_tail`,
  so its index is the number of events taken; that only the comparison changes this number needs
  no such restriction.
- **Serial client.** `Oldest` and `Newest` are the ends of what is completely in the ring.
  `SerialInv` says that they are never further apart than the capacity, that a call works at the
  right end, and what a copy has done so far. Two indices less than a lap apart lie in different
  slots, so a copy into one leaves the others alone; then the queue, a sequence of slots from
  `Oldest` on, stays, grows by one or loses its head. That what a queue gives was put into it
  is proved of `BoundedQueue` and carried over to `ReceivedIntact`.
- **Daemon.** `ServiceInv` ties the life of each service to `stage`, `StartInv` and `JoinInv`
  the existence of threads, `HelperInv` the flags of metrics and loader to whether there is a
  thread to join. `ScopesKept` follows step by step: before a service is closed, everybody
  who uses it has been joined. `CreateInv` and `FlagInv` say of each stage which threads exist
  unjoined and whose flag is clear; with `HelperInv` they are what `JoinsPrepared` needs at a join.
- **Statements.** Bindings outlive a reset, so an argument is missing only if no call ever
  bound it: `BoundInv` says that whoever is past a bind, or finds the statement halted,
  leaves it bound. `AloneInv` says what a call that nobody overlaps has bound: its own
  buffers. `BufferInv` says these are alive. Only a reset ends the solitude of a call, and the
  only caller of a function never meets another one (`SoleInv`). With a sole monitor every owed event
  is in the bus, in its hands or in a row (`KeptInv`), one of them at every step.
- **Scanner.** `QuietInv`: while a file is quiet, what was read is a prefix of its content, and
  each local computed from it is exact. A writer of another path cannot touch it as no two
  paths share a file (`DiskInv`; hard links are left out). That reading on keeps a prefix, and that a prefix of full
  length is the content, are lemmas on sequences. The Merkle root is opaque in these proofs.
- **Merkle root.** Its levels are a recursive function; that it satisfies its equations is proved
  first (`LevelsDefined`). Pairing is injective on levels of one length, so by
  induction over the level two contents that differ have levels that differ, up to the root. The
  induction goes over a set of numbers, with the least element of its complement from
  `WellFoundedInduction`: the theorems that take a predicate cannot be cited.

- **Logger and loader.** `LockInv` ties the mutex to the one thread between lock and unlock;
  `LineInv` says that a place points to a freed line only at `g_ring_idx`, between the free and the
  copy. `LoaderCorrect` takes both along: a step of the loader is a call of the logger or leaves it
  alone. `TableInv` equates the tables with what the kernel holds, without repetition, so a release
  of the tables releases everything; the lemmas are about `ToSet` and appending to injective
  sequences. `StageInv` says for each stage what may be held, and that the poll thread exists
  exactly from its creation to its join, hence a polled map is open.
- **Ring of lines.** The window is read from the oldest place on, modulo the size of the ring.
  A `free` empties the first place of the window and the copy fills it; as soon as the copy is made
  the window begins one place later, before the index has moved, and this shift is the one step that takes arithmetic: `Walk`
  says that a walk round the ring meets its first place once, and what the walk from the next
  place meets. Only the thread that holds the mutex is between these steps (`OneInside`).
- **Instances.** `SnapInv`: what was committed after the snapshot of an open `SELECT` came from
  others, and a refused instance's snapshot is not the last commit. Its own writes then cannot move
  the snapshot, which gives `OutrunForGood`.
- **Rules.** `TableInv` keeps, in a load that has grown the table, `cap = alloc` and that the load began
  below the first size; then the one comparison with `cap` is a comparison with the memory there is.
  `RecordInv` ties the calls of an evaluation to the rows of the file: the file only grows, so a row
  once made is still there, and by `SnapInv` an instance that was refused has no write accepted
  before it ends, and the evaluation with it.
- **Arithmetic.** A sum of `n` ones and fives divided by `n` lies in 1..5; the five quotients by 8 are
  computed. The indices are a row and a column in a table of rows.

Assumptions: thread sets are finite and not empty; the bus counters stay below their word
(`WordAssumption`); `Zero` and `None` are no contents; module lists have no repetition; worker
threads are those of the repository; the rest are bounds in `Nat`. Five theorems state a condition of
their own in `ASSUME`, without which they are false: `Consumers = {c}` for the order of takes, `Serial`
for the queue and for whole events, `OneMonitor` for the stored events, `Instances = {p}` for the alerts.

Model-checked only: all liveness (`PendingEventuallyTaken`, `StopCarriedOut`, `LogCallsReturn`,
`ChangesRecorded`, `PolledEventsRead`, `StopReturns`), since the prover does not reason about
fairness and `ENABLED`; that `MerkleRoot` equals the tree built from the root down
(`MerkleRootIsTree`), whose definition is a recursive operator; the assumptions of `MCAlerting`
about conditions. Every safety and action property of a passing run, and every refinement, is
proved.

## 5. What is abstracted and what is left out

- The bus is sequentially consistent (its atomics are acquire and release, and single
  locations decide all its properties); memcpy is modelled as racing copies of fields.
- `EventStore` takes the bus at the granularity of calls, `Daemon` takes a service call as one stay.
- SHA-256 has no collisions; of a file's metadata the size stands for all; writers change
  whole blocks; failing `malloc` is left out of the scanner. Paths name regular files and directories:
  that a FIFO in the tree blocks the scan for ever, and that symbolic links share a content, since
  `nftw_cb` ignores the type of an entry (`utils/file_scan.c:10-14`), is left out.
- Of a forest `ModelStore` has the memory, not the trees: they are random at each init. A write that
  waits for a lock either succeeds or fails in one step; `ENOSPC` and a lock held past the busy
  timeout are the write that fails.
- `Rules` starts behind the parsing of a line, of rules that fit their fields (`core/rules.c:9`). One thread loads and evaluates, as the unit tests do:
  nothing in the daemon calls the rules yet. `realloc` that fails ends a load.
- `Logger` takes `fputs` and `syslog` to be part of getting the mutex; the formatting before it
  touches nothing shared.
- Failures of `metrics_start` are one action in `Daemon`, as all of them leave nothing behind.
- Floating point values, feature values, the wording of log lines, drawing, and HTTP text are left out.

Not modelled:

- the BPF programs: straight-line kernel code without state; their events are `Emit` and `PublishEbpf`;
- the values the LSTM predictor computes (floating point, and nothing calls it) and the six features;
- parsing of the configuration and of rule lines, and the file a path names: text handling;
- `response_kill_process` and `response_block_ip`, called by nothing; the Python runner, called by
  nothing; the utilities, stateless wrappers of zlib and /proc;
- the table of events that the TUI shows: it is written and drawn without synchronisation, and its
  counter is an `int` that overflows after 2^31 events. They are listed as a hazard without a
  property: what is drawn wrongly is gone with the next redraw, and a model of the counter would be
  its increment.

## 6. Plan

In order; the first nine are done.

1. `EventBus` with its abstractions, invariants, liveness and proofs.
2. `Daemon` with `ThreadBodies` and `ServiceScopes`.
3. `EventStore`: worker loops and shared statements.
4. `FileIntegrity`: the scanner against a changing tree.
5. `Logger` and `EbpfLoader`: each line freed once, everything acquired released once.
6. `ModelStore`: save and load across restarts and crashes, and the open read transaction against
   a second connection.
7. `Rules`, and `Alerting` as their composition with the store.
8. `AiArithmetic`: the score and the predictor's indices.
9. Proofs of `QueueSpec` for a serial client of any capacity, and of `RecentSpec`; the conditions
   under which the refuted claims of the documentation do hold.
10. `EventStore` over a bus that may repeat and skip events as racing consumers of `EventBus` do,
    in place of the queue of calls it has now.

## 7. Running

In this directory:

    tlc -workers 2 -config bus_mpmc.cfg MCEventBus
    tlapm EventBusProofs.tla

`PROJECT.json` names the module of each configuration.
