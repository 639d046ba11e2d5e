------------------------------- MODULE Daemon -------------------------------
(***************************************************************************)
(* The life of a NullEye process, src/src/main.c: the main thread opens the *)
(* shared services, starts the worker threads, serves until it is told to   *)
(* stop, and takes everything down again.  ThreadBodies holds the bodies of *)
(* the other threads.                                                       *)
(*                                                                         *)
(* The main thread goes through stages; a stage is what it does next.       *)
(***************************************************************************)
EXTENDS Integers, Sequences, FiniteSets, ThreadBodies

CONSTANTS
  Modules,        \* the built-in modules in the order main registers them
  Plugins,        \* the plugins in PLUGINS_DIR
  Modes,          \* some of "daemon" (-d), "ncurses" and "fallback" (the TUI)
  StrictSeccomp   \* the kernel grants PR_SET_SECCOMP, SECCOMP_MODE_STRICT

ASSUME ModulesAssumption ==
  /\ Modules \in Seq(Builtins)
  /\ Len(Modules) > 0
  /\ \A i, j \in 1 .. Len(Modules) : Modules[i] = Modules[j] => i = j

ASSUME EnvironmentAssumption ==
  /\ Plugins \cap Builtins = {}
  /\ Modes \subseteq {"daemon", "ncurses", "fallback"}
  /\ Modes # {}
  /\ StrictSeccomp \in BOOLEAN

Workers == {Modules[i] : i \in 1 .. Len(Modules)}
Threads == Workers \cup Helpers

VARIABLES
  mode,      \* how the process was built and invoked
  stage,     \* what the main thread does next
  next,      \* the module that a loop of module.c is at
  at,        \* the point of every other thread
  run,       \* g_run of the modules, rb_running, metrics_running, g_erun
  listening, \* listen_fd is an open socket
  lock,      \* who holds g_lock of the logger: "free", "main" or a thread
  service,   \* "new", "open" or "closed" for each shared service
  asked,     \* g_running is 0
  inited,    \* modules and plugins whose init was called
  finished   \* modules and plugins whose fini was called

vars == <<mode, stage, next, at, run, listening, lock, service, asked, inited, finished>>

Services == {"bus", "db", "log", "model"}
Ended == {"exited", "failed", "crashed", "terminated", "reaped"}
Stages == Ended \cup
  {"boot", "logger", "database", "bus", "modules", "ebpf", "metrics", "start",
   "sandbox", "tuiStart", "tui", "tuiJoin", "serve", "metricsStop",
   "metricsClose", "metricsJoin", "goodbye", "stop", "join", "ebpfStop", "ebpfJoin",
   "ebpfLog", "unload", "busDown", "dbClose", "logFini", "killed"}

\* The process exists no more, and none of its threads.
Gone == stage \in Ended

Init ==
  /\ mode \in Modes
  /\ stage = "boot"
  /\ next = 1
  /\ at = [t \in Threads |-> "none"]
  /\ run = [t \in Threads |-> FALSE]
  /\ listening = FALSE
  /\ lock = "free"
  /\ service = [s \in Services |-> "new"]
  /\ asked = FALSE
  /\ inited = {}
  /\ finished = {}

-----------------------------------------------------------------------------
(* Helpers of the main thread *)

\* pthread_create: the thread starts, or the caller clears its run flag.
Create(t) ==
  \/ /\ at' = [at EXCEPT ![t] = "start"]
     /\ run' = [run EXCEPT ![t] = TRUE]
  \/ /\ at' = [at EXCEPT ![t] = "failed"]
     /\ run' = [run EXCEPT ![t] = FALSE]

\* pthread_join of a thread that has returned.  The pthread_t of a failed
\* pthread_create is still zero: joining it is undefined; a C library may
\* follow the null pointer or answer ESRCH.
JoinThen(t, s) ==
  \/ /\ at[t] = "done"
     /\ at' = [at EXCEPT ![t] = "joined"]
     /\ stage' = s
  \/ /\ at[t] = "failed"
     /\ stage' \in {s, "crashed"}
     /\ UNCHANGED at

-----------------------------------------------------------------------------
(* Start-up *)

\* main, lines 65-91: --help, --version and --diag end the process; otherwise
\* the signal handlers are installed.
CommandLine ==
  /\ stage = "boot"
  /\ stage' \in {"logger", "exited"}
  /\ UNCHANGED <<mode, next, at, run, listening, lock, service, asked, inited, finished>>

\* Line 93: the logger works with and without its file.
StartLogger ==
  /\ stage = "logger"
  /\ service' = [service EXCEPT !["log"] = "open"]
  /\ stage' = "database"
  /\ UNCHANGED <<mode, next, at, run, listening, lock, asked, inited, finished>>

\* Lines 103-109: the configured file, else ":memory:", else return 1.
OpenDatabase ==
  /\ stage = "database"
  /\ \/ /\ service' = [service EXCEPT !["db"] = "open"]
        /\ stage' = "bus"
     \/ /\ stage' = "failed"
        /\ UNCHANGED service
  /\ UNCHANGED <<mode, next, at, run, listening, lock, asked, inited, finished>>

\* Lines 111-114
StartBus ==
  /\ stage = "bus"
  /\ \/ /\ service' = [service EXCEPT !["bus"] = "open"]
        /\ stage' = "modules"
     \/ /\ stage' = "failed"
        /\ UNCHANGED service
  /\ UNCHANGED <<mode, next, at, run, listening, lock, asked, inited, finished>>

\* Lines 116-124 and module_load_all: init of every built-in module, and of
\* the plugins that dlopen and dlsym accept.
LoadModules ==
  /\ stage = "modules"
  /\ \E loaded \in SUBSET Plugins : inited' = Workers \cup loaded
  /\ service' = [service EXCEPT !["model"] = "open"]
  /\ stage' = "ebpf"
  /\ UNCHANGED <<mode, next, at, run, listening, lock, asked, finished>>

\* Line 126, ebpf_loader_start: a failure of any kind leaves no thread.
StartEbpf ==
  /\ stage = "ebpf"
  /\ stage' = "metrics"
  /\ \/ /\ at' = [at EXCEPT !["EbpfPoll"] = "start"]
        /\ run' = [run EXCEPT !["EbpfPoll"] = TRUE]
     \/ UNCHANGED <<at, run>>
  /\ UNCHANGED <<mode, next, listening, lock, service, asked, inited, finished>>

\* Line 148, metrics_start: a failure closes the socket and clears the flag.
StartMetrics ==
  /\ stage = "metrics"
  /\ stage' = "start"
  /\ \/ /\ at' = [at EXCEPT !["Metrics"] = "start"]
        /\ run' = [run EXCEPT !["Metrics"] = TRUE]
        /\ listening' = TRUE
     \/ UNCHANGED <<at, run, listening>>
  /\ UNCHANGED <<mode, next, lock, service, asked, inited, finished>>

\* Line 151, module_start_workers: one start callback.
StartWorker ==
  /\ stage = "start"
  /\ Create(Modules[next])
  /\ IF next < Len(Modules)
     THEN next' = next + 1 /\ UNCHANGED stage
     ELSE next' = 1 /\ stage' = "sandbox"
  /\ UNCHANGED <<mode, listening, lock, service, asked, inited, finished>>

\* Line 153, sandbox_apply_limits, when seccomp fails: a warning is logged.
EnterUnconfined ==
  /\ stage = "sandbox"
  /\ lock = "free"
  /\ stage' = IF mode = "daemon" THEN "serve" ELSE "tuiStart"
  /\ UNCHANGED <<mode, next, at, run, listening, lock, service, asked, inited, finished>>

\* The same when it succeeds: strict mode allows the main thread nothing but
\* read, write, _exit and sigreturn.  Its next call is nulleye_log, which ends
\* in the futex of a contended mutex or, holding it, in the send of syslog:
\* the kernel kills the main thread there and leaves the others.
EnterStrict ==
  /\ stage = "sandbox"
  /\ StrictSeccomp
  /\ stage' = "killed"
  /\ lock' = IF lock = "free" THEN "main" ELSE lock
  /\ UNCHANGED <<mode, next, at, run, listening, service, asked, inited, finished>>

\* A process whose main thread was killed ends with its last thread.
LastThreadEnds ==
  /\ stage = "killed"
  /\ \A t \in Threads : at[t] \in {"none", "failed", "done"}
  /\ stage' = "reaped"
  /\ UNCHANGED <<mode, next, at, run, listening, lock, service, asked, inited, finished>>

-----------------------------------------------------------------------------
(* Serving, and the user's requests *)

\* tui_run: the thread that consumes events for the screen.
StartTui ==
  /\ stage = "tuiStart"
  /\ Create("TuiConsumer")
  /\ stage' = "tui"
  /\ UNCHANGED <<mode, next, listening, lock, service, asked, inited, finished>>

\* The screen is drawn again and again.
Redraw == stage = "tui" /\ UNCHANGED vars

\* tui_run with ncurses: the user presses q.  The fallback loop has no exit.
PressQuit ==
  /\ stage = "tui"
  /\ mode = "ncurses"
  /\ run' = [run EXCEPT !["TuiConsumer"] = FALSE]
  /\ stage' = "tuiJoin"
  /\ UNCHANGED <<mode, next, at, listening, lock, service, asked, inited, finished>>

JoinTui ==
  /\ stage = "tuiJoin"
  /\ JoinThen("TuiConsumer", "metricsStop")
  /\ UNCHANGED <<mode, next, run, listening, lock, service, asked, inited, finished>>

\* Lines 160-162: the daemon loop ends once g_running is 0.
LeaveLoop ==
  /\ stage = "serve"
  /\ asked
  /\ stage' = "metricsStop"
  /\ UNCHANGED <<mode, next, at, run, listening, lock, service, asked, inited, finished>>

\* SIGINT or SIGTERM before lines 90-91 installed the handler.
SignalEarly ==
  /\ stage = "boot"
  /\ stage' = "terminated"
  /\ UNCHANGED <<mode, next, at, run, listening, lock, service, asked, inited, finished>>

\* SIGINT or SIGTERM later: any thread runs handle_signal.
Signal ==
  /\ stage # "boot" /\ ~Gone
  /\ ~asked
  /\ asked' = TRUE
  /\ UNCHANGED <<mode, stage, next, at, run, listening, lock, service, inited, finished>>

-----------------------------------------------------------------------------
(* Teardown *)

\* Mutant of StopMetrics: the thread is not joined.
StopMetricsUnjoined ==
  /\ stage = "metricsStop"
  /\ run' = [run EXCEPT !["Metrics"] = FALSE]
  /\ stage' = "goodbye"
  /\ UNCHANGED <<mode, next, at, listening, lock, service, asked, inited, finished>>

\* Mutant of StopMetrics: a thread is joined whether or not there is one.
StopMetricsUnchecked ==
  /\ stage = "metricsStop"
  /\ run' = [run EXCEPT !["Metrics"] = FALSE]
  /\ stage' = "metricsClose"
  /\ UNCHANGED <<mode, next, at, listening, lock, service, asked, inited, finished>>

\* Lines 165-166, metrics_stop: return if no server runs, else clear the flag.
StopMetrics ==
  /\ stage = "metricsStop"
  /\ run' = [run EXCEPT !["Metrics"] = FALSE]
  /\ stage' = IF run["Metrics"] THEN "metricsClose" ELSE "goodbye"
  /\ UNCHANGED <<mode, next, at, listening, lock, service, asked, inited, finished>>

\* Mutant of CloseListener: the socket stays open.
CloseListenerForgotten ==
  /\ stage = "metricsClose"
  /\ stage' = "metricsJoin"
  /\ UNCHANGED <<mode, next, at, run, listening, lock, service, asked, inited, finished>>

\* ... then shut down and close the socket, under a thread that may be in
\* accept, or between the flag and accept.
CloseListener ==
  /\ stage = "metricsClose"
  /\ listening' = FALSE
  /\ stage' = "metricsJoin"
  /\ UNCHANGED <<mode, next, at, run, lock, service, asked, inited, finished>>

JoinMetrics ==
  /\ stage = "metricsJoin"
  /\ JoinThen("Metrics", "goodbye")
  /\ UNCHANGED <<mode, next, run, listening, lock, service, asked, inited, finished>>

\* Line 168: a call of nulleye_log.
LogGoodbye ==
  /\ stage = "goodbye"
  /\ lock = "free"
  /\ stage' = "stop"
  /\ UNCHANGED <<mode, next, at, run, listening, lock, service, asked, inited, finished>>

\* Line 170, module_stop_workers: one stop callback clears the flag ...
StopWorker ==
  /\ stage = "stop"
  /\ run' = [run EXCEPT ![Modules[next]] = FALSE]
  /\ stage' = "join"
  /\ UNCHANGED <<mode, next, at, listening, lock, service, asked, inited, finished>>

\* ... and joins the thread.
JoinWorker ==
  /\ stage = "join"
  /\ JoinThen(Modules[next], IF next < Len(Modules) THEN "stop" ELSE "ebpfStop")
  /\ next' = IF next < Len(Modules) THEN next + 1 ELSE 1
  /\ UNCHANGED <<mode, run, listening, lock, service, asked, inited, finished>>

\* Line 171, ebpf_loader_stop: clear the flag; with a ring buffer, wake its
\* thread by a SIGINT and join it.
StopEbpf ==
  /\ stage = "ebpfStop"
  /\ run' = [run EXCEPT !["EbpfPoll"] = FALSE]
  /\ \/ /\ at["EbpfPoll"] = "none"
        /\ stage' = "ebpfLog"
        /\ UNCHANGED asked
     \/ /\ at["EbpfPoll"] # "none"
        /\ stage' = "ebpfJoin"
        /\ asked' = TRUE
  /\ UNCHANGED <<mode, next, at, listening, lock, service, inited, finished>>

\* Mutant of JoinEbpf: the thread is not waited for.
JoinEbpfDetached ==
  /\ stage = "ebpfJoin"
  /\ stage' = "ebpfLog"
  /\ UNCHANGED <<mode, next, at, run, listening, lock, service, asked, inited, finished>>

JoinEbpf ==
  /\ stage = "ebpfJoin"
  /\ JoinThen("EbpfPoll", "ebpfLog")
  /\ UNCHANGED <<mode, next, run, listening, lock, service, asked, inited, finished>>

\* The last call of nulleye_log, loader.c:188.
LogEbpf ==
  /\ stage = "ebpfLog"
  /\ lock = "free"
  /\ stage' = "unload"
  /\ UNCHANGED <<mode, next, at, run, listening, lock, service, asked, inited, finished>>

\* Line 172, module_unload_all: fini of the registered modules.
UnloadModules ==
  /\ stage = "unload"
  /\ finished' = Workers
  /\ service' = [service EXCEPT !["model"] = "closed"]
  /\ stage' = "busDown"
  /\ UNCHANGED <<mode, next, at, run, listening, lock, asked, inited>>

\* Lines 173-175: event_bus_shutdown, db_close and logger_fini.
CloseService(from, s, to) ==
  /\ stage = from
  /\ service' = [service EXCEPT ![s] = "closed"]
  /\ stage' = to
  /\ UNCHANGED <<mode, next, at, run, listening, lock, asked, inited, finished>>

ShutdownBus == CloseService("busDown", "bus", "dbClose")
CloseDatabase == CloseService("dbClose", "db", "logFini")
EndLogger == CloseService("logFini", "log", "exited")

-----------------------------------------------------------------------------
(* The other threads *)

\* Thread t reaches the end of a step at point p.
Move(t, p) == at' = [at EXCEPT ![t] = p]

\* while (g_run): another iteration, or return.
CheckFlag(t) ==
  /\ at[t] = "check"
  /\ \/ run[t] /\ \E p \in Then(t, "check") : Move(t, p)
     \/ ~run[t] /\ Move(t, "done")
  /\ UNCHANGED lock

\* nulleye_log: wait for the mutex and hold it until the call returns.
TakeLock(t) ==
  /\ at[t] = "lock"
  /\ lock = "free"
  /\ lock' = t
  /\ Move(t, "log")

\* Mutant of ReleaseLock: a return without unlocking.
ReleaseLockForgotten(t) ==
  /\ at[t] = "log"
  /\ \E p \in Then(t, "log") : Move(t, p)
  /\ UNCHANGED lock

ReleaseLock(t) ==
  /\ at[t] = "log"
  /\ lock' = "free"
  /\ \E p \in Then(t, "log") : Move(t, p)

\* accept on the listening socket.  Once metrics_stop has closed it the call
\* fails, whether the thread passes the old number or the -1 that replaced it:
\* nothing else in the process listens.
Accept(t) ==
  /\ at[t] = "accept"
  /\ \E p \in Then(t, "accept") : (p = "client" => listening) /\ Move(t, p)
  /\ UNCHANGED lock

\* Any other step of the body.
Proceed(t) ==
  /\ at[t] \in BodyPoints \ {"check", "lock", "log", "accept"}
  /\ \E p \in Then(t, at[t]) : Move(t, p)
  /\ UNCHANGED lock

ThreadStep(t) ==
  /\ ~Gone
  /\ \/ CheckFlag(t)
     \/ TakeLock(t)
     \/ ReleaseLock(t)
     \/ Accept(t)
     \/ Proceed(t)
  /\ UNCHANGED <<mode, stage, next, run, listening, service, asked, inited, finished>>

-----------------------------------------------------------------------------

StartUp ==
  \/ CommandLine \/ StartLogger \/ OpenDatabase \/ StartBus \/ LoadModules
  \/ StartEbpf \/ StartMetrics \/ StartWorker \/ EnterUnconfined \/ EnterStrict
  \/ StartTui

TearDown ==
  \/ JoinTui \/ LeaveLoop \/ StopMetrics \/ CloseListener \/ JoinMetrics
  \/ LogGoodbye
  \/ StopWorker \/ JoinWorker \/ StopEbpf \/ JoinEbpf \/ LogEbpf
  \/ UnloadModules \/ ShutdownBus \/ CloseDatabase \/ EndLogger

\* A process that is gone does nothing more.
Rest == Gone /\ UNCHANGED vars

Next ==
  \/ StartUp
  \/ TearDown
  \/ Redraw
  \/ PressQuit
  \/ SignalEarly
  \/ Signal
  \/ LastThreadEnds
  \/ \E t \in Threads : ThreadStep(t)
  \/ Rest

Spec == Init /\ [][Next]_vars

\* What t waits for is up to a client of the metrics port: one that connects,
\* or one that sends a byte or hangs up.
AwaitsClient(t) ==
  \/ at[t] = "accept" /\ listening
  \/ at[t] = "client"

\* A step that ends an iteration of a thread's loop.
EndIteration(t) == ThreadStep(t) /\ at'[t] \in {"check", "pause"}

\* The scheduler runs every thread that can run, files and records come to an
\* end, and a thread that waits for the mutex gets it at some time.  Clients
\* and the user promise nothing.
Fairness ==
  /\ SF_vars(StartUp \/ TearDown \/ LastThreadEnds)
  /\ \A t \in Threads :
       /\ WF_vars(ThreadStep(t) /\ ~AwaitsClient(t))
       /\ SF_vars(EndIteration(t) /\ ~AwaitsClient(t))
       /\ SF_vars(ThreadStep(t) /\ TakeLock(t))

FairSpec == Spec /\ Fairness
=============================================================================
