-------------------------- MODULE DaemonInvariant --------------------------
(***************************************************************************)
(* What the start-up and teardown order of main.c guarantees, and the       *)
(* inductive invariant behind it.                                           *)
(***************************************************************************)
EXTENDS Daemon

\* Types of the variables.
TypeOK ==
  /\ mode \in Modes
  /\ stage \in Stages
  /\ next \in 1 .. Len(Modules)
  /\ at \in [Threads -> Points]
  /\ run \in [Threads -> BOOLEAN]
  /\ listening \in BOOLEAN
  /\ lock \in Threads \cup {"free", "main"}
  /\ service \in [Services -> {"new", "open", "closed"}]
  /\ asked \in BOOLEAN
  /\ inited \subseteq Workers \cup Plugins
  /\ finished \subseteq Workers

\* The points at which a thread is inside a call of a service.
PointsOf(s) ==
  CASE s = "bus" -> {"bus"}
    [] s = "db" -> {"db"}
    [] s = "log" -> {"lock", "log"}
    [] s = "model" -> {"model"}

UsersOf(s) == {t \in Threads : at[t] \in PointsOf(s)}

Scopes ==
  INSTANCE ServiceScopes WITH
    state <- service,
    users <- [s \in Services |-> UsersOf(s)]

\* The bus, the database, the logger and the model (main.c:165-175): each is
\* opened and closed once, no thread calls it before or afterwards, and none is
\* inside it when it is closed.
ScopesKept == Scopes!Spec

\* A thread that does not exist, or no more.
Over == {"none", "failed", "joined"}

\* What a process that served and returned 0 (main.c:165-176) leaves behind:
\* no thread and no open service.  Of what it initialised, the plugins have had
\* no fini, although docs/PLUGINS.md gives them one.
CleanExit ==
  stage = "exited" /\ inited # {} =>
    /\ \A t \in Threads : at[t] \in Over
    /\ \A s \in Services : service[s] = "closed"
    /\ inited \ finished \subseteq Plugins

\* main waits in pthread_join for the thread t.
Awaited(t) ==
  \/ stage = "tuiJoin" /\ t = "TuiConsumer"
  \/ stage = "metricsJoin" /\ t = "Metrics"
  \/ stage = "join" /\ t = Modules[next]
  \/ stage = "ebpfJoin" /\ t = "EbpfPoll"

\* pthread_create was called for the thread t, pthread_join was not.
Joinable(t) == at[t] \notin {"none", "joined"}

\* Every join of the teardown (tui.c:87, metrics.c:91, the stop callbacks,
\* loader.c:181) is of a thread that main tried to create and has not joined
\* yet, after its flag was cleared and its socket closed: whatever failed at the
\* start, nothing but the thread's own last iteration is waited for.
JoinsPrepared ==
  \A t \in Threads :
    Awaited(t) => /\ Joinable(t)
                  /\ ~run[t]
                  /\ t = "Metrics" => ~listening

\* No thread exists at these stages.
Alone == {"boot", "logger", "database", "bus", "modules", "ebpf", "failed", "terminated"}

\* The stages after the TUI, the metrics server, the workers and the poll
\* thread have been joined.
Left == {"ebpfLog", "unload", "busDown", "dbClose", "logFini", "exited"}
AfterWorkers == Left \cup {"ebpfStop", "ebpfJoin"}
AfterMetrics == AfterWorkers \cup {"goodbye", "stop", "join"}
AfterTui == AfterMetrics \cup {"metricsStop", "metricsClose", "metricsJoin"}

\* The stages before and while a service is open.
NewAt(s) ==
  CASE s = "log" -> {"boot", "logger"}
    [] s = "db" -> {"boot", "logger", "database"}
    [] s = "bus" -> {"boot", "logger", "database", "bus"}
    [] s = "model" -> {"boot", "logger", "database", "bus", "modules"}

ClosedAt(s) ==
  CASE s = "model" -> {"busDown", "dbClose", "logFini"}
    [] s = "bus" -> {"dbClose", "logFini"}
    [] s = "db" -> {"logFini"}
    [] s = "log" -> {}

ServiceInv ==
  \A s \in Services :
    /\ stage \in NewAt(s) => service[s] = "new"
    /\ stage \in ClosedAt(s) => service[s] = "closed"
    /\ stage \in Stages \ (NewAt(s) \cup ClosedAt(s) \cup {"failed", "exited", "terminated"})
         => service[s] = "open"

\* Threads that main has yet to create; a loop of module.c starts at 1.
StartInv ==
  /\ stage \notin {"start", "stop", "join", "crashed"} => next = 1
  /\ stage \in Alone => \A t \in Threads : at[t] = "none"
  /\ stage = "metrics" => \A t \in Threads \ {"EbpfPoll"} : at[t] = "none"
  /\ stage = "start" => \A i \in next .. Len(Modules) : at[Modules[i]] = "none"
  /\ stage \in {"start", "sandbox", "tuiStart", "serve"} => at["TuiConsumer"] = "none"

\* Threads that main has joined.
JoinInv ==
  /\ stage \in AfterTui => at["TuiConsumer"] \in Over
  /\ stage \in AfterMetrics => at["Metrics"] \in Over
  /\ stage \in {"stop", "join"} => \A i \in 1 .. next - 1 : at[Modules[i]] \in Over
  /\ stage \in AfterWorkers => \A t \in Workers : at[t] \in Over
  /\ stage \in Left => at["EbpfPoll"] \in Over

\* The stages at which the workers were created and none was joined.
Serving == {"sandbox", "tuiStart", "tui", "tuiJoin", "serve", "goodbye"}
             \cup (AfterTui \ AfterMetrics)

\* Threads that main has created, or failed to create, and has not joined.
CreateInv ==
  /\ stage \in Serving => \A t \in Workers : Joinable(t)
  /\ stage = "start" => \A i \in 1 .. next - 1 : Joinable(Modules[i])
  /\ stage \in {"stop", "join"} => \A i \in next .. Len(Modules) : Joinable(Modules[i])
  /\ stage \in {"tui", "tuiJoin"} => Joinable("TuiConsumer")
  /\ at["EbpfPoll"] = "joined" => stage \in Left

\* metrics_stop and ebpf_loader_stop know whether there is a thread to join.
HelperInv ==
  /\ stage \notin AfterMetrics \cup {"metricsClose", "metricsJoin", "crashed"} =>
       /\ run["Metrics"] <=> at["Metrics"] # "none"
       /\ at["Metrics"] # "joined"
  /\ stage \in {"metricsClose", "metricsJoin"} => Joinable("Metrics") /\ ~run["Metrics"]
  /\ stage = "metricsJoin" => ~listening
  /\ stage = "ebpfJoin" => at["EbpfPoll"] # "none"

\* A loop that main is about to wait for has been told to end.
FlagInv ==
  /\ stage = "tuiJoin" => ~run["TuiConsumer"]
  /\ stage = "join" => ~run[Modules[next]]
  /\ stage = "ebpfJoin" => ~run["EbpfPoll"]

\* The holder of the logger's mutex is inside nulleye_log, alone.
LockInv ==
  /\ \A t \in Threads : at[t] = "log" <=> lock = t
  /\ lock = "main" => stage \in {"killed", "reaped"}

\* What the exit of a served process leaves behind.
ExitInv ==
  /\ stage \in NewAt("model") => inited = {}
  /\ stage \in ClosedAt("model") => finished = Workers

\* The inductive invariant of main's stages (main.c:59-177).
DaemonInv ==
  /\ TypeOK
  /\ ServiceInv
  /\ StartInv
  /\ JoinInv
  /\ CreateInv
  /\ HelperInv
  /\ FlagInv
  /\ LockInv
  /\ ExitInv
  /\ CleanExit

-----------------------------------------------------------------------------
(* Liveness *)

\* A request to stop (main.c:30-34, 160-162) ends the process, whatever the
\* threads were doing when it came, unless a client that connected to the metrics
\* port and neither sends nor hangs up (metrics.c:34) holds the thread that
\* metrics_stop joins.
StopCarriedOut ==
  []<>(at["Metrics"] # "client") => (asked ~> Gone)

\* A thread that has something to log (logger.c:61-67) does not wait for the
\* mutex for ever.
LogCallsReturn ==
  \A t \in Threads : at[t] = "lock" ~> (at[t] # "lock" \/ Gone)
=============================================================================
