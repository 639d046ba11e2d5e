---------------------------- MODULE DaemonProofs ----------------------------
(***************************************************************************)
(* Proofs about Daemon for every list of modules, mode and environment:     *)
(* DaemonInv is inductive, and main opens and closes the shared services as *)
(* ServiceScopes promises.                                                  *)
(***************************************************************************)
EXTENDS DaemonInvariant, TLAPS

(* A thread's body leads to another point of it or to its end, and into      *)
(* nulleye_log's critical section only from its wait for the mutex.          *)
LEMMA FlowPoints ==
  ASSUME NEW t \in Builtins \cup Helpers, NEW p \in BodyPoints \ {"lock"}
  PROVE  Then(t, p) \subseteq (BodyPoints \ {"log"}) \cup {"done"}
<1> DEFINE Safe == (BodyPoints \ {"log"}) \cup {"done"}
<1> USE DEF Then, Flow, BodyPoints
<1>1. CASE t = "AIEngine"
  BY <1>1 DEF AIFlow
<1>2. CASE t = "FileIntegrity"
  BY <1>2 DEF FileFlow
<1>3. CASE t = "ProcessMonitor"
  BY <1>3 DEF ProcessFlow
<1>4. CASE t = "NetworkMonitor"
  BY <1>4 DEF NetworkFlow
<1>5. CASE t = "UserMonitor"
  BY <1>5 DEF UserFlow
<1>6. CASE t = "EbpfPoll"
  BY <1>6 DEF PollFlow
<1>7. CASE t = "Metrics"
  BY <1>7 DEF MetricsFlow
<1>8. CASE t = "TuiConsumer"
  BY <1>8 DEF TuiFlow
<1>9. QED
  BY <1>1, <1>2, <1>3, <1>4, <1>5, <1>6, <1>7, <1>8 DEF Builtins, Helpers

(* The names of threads are those of ThreadBodies; "free" and "main" are not *)
(* among them, and no worker is a helper.                                   *)
LEMMA Names ==
  /\ Len(Modules) \in Nat \ {0}
  /\ \A i \in 1 .. Len(Modules) : Modules[i] \in Workers
  /\ Workers \subseteq Builtins
  /\ Threads \subseteq Builtins \cup Helpers
  /\ Workers \subseteq Threads
  /\ "EbpfPoll" \in Threads /\ "Metrics" \in Threads /\ "TuiConsumer" \in Threads
  /\ "EbpfPoll" \notin Workers /\ "Metrics" \notin Workers /\ "TuiConsumer" \notin Workers
  /\ "free" \notin Threads /\ "main" \notin Threads
<1>1. /\ Len(Modules) \in Nat \ {0}
      /\ \A i \in 1 .. Len(Modules) : Modules[i] \in Builtins
  BY ModulesAssumption
<1>2. QED
  BY <1>1 DEF Workers, Threads, Builtins, Helpers


(* The first state satisfies the invariant.                                 *)
LEMMA InitInv == Init => DaemonInv
<1> SUFFICES ASSUME Init
             PROVE  DaemonInv
  OBVIOUS
<1> USE Names DEF Init
<1>1. TypeOK
  <2>1. run \in [Threads -> BOOLEAN] /\ listening \in BOOLEAN /\ asked \in BOOLEAN
    BY Zenon
  <2>2. QED
    BY <2>1 DEF TypeOK, Stages, Ended, Points, BodyPoints
<1>2. ServiceInv
  BY DEF ServiceInv, NewAt, ClosedAt, Services
<1>3. StartInv /\ CreateInv /\ HelperInv /\ FlagInv
  BY DEF StartInv, CreateInv, HelperInv, FlagInv, Serving, AfterTui, AfterMetrics, AfterWorkers,
         Left
<1>4. JoinInv
  BY DEF JoinInv, AfterTui, AfterMetrics, AfterWorkers, Left
<1>5. LockInv
  BY DEF LockInv
<1>6. ExitInv /\ CleanExit
  BY DEF ExitInv, CleanExit, NewAt, ClosedAt
<1>7. QED
  BY <1>1, <1>2, <1>3, <1>4, <1>5, <1>6 DEF DaemonInv

(* The steps of main that create no thread and end no loop (main.c:65-176).  *)
LEMMA PlainSteps ==
  ASSUME DaemonInv,
         \/ CommandLine \/ StartLogger \/ OpenDatabase \/ StartBus \/ LoadModules
         \/ EnterUnconfined \/ EnterStrict \/ JoinTui \/ LeaveLoop \/ StopMetrics
         \/ JoinMetrics \/ LogGoodbye \/ StopWorker \/ JoinEbpf \/ LogEbpf
         \/ UnloadModules \/ ShutdownBus \/ CloseDatabase \/ PressQuit \/ SignalEarly
         \/ Signal \/ LastThreadEnds
  PROVE  DaemonInv'
<1> USE Names
    DEF DaemonInv, TypeOK, ServiceInv, StartInv, JoinInv, CreateInv, HelperInv, FlagInv, LockInv,
        ExitInv, CleanExit, Joinable, Serving, Stages, Ended, Gone, Services, Points, BodyPoints, Over, Alone,
        AfterTui, AfterMetrics, AfterWorkers, Left, NewAt, ClosedAt, JoinThen, CloseService
<1>1. CASE CommandLine
  BY <1>1 DEF CommandLine
<1>2. CASE StartLogger
  BY <1>2 DEF StartLogger
<1>3. CASE OpenDatabase
  BY <1>3 DEF OpenDatabase
<1>4. CASE StartBus
  BY <1>4 DEF StartBus
<1>5. CASE LoadModules
  BY <1>5 DEF LoadModules
<1>6. CASE EnterUnconfined
  BY <1>6 DEF EnterUnconfined
<1>7. CASE EnterStrict
  BY <1>7 DEF EnterStrict
<1>8. CASE JoinTui
  BY <1>8 DEF JoinTui
<1>9. CASE LeaveLoop
  BY <1>9 DEF LeaveLoop
<1>10. CASE StopMetrics
  <2>1. /\ run' \in [Threads -> BOOLEAN] /\ run'["Metrics"] = FALSE
        /\ \A t \in Threads \ {"Metrics"} : run'[t] = run[t]
        /\ stage' \in {"metricsClose", "goodbye"}
    BY <1>10 DEF StopMetrics
  <2>2. TypeOK'
    BY <1>10, <2>1 DEF StopMetrics
  <2>3. at["Metrics"] # "none" <=> stage' = "metricsClose"
    BY <1>10 DEF StopMetrics
  <2>4. StartInv' /\ JoinInv' /\ CreateInv' /\ HelperInv' /\ FlagInv'
    BY <1>10, <2>1, <2>3 DEF StopMetrics
  <2>5. ServiceInv' /\ LockInv' /\ ExitInv' /\ CleanExit'
    BY <1>10, <2>1 DEF StopMetrics
  <2> QED
    BY <2>2, <2>4, <2>5
<1>11. CASE JoinMetrics
  BY <1>11 DEF JoinMetrics
<1>12. CASE LogGoodbye
  BY <1>12 DEF LogGoodbye
<1>13. CASE StopWorker
  BY <1>13 DEF StopWorker
<1>14. CASE JoinEbpf
  BY <1>14 DEF JoinEbpf
<1>15. CASE LogEbpf
  BY <1>15 DEF LogEbpf
<1>16. CASE UnloadModules
  BY <1>16 DEF UnloadModules
<1>17. CASE ShutdownBus
  BY <1>17 DEF ShutdownBus
<1>18. CASE CloseDatabase
  BY <1>18 DEF CloseDatabase
<1>19. CASE PressQuit
  BY <1>19 DEF PressQuit
<1>20. CASE SignalEarly
  BY <1>20 DEF SignalEarly
<1>21. CASE Signal
  BY <1>21 DEF Signal
<1>22. CASE LastThreadEnds
  BY <1>22 DEF LastThreadEnds
<1>23. QED
  BY <1>1, <1>2, <1>3, <1>4, <1>5, <1>6, <1>7, <1>8, <1>9, <1>10, <1>11,
     <1>12, <1>13, <1>14, <1>15, <1>16, <1>17, <1>18, <1>19, <1>20, <1>21, <1>22

(* metrics_stop closes the socket and goes on to the join.                   *)
LEMMA CloseListenerInv ==
  ASSUME DaemonInv, CloseListener
  PROVE  DaemonInv'
<1> USE DEF DaemonInv, CloseListener, AfterTui, AfterMetrics, AfterWorkers, Left, Stages
<1>1. TypeOK'
  BY DEF TypeOK
<1>2. ServiceInv'
  BY DEF ServiceInv, NewAt, ClosedAt, Services, Ended
<1>3. StartInv' /\ JoinInv'
  BY DEF StartInv, JoinInv, Alone
<1>4. CreateInv' /\ HelperInv' /\ FlagInv'
  BY DEF CreateInv, HelperInv, FlagInv, Serving, Joinable
<1>5. LockInv' /\ ExitInv' /\ CleanExit'
  BY DEF LockInv, ExitInv, CleanExit, NewAt, ClosedAt
<1>6. QED
  BY <1>1, <1>2, <1>3, <1>4, <1>5

(* ebpf_loader_start and metrics_start give a helper its thread.            *)
LEMMA StartHelpers ==
  ASSUME DaemonInv, StartEbpf \/ StartMetrics
  PROVE  DaemonInv'
<1> USE Names
    DEF DaemonInv, Stages, Ended, Services, Points, BodyPoints, Alone, AfterTui, AfterMetrics,
        AfterWorkers, Left, NewAt, ClosedAt, StartEbpf, StartMetrics
<1>1. TypeOK' /\ ServiceInv'
  <2>1. CASE StartEbpf
    <3>1. at' \in [Threads -> Points] /\ run' \in [Threads -> BOOLEAN]
      BY <2>1 DEF TypeOK
    <3>2. TypeOK'
      BY <2>1, <3>1 DEF TypeOK
    <3>3. ServiceInv'
      BY <2>1 DEF ServiceInv
    <3> QED
      BY <3>2, <3>3
  <2>2. CASE StartMetrics
    <3>1. at' \in [Threads -> Points] /\ run' \in [Threads -> BOOLEAN] /\ listening' \in BOOLEAN
      BY <2>2 DEF TypeOK
    <3>2. TypeOK'
      BY <2>2, <3>1 DEF TypeOK
    <3>3. ServiceInv'
      BY <2>2 DEF ServiceInv
    <3> QED
      BY <3>2, <3>3
  <2> QED
    BY <2>1, <2>2
<1>2. StartInv'
  BY DEF TypeOK, StartInv
<1>3. JoinInv' /\ CreateInv' /\ HelperInv' /\ FlagInv'
  BY DEF TypeOK, StartInv, JoinInv, CreateInv, HelperInv, FlagInv, Serving, Joinable
<1>4. LockInv'
  BY DEF TypeOK, StartInv, LockInv
<1>5. ExitInv' /\ CleanExit'
  BY DEF ExitInv, CleanExit
<1>6. QED
  BY <1>1, <1>2, <1>3, <1>4, <1>5

(* pthread_create for the module that module_start_workers is at: the later  *)
(* modules still have no thread, as no module is registered twice.          *)
LEMMA StartWorkerInv ==
  ASSUME DaemonInv, StartWorker
  PROVE  DaemonInv'
<1> DEFINE w == Modules[next]
<1> USE Names
    DEF DaemonInv, Stages, Ended, Services, Points, BodyPoints, Alone, AfterTui, AfterMetrics,
        AfterWorkers, Left, NewAt, ClosedAt, StartWorker
<1>1. /\ w \in Threads /\ w \in Workers
      /\ next \in 1 .. Len(Modules)
      /\ at[w] = "none"
  BY DEF TypeOK, StartInv
<1>2. /\ at' \in [Threads -> Points] /\ run' \in [Threads -> BOOLEAN]
      /\ at'[w] \in {"start", "failed"}
      /\ \A t \in Threads \ {w} : at'[t] = at[t] /\ run'[t] = run[t]
  BY <1>1 DEF TypeOK, Create
<1>3. TypeOK'
  BY <1>1, <1>2 DEF TypeOK
<1>4. ServiceInv'
  BY DEF ServiceInv
<1>5. StartInv'
  <2>1. \A i \in next + 1 .. Len(Modules) : Modules[i] # w /\ Modules[i] \in Threads
    BY <1>1, ModulesAssumption
  <2>2. QED
    BY <1>1, <1>2, <2>1 DEF StartInv, TypeOK
<1>6. CreateInv'
  <2>1. \A i \in 1 .. next : Joinable(Modules[i])'
    BY <1>1, <1>2 DEF CreateInv, Joinable
  <2>2. next = Len(Modules) => \A t \in Workers : Joinable(t)'
    BY <2>1 DEF Workers
  <2>3. at'["EbpfPoll"] = at["EbpfPoll"]
    BY <1>1, <1>2
  <2>4. QED
    BY <1>1, <2>1, <2>2, <2>3 DEF CreateInv, Serving, TypeOK
<1>7. JoinInv' /\ HelperInv' /\ FlagInv'
  BY <1>1, <1>2 DEF JoinInv, HelperInv, FlagInv, Joinable
<1>8. LockInv'
  BY <1>1, <1>2 DEF LockInv, TypeOK
<1>9. ExitInv' /\ CleanExit'
  BY DEF ExitInv, CleanExit
<1>10. QED
  BY <1>3, <1>4, <1>5, <1>6, <1>7, <1>8, <1>9

(* tui_run creates its consumer.                                            *)
LEMMA StartTuiInv ==
  ASSUME DaemonInv, StartTui
  PROVE  DaemonInv'
<1> USE Names
    DEF DaemonInv, Stages, Ended, Services, Points, BodyPoints, Alone, AfterTui, AfterMetrics,
        AfterWorkers, Left, NewAt, ClosedAt, StartTui, Create
<1>1. TypeOK' /\ ServiceInv'
  <2>1. at' \in [Threads -> Points] /\ run' \in [Threads -> BOOLEAN]
    BY DEF TypeOK
  <2>2. TypeOK'
    BY <2>1 DEF TypeOK
  <2>3. ServiceInv'
    BY DEF ServiceInv
  <2> QED
    BY <2>2, <2>3
<1>2. StartInv' /\ JoinInv' /\ CreateInv' /\ HelperInv' /\ FlagInv'
  BY DEF TypeOK, StartInv, JoinInv, CreateInv, HelperInv, FlagInv, Serving, Joinable
<1>3. LockInv'
  BY DEF TypeOK, StartInv, LockInv
<1>4. ExitInv' /\ CleanExit'
  BY DEF ExitInv, CleanExit
<1>5. QED
  BY <1>1, <1>2, <1>3, <1>4

(* module_stop_workers joins the thread of the module it is at.             *)
LEMMA JoinWorkerInv ==
  ASSUME DaemonInv, JoinWorker
  PROVE  DaemonInv'
<1> DEFINE w == Modules[next]
<1> USE Names
    DEF DaemonInv, Stages, Ended, Services, Points, BodyPoints, Alone, AfterTui, AfterMetrics,
        AfterWorkers, Left, NewAt, ClosedAt, JoinWorker, JoinThen, Over
<1>1. w \in Threads /\ w \in Workers /\ next \in 1 .. Len(Modules)
  BY DEF TypeOK
<1>2. /\ at' \in [Threads -> Points]
      /\ at[w] \in {"done", "failed"} /\ at'[w] \in {"joined", "failed"}
      /\ \A t \in Threads \ {w} : at'[t] = at[t]
      /\ stage' \in {IF next < Len(Modules) THEN "stop" ELSE "ebpfStop", "crashed"}
  BY <1>1 DEF TypeOK
<1>3. TypeOK' /\ ServiceInv'
  BY <1>1, <1>2 DEF TypeOK, ServiceInv
<1>4. StartInv'
  BY <1>1, <1>2 DEF StartInv
<1>5. JoinInv'
  <2>1. \A i \in 1 .. next : at'[Modules[i]] \in Over
    BY <1>1, <1>2 DEF JoinInv, TypeOK
  <2>2. next = Len(Modules) => \A t \in Workers : at'[t] \in Over
    BY <2>1 DEF Workers
  <2>3. QED
    BY <1>1, <1>2, <2>1, <2>2 DEF JoinInv
<1>6. CreateInv'
  <2>1. \A i \in next + 1 .. Len(Modules) : Modules[i] # w /\ Modules[i] \in Threads
    BY <1>1, ModulesAssumption
  <2>2. at'["EbpfPoll"] = at["EbpfPoll"]
    BY <1>1, <1>2
  <2>3. QED
    BY <1>1, <1>2, <2>1, <2>2 DEF CreateInv, Serving, Joinable, TypeOK
<1>7. HelperInv' /\ FlagInv'
  BY <1>1, <1>2 DEF HelperInv, FlagInv, Joinable
<1>8. LockInv'
  BY <1>1, <1>2 DEF LockInv, TypeOK
<1>9. ExitInv' /\ CleanExit'
  BY <1>2 DEF ExitInv, CleanExit
<1>10. QED
  BY <1>3, <1>4, <1>5, <1>6, <1>7, <1>8, <1>9

(* ebpf_loader_stop finds a thread to join, or none.                        *)
LEMMA StopEbpfInv ==
  ASSUME DaemonInv, StopEbpf
  PROVE  DaemonInv'
<1> USE Names
    DEF DaemonInv, Stages, Ended, Services, Points, BodyPoints, Alone, AfterTui, AfterMetrics,
        AfterWorkers, Left, NewAt, ClosedAt, StopEbpf, Over
<1>1. TypeOK' /\ ServiceInv'
  <2>1. run' \in [Threads -> BOOLEAN] /\ stage' \in Stages /\ asked' \in BOOLEAN
    BY DEF TypeOK
  <2>2. TypeOK'
    BY <2>1 DEF TypeOK
  <2>3. ServiceInv'
    BY DEF ServiceInv
  <2>4. QED
    BY <2>2, <2>3
<1>2. /\ run["Metrics"] \in BOOLEAN
      /\ run' = [run EXCEPT !["EbpfPoll"] = FALSE]
      /\ run'["EbpfPoll"] = FALSE /\ run'["Metrics"] = run["Metrics"]
  <2>1. run \in [Threads -> BOOLEAN] /\ run' = [run EXCEPT !["EbpfPoll"] = FALSE]
    BY DEF TypeOK
  <2>2. QED
    BY <2>1
<1>3. StartInv' /\ JoinInv'
  BY DEF TypeOK, StartInv, JoinInv
<1>4. CreateInv' /\ HelperInv' /\ FlagInv'
  <2>1. CASE at["EbpfPoll"] = "none" /\ stage' = "ebpfLog"
    BY <2>1 DEF CreateInv, HelperInv, FlagInv, Serving, Joinable
  <2>2. CASE at["EbpfPoll"] # "none" /\ stage' = "ebpfJoin"
    BY <1>2, <2>2 DEF CreateInv, HelperInv, FlagInv, Serving, Joinable
  <2>3. QED
    BY <2>1, <2>2
<1>5. LockInv'
  BY DEF TypeOK, LockInv
<1>6. ExitInv' /\ CleanExit'
  BY DEF ExitInv, CleanExit
<1>7. QED
  BY <1>1, <1>3, <1>4, <1>5, <1>6

(* logger_fini is the last step: everything else is joined and closed.      *)
LEMMA EndLoggerInv ==
  ASSUME DaemonInv, EndLogger
  PROVE  DaemonInv'
<1> USE Names
    DEF DaemonInv, Stages, Ended, Services, Alone, AfterTui, AfterMetrics, AfterWorkers, Left,
        NewAt, ClosedAt, EndLogger, CloseService
<1>1. TypeOK' /\ ServiceInv'
  BY DEF TypeOK, ServiceInv
<1>2. /\ StartInv' /\ JoinInv' /\ CreateInv' /\ HelperInv' /\ FlagInv'
      /\ LockInv' /\ ExitInv'
  BY DEF TypeOK, StartInv, JoinInv, CreateInv, HelperInv, FlagInv, LockInv, ExitInv, Serving
<1>3. CleanExit'
  <2>1. \A t \in Threads : at'[t] \in Over
    BY DEF JoinInv, Threads, Helpers
  <2>2. \A s \in Services : service'[s] = "closed"
    BY DEF ServiceInv, TypeOK
  <2>3. inited' \ finished' \subseteq Plugins
    BY DEF ExitInv, TypeOK
  <2>4. QED
    BY <2>1, <2>2, <2>3 DEF CleanExit
<1>4. QED
  BY <1>1, <1>2, <1>3

(* A thread that takes a step has been created and not joined, and it stays  *)
(* so; it is in the logger's critical section exactly if it holds the mutex. *)
LEMMA ThreadStepFacts ==
  ASSUME DaemonInv, NEW t \in Threads, ThreadStep(t)
  PROVE  /\ at[t] \in BodyPoints
         /\ at' = [at EXCEPT ![t] = at'[t]]
         /\ at'[t] \in BodyPoints \cup {"done"}
         /\ lock' \in Threads \cup {"free", "main"}
         /\ LockInv'
<1> USE Names DEF DaemonInv, TypeOK, LockInv, Move
<1>1. t \in Builtins \cup Helpers
  OBVIOUS
<1>2. CASE CheckFlag(t)
  <2>1. Then(t, "check") \subseteq (BodyPoints \ {"log"}) \cup {"done"}
    BY <1>1, FlowPoints DEF BodyPoints
  <2>2. QED
    BY <1>2, <2>1 DEF CheckFlag, BodyPoints, ThreadStep
<1>3. CASE TakeLock(t)
  BY <1>3 DEF TakeLock, BodyPoints, ThreadStep
<1>4. CASE ReleaseLock(t)
  <2>1. Then(t, "log") \subseteq (BodyPoints \ {"log"}) \cup {"done"}
    BY <1>1, FlowPoints DEF BodyPoints
  <2>2. QED
    BY <1>4, <2>1 DEF ReleaseLock, BodyPoints, ThreadStep
<1>5. CASE Accept(t)
  <2>1. Then(t, "accept") \subseteq (BodyPoints \ {"log"}) \cup {"done"}
    BY <1>1, FlowPoints DEF BodyPoints
  <2>2. QED
    BY <1>5, <2>1 DEF Accept, BodyPoints, ThreadStep
<1>6. CASE Proceed(t)
  <2>1. Then(t, at[t]) \subseteq (BodyPoints \ {"log"}) \cup {"done"}
    BY <1>1, <1>6, FlowPoints DEF Proceed, BodyPoints
  <2>2. QED
    BY <1>6, <2>1 DEF Proceed, BodyPoints, ThreadStep
<1>7. QED
  BY <1>2, <1>3, <1>4, <1>5, <1>6 DEF ThreadStep

(* The other threads keep the invariant: they change none of main's data.    *)
LEMMA ThreadStepInv ==
  ASSUME DaemonInv, NEW t \in Threads, ThreadStep(t)
  PROVE  DaemonInv'
<1> USE DEF DaemonInv
<1>1. /\ at[t] \notin Over /\ at'[t] \notin Over
      /\ \A u \in Threads \ {t} : at'[u] = at[u]
      /\ at' \in [Threads -> Points]
      /\ LockInv' /\ lock' \in Threads \cup {"free", "main"}
  BY ThreadStepFacts DEF TypeOK, Over, BodyPoints, Points
<1>2. UNCHANGED <<mode, stage, next, run, listening, service, asked, inited, finished>>
  BY DEF ThreadStep
<1>3. TypeOK' /\ ServiceInv' /\ ExitInv'
  BY <1>1, <1>2 DEF TypeOK, ServiceInv, ExitInv
<1>4. StartInv'
  BY <1>1, <1>2, Names DEF TypeOK, StartInv, Over
<1>5. JoinInv'
  BY <1>1, <1>2, Names DEF TypeOK, JoinInv
<1>6. CreateInv' /\ HelperInv' /\ FlagInv'
  BY <1>1, <1>2, Names DEF TypeOK, CreateInv, HelperInv, FlagInv, Joinable, Over
<1>7. CleanExit'
  BY <1>1, <1>2 DEF CleanExit, ThreadStep, Gone, Ended
<1>8. QED
  BY <1>1, <1>3, <1>4, <1>5, <1>6, <1>7

(* DaemonInv is inductive.                                                  *)
LEMMA StepInv == DaemonInv /\ [Next]_vars => DaemonInv'
<1> SUFFICES ASSUME DaemonInv, [Next]_vars
             PROVE  DaemonInv'
  OBVIOUS
<1>1. CASE StartUp
  BY <1>1, PlainSteps, StartHelpers, StartWorkerInv, StartTuiInv DEF StartUp
<1>2. CASE TearDown
  BY <1>2, PlainSteps, CloseListenerInv, JoinWorkerInv, StopEbpfInv, EndLoggerInv DEF TearDown
<1>3. CASE PressQuit \/ SignalEarly \/ Signal \/ LastThreadEnds
  BY <1>3, PlainSteps
<1>4. CASE \E t \in Threads : ThreadStep(t)
  BY <1>4, ThreadStepInv
<1>5. CASE UNCHANGED vars
  BY <1>5 DEF vars, DaemonInv, TypeOK, ServiceInv, StartInv, JoinInv, CreateInv, HelperInv,
              FlagInv, LockInv, ExitInv, CleanExit, Joinable
<1>6. QED
  BY <1>1, <1>2, <1>3, <1>4, <1>5 DEF Next, Redraw, Rest

(* The order of main.c:59-177 keeps DaemonInv for every list of modules.    *)
THEOREM DaemonInvariance == Spec => []DaemonInv
BY InitInv, StepInv, PTL DEF Spec

(* Every join of the teardown is of a thread that main tried to create, told  *)
(* to end and has not joined (tui.c:87, metrics.c:82-91, loader.c:175-182).  *)
THEOREM JoinsArePrepared == Spec => []JoinsPrepared
<1>1. DaemonInv => JoinsPrepared
  <2> SUFFICES ASSUME DaemonInv, NEW t \in Threads, Awaited(t)
               PROVE  /\ Joinable(t) /\ ~run[t]
                      /\ t = "Metrics" => ~listening
    BY DEF JoinsPrepared
  <2> USE Names DEF DaemonInv, TypeOK, CreateInv, HelperInv, FlagInv, Serving, Joinable,
                    AfterTui, AfterMetrics, AfterWorkers, Left
  <2>1. CASE stage = "tuiJoin" /\ t = "TuiConsumer"
    BY <2>1
  <2>2. CASE stage = "metricsJoin" /\ t = "Metrics"
    BY <2>2
  <2>3. CASE stage = "join" /\ t = Modules[next]
    BY <2>3
  <2>4. CASE stage = "ebpfJoin" /\ t = "EbpfPoll"
    BY <2>4
  <2>5. QED
    BY <2>1, <2>2, <2>3, <2>4 DEF Awaited
<1>2. QED
  BY <1>1, DaemonInvariance, PTL

(* A process that exits after serving leaves nothing behind but the plugins  *)
(* without their fini (main.c:165-176, module.c:64-71).                      *)
THEOREM ExitIsClean == Spec => []CleanExit
<1>1. DaemonInv => CleanExit
  BY DEF DaemonInv
<1>2. QED
  BY <1>1, DaemonInvariance, PTL

(* Creating and joining threads moves none into or out of a service.         *)
LEMMA MainKeepsUsers ==
  ASSUME DaemonInv, StartUp \/ TearDown \/ PressQuit \/ SignalEarly \/ Signal \/ LastThreadEnds
  PROVE  \A s \in Services : UsersOf(s)' = UsersOf(s)
<1> DEFINE Using == {"bus", "db", "lock", "log", "model"}
<1> USE Names DEF DaemonInv
<1>1. \A t \in Threads : at'[t] = at[t] \/ (at[t] \notin Using /\ at'[t] \notin Using)
  <2>1. CASE StartEbpf \/ StartMetrics
    BY <2>1 DEF StartEbpf, StartMetrics, StartInv, TypeOK, Alone
  <2>2. CASE StartWorker
    <3>1. Modules[next] \in Threads /\ at[Modules[next]] = "none"
      BY <2>2 DEF StartWorker, StartInv, TypeOK
    <3>2. QED
      BY <2>2, <3>1 DEF StartWorker, Create, TypeOK
  <2>3. CASE StartTui
    BY <2>3 DEF StartTui, Create, StartInv, TypeOK
  <2>4. CASE JoinTui \/ JoinMetrics \/ JoinWorker \/ JoinEbpf
    BY <2>4 DEF JoinTui, JoinMetrics, JoinWorker, JoinEbpf, JoinThen, TypeOK
  <2>5. CASE UNCHANGED at
    BY <2>5
  <2>6. QED
    BY <2>1, <2>2, <2>3, <2>4, <2>5
       DEF StartUp, TearDown, CloseService,
           CommandLine, StartLogger, OpenDatabase, StartBus, LoadModules,
           EnterUnconfined, EnterStrict, LeaveLoop, StopMetrics, CloseListener, LogGoodbye,
           StopWorker, StopEbpf, LogEbpf, UnloadModules, ShutdownBus,
           CloseDatabase, EndLogger, PressQuit, SignalEarly, Signal,
           LastThreadEnds
<1>2. QED
  BY <1>1 DEF UsersOf, PointsOf, Services

(* The life of a service: main opens it when it is new, and closes it when   *)
(* every thread has been joined.                                            *)
LEMMA ServiceSteps ==
  ASSUME DaemonInv, StartUp \/ TearDown \/ PressQuit \/ SignalEarly \/ Signal \/ LastThreadEnds,
         NEW s \in Services
  PROVE  \/ service'[s] = service[s]
         \/ service[s] = "new" /\ service'[s] = "open"
         \/ service[s] = "open" /\ service'[s] = "closed" /\ UsersOf(s) = {}
<1> USE DEF DaemonInv
<1>1. CASE StartLogger \/ OpenDatabase \/ StartBus \/ LoadModules
  BY <1>1 DEF StartLogger, OpenDatabase, StartBus, LoadModules, ServiceInv, NewAt, TypeOK, Services
<1>2. CASE UnloadModules \/ ShutdownBus \/ CloseDatabase \/ EndLogger
  <2>1. \A t \in Threads : at[t] \in Over
    BY <1>2 DEF UnloadModules, ShutdownBus, CloseDatabase, EndLogger, CloseService, JoinInv,
                AfterTui, AfterMetrics, AfterWorkers, Left, Threads, Helpers
  <2>2. UsersOf(s) = {}
    BY <2>1 DEF UsersOf, PointsOf, Services, Over
  <2>3. QED
    BY <1>2, <2>2 DEF UnloadModules, ShutdownBus, CloseDatabase, EndLogger, CloseService,
                      ServiceInv, NewAt, ClosedAt, TypeOK, Services, Stages, Ended
<1>3. CASE UNCHANGED service
  BY <1>3
<1>4. QED
  BY <1>1, <1>2, <1>3
     DEF StartUp, TearDown, CommandLine, StartEbpf, StartMetrics, StartWorker, EnterUnconfined,
         EnterStrict, StartTui, JoinTui, LeaveLoop, StopMetrics, CloseListener, JoinMetrics, LogGoodbye,
         StopWorker, JoinWorker, StopEbpf, JoinEbpf, LogEbpf, PressQuit, SignalEarly, Signal,
         LastThreadEnds

(* While a thread is alive every service is open.                           *)
LEMMA LiveThreadFindsServices ==
  ASSUME DaemonInv, NEW t \in Threads, at[t] \in BodyPoints, ~Gone, NEW s \in Services
  PROVE  service[s] = "open"
<1>1. stage \notin Alone /\ stage \notin Left
  BY DEF DaemonInv, StartInv, JoinInv, Alone, AfterTui, AfterMetrics, AfterWorkers, Left, Over,
         BodyPoints, Threads, Helpers
<1>2. QED
  BY <1>1 DEF DaemonInv, TypeOK, ServiceInv, Services, Stages, Ended, Gone, NewAt, ClosedAt,
              Alone, Left

(* Each of the four services of main.c keeps the promise of ServiceScopes.   *)
THEOREM ScopesImplemented == Spec => ScopesKept
<1>1. Init => Scopes!Init
  BY Names DEF Init, Scopes!Init, UsersOf, PointsOf, Services
<1>2. DaemonInv /\ [Next]_vars => [Scopes!Next]_Scopes!vars
  <2> SUFFICES ASSUME DaemonInv, [Next]_vars
               PROVE  [Scopes!Next]_Scopes!vars
    OBVIOUS
  <2>1. CASE StartUp \/ TearDown \/ PressQuit \/ SignalEarly \/ Signal \/ LastThreadEnds
    BY <2>1, MainKeepsUsers, ServiceSteps
       DEF Scopes!Next, Scopes!Open, Scopes!Close, Scopes!Keep
  <2>2. ASSUME NEW t \in Threads, ThreadStep(t)
        PROVE  Scopes!Next
    <3>1. at[t] \in BodyPoints /\ ~Gone /\ service' = service
      BY <2>2, ThreadStepFacts DEF ThreadStep
    <3>2. \A s \in Services : service[s] = "open"
      BY <3>1, LiveThreadFindsServices
    <3>3. \A s \in Services :
            UsersOf(s)' = UsersOf(s) \cup {t} \/ UsersOf(s)' = UsersOf(s) \ {t}
      BY <2>2, ThreadStepFacts DEF UsersOf, DaemonInv, TypeOK
    <3>4. QED
      BY <3>1, <3>2, <3>3 DEF Scopes!Next, Scopes!Enter, Scopes!Leave
  <2>3. CASE UNCHANGED vars
    BY <2>3 DEF vars, Scopes!vars, UsersOf
  <2>4. QED
    BY <2>1, <2>2, <2>3 DEF Next, Redraw, Rest
<1>3. QED
  BY <1>1, <1>2, DaemonInvariance, PTL DEF Spec, ScopesKept, Scopes!Spec
=============================================================================
