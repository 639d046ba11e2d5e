---------------------------- MODULE ThreadBodies ----------------------------
(***************************************************************************)
(* The bodies of NullEye's threads, as far as they use what the threads of  *)
(* the process share.  A thread is always at one of a few points, and its   *)
(* flow gives the points it may go to next:                                 *)
(*   "start"   it was created and has not reached its loop                  *)
(*   "check"   it evaluates the loop condition, its run flag                *)
(*   "bus"     it is inside event_bus_publish or event_bus_consume          *)
(*   "db"      it is inside a function of db.c                              *)
(*   "model"   it scores with or rebuilds the isolation forest              *)
(*   "lock"    it is in nulleye_log and waits for the logger's mutex        *)
(*   "log"     it is in nulleye_log and holds the logger's mutex            *)
(*   "pause"   it sleeps                                                    *)
(*   "scan"    it walks the file tree or works on one of its files          *)
(*   "poll"    it polls the BPF ring buffer                                 *)
(*   "accept"  it waits for a connection                                    *)
(*   "client"  it reads the request of a client                             *)
(*   "done"    it has returned                                              *)
(* Three more are no points of a thread: "none" before pthread_create,      *)
(* "failed" after a failed one, "joined" after pthread_join.                *)
(***************************************************************************)

BodyPoints == {"start", "check", "bus", "db", "model", "lock", "log", "pause",
               "scan", "poll", "accept", "client"}
Points == BodyPoints \cup {"none", "failed", "done", "joined"}

\* ai_thread: consume, score, record an alert and log it, rebuild and save the
\* model when the window is full.
AIFlow ==
  [start |-> {"check", "done"}, check |-> {"bus"}, bus |-> {"pause", "model"},
   model |-> {"check", "db"}, db |-> {"lock"}, lock |-> {"log"},
   log |-> {"check", "model", "lock"}, pause |-> {"check"}]

\* scan_thread and file_cb: for each file log a failed stat, store the entry,
\* publish an event and log a full bus; then sleep.
FileFlow ==
  [start |-> {"check"}, check |-> {"scan"}, scan |-> {"lock", "db", "pause"},
   db |-> {"bus"}, bus |-> {"scan", "lock"}, lock |-> {"log"},
   log |-> {"scan"}, pause |-> {"check"}]

\* proc_thread: consume, store events of the eBPF loader, log a failed insert.
ProcessFlow ==
  [start |-> {"check"}, check |-> {"bus"}, bus |-> {"pause", "check", "db"},
   db |-> {"check", "lock"}, lock |-> {"log"}, log |-> {"check"},
   pause |-> {"check"}]

\* net_thread: as proc_thread, for events without a path.
NetworkFlow ==
  [start |-> {"check"}, check |-> {"bus"}, bus |-> {"pause", "check", "db"},
   db |-> {"check", "lock"}, lock |-> {"log"}, log |-> {"check"},
   pause |-> {"check"}]

\* user_thread: returns at once without an auth.log, else stores each new line.
UserFlow ==
  [start |-> {"check", "done"}, check |-> {"db", "pause"},
   db |-> {"check", "lock"}, lock |-> {"log"}, log |-> {"check"},
   pause |-> {"check"}]

\* rb_poll and handle_rb_event: publish each record, log a full bus.
PollFlow ==
  [start |-> {"check"}, check |-> {"poll"}, poll |-> {"check", "bus"},
   bus |-> {"poll", "lock"}, lock |-> {"log"}, log |-> {"poll"}]

\* metrics_loop: accept, read the request of one client, answer; return when
\* accept fails.
MetricsFlow ==
  [start |-> {"check"}, check |-> {"accept"},
   accept |-> {"check", "client", "lock"}, client |-> {"check"},
   lock |-> {"log"}, log |-> {"done"}]

\* consumer: consume into the table that the screen shows.
TuiFlow ==
  [start |-> {"check"}, check |-> {"bus"}, bus |-> {"check", "pause"},
   pause |-> {"check"}]

Flow ==
  [AIEngine |-> AIFlow, FileIntegrity |-> FileFlow,
   ProcessMonitor |-> ProcessFlow, NetworkMonitor |-> NetworkFlow,
   UserMonitor |-> UserFlow, EbpfPoll |-> PollFlow, Metrics |-> MetricsFlow,
   TuiConsumer |-> TuiFlow]

\* The built-in modules, and the threads that belong to no module.
Builtins == {"AIEngine", "FileIntegrity", "ProcessMonitor", "NetworkMonitor", "UserMonitor"}
Helpers == {"EbpfPoll", "Metrics", "TuiConsumer"}

\* The points thread t may go to from point p.
Then(t, p) == IF p \in DOMAIN Flow[t] THEN Flow[t][p] ELSE {}
=============================================================================
