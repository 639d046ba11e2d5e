----------------------------- MODULE ModelStore -----------------------------
(***************************************************************************)
(* Instances of the daemon on one database file: what they write, the       *)
(* forest of the AI engine, its save after a full window and its load by    *)
(* the next start, after a stop or a crash (nulleye.service restarts it).   *)
(*                                                                         *)
(* The file is the sequence of its commits, as in its write-ahead log.      *)
(* db_load_model returns with its SELECT on a row, and nothing resets that  *)
(* statement before db_close: the connection keeps its read transaction,    *)
(* which its own commits move on, and SQLite refuses a write from any       *)
(* snapshot but the last, at once, whatever the busy timeout.               *)
(***************************************************************************)
EXTENDS Integers, Sequences

CONSTANTS Instances,   \* the processes that open the file
          None,
          MaxCommits   \* bound

ASSUME StoreAssumption == MaxCommits \in Nat /\ None \notin Nat

Tables == {"alerts", "model"}
Rows == [by : Instances, table : Tables]

\* How a statement that writes a row ends: accepted, refused for the snapshot, or
\* failed because the file stays locked or the disk is full.
Outcomes == {"stored", "refused", "failed"}

VARIABLES
  log,      \* the commits
  at,       \* where an instance is
  snap,     \* the commit its open SELECT reads at, or None
  blocks,   \* how many arrays of trees its heap holds, that of g_model included
  refused   \* history: the tables that its own SELECT kept rows out of

storeVars == <<log, at, snap, blocks, refused>>

StoreInit ==
  /\ log = <<>>
  /\ at = [p \in Instances |-> "down"]
  /\ snap = [p \in Instances |-> None]
  /\ blocks = [p \in Instances |-> 0]
  /\ refused = [p \in Instances |-> {}]

\* db_init, then ai_init up to the load.
Start(p) ==
  /\ at[p] = "down"
  /\ at' = [at EXCEPT ![p] = "init"]
  /\ blocks' = [blocks EXCEPT ![p] = 1]
  /\ UNCHANGED <<log, snap, refused>>

Models == {i \in DOMAIN log : log[i].table = "model"}

\* The SELECT has no row, or SQLite fails: the forest just made stays.
LoadNone(p) ==
  /\ at[p] = "init"
  /\ at' = [at EXCEPT ![p] = "on"]
  /\ UNCHANGED <<log, snap, blocks, refused>>

SelectRow(p) ==
  /\ at[p] = "init" /\ Models # {}
  /\ at' = [at EXCEPT ![p] = "on"]
  /\ snap' = [snap EXCEPT ![p] = Len(log)]
  /\ UNCHANGED <<log, refused>>

\* The trees of iforest_init are lost under those of the row.
LoadRow(p) ==
  /\ SelectRow(p)
  /\ blocks' = [blocks EXCEPT ![p] = @ + 1]

\* No memory for the blob: the forest stays, and the SELECT too.
LoadFails(p) ==
  /\ SelectRow(p)
  /\ UNCHANGED blocks

\* Mutant: a refused write resets the SELECT.
WriteAndReset(p, table, how) ==
  \/ /\ how = "stored"
     /\ snap[p] \in {None, Len(log)} /\ Len(log) < MaxCommits
     /\ log' = Append(log, [by |-> p, table |-> table])
     /\ snap' = [snap EXCEPT ![p] = IF snap[p] = None THEN None ELSE Len(log) + 1]
     /\ UNCHANGED refused
  \/ /\ how = "refused"
     /\ snap[p] \notin {None, Len(log)}
     /\ refused' = [refused EXCEPT ![p] = @ \cup {table}]
     /\ snap' = [snap EXCEPT ![p] = Len(log)]
     /\ UNCHANGED log
  \/ how = "failed" /\ UNCHANGED <<log, snap, refused>>

Write(p, table, how) ==
  \/ /\ how = "stored"
     /\ snap[p] \in {None, Len(log)} /\ Len(log) < MaxCommits
     /\ log' = Append(log, [by |-> p, table |-> table])
     /\ snap' = [snap EXCEPT ![p] = IF snap[p] = None THEN None ELSE Len(log) + 1]
     /\ UNCHANGED refused
  \/ /\ how = "refused"
     /\ snap[p] \notin {None, Len(log)}
     /\ refused' = [refused EXCEPT ![p] = @ \cup {table}]
     /\ UNCHANGED <<log, snap>>
  \/ how = "failed" /\ UNCHANGED <<log, snap, refused>>

\* db_insert_alert
InsertAlert(p, how) ==
  /\ at[p] \in {"on", "save"}
  /\ Write(p, "alerts", how)
  /\ UNCHANGED <<at, blocks>>

\* ai_thread raises an alert.
Raise(p) == at[p] = "on" /\ \E how \in Outcomes : InsertAlert(p, how)

\* Mutant: the old trees are not freed.
RetrainUnfreed(p) ==
  /\ at[p] = "on"
  /\ blocks' = [blocks EXCEPT ![p] = @ + 1]
  /\ at' = [at EXCEPT ![p] = "save"]
  /\ UNCHANGED <<log, snap, refused>>

\* A full window: iforest_free, iforest_init, one array for the other.
Retrain(p) ==
  /\ at[p] = "on"
  /\ at' = [at EXCEPT ![p] = "save"]
  /\ UNCHANGED <<log, snap, blocks, refused>>

\* ai_model_save; its result is ignored.
Save(p) ==
  /\ at[p] = "save"
  /\ \E how \in Outcomes : Write(p, "model", how)
  /\ at' = [at EXCEPT ![p] = "on"]
  /\ UNCHANGED blocks

\* iforest_free and db_close, or a crash: what the process held goes with it.
End(p) ==
  /\ at[p] # "down"
  /\ at' = [at EXCEPT ![p] = "down"]
  /\ snap' = [snap EXCEPT ![p] = None]
  /\ blocks' = [blocks EXCEPT ![p] = 0]
  /\ refused' = [refused EXCEPT ![p] = {}]
  /\ UNCHANGED log

StoreStep(p) ==
  Start(p) \/ LoadNone(p) \/ LoadRow(p) \/ LoadFails(p) \/ Raise(p) \/ Retrain(p) \/ Save(p)

-----------------------------------------------------------------------------
(* Correctness *)

StoreTypeOK ==
  /\ log \in Seq(Rows)
  /\ at \in [Instances -> {"down", "init", "on", "save"}]
  /\ snap \in [Instances -> Nat \cup {None}]
  /\ blocks \in [Instances -> 0 .. 2]
  /\ refused \in [Instances -> SUBSET Tables]

\* What came after the snapshot of an open SELECT came from others.
SnapInv ==
  \A p \in Instances :
    /\ at[p] \in {"down", "init"} => snap[p] = None
    /\ snap[p] = None => refused[p] = {}
    /\ snap[p] # None =>
         /\ snap[p] <= Len(log)
         /\ \A i \in DOMAIN log : i > snap[p] => log[i].by # p
         /\ refused[p] # {} => snap[p] < Len(log)

\* A running instance has its trees, and at most the array that a load replaced
\* is lost, however often it retrains and is restarted (ai_engine.c:41, 53-54).
HeapInv ==
  \A p \in Instances :
    /\ at[p] = "down" <=> blocks[p] = 0
    /\ blocks[p] = 2 => snap[p] # None

ModelInv == StoreTypeOK /\ SnapInv /\ HeapInv

\* db.c:108-118: an instance whose row its own SELECT kept out stores nothing
\* more, whatever it retries (db.c:34, 73, 88, 102), until it is restarted.
OutrunForGood ==
  [][\A p \in Instances :
       refused[p] # {} /\ at'[p] # "down" =>
         /\ refused'[p] # {}
         /\ Len(log') > Len(log) => log'[Len(log')].by # p]_storeVars

\* ARCHITECTURE.md:39, "Alerts are generated by AI or rule matches and stored in
\* `alerts` table": while SQLite is neither busy nor out of space.
AlertsStored == \A p \in Instances : "alerts" \notin refused[p]
=============================================================================
