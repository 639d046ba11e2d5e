-------------------------- MODULE EventStoreProofs --------------------------
(***************************************************************************)
(* Proofs about EventStore: the inductive invariant of the shared           *)
(* statements, that no stored row lacks an argument, that an undisturbed    *)
(* call stores exactly its own row, and what threads that share nothing can *)
(* rely on, for every set of threads and every bound.                       *)
(***************************************************************************)
EXTENDS EventStore, TLAPS

USE RunningAssumption, BoundsAssumption

\* A thread calls functions of db.c; its buffers are those of its calls.
LEMMA UsesFacts ==
  /\ \A t \in Running : Uses(t) \subseteq Functions
  /\ \A t \in Monitors \cup {"user_monitor"} : Uses(t) = {"insert_event"}
  /\ Uses("ai_engine") = {"insert_alert", "store_model"}
  /\ Uses("file_integrity") = {"update_file_entry"}
  BY DEF Uses, Functions, Monitors, Threads

LEMMA BufferFacts ==
  ASSUME NEW t \in Running, NEW f \in Functions
  PROVE  <<t, f>> \in Buffers <=> f \in Uses(t)
  BY DEF Buffers

\* No thread is called like an unbound argument, and no content like a freed
\* buffer or a NULL.
LEMMA Distinct ==
  /\ Unbound \notin Running
  /\ "none" \notin Functions
  /\ Dead \notin Contents /\ Null \notin Contents /\ Dead # Null
  BY DEF Unbound, Threads, Monitors, Functions, Contents, Kinds, EbpfKinds, Dead, Null

LEMMA InitInv == Init => StoreInv
<1> SUFFICES ASSUME Init PROVE StoreInv
  OBVIOUS
<1>1. TypeOK
  BY Distinct DEF Init, TypeOK, Contents
<1>2. CallInv
  BY DEF Init, CallInv
<1>3. BufferInv /\ WindowInv /\ BoundInv /\ AloneInv
  BY DEF Init, BufferInv, WindowInv, BoundInv, AloneInv, Inside
<1> QED
  BY <1>1, <1>2, <1>3 DEF StoreInv

\* A step that leaves the statements, the rows and who is inside a call alone.
LEMMA OutsideStep ==
  ASSUME StoreInv, NEW t \in Running,
         UNCHANGED <<phase, bound, rows, alone>>,
         \A u \in Running \ {t} : at'[u] = at[u] /\ fn'[u] = fn[u],
         at[t] \notin {"enter", "key", "data", "step"},
         at'[t] \notin {"key", "data", "step"}
  PROVE  /\ BoundInv'
         /\ AloneInv'
<1>1. \A f \in Functions : Inside(f)' = Inside(f)
  BY DEF Inside
<1>2. \A u \in Running : at'[u] \in {"key", "data", "step"} =>
        u # t /\ at'[u] = at[u] /\ fn'[u] = fn[u] /\ fn[u] \in Functions
  BY UsesFacts DEF StoreInv, CallInv
<1>3. BoundInv'
  BY <1>2 DEF StoreInv, BoundInv
<1>4. AloneInv'
  BY <1>1, <1>2 DEF StoreInv, AloneInv, Inside
<1> QED
  BY <1>3, <1>4

\* A thread that has taken or produced something enters a call (the worker
\* loops up to db.c).
LEMMA CallsStep ==
  ASSUME StoreInv, NEW t \in Running, NEW f \in Uses(t), NEW c \in Contents,
         at[t] \in {"loop", "loopEnd"}, Calls(t, f, c)
  PROVE  /\ at' \in [Running -> {"loop", "loopEnd", "enter", "key", "data", "step",
                                   "publish", "ended"}]
         /\ fn' \in [Running -> Functions \cup {"none"}]
         /\ mem' \in [Buffers -> Contents \cup {Dead}]
         /\ at'[t] = "enter" /\ fn'[t] = f
         /\ \A u \in Running \ {t} : at'[u] = at[u] /\ fn'[u] = fn[u]
         /\ BufferInv'
<1>1. f \in Functions /\ <<t, f>> \in Buffers
  BY UsesFacts, BufferFacts
<1>2. mem'[<<t, f>>] = c /\ \A b \in Buffers : b # <<t, f>> => mem'[b] = mem[b]
  BY <1>1 DEF StoreInv, TypeOK, Calls
<1>3. \A u \in Running \ {t} : at'[u] \in {"enter", "key", "data", "step", "publish"} =>
        <<u, fn[u]>> \in Buffers /\ <<u, fn[u]>> # <<t, f>>
  BY UsesFacts, BufferFacts DEF StoreInv, TypeOK, CallInv, Calls
<1>4. BufferInv'
  <2> SUFFICES ASSUME NEW u \in Running,
                      at'[u] \in {"enter", "key", "data", "step", "publish"}
               PROVE  mem'[<<u, fn'[u]>>] # Dead
    BY DEF BufferInv
  <2>1. CASE u = t
    BY <2>1, <1>1, <1>2, Distinct DEF StoreInv, TypeOK, Calls
  <2>2. CASE u # t
    <3>1. at'[u] = at[u] /\ fn'[u] = fn[u]
      BY <2>2 DEF StoreInv, TypeOK, Calls
    <3>2. mem'[<<u, fn[u]>>] = mem[<<u, fn[u]>>]
      BY <2>2, <1>2, <1>3
    <3> QED
      BY <3>1, <3>2 DEF StoreInv, BufferInv
  <2> QED
    BY <2>1, <2>2
<1> QED
  BY <1>1, <1>4 DEF StoreInv, TypeOK, Calls

LEMMA PublishEbpfInv ==
  ASSUME StoreInv, NEW kind \in EbpfKinds, PublishEbpf(kind)
  PROVE  StoreInv'
<1>1. NewItem(kind) \in Contents
  BY DEF StoreInv, TypeOK, PublishEbpf, NewItem, Contents, Kinds
<1>2. queue' \in Seq(Contents) /\ Len(queue') <= Capacity
  BY <1>1 DEF StoreInv, TypeOK, PublishEbpf, Published
<1>5. owed' \in SUBSET Contents /\ items' \in 0 .. MaxItems
  BY <1>1 DEF StoreInv, TypeOK, PublishEbpf
<1>3. TypeOK'
  BY <1>2, <1>5 DEF StoreInv, TypeOK, PublishEbpf
<1>4. CallInv' /\ BufferInv' /\ WindowInv' /\ BoundInv' /\ AloneInv'
  BY DEF StoreInv, PublishEbpf, CallInv, BufferInv, WindowInv, BoundInv, AloneInv, Inside
<1> QED
  BY <1>3, <1>4 DEF StoreInv

LEMMA TakeWantedInv ==
  ASSUME StoreInv, NEW t \in Running, TakeWanted(t)
  PROVE  StoreInv'
<1>1. Head(queue) \in Contents /\ "insert_event" \in Uses(t)
  BY UsesFacts DEF StoreInv, TypeOK, TakeWanted
<1>2. at[t] = "loop" /\ Calls(t, "insert_event", Head(queue))
  BY DEF TakeWanted
<1>8. queue' \in Seq(Contents) /\ Len(queue') <= Capacity
  BY DEF StoreInv, TypeOK, TakeWanted
<1>9. /\ at' \in [Running -> {"loop", "loopEnd", "enter", "key", "data", "step",
                               "publish", "ended"}]
      /\ fn' \in [Running -> Functions \cup {"none"}]
      /\ mem' \in [Buffers -> Contents \cup {Dead}]
  BY <1>1, <1>2, CallsStep
<1>3. TypeOK'
  BY <1>8, <1>9 DEF StoreInv, TypeOK, TakeWanted
<1>4. CallInv'
  BY <1>1, <1>2, CallsStep, Distinct DEF StoreInv, CallInv, TakeWanted, Functions
<1>5. BufferInv'
  BY <1>1, <1>2, CallsStep
<1>6. WindowInv'
  BY <1>1, <1>2, CallsStep DEF StoreInv, WindowInv, TakeWanted
<1>7. BoundInv' /\ AloneInv'
  BY <1>1, <1>2, CallsStep, OutsideStep DEF TakeWanted
<1> QED
  BY <1>3, <1>4, <1>5, <1>6, <1>7 DEF StoreInv

LEMMA TakeOtherInv ==
  ASSUME StoreInv, NEW t \in Running, TakeOther(t)
  PROVE  StoreInv'
<1>1. Head(queue) \in Contents /\ Head(queue) # Dead
  BY Distinct DEF StoreInv, TypeOK, TakeOther
<1>5. queue' \in Seq(Contents) /\ Len(queue') <= Capacity
  BY DEF StoreInv, TypeOK, TakeOther
<1>6. mem' \in [Buffers -> Contents \cup {Dead}]
  BY <1>1 DEF StoreInv, TypeOK, TakeOther
<1>2. TypeOK'
  BY <1>5, <1>6 DEF StoreInv, TypeOK, TakeOther
<1>3. BufferInv'
  <2>1. \A b \in Buffers : mem[b] # Dead => mem'[b] # Dead
    BY <1>1 DEF StoreInv, TypeOK, TakeOther
  <2>2. \A u \in Running : at[u] \in {"enter", "key", "data", "step", "publish"} =>
          <<u, fn[u]>> \in Buffers
    BY UsesFacts, BufferFacts DEF StoreInv, CallInv
  <2> QED
    BY <2>1, <2>2 DEF StoreInv, BufferInv, TakeOther
<1>4. CallInv' /\ WindowInv' /\ BoundInv' /\ AloneInv'
  BY DEF StoreInv, TakeOther, CallInv, WindowInv, BoundInv, AloneInv, Inside
<1> QED
  BY <1>2, <1>3, <1>4 DEF StoreInv

LEMMA TakeScoredInv ==
  ASSUME StoreInv, NEW t \in Running, TakeScored(t)
  PROVE  StoreInv'
<1> DEFINE c == [n |-> 0, kind |-> "alert"]
<1>1. c \in Contents /\ "insert_alert" \in Uses(t)
  BY UsesFacts DEF TakeScored, Contents, Kinds
<1>2. at[t] = "loop" /\ Calls(t, "insert_alert", c) /\ t = "ai_engine"
  BY DEF TakeScored
<1>3. seen' \in 0 .. Window
  BY <1>2 DEF StoreInv, TypeOK, WindowInv, TakeScored
<1>9. queue' \in Seq(Contents) /\ Len(queue') <= Capacity
  BY DEF StoreInv, TypeOK, TakeScored
<1> HIDE DEF c
<1>10. /\ at' \in [Running -> {"loop", "loopEnd", "enter", "key", "data", "step",
                                "publish", "ended"}]
       /\ fn' \in [Running -> Functions \cup {"none"}]
       /\ mem' \in [Buffers -> Contents \cup {Dead}]
  BY <1>1, <1>2, CallsStep
<1>4. TypeOK'
  BY <1>3, <1>9, <1>10 DEF StoreInv, TypeOK, TakeScored
<1>5. CallInv'
  BY <1>1, <1>2, CallsStep, Distinct DEF StoreInv, CallInv, TakeScored, Functions
<1>6. BufferInv'
  BY <1>1, <1>2, CallsStep
<1>7. WindowInv'
  BY <1>1, <1>2, CallsStep DEF StoreInv, WindowInv, TakeScored
<1>8. BoundInv' /\ AloneInv'
  BY <1>1, <1>2, CallsStep, OutsideStep DEF TakeScored
<1> QED
  BY <1>4, <1>5, <1>6, <1>7, <1>8 DEF StoreInv

LEMMA RetrainInv ==
  ASSUME StoreInv, NEW t \in Running, Retrain(t)
  PROVE  StoreInv'
<1> DEFINE c == [n |-> 0, kind |-> "model"]
<1>1. c \in Contents /\ "store_model" \in Uses(t)
  BY UsesFacts DEF Retrain, Contents, Kinds
<1>2. at[t] = "loopEnd" /\ Calls(t, "store_model", c) /\ t = "ai_engine"
  BY DEF Retrain
<1> HIDE DEF c
<1>3. TypeOK'
  BY <1>1, <1>2, CallsStep DEF StoreInv, TypeOK, Retrain
<1>4. CallInv'
  BY <1>1, <1>2, CallsStep, Distinct DEF StoreInv, CallInv, Retrain, Functions
<1>5. BufferInv'
  BY <1>1, <1>2, CallsStep
<1>6. WindowInv'
  BY <1>1, <1>2, CallsStep DEF StoreInv, WindowInv, Retrain
<1>7. BoundInv' /\ AloneInv'
  BY <1>1, <1>2, CallsStep, OutsideStep DEF Retrain
<1> QED
  BY <1>3, <1>4, <1>5, <1>6, <1>7 DEF StoreInv

LEMMA NoRetrainInv ==
  ASSUME StoreInv, NEW t \in Running, NoRetrain(t)
  PROVE  StoreInv'
<1>1. TypeOK'
  BY DEF StoreInv, TypeOK, NoRetrain
<1>2. CallInv' /\ BufferInv' /\ WindowInv'
  BY DEF StoreInv, TypeOK, NoRetrain, CallInv, BufferInv, WindowInv
<1>3. BoundInv' /\ AloneInv'
  <2>1. \A u \in Running \ {t} : at'[u] = at[u] /\ fn'[u] = fn[u]
    BY DEF StoreInv, TypeOK, NoRetrain
  <2>2. at[t] = "loopEnd" /\ at'[t] = "loop"
    BY DEF StoreInv, TypeOK, NoRetrain
  <2> QED
    BY <2>1, <2>2, OutsideStep DEF NoRetrain
<1> QED
  BY <1>1, <1>2, <1>3 DEF StoreInv

LEMMA ReadLineInv ==
  ASSUME StoreInv, NEW t \in Running, ReadLine(t)
  PROVE  StoreInv'
<1> DEFINE c == NewItem("line")
<1>1. c \in Contents /\ "insert_event" \in Uses(t)
  BY UsesFacts DEF StoreInv, TypeOK, ReadLine, NewItem, Contents, Kinds
<1>2. at[t] = "loop" /\ Calls(t, "insert_event", c)
  BY DEF ReadLine
<1>3. items' \in 0 .. MaxItems
  BY DEF StoreInv, TypeOK, ReadLine
<1> HIDE DEF c
<1>4. TypeOK'
  BY <1>1, <1>2, <1>3, CallsStep DEF StoreInv, TypeOK, ReadLine
<1>5. CallInv'
  BY <1>1, <1>2, CallsStep, Distinct DEF StoreInv, CallInv, ReadLine, Functions
<1>6. BufferInv'
  BY <1>1, <1>2, CallsStep
<1>7. WindowInv'
  BY <1>1, <1>2, CallsStep DEF StoreInv, WindowInv, ReadLine
<1>8. BoundInv' /\ AloneInv'
  BY <1>1, <1>2, CallsStep, OutsideStep DEF ReadLine
<1> QED
  BY <1>4, <1>5, <1>6, <1>7, <1>8 DEF StoreInv

LEMMA HashFileInv ==
  ASSUME StoreInv, NEW t \in Running, HashFile(t)
  PROVE  StoreInv'
<1> DEFINE c == NewItem("file")
<1>1. c \in Contents /\ "update_file_entry" \in Uses(t)
  BY UsesFacts DEF StoreInv, TypeOK, HashFile, NewItem, Contents, Kinds
<1>2. at[t] = "loop" /\ Calls(t, "update_file_entry", c)
  BY DEF HashFile
<1>3. items' \in 0 .. MaxItems
  BY DEF StoreInv, TypeOK, HashFile
<1> HIDE DEF c
<1>4. TypeOK'
  BY <1>1, <1>2, <1>3, CallsStep DEF StoreInv, TypeOK, HashFile
<1>5. CallInv'
  BY <1>1, <1>2, CallsStep, Distinct DEF StoreInv, CallInv, HashFile, Functions
<1>6. BufferInv'
  BY <1>1, <1>2, CallsStep
<1>7. WindowInv'
  BY <1>1, <1>2, CallsStep DEF StoreInv, WindowInv, HashFile
<1>8. BoundInv' /\ AloneInv'
  BY <1>1, <1>2, CallsStep, OutsideStep DEF HashFile
<1> QED
  BY <1>4, <1>5, <1>6, <1>7, <1>8 DEF StoreInv

LEMMA PublishFileInv ==
  ASSUME StoreInv, NEW t \in Running, PublishFile(t)
  PROVE  StoreInv'
<1> DEFINE b == <<t, "update_file_entry">>
<1>1. fn[t] = "update_file_entry" /\ b \in Buffers /\ mem[b] \in Contents
  <2>1. fn[t] = "update_file_entry"
    BY DEF StoreInv, CallInv, PublishFile
  <2>2. b \in Buffers
    BY <2>1, UsesFacts, BufferFacts DEF StoreInv, CallInv, Functions
  <2>3. mem[b] # Dead
    BY <2>1 DEF StoreInv, BufferInv, PublishFile
  <2> QED
    BY <2>1, <2>2, <2>3 DEF StoreInv, TypeOK
<1>2. /\ at[t] = "publish" /\ at'[t] = "loop" /\ fn' = fn
      /\ \A u \in Running \ {t} : at'[u] = at[u]
      /\ \A d \in Buffers : d # b => mem'[d] = mem[d]
  BY DEF StoreInv, TypeOK, PublishFile
<1>3. queue' \in Seq(Contents) /\ Len(queue') <= Capacity
  BY <1>1 DEF StoreInv, TypeOK, PublishFile, Published
<1>4. TypeOK'
  BY <1>3 DEF StoreInv, TypeOK, PublishFile
<1>5. CallInv'
  BY <1>2 DEF StoreInv, CallInv, PublishFile
<1>6. BufferInv'
  <2>1. \A u \in Running : at[u] \in {"enter", "key", "data", "step", "publish"} =>
          <<u, fn[u]>> \in Buffers
    BY UsesFacts, BufferFacts DEF StoreInv, CallInv
  <2> QED
    BY <1>2, <2>1 DEF StoreInv, BufferInv
<1>7. WindowInv'
  BY <1>1, <1>2, UsesFacts DEF StoreInv, CallInv, WindowInv, PublishFile
<1>8. BoundInv' /\ AloneInv'
  BY <1>2, OutsideStep DEF PublishFile
<1> QED
  BY <1>4, <1>5, <1>6, <1>7, <1>8 DEF StoreInv

LEMMA EndThreadInv ==
  ASSUME StoreInv, NEW t \in Running, EndThread(t)
  PROVE  StoreInv'
<1>1. /\ at[t] = "loop" /\ at'[t] = "ended" /\ fn' = fn
      /\ \A u \in Running \ {t} : at'[u] = at[u]
  BY DEF StoreInv, TypeOK, EndThread
<1>2. TypeOK'
  BY DEF StoreInv, TypeOK, EndThread
<1>3. CallInv' /\ WindowInv'
  BY <1>1 DEF StoreInv, CallInv, WindowInv, EndThread
<1>4. BufferInv'
  <2>1. \A u \in Running : at[u] \in {"enter", "key", "data", "step", "publish"} =>
          <<u, fn[u]>> \in Buffers
    BY UsesFacts, BufferFacts DEF StoreInv, CallInv
  <2> QED
    BY <1>1, <2>1 DEF StoreInv, BufferInv, EndThread
<1>5. BoundInv' /\ AloneInv'
  BY <1>1, OutsideStep DEF EndThread
<1> QED
  BY <1>2, <1>3, <1>4, <1>5 DEF StoreInv

-----------------------------------------------------------------------------
(* The calls themselves (db.c:66-138) *)

\* What every step inside a call knows of its thread.
LEMMA InCall ==
  ASSUME StoreInv, NEW t \in Running, at[t] \in {"enter", "key", "data", "step"}
  PROVE  /\ fn[t] \in Functions /\ fn[t] \in Uses(t)
         /\ <<t, fn[t]>> \in Buffers
         /\ mem[<<t, fn[t]>>] \in Contents
  BY UsesFacts, BufferFacts DEF StoreInv, TypeOK, CallInv, BufferInv

LEMMA ResetInv ==
  ASSUME StoreInv, NEW t \in Running, Reset(t)
  PROVE  StoreInv'
<1>1. fn[t] \in Functions /\ at[t] = "enter" /\ at'[t] = "key" /\ fn' = fn
  BY InCall DEF StoreInv, TypeOK, Reset
<1>2. \A u \in Running \ {t} : at'[u] = at[u]
  BY DEF StoreInv, TypeOK, Reset
<1>3. TypeOK'
  <2>1. \A u \in Running : alone'[u] \in BOOLEAN
    BY DEF StoreInv, TypeOK, Reset
  <2>2. alone' \in [Running -> BOOLEAN]
    BY <2>1 DEF Reset
  <2> QED
    BY <1>1, <2>2 DEF StoreInv, TypeOK, Reset
<1>4. CallInv' /\ BufferInv' /\ WindowInv'
  BY <1>1, <1>2 DEF StoreInv, CallInv, BufferInv, WindowInv, Reset
<1>5. BoundInv'
  BY <1>1, <1>2 DEF StoreInv, TypeOK, BoundInv, Reset
<1>6. AloneInv'
  <2> SUFFICES ASSUME NEW u \in Running, alone'[u], u \in Inside(fn[u])'
               PROVE  /\ Inside(fn[u])' = {u}
                      /\ phase'[fn[u]] = "ready"
                      /\ at'[u] \in {"data", "step"} => bound'[fn[u]].key = u
                      /\ at'[u] = "step" => bound'[fn[u]].data = u
    BY <1>1 DEF AloneInv
  <2>1. CASE u = t
    <3>1. Inside(fn[t]) = {}
      BY <2>1 DEF Reset
    <3>2. Inside(fn[t])' = {t}
      BY <3>1, <1>1, <1>2 DEF Inside
    <3> QED
      BY <2>1, <3>2, <1>1 DEF StoreInv, TypeOK, Reset
  <2>2. CASE u # t
    <3>1. alone[u] /\ u \notin Inside(fn[t])
      BY <2>2 DEF Reset
    <3>2. u \in Inside(fn[u]) /\ fn[u] # fn[t]
      BY <2>2, <3>1, <1>1, <1>2 DEF Inside
    <3>3. Inside(fn[u])' = Inside(fn[u])
      BY <3>2, <1>1, <1>2 DEF Inside
    <3>4. fn[u] \in Functions
      BY <3>2, InCall DEF Inside
    <3> QED
      BY <2>2, <3>1, <3>2, <3>3, <3>4, <1>2 DEF StoreInv, TypeOK, AloneInv, Reset
  <2> QED
    BY <2>1, <2>2
<1> QED
  BY <1>3, <1>4, <1>5, <1>6 DEF StoreInv

LEMMA BindKeyInv ==
  ASSUME StoreInv, NEW t \in Running, BindKey(t)
  PROVE  StoreInv'
<1> DEFINE f == fn[t]
<1>1. /\ f \in Functions /\ at[t] = "key" /\ at'[t] = "data" /\ fn' = fn
      /\ \A u \in Running \ {t} : at'[u] = at[u]
  BY InCall DEF StoreInv, TypeOK, BindKey
<1>2. /\ bound' \in [Functions -> [key : Running \cup {Unbound}, data : Running \cup {Unbound}]]
      /\ \A g \in Functions \ {f} : bound'[g] = bound[g]
      /\ bound'[f].key = IF phase[f] = "ready" THEN t ELSE bound[f].key
      /\ bound'[f].data = bound[f].data
  <2>1. bound[f] \in [key : Running \cup {Unbound}, data : Running \cup {Unbound}]
    BY <1>1 DEF StoreInv, TypeOK
  <2>2. CASE phase[f] = "ready"
    <3> DEFINE new == [bound[f] EXCEPT !.key = t]
    <3>1. /\ new \in [key : Running \cup {Unbound}, data : Running \cup {Unbound}]
          /\ new.key = t /\ new.data = bound[f].data
      BY <2>1
    <3>2. bound' = [bound EXCEPT ![f] = new]
      BY <2>2 DEF BindKey
    <3> HIDE DEF new
    <3>3. bound'[f] = new
      BY <1>1, <3>2 DEF StoreInv, TypeOK
    <3> QED
      BY <1>1, <2>2, <3>1, <3>2, <3>3 DEF StoreInv, TypeOK
  <2>3. CASE phase[f] # "ready"
    BY <1>1, <2>3 DEF StoreInv, TypeOK, BindKey
  <2> QED
    BY <2>2, <2>3
<1>3. bound'[f].key # Unbound
  BY <1>1, <1>2, Distinct DEF StoreInv, TypeOK, BoundInv
<1>4. TypeOK'
  BY <1>2 DEF StoreInv, TypeOK, BindKey
<1>5. CallInv'
  <2>1. f \in Uses(t)
    BY <1>1, InCall
  <2>2. \A g \in Functions : {bound'[g].key, bound'[g].data} \subseteq Callers(g) \cup {Unbound}
    BY <1>2, <2>1 DEF StoreInv, CallInv, Callers
  <2> QED
    BY <1>1, <2>2 DEF StoreInv, CallInv, BindKey, Callers
<1>6. BufferInv' /\ WindowInv'
  BY <1>1 DEF StoreInv, BufferInv, WindowInv, BindKey
<1>7. BoundInv'
  BY <1>1, <1>2, <1>3 DEF StoreInv, BoundInv, BindKey
<1>8. AloneInv'
  <2>1. \A g \in Functions : Inside(g)' = Inside(g)
    BY <1>1 DEF Inside
  <2>2. SUFFICES ASSUME NEW u \in Running, alone[u], u \in Inside(fn[u])'
                 PROVE  /\ Inside(fn[u])' = {u}
                        /\ phase[fn[u]] = "ready"
                        /\ at'[u] \in {"data", "step"} => bound'[fn[u]].key = u
                        /\ at'[u] = "step" => bound'[fn[u]].data = u
    BY <1>1 DEF AloneInv, BindKey
  <2>7. u \in Inside(fn[u]) /\ t \in Inside(f)
    BY <1>1, <2>2 DEF Inside
  <2>8. fn[u] \in Functions
    BY <2>7, InCall DEF Inside
  <2>3. fn[u] \in Functions /\ u \in Inside(fn[u]) /\ t \in Inside(f)
    BY <2>7, <2>8
  <2>9. Inside(fn[u]) = {u} /\ phase[fn[u]] = "ready"
    BY <2>2, <2>3 DEF StoreInv, AloneInv
  <2>4. Inside(fn[u])' = {u} /\ phase[fn[u]] = "ready"
    BY <1>1, <2>1, <2>3, <2>9
  <2>5. CASE u = t
    BY <2>2, <2>3, <2>4, <2>5, <1>1, <1>2 DEF StoreInv, AloneInv
  <2>6. CASE u # t
    <3>1. fn[u] # f
      BY <2>3, <2>6, <2>9
    <3>2. bound'[fn[u]] = bound[fn[u]] /\ at'[u] = at[u]
      BY <1>1, <1>2, <2>3, <2>6, <3>1
    <3> QED
      BY <2>2, <2>3, <2>4, <3>2 DEF StoreInv, AloneInv
  <2> QED
    BY <2>5, <2>6
<1> QED
  BY <1>4, <1>5, <1>6, <1>7, <1>8 DEF StoreInv

LEMMA BindDataInv ==
  ASSUME StoreInv, NEW t \in Running, BindData(t)
  PROVE  StoreInv'
<1> DEFINE f == fn[t]
<1>1. /\ f \in Functions /\ at[t] = "data" /\ at'[t] = "step" /\ fn' = fn
      /\ \A u \in Running \ {t} : at'[u] = at[u]
  BY InCall DEF StoreInv, TypeOK, BindData
<1>2. /\ bound' \in [Functions -> [key : Running \cup {Unbound}, data : Running \cup {Unbound}]]
      /\ \A g \in Functions \ {f} : bound'[g] = bound[g]
      /\ bound'[f].data = IF phase[f] = "ready" THEN t ELSE bound[f].data
      /\ bound'[f].key = bound[f].key
  <2>1. bound[f] \in [key : Running \cup {Unbound}, data : Running \cup {Unbound}]
    BY <1>1 DEF StoreInv, TypeOK
  <2>2. CASE phase[f] = "ready"
    <3> DEFINE new == [bound[f] EXCEPT !.data = t]
    <3>1. /\ new \in [key : Running \cup {Unbound}, data : Running \cup {Unbound}]
          /\ new.data = t /\ new.key = bound[f].key
      BY <2>1
    <3>2. bound' = [bound EXCEPT ![f] = new]
      BY <2>2 DEF BindData
    <3> HIDE DEF new
    <3>3. bound'[f] = new
      BY <1>1, <3>2 DEF StoreInv, TypeOK
    <3> QED
      BY <1>1, <2>2, <3>1, <3>2, <3>3 DEF StoreInv, TypeOK
  <2>3. CASE phase[f] # "ready"
    BY <1>1, <2>3 DEF StoreInv, TypeOK, BindData
  <2> QED
    BY <2>2, <2>3
<1>3. bound'[f].data # Unbound
  BY <1>1, <1>2, Distinct DEF StoreInv, TypeOK, BoundInv
<1>4. TypeOK'
  BY <1>2 DEF StoreInv, TypeOK, BindData
<1>5. CallInv'
  <2>1. f \in Uses(t)
    BY <1>1, InCall
  <2>2. \A g \in Functions : {bound'[g].key, bound'[g].data} \subseteq Callers(g) \cup {Unbound}
    BY <1>2, <2>1 DEF StoreInv, CallInv, Callers
  <2> QED
    BY <1>1, <2>2 DEF StoreInv, CallInv, BindData, Callers
<1>6. BufferInv' /\ WindowInv'
  BY <1>1 DEF StoreInv, BufferInv, WindowInv, BindData
<1>7. BoundInv'
  BY <1>1, <1>2, <1>3 DEF StoreInv, BoundInv, BindData
<1>8. AloneInv'
  <2>1. \A g \in Functions : Inside(g)' = Inside(g)
    BY <1>1 DEF Inside
  <2>2. SUFFICES ASSUME NEW u \in Running, alone[u], u \in Inside(fn[u])'
                 PROVE  /\ Inside(fn[u])' = {u}
                        /\ phase[fn[u]] = "ready"
                        /\ at'[u] \in {"data", "step"} => bound'[fn[u]].key = u
                        /\ at'[u] = "step" => bound'[fn[u]].data = u
    BY <1>1 DEF AloneInv, BindData
  <2>7. u \in Inside(fn[u]) /\ t \in Inside(f)
    BY <1>1, <2>2 DEF Inside
  <2>8. fn[u] \in Functions
    BY <2>7, InCall DEF Inside
  <2>3. fn[u] \in Functions /\ u \in Inside(fn[u]) /\ t \in Inside(f)
    BY <2>7, <2>8
  <2>9. Inside(fn[u]) = {u} /\ phase[fn[u]] = "ready"
    BY <2>2, <2>3 DEF StoreInv, AloneInv
  <2>4. Inside(fn[u])' = {u} /\ phase[fn[u]] = "ready"
    BY <1>1, <2>1, <2>3, <2>9
  <2>5. CASE u = t
    BY <2>2, <2>3, <2>4, <2>5, <1>1, <1>2 DEF StoreInv, AloneInv
  <2>6. CASE u # t
    <3>1. fn[u] # f
      BY <2>3, <2>6, <2>9
    <3>2. bound'[fn[u]] = bound[fn[u]] /\ at'[u] = at[u]
      BY <1>1, <1>2, <2>3, <2>6, <3>1
    <3> QED
      BY <2>2, <2>3, <2>4, <3>2 DEF StoreInv, AloneInv
  <2> QED
    BY <2>5, <2>6
<1> QED
  BY <1>4, <1>5, <1>6, <1>7, <1>8 DEF StoreInv

\* What a step of the statement does, whether it stores a row or fails.
LEMMA Stepped ==
  ASSUME StoreInv, NEW t \in Running, at[t] = "step", Return(t),
         phase' = [phase EXCEPT ![fn[t]] = "halted"],
         rows' \in [Functions -> Seq([key  : Running \cup {Unbound},
                                      data : Contents \cup {Dead, Null}])],
         owed' \in SUBSET Contents,
         UNCHANGED <<queue, fn, bound, items, alone>>
  PROVE  StoreInv'
<1> DEFINE f == fn[t]
<1>1. f \in Functions /\ f \in Uses(t)
  BY InCall
<1>2. /\ at'[t] = After(f) /\ After(f) \in {"loop", "loopEnd", "publish"}
      /\ \A u \in Running \ {t} : at'[u] = at[u]
  BY DEF StoreInv, TypeOK, Return, After
<1>3. TypeOK'
  <2>1. at' \in [Running -> {"loop", "loopEnd", "enter", "key", "data", "step",
                             "publish", "ended"}]
    BY <1>2 DEF StoreInv, TypeOK, Return
  <2>2. seen' \in 0 .. Window
    BY DEF StoreInv, TypeOK, Return
  <2>4. mem' \in [Buffers -> Contents \cup {Dead}]
    BY DEF StoreInv, TypeOK, Return
  <2>3. phase' \in [Functions -> {"ready", "halted"}]
    BY DEF StoreInv, TypeOK
  <2> QED
    BY <2>1, <2>2, <2>3, <2>4 DEF StoreInv, TypeOK
<1>4. CallInv'
  <2>1. After(f) = "publish" => f = "update_file_entry"
    BY DEF After
  <2>2. After(f) = "loopEnd" => t = "ai_engine"
    BY <1>1 DEF After, Uses
  <2> QED
    BY <1>1, <1>2, <2>1, <2>2 DEF StoreInv, CallInv
<1>5. BufferInv'
  <2> SUFFICES ASSUME NEW u \in Running,
                      at'[u] \in {"enter", "key", "data", "step", "publish"}
               PROVE  mem'[<<u, fn[u]>>] # Dead
    BY DEF BufferInv
  <2>1. CASE u = t
    <3>1. f # "store_model"
      BY <2>1, <1>2 DEF After
    <3> QED
      BY <2>1, <3>1 DEF StoreInv, BufferInv, Return
  <2>2. CASE u # t
    <3>1. <<u, fn[u]>> \in Buffers /\ mem[<<u, fn[u]>>] # Dead
      BY <2>2, <1>2, UsesFacts, BufferFacts DEF StoreInv, CallInv, BufferInv
    <3> QED
      BY <2>2, <3>1 DEF StoreInv, TypeOK, Return
  <2> QED
    BY <2>1, <2>2
<1>6. WindowInv'
  <2> SUFFICES ASSUME NEW u \in Running, u = "ai_engine", at'[u] \in {"loop", "ended"}
               PROVE  seen' < Window
    BY DEF WindowInv
  <2>1. CASE u = t
    <3>1. f = "store_model"
      BY <2>1, <1>1, <1>2, UsesFacts DEF After
    <3> QED
      BY <3>1 DEF Return
  <2>2. CASE u # t
    BY <2>2, <1>2 DEF StoreInv, TypeOK, WindowInv, Return
  <2> QED
    BY <2>1, <2>2
<1>7. BoundInv'
  BY <1>1, <1>2 DEF StoreInv, TypeOK, BoundInv
<1>8. AloneInv'
  <2> SUFFICES ASSUME NEW u \in Running, alone[u], u \in Inside(fn[u])'
               PROVE  /\ Inside(fn[u])' = {u}
                      /\ phase'[fn[u]] = "ready"
                      /\ at'[u] \in {"data", "step"} => bound[fn[u]].key = u
                      /\ at'[u] = "step" => bound[fn[u]].data = u
    BY DEF AloneInv
  <2>1. u # t /\ u \in Inside(fn[u]) /\ t \in Inside(f) /\ fn[u] \in Functions
    BY <1>2, InCall DEF Inside
  <2>4. Inside(fn[u]) = {u}
    BY <2>1 DEF StoreInv, AloneInv
  <2>2. Inside(fn[u]) = {u} /\ fn[u] # f
    BY <2>1, <2>4
  <2>3. Inside(fn[u])' = Inside(fn[u])
    BY <1>2, <2>2 DEF Inside
  <2> QED
    BY <2>1, <2>2, <2>3, <1>2 DEF StoreInv, TypeOK, AloneInv
<1> QED
  BY <1>3, <1>4, <1>5, <1>6, <1>7, <1>8 DEF StoreInv

\* The row that a step stores is complete, whoever bound its arguments.
LEMMA RowComplete ==
  ASSUME StoreInv, NEW t \in Running, at[t] = "step"
  PROVE  /\ Row(fn[t]).key \in Running
         /\ Row(fn[t]).data \in Contents \cup {Dead}
<1> DEFINE f == fn[t]
<1>1. f \in Functions /\ bound[f].key # Unbound /\ bound[f].data # Unbound
  BY InCall DEF StoreInv, BoundInv
<1>2. bound[f].data \in Callers(f)
  BY <1>1 DEF StoreInv, CallInv
<1>3. <<bound[f].data, f>> \in Buffers
  BY <1>1, <1>2, BufferFacts DEF Callers
<1> QED
  BY <1>1, <1>3 DEF StoreInv, TypeOK, Row

LEMMA StoreStepInv ==
  ASSUME StoreInv, NEW t \in Running, Store(t)
  PROVE  StoreInv'
<1>1. fn[t] \in Functions /\ at[t] = "step"
  BY InCall DEF Store
<1>2. Row(fn[t]) \in [key : Running \cup {Unbound}, data : Contents \cup {Dead, Null}]
  BY <1>1, RowComplete DEF Row
<1>3. rows' \in [Functions -> Seq([key  : Running \cup {Unbound},
                                   data : Contents \cup {Dead, Null}])]
  <2> DEFINE Rows == [key : Running \cup {Unbound}, data : Contents \cup {Dead, Null}]
  <2>1. rows \in [Functions -> Seq(Rows)] /\ Row(fn[t]) \in Rows
    BY <1>2 DEF StoreInv, TypeOK
  <2>2. rows' = [rows EXCEPT ![fn[t]] = Append(rows[fn[t]], Row(fn[t]))]
    BY DEF Store
  <2> HIDE DEF Rows
  <2>3. Append(rows[fn[t]], Row(fn[t])) \in Seq(Rows)
    BY <1>1, <2>1
  <2>4. rows' \in [Functions -> Seq(Rows)]
    BY <1>1, <2>1, <2>2, <2>3
  <2> QED
    BY <2>4 DEF Rows
<1> QED
  BY <1>1, <1>3, Stepped DEF Store, StoreInv, TypeOK

LEMMA StepFailsInv ==
  ASSUME StoreInv, NEW t \in Running, StepFails(t)
  PROVE  StoreInv'
<1>1. owed' \in SUBSET Contents /\ at[t] = "step"
  BY DEF StoreInv, TypeOK, StepFails
<1>2. rows' \in [Functions -> Seq([key  : Running \cup {Unbound},
                                   data : Contents \cup {Dead, Null}])]
  BY DEF StoreInv, TypeOK, StepFails
<1> QED
  BY <1>1, <1>2, Stepped DEF StepFails

-----------------------------------------------------------------------------

LEMMA StepInv == StoreInv /\ [Next]_vars => StoreInv'
<1> SUFFICES ASSUME StoreInv, [Next]_vars PROVE StoreInv'
  OBVIOUS
<1>1. CASE \E kind \in EbpfKinds : PublishEbpf(kind)
  BY <1>1, PublishEbpfInv
<1>2. ASSUME NEW t \in Running,
             \/ TakeWanted(t) \/ TakeOther(t) \/ TakeScored(t) \/ Retrain(t) \/ NoRetrain(t)
             \/ ReadLine(t) \/ HashFile(t) \/ PublishFile(t) \/ EndThread(t)
             \/ Reset(t) \/ BindKey(t) \/ BindData(t) \/ Store(t) \/ StepFails(t)
      PROVE  StoreInv'
  BY <1>2, TakeWantedInv, TakeOtherInv, TakeScoredInv, RetrainInv, NoRetrainInv, ReadLineInv,
     HashFileInv, PublishFileInv, EndThreadInv, ResetInv, BindKeyInv, BindDataInv,
     StoreStepInv, StepFailsInv
<1>3. CASE UNCHANGED vars
  <2>1. TypeOK' /\ CallInv' /\ BufferInv'
    BY <1>3 DEF vars, StoreInv, TypeOK, CallInv, BufferInv
  <2>2. WindowInv' /\ BoundInv' /\ AloneInv'
    BY <1>3 DEF vars, StoreInv, WindowInv, BoundInv, AloneInv, Inside
  <2> QED
    BY <2>1, <2>2 DEF StoreInv
<1> QED
  BY <1>1, <1>2, <1>3 DEF Next

\* Whatever the interleaving of their callers, the statements of db.c keep the
\* inductive invariant.
THEOREM StoreInvariance == Spec => []StoreInv
<1> QED
  BY InitInv, StepInv, PTL DEF Spec

\* Calls that race for a statement mix their arguments, and yet no row lacks
\* one: a call binds both before it steps, and a bind that SQLite refuses finds
\* a statement that somebody else has bound.
THEOREM RowsAreComplete == Spec => []NoHalfRow
<1>1. Init => NoHalfRow
  BY DEF Init, NoHalfRow
<1>2. ASSUME StoreInv, NoHalfRow, [Next]_vars
      PROVE  NoHalfRow'
  <2>1. CASE rows' = rows
    BY <1>2, <2>1 DEF NoHalfRow
  <2>2. ASSUME NEW t \in Running, Store(t)
        PROVE  NoHalfRow'
    <3>1. fn[t] \in Functions /\ rows[fn[t]] \in Seq([key  : Running \cup {Unbound},
                                                     data : Contents \cup {Dead, Null}])
      BY <1>2, <2>2, InCall DEF Store, StoreInv, TypeOK
    <3>2. Row(fn[t]).key # Unbound /\ Row(fn[t]).data # Null
      BY <1>2, <2>2, RowComplete, Distinct DEF Store
    <3>3. /\ rows'[fn[t]] = Append(rows[fn[t]], Row(fn[t]))
          /\ \A g \in Functions \ {fn[t]} : rows'[g] = rows[g]
      BY <1>2, <2>2, <3>1 DEF Store, StoreInv, TypeOK
    <3> SUFFICES ASSUME NEW g \in Functions, NEW i \in DOMAIN rows'[g]
                 PROVE  rows'[g][i].key # Unbound /\ rows'[g][i].data # Null
      BY DEF NoHalfRow
    <3>4. CASE g = fn[t] /\ i = Len(rows[g]) + 1
      BY <3>1, <3>2, <3>3, <3>4
    <3>5. CASE g = fn[t] /\ i # Len(rows[g]) + 1
      <4>1. i \in DOMAIN rows[g] /\ rows'[g][i] = rows[g][i]
        BY <3>1, <3>3, <3>5
      <4> QED
        BY <4>1, <1>2 DEF NoHalfRow
    <3>6. CASE g # fn[t]
      BY <3>3, <3>6, <1>2 DEF NoHalfRow
    <3> QED
      BY <3>4, <3>5, <3>6
  <2> QED
    BY <1>2, <2>1, <2>2
       DEF Next, vars, PublishEbpf, TakeWanted, TakeOther, TakeScored, Retrain, NoRetrain,
           ReadLine, HashFile, PublishFile, EndThread, Reset, BindKey, BindData, StepFails
<1> QED
  BY <1>1, <1>2, StoreInvariance, PTL DEF Spec

\* A call that nobody overlaps stores exactly its own row, whatever was left of
\* the races and failures before it.
THEOREM UndisturbedCallsAreExact == Spec => UndisturbedCallExact
<1>1. ASSUME StoreInv, NEW t \in Running, Store(t), alone[t]
      PROVE  LET f == fn[t] IN
               /\ rows' = [rows EXCEPT ![f] = Append(@, [key |-> t, data |-> mem[<<t, f>>]])]
               /\ mem[<<t, f>>] # Dead
  <2>1. fn[t] \in Functions /\ at[t] = "step" /\ mem[<<t, fn[t]>>] \in Contents
    BY <1>1, InCall DEF Store
  <2>2. t \in Inside(fn[t])
    BY <2>1 DEF Inside
  <2>3. bound[fn[t]].key = t /\ bound[fn[t]].data = t
    BY <1>1, <2>1, <2>2 DEF StoreInv, AloneInv
  <2>4. Row(fn[t]) = [key |-> t, data |-> mem[<<t, fn[t]>>]]
    BY <2>3, Distinct DEF Row
  <2> QED
    BY <1>1, <2>1, <2>4, Distinct DEF Store
<1> DEFINE Exact == \A t \in Running : Store(t) /\ alone[t] =>
                      LET f == fn[t] IN
                        /\ rows' = [rows EXCEPT ![f] =
                                       Append(@, [key |-> t, data |-> mem[<<t, f>>]])]
                        /\ mem[<<t, f>>] # Dead
<1>2. StoreInv => [Exact]_vars
  BY <1>1
<1> QED
  BY <1>2, StoreInvariance, PTL DEF UndisturbedCallExact

-----------------------------------------------------------------------------
(* Threads that have a function, or the bus, for themselves *)

InSql == {"key", "data", "step"}

\* The only caller of a function is never disturbed in it.
SoleInv ==
  \A t \in Running : t \in Inside(fn[t]) /\ Callers(fn[t]) = {t} => alone[t]

\* Of the steps of db.c and of the loops, only the reset enters a statement and
\* only it looks around.
LEMMA EnteredByReset ==
  ASSUME StoreInv, [Next]_vars, \A t \in Running : ~Reset(t)
  PROVE  /\ alone' = alone
         /\ \A u \in Running : at'[u] \in InSql => at[u] \in InSql /\ fn'[u] = fn[u]
<1> USE DEF InSql
<1>1. CASE \E kind \in EbpfKinds : PublishEbpf(kind)
  BY <1>1 DEF PublishEbpf
<1>2. ASSUME NEW t \in Running,
             \/ TakeWanted(t) \/ TakeOther(t) \/ TakeScored(t) \/ Retrain(t) \/ NoRetrain(t)
             \/ ReadLine(t) \/ HashFile(t) \/ PublishFile(t) \/ EndThread(t)
      PROVE  /\ alone' = alone
             /\ \A u \in Running : at'[u] \in InSql => at[u] \in InSql /\ fn'[u] = fn[u]
  BY <1>2 DEF TakeWanted, TakeOther, TakeScored, Retrain, NoRetrain, ReadLine, HashFile,
              PublishFile, EndThread, Calls, StoreInv, TypeOK
<1>3. ASSUME NEW t \in Running, BindKey(t) \/ BindData(t)
      PROVE  /\ alone' = alone
             /\ \A u \in Running : at'[u] \in InSql => at[u] \in InSql /\ fn'[u] = fn[u]
  BY <1>3 DEF BindKey, BindData, StoreInv, TypeOK
<1>4. ASSUME NEW t \in Running, Store(t) \/ StepFails(t)
      PROVE  /\ alone' = alone
             /\ \A u \in Running : at'[u] \in InSql => at[u] \in InSql /\ fn'[u] = fn[u]
  <2>1. at' = [at EXCEPT ![t] = After(fn[t])] /\ After(fn[t]) \notin InSql
    BY <1>4 DEF Store, StepFails, Return, After
  <2>2. alone' = alone /\ fn' = fn
    BY <1>4 DEF Store, StepFails
  <2> QED
    BY <2>1, <2>2 DEF StoreInv, TypeOK
<1>5. CASE UNCHANGED vars
  BY <1>5 DEF vars
<1> QED
  BY <1>1, <1>2, <1>3, <1>4, <1>5 DEF Next

LEMMA SoleStep ==
  ASSUME StoreInv, SoleInv, [Next]_vars
  PROVE  SoleInv'
<1> SUFFICES ASSUME NEW u \in Running, (u \in Inside(fn[u]))', Callers(fn'[u]) = {u}
             PROVE  alone'[u]
  BY DEF SoleInv, Callers
<1>1. at'[u] \in InSql
  BY DEF Inside, InSql
<1>2. ASSUME NEW t \in Running, Reset(t)
      PROVE  alone'[u]
  <2>1. /\ at[t] = "enter" /\ fn' = fn
        /\ alone' = [v \in Running |-> IF v = t THEN Inside(fn[t]) = {}
                                       ELSE alone[v] /\ v \notin Inside(fn[t])]
        /\ \A v \in Running \ {t} : at'[v] = at[v]
    BY <1>2 DEF Reset, StoreInv, TypeOK
  <2>2. \A v \in Running, f \in Functions : v \in Inside(f) => v \in Callers(f) /\ fn[v] = f
    BY UsesFacts DEF Inside, Callers, StoreInv, CallInv
  <2>3. fn[t] \in Functions /\ t \in Callers(fn[t])
    BY <2>1, UsesFacts DEF Callers, StoreInv, CallInv
  <2>4. CASE u = t
    <3>1. Inside(fn[t]) = {}
      BY <2>1, <2>2, <2>3, <2>4 DEF Inside
    <3> QED
      BY <2>1, <2>4, <3>1
  <2>5. CASE u # t
    <3>1. u \in Inside(fn[u])
      BY <1>1, <2>1, <2>5 DEF Inside, InSql
    <3>2. u \notin Inside(fn[t])
      BY <2>1, <2>2, <2>3, <2>5
    <3>3. alone[u]
      BY <2>1, <3>1 DEF SoleInv
    <3> QED
      BY <2>1, <2>5, <3>2, <3>3
  <2> QED
    BY <2>4, <2>5
<1>3. CASE \A t \in Running : ~Reset(t)
  <2>1. alone' = alone /\ at[u] \in InSql /\ fn'[u] = fn[u]
    BY <1>1, <1>3, EnteredByReset
  <2>2. u \in Inside(fn[u])
    BY <2>1 DEF Inside, InSql
  <2> QED
    BY <2>1, <2>2 DEF SoleInv
<1> QED
  BY <1>2, <1>3

LEMMA SoleInvariance == Spec => []SoleInv
<1>1. Init => SoleInv
  BY DEF Init, SoleInv, Inside
<1> QED
  BY <1>1, SoleStep, StoreInvariance, PTL DEF Spec

\* The functions that one thread calls, db_insert_alert, db_store_model and
\* db_update_file_entry in the daemon, store exactly what they are given,
\* whatever the other threads do in between (db.c:66-138).
THEOREM SoleCallersAreExact ==
  Spec => [][\A t \in Running : Store(t) /\ Callers(fn[t]) = {t} =>
               LET f == fn[t] IN
                 /\ rows' = [rows EXCEPT ![f] = Append(@, [key |-> t, data |-> mem[<<t, f>>]])]
                 /\ mem[<<t, f>>] # Dead]_vars
<1> DEFINE Exact(t) == LET f == fn[t] IN
               /\ rows' = [rows EXCEPT ![f] = Append(@, [key |-> t, data |-> mem[<<t, f>>]])]
               /\ mem[<<t, f>>] # Dead
<1>1. ASSUME StoreInv, SoleInv, NEW t \in Running, Store(t), Callers(fn[t]) = {t}
      PROVE  alone[t]
  BY <1>1 DEF Store, Inside, SoleInv
<1>2. StoreInv /\ SoleInv /\ [\A t \in Running : Store(t) /\ alone[t] => Exact(t)]_vars
        => [\A t \in Running : Store(t) /\ Callers(fn[t]) = {t} => Exact(t)]_vars
  BY <1>1
<1> QED
  BY <1>2, StoreInvariance, SoleInvariance, UndisturbedCallsAreExact, PTL
     DEF UndisturbedCallExact

\* Where an event that is owed to the events table is: in the ring, in a call of
\* process_monitor, or in a row.
Holds(q, e) == \E i \in DOMAIN q : q[i] = e
Waiting(e) == Holds(queue, e)
InHand(e) ==
  /\ at["process_monitor"] \in {"enter", "key", "data", "step"}
  /\ mem[<<"process_monitor", "insert_event">>] = e
InRow(e) ==
  \E i \in DOMAIN rows["insert_event"] :
    rows["insert_event"][i] = [key |-> "process_monitor", data |-> e]

KeptInv == \A e \in owed : e.kind \in EbpfKinds /\ (Waiting(e) \/ InHand(e) \/ InRow(e))

\* process_monitor is the only consumer, and the only one to store events.
OneMonitor ==
  Running \cap {"process_monitor", "network_monitor", "user_monitor", "ai_engine"}
    = {"process_monitor"}

LEMMA OneMonitorFacts ==
  ASSUME OneMonitor, StoreInv
  PROVE  /\ "process_monitor" \in Running
         /\ \A t \in Running : t # "process_monitor" =>
              /\ t = "file_integrity" /\ fn[t] # "insert_event"
              /\ at[t] # "loopEnd"
         /\ Callers("insert_event") = {"process_monitor"}
         /\ at["process_monitor"] \notin {"publish", "loopEnd"}
         /\ fn["process_monitor"] \in {"insert_event", "none"}
<1>1. /\ "process_monitor" \in Running
      /\ \A t \in Running : t \in {"process_monitor", "file_integrity"}
  BY DEF OneMonitor, Threads, Monitors
<1>2. Uses("process_monitor") = {"insert_event"} /\ Uses("file_integrity") = {"update_file_entry"}
  BY UsesFacts DEF Monitors
<1>3. Callers("insert_event") = {"process_monitor"}
  BY <1>1, <1>2 DEF Callers
<1>4. /\ fn["process_monitor"] \in {"insert_event", "none"}
      /\ at["process_monitor"] \notin {"publish", "loopEnd"}
  BY <1>1, <1>2 DEF StoreInv, CallInv
<1>5. \A t \in Running : t # "process_monitor" =>
        t = "file_integrity" /\ fn[t] # "insert_event" /\ at[t] # "loopEnd"
  BY <1>1, <1>2 DEF StoreInv, CallInv
<1> QED
  BY <1>1, <1>3, <1>4, <1>5

\* The bus keeps what it holds when something is published, and gives its first
\* event to the one who takes it.
LEMMA QueueFacts ==
  ASSUME StoreInv
  PROVE  /\ \A c, e : Waiting(e) => Holds(Published(c), e)
         /\ \A c : Published(c) # queue => Holds(Published(c), c)
         /\ queue # <<>> => \A e : Waiting(e) => e = Head(queue) \/ Holds(Tail(queue), e)
<1>1. queue \in Seq(Contents)
  BY DEF StoreInv, TypeOK
<1>2. ASSUME NEW c, NEW e, Waiting(e)
      PROVE  Holds(Published(c), e)
  <2>1. PICK i \in 1 .. Len(queue) : queue[i] = e
    BY <1>1, <1>2 DEF Waiting, Holds
  <2>2. i \in DOMAIN Append(queue, c) /\ Append(queue, c)[i] = e
    BY <1>1, <2>1
  <2> QED
    BY <1>1, <1>2, <2>1, <2>2 DEF Published, Holds, Waiting
<1>3. ASSUME NEW c, Published(c) # queue
      PROVE  Holds(Published(c), c)
  <2>1. Published(c) = Append(queue, c)
    BY <1>3 DEF Published
  <2>2. Len(queue) + 1 \in DOMAIN Append(queue, c) /\ Append(queue, c)[Len(queue) + 1] = c
    BY <1>1
  <2> QED
    BY <2>1, <2>2 DEF Holds
<1>4. ASSUME queue # <<>>, NEW e, Waiting(e), e # Head(queue)
      PROVE  Holds(Tail(queue), e)
  <2>1. PICK i \in 1 .. Len(queue) : queue[i] = e
    BY <1>1, <1>4 DEF Waiting, Holds
  <2>2. i # 1 /\ Len(queue) \in Nat
    BY <1>1, <1>4, <2>1
  <2>3. i - 1 \in 1 .. Len(queue) - 1 /\ (i - 1) + 1 = i
    BY <2>1, <2>2
  <2>4. i - 1 \in DOMAIN Tail(queue) /\ Tail(queue)[i - 1] = queue[i]
    BY <1>1, <1>4, <2>3
  <2> QED
    BY <2>1, <2>4 DEF Holds
<1> QED
  BY <1>2, <1>3, <1>4

\* A step that moves nothing the events table is owed.
LEMMA KeptStill ==
  ASSUME KeptInv, owed' = owed,
         \A e \in owed : Waiting(e) => Waiting(e)' \/ InHand(e)',
         \A e \in owed : InHand(e) => InHand(e)',
         rows'["insert_event"] = rows["insert_event"]
  PROVE  KeptInv'
  BY DEF KeptInv, InRow

LEMMA PublishKept ==
  ASSUME StoreInv, KeptInv, NEW kind \in EbpfKinds, PublishEbpf(kind)
  PROVE  KeptInv'
<1> SUFFICES ASSUME NEW e \in owed'
             PROVE  e.kind \in EbpfKinds /\ (Waiting(e)' \/ InHand(e)' \/ InRow(e)')
  BY DEF KeptInv
<1>1. queue' = Published(NewItem(kind)) /\ UNCHANGED <<at, mem, rows>>
  BY DEF PublishEbpf
<1>2. CASE e \in owed
  <2>1. Waiting(e) => Waiting(e)'
    BY <1>1, QueueFacts DEF Waiting
  <2>2. InHand(e)' = InHand(e) /\ InRow(e)' = InRow(e)
    BY <1>1 DEF InHand, InRow
  <2> QED
    BY <1>2, <2>1, <2>2 DEF KeptInv
<1>3. CASE e \notin owed
  <2>1. e = NewItem(kind) /\ queue' # queue
    BY <1>3 DEF PublishEbpf
  <2> QED
    BY <1>1, <2>1, QueueFacts DEF Waiting, NewItem
<1> QED
  BY <1>2, <1>3

LEMMA TakeKept ==
  ASSUME OneMonitor, StoreInv, KeptInv, NEW t \in Running, TakeWanted(t) \/ TakeOther(t)
  PROVE  KeptInv'
<1> DEFINE p == "process_monitor"
<1>1. t = p /\ p \in Running /\ at[p] = "loop" /\ queue # <<>> /\ queue' = Tail(queue)
  BY OneMonitorFacts DEF TakeWanted, TakeOther, Monitors
<1>2. owed' = owed /\ rows' = rows
  BY DEF TakeWanted, TakeOther
<1>3. ASSUME NEW e \in owed, Waiting(e)
      PROVE  Waiting(e)' \/ InHand(e)'
  <2>1. CASE e = Head(queue)
    <3>1. TakeWanted(p)
      BY <1>1, <2>1 DEF KeptInv, TakeOther, Wanted
    <3>2. <<p, "insert_event">> \in Buffers
      BY <1>1, UsesFacts DEF Buffers, Functions, Monitors
    <3> QED
      BY <1>1, <2>1, <3>1, <3>2 DEF TakeWanted, Calls, InHand, StoreInv, TypeOK
  <2>2. CASE e # Head(queue)
    BY <1>1, <1>3, <2>2, QueueFacts DEF Waiting
  <2> QED
    BY <2>1, <2>2
<1>4. \A e \in owed : ~InHand(e)
  BY <1>1 DEF InHand
<1> QED
  BY <1>2, <1>3, <1>4, KeptStill

\* The scanner's steps, and those of process_monitor between the bus and the
\* row, hold on to what they hold.
LEMMA LoopKept ==
  ASSUME OneMonitor, StoreInv, KeptInv, NEW t \in Running,
         HashFile(t) \/ PublishFile(t) \/ EndThread(t) \/ Reset(t) \/ BindKey(t) \/ BindData(t)
  PROVE  KeptInv'
<1> DEFINE p == "process_monitor"
<1>1. p \in Running /\ (t # p => t = "file_integrity") /\ <<p, "insert_event">> \in Buffers
  BY OneMonitorFacts, UsesFacts DEF Buffers, Functions, Monitors
<1>2. owed' = owed /\ rows' = rows
  BY DEF HashFile, PublishFile, EndThread, Reset, BindKey, BindData
<1>3. ASSUME NEW e \in owed, Waiting(e)
      PROVE  Waiting(e)'
  <2>1. queue' = queue \/ \E c : queue' = Published(c)
    BY DEF HashFile, PublishFile, EndThread, Reset, BindKey, BindData
  <2>2. ASSUME NEW c, queue' = Published(c)
        PROVE  Waiting(e)'
    BY <1>3, <2>2, QueueFacts DEF Waiting
  <2> QED
    BY <1>3, <2>1, <2>2 DEF Waiting
<1>4. ASSUME NEW e \in owed, InHand(e)
      PROVE  InHand(e)'
  <2>1. at[p] \in {"enter", "key", "data", "step"} /\ mem[<<p, "insert_event">>] = e
    BY <1>4 DEF InHand
  <2>2. CASE HashFile(t)
    BY <1>1, <2>1, <2>2 DEF HashFile, Calls, InHand, StoreInv, TypeOK
  <2>3. CASE PublishFile(t)
    <3>1. t # p
      BY <2>1, <2>3 DEF PublishFile
    <3> QED
      BY <1>1, <2>1, <2>3, <3>1 DEF PublishFile, InHand, StoreInv, TypeOK
  <2>4. CASE EndThread(t)
    <3>1. t # p
      BY <2>1, <2>4 DEF EndThread
    <3> QED
      BY <1>1, <2>1, <2>4, <3>1 DEF EndThread, InHand, StoreInv, TypeOK
  <2>5. CASE Reset(t) \/ BindKey(t) \/ BindData(t)
    BY <1>1, <2>1, <2>5 DEF Reset, BindKey, BindData, InHand, StoreInv, TypeOK
  <2> QED
    BY <2>2, <2>3, <2>4, <2>5
<1> QED
  BY <1>2, <1>3, <1>4, KeptStill

\* The row that process_monitor stores is the event it holds.
LEMMA StoreKept ==
  ASSUME OneMonitor, StoreInv, SoleInv, KeptInv, NEW t \in Running, Store(t)
  PROVE  KeptInv'
<1> DEFINE p == "process_monitor"
           f == "insert_event"
<1>1. at[t] = "step" /\ fn[t] \in Functions /\ queue' = queue /\ owed' = owed
  BY InCall DEF Store
<1>2. rows[f] \in Seq([key : Running \cup {Unbound}, data : Contents \cup {Dead, Null}])
  BY DEF StoreInv, TypeOK, Functions
<1>3. CASE t = p
  <2>1. fn[t] = f
    BY <1>1, <1>3, OneMonitorFacts DEF Functions
  <2>2. alone[t] /\ t \in Inside(fn[t])
    BY <1>1, <2>1, <1>3, OneMonitorFacts DEF SoleInv, Inside
  <2>3. bound[f].key = p /\ bound[f].data = p
    BY <1>1, <1>3, <2>1, <2>2 DEF StoreInv, AloneInv
  <2>4. Row(f) = [key |-> p, data |-> mem[<<p, f>>]]
    BY <2>3 DEF Row, Unbound
  <2>5. rows'[f] = Append(rows[f], [key |-> p, data |-> mem[<<p, f>>]])
    BY <2>1, <2>4 DEF Store, StoreInv, TypeOK, Functions
  <2>6. /\ \A i \in DOMAIN rows[f] : i \in DOMAIN rows'[f] /\ rows'[f][i] = rows[f][i]
        /\ Len(rows[f]) + 1 \in DOMAIN rows'[f]
        /\ rows'[f][Len(rows[f]) + 1] = [key |-> p, data |-> mem[<<p, f>>]]
    <3> DEFINE r == [key |-> p, data |-> mem[<<p, f>>]]
               s == rows[f]
    <3>1. rows'[f] = Append(s, r) /\ s \in Seq([key : Running \cup {Unbound},
                                                data : Contents \cup {Dead, Null}])
      BY <1>2, <2>5
    <3> HIDE DEF r, s
    <3>2. /\ \A i \in DOMAIN s : i \in DOMAIN Append(s, r) /\ Append(s, r)[i] = s[i]
          /\ Len(s) + 1 \in DOMAIN Append(s, r) /\ Append(s, r)[Len(s) + 1] = r
      BY <3>1
    <3> QED
      BY <3>1, <3>2 DEF r, s
  <2>7. \A e \in owed : InHand(e) \/ InRow(e) => InRow(e)'
    BY <2>6 DEF InHand, InRow
  <2> QED
    BY <1>1, <2>7 DEF KeptInv, Waiting
<1>4. CASE t # p
  <2>1. fn[t] # f /\ p \in Running /\ fn[t] # "store_model"
    BY <1>1, <1>4, OneMonitorFacts, UsesFacts DEF StoreInv, CallInv
  <2>2. rows'[f] = rows[f] /\ mem' = mem /\ at'[p] = at[p]
    BY <1>1, <1>4, <2>1 DEF Store, Return, StoreInv, TypeOK, Functions
  <2> QED
    BY <1>1, <2>2 DEF KeptInv, Waiting, InHand, InRow
<1> QED
  BY <1>3, <1>4

\* A row that SQLite refuses is owed no longer.
LEMMA StepFailsKept ==
  ASSUME OneMonitor, StoreInv, KeptInv, NEW t \in Running, StepFails(t)
  PROVE  KeptInv'
<1> DEFINE p == "process_monitor"
<1>1. at[t] = "step" /\ fn[t] \in Functions /\ queue' = queue /\ rows' = rows
      /\ owed' = owed \ {mem[<<t, fn[t]>>]}
  BY InCall DEF StepFails
<1>2. CASE t = p
  <2>1. fn[t] = "insert_event"
    BY <1>1, <1>2, OneMonitorFacts DEF Functions
  <2> QED
    BY <1>1, <1>2, <2>1 DEF KeptInv, Waiting, InHand, InRow
<1>3. CASE t # p
  <2>1. p \in Running /\ fn[t] # "store_model"
    BY <1>1, <1>3, OneMonitorFacts, UsesFacts DEF StoreInv, CallInv
  <2>2. mem' = mem /\ at'[p] = at[p]
    BY <1>1, <1>3, <2>1 DEF StepFails, Return, StoreInv, TypeOK
  <2> QED
    BY <1>1, <2>2 DEF KeptInv, Waiting, InHand, InRow
<1> QED
  BY <1>2, <1>3

LEMMA KeptStep ==
  ASSUME OneMonitor, StoreInv, SoleInv, KeptInv, [Next]_vars
  PROVE  KeptInv'
<1>1. CASE \E kind \in EbpfKinds : PublishEbpf(kind)
  BY <1>1, PublishKept
<1>2. ASSUME NEW t \in Running,
             \/ TakeWanted(t) \/ TakeOther(t) \/ HashFile(t) \/ PublishFile(t) \/ EndThread(t)
             \/ Reset(t) \/ BindKey(t) \/ BindData(t) \/ Store(t) \/ StepFails(t)
      PROVE  KeptInv'
  BY <1>2, TakeKept, LoopKept, StoreKept, StepFailsKept
<1>3. ASSUME NEW t \in Running, TakeScored(t) \/ Retrain(t) \/ NoRetrain(t) \/ ReadLine(t)
      PROVE  FALSE
  BY <1>3, OneMonitorFacts DEF TakeScored, Retrain, NoRetrain, ReadLine
<1>4. CASE UNCHANGED vars
  BY <1>4 DEF vars, KeptInv, Waiting, InHand, InRow
<1> QED
  BY <1>1, <1>2, <1>3, <1>4 DEF Next

\* What ARCHITECTURE.md:19 says of the monitors holds of a process monitor that
\* has the bus and db_insert_event for itself: no eBPF event that the bus took is
\* lost, whatever the scanner does and however many rows SQLite refuses.
THEOREM OneMonitorStoresAll ==
  ASSUME OneMonitor
  PROVE  Spec => []RelevantEventsStored
<1>1. Init => KeptInv
  BY DEF Init, KeptInv
<1>2. StoreInv /\ SoleInv /\ KeptInv /\ [Next]_vars => KeptInv'
  BY KeptStep
<1>3. KeptInv => RelevantEventsStored
  BY DEF KeptInv, Waiting, Holds, InHand, InRow, RelevantEventsStored
<1> QED
  BY <1>1, <1>2, <1>3, StoreInvariance, SoleInvariance, PTL DEF Spec
=============================================================================
