--------------------------- MODULE AlertingProofs ---------------------------
(***************************************************************************)
(* Any number of instances on one database, and rules of any number, for    *)
(* every first size of the table.                                           *)
(***************************************************************************)
EXTENDS Alerting, TLAPS

USE StoreAssumption, RulesAssumption, RulerAssumption

-----------------------------------------------------------------------------
(* ModelStore *)

LEMMA StoreInitInv == StoreInit => ModelInv
<1> SUFFICES ASSUME StoreInit
             PROVE  ModelInv
  OBVIOUS
<1>1. StoreTypeOK
  BY DEF StoreInit, StoreTypeOK
<1>2. SnapInv /\ HeapInv
  BY DEF StoreInit, SnapInv, HeapInv
<1>3. QED  BY <1>1, <1>2 DEF ModelInv

\* A write leaves an instance behind only for the commits of others.
LEMMA WriteKeeps ==
  ASSUME ModelInv, NEW p \in Instances, at[p] \in {"on", "save"},
         NEW table \in Tables, NEW how \in Outcomes, Write(p, table, how),
         at' = at \/ at' = [at EXCEPT ![p] = "on"],
         UNCHANGED blocks
  PROVE  ModelInv'
<1> USE DEF ModelInv
<1>1. at' \in [Instances -> {"down", "init", "on", "save"}]
  BY DEF StoreTypeOK
<1>2. \A q \in Instances :
        /\ at'[q] = "down" <=> at[q] = "down"
        /\ at'[q] \in {"down", "init"} => at[q] \in {"down", "init"}
  BY DEF StoreTypeOK
<1>3. CASE /\ snap[p] \in {None, Len(log)}
           /\ log' = Append(log, [by |-> p, table |-> table])
           /\ snap' = [snap EXCEPT ![p] = IF snap[p] = None THEN None ELSE Len(log) + 1]
           /\ refused' = refused
  <2>1. log \in Seq(Rows) /\ [by |-> p, table |-> table] \in Rows
    BY DEF StoreTypeOK, Rows
  <2>2. /\ log' \in Seq(Rows) /\ Len(log') = Len(log) + 1 /\ Len(log) \in Nat
        /\ DOMAIN log' = 1 .. Len(log) + 1 /\ DOMAIN log = 1 .. Len(log)
        /\ log'[Len(log) + 1].by = p
        /\ \A i \in DOMAIN log : log'[i] = log[i]
    BY <1>3, <2>1
  <2>3. StoreTypeOK'
    BY <1>1, <1>3, <2>2 DEF StoreTypeOK
  <2>4. ASSUME NEW q \in Instances, q # p
        PROVE  snap'[q] = snap[q] /\ refused'[q] = refused[q]
    BY <1>3, <2>4 DEF StoreTypeOK
  <2>5. /\ snap'[p] = IF snap[p] = None THEN None ELSE Len(log) + 1
        /\ refused'[p] = refused[p]
    BY <1>3 DEF StoreTypeOK
  <2>6. refused[p] = {}
    BY <1>3, <2>2 DEF SnapInv
  <2>7. SnapInv'
    <3> SUFFICES ASSUME NEW q \in Instances
                 PROVE  /\ at'[q] \in {"down", "init"} => snap'[q] = None
                        /\ snap'[q] = None => refused'[q] = {}
                        /\ snap'[q] # None =>
                             /\ snap'[q] <= Len(log')
                             /\ \A i \in DOMAIN log' : i > snap'[q] => log'[i].by # q
                             /\ refused'[q] # {} => snap'[q] < Len(log')
      BY DEF SnapInv
    <3>1. snap[q] \in Nat \cup {None}
      BY DEF StoreTypeOK
    <3>2. CASE q = p
      BY <1>2, <1>3, <2>2, <2>5, <2>6, <3>1, <3>2 DEF SnapInv
    <3>3. CASE q # p
      <4>1. snap'[q] = snap[q] /\ refused'[q] = refused[q]
        BY <2>4, <3>3
      <4>2. snap[q] # None => \A i \in DOMAIN log' : i > snap[q] => log'[i].by # q
        BY <2>2, <3>1, <3>3 DEF SnapInv
      <4>3. QED  BY <1>2, <2>2, <3>1, <4>1, <4>2 DEF SnapInv
    <3>4. QED  BY <3>2, <3>3
  <2>8. HeapInv'
    BY <1>2, <1>3, <2>4, <2>5, <2>2 DEF HeapInv, StoreTypeOK
  <2>9. QED  BY <2>3, <2>7, <2>8
<1>4. CASE /\ snap[p] \notin {None, Len(log)}
           /\ refused' = [refused EXCEPT ![p] = @ \cup {table}]
           /\ UNCHANGED <<log, snap>>
  <2>1. StoreTypeOK'
    BY <1>1, <1>4 DEF StoreTypeOK
  <2>2. \A q \in Instances : q # p => refused'[q] = refused[q]
    BY <1>4 DEF StoreTypeOK
  <2>3. snap[p] < Len(log)
    <3>1. snap[p] \in Nat /\ snap[p] <= Len(log) /\ log \in Seq(Rows)
      BY <1>4 DEF StoreTypeOK, SnapInv
    <3>2. QED  BY <1>4, <3>1
  <2>4. SnapInv'
    BY <1>2, <1>4, <2>2, <2>3 DEF SnapInv
  <2>5. HeapInv'
    BY <1>2, <1>4 DEF HeapInv
  <2>6. QED  BY <2>1, <2>4, <2>5
<1>5. CASE UNCHANGED <<log, snap, refused>>
  <2>1. StoreTypeOK'
    BY <1>1, <1>5 DEF StoreTypeOK
  <2>2. SnapInv' /\ HeapInv'
    BY <1>2, <1>5 DEF SnapInv, HeapInv
  <2>3. QED  BY <2>1, <2>2
<1>6. QED  BY <1>3, <1>4, <1>5 DEF Write

LEMMA LoadKeeps ==
  ASSUME ModelInv, NEW p \in Instances, LoadRow(p) \/ LoadFails(p)
  PROVE  ModelInv'
<1> USE DEF ModelInv, SelectRow, LoadRow, LoadFails
<1>1. at[p] = "init" /\ snap[p] = None /\ blocks[p] = 1 /\ refused[p] = {}
  <2>1. at[p] = "init" /\ snap[p] = None /\ refused[p] = {}
    BY DEF SnapInv
  <2>2. blocks[p] \in 0 .. 2 /\ blocks[p] # 0 /\ blocks[p] # 2
    BY <2>1 DEF HeapInv, StoreTypeOK
  <2>3. QED  BY <2>1, <2>2
<1>2. Len(log) \in Nat /\ DOMAIN log = 1 .. Len(log)
  BY DEF StoreTypeOK
<1>3. /\ at'[p] = "on" /\ snap'[p] = Len(log)
      /\ blocks'[p] \in {1, 2} /\ refused' = refused /\ log' = log
      /\ \A q \in Instances \ {p} :
           at'[q] = at[q] /\ snap'[q] = snap[q] /\ blocks'[q] = blocks[q]
  BY <1>1 DEF StoreTypeOK
<1>4. StoreTypeOK'
  <2>1. blocks' \in [Instances -> 0 .. 2]
    BY <1>1 DEF StoreTypeOK
  <2>2. QED  BY <1>2, <1>3, <2>1 DEF StoreTypeOK
<1>5. SnapInv'
  <2>1. Len(log) # None
    BY <1>2
  <2>2. QED  BY <1>1, <1>2, <1>3, <2>1 DEF SnapInv
<1>6. HeapInv'
  <2>1. Len(log) # None
    BY <1>2
  <2>2. QED  BY <1>3, <2>1 DEF HeapInv
<1>7. QED  BY <1>4, <1>5, <1>6

LEMMA StoreStepInv ==
  ASSUME ModelInv, NEW p \in Instances, StoreStep(p) \/ End(p) \/ (\E how \in Outcomes : InsertAlert(p, how))
  PROVE  ModelInv'
<1>1. CASE Start(p)
  <2>1. at[p] = "down" /\ snap[p] = None /\ refused[p] = {}
    BY <1>1 DEF Start, ModelInv, SnapInv
  <2>2. StoreTypeOK'
    BY <1>1 DEF Start, ModelInv, StoreTypeOK
  <2>3. SnapInv' /\ HeapInv'
    BY <1>1, <2>1 DEF Start, ModelInv, StoreTypeOK, SnapInv, HeapInv
  <2>4. QED  BY <2>2, <2>3 DEF ModelInv
<1>2. CASE LoadNone(p) \/ Retrain(p)
  <2>1. StoreTypeOK'
    BY <1>2 DEF LoadNone, Retrain, ModelInv, StoreTypeOK
  <2>2. SnapInv' /\ HeapInv'
    BY <1>2 DEF LoadNone, Retrain, ModelInv, StoreTypeOK, SnapInv, HeapInv
  <2>3. QED  BY <2>1, <2>2 DEF ModelInv
<1>3. CASE LoadRow(p) \/ LoadFails(p)
  BY <1>3, LoadKeeps
<1>4. CASE \E how \in Outcomes : InsertAlert(p, how)
  BY <1>4, WriteKeeps DEF InsertAlert, Tables
<1>5. CASE Save(p)
  BY <1>5, WriteKeeps DEF Save, Tables
<1>6. CASE End(p)
  <2>1. StoreTypeOK'
    BY <1>6 DEF End, ModelInv, StoreTypeOK
  <2>2. SnapInv' /\ HeapInv'
    BY <1>6 DEF End, ModelInv, StoreTypeOK, SnapInv, HeapInv
  <2>3. QED  BY <2>1, <2>2 DEF ModelInv
<1>7. QED  BY <1>1, <1>2, <1>3, <1>4, <1>5, <1>6 DEF StoreStep, Raise

LEMMA StoreStutter == ModelInv /\ UNCHANGED storeVars => ModelInv'
  BY DEF ModelInv, storeVars, StoreTypeOK, SnapInv, HeapInv

-----------------------------------------------------------------------------
(* Rules *)

LEMMA RulesInitInv == RulesInit => RulesInv
<1> SUFFICES ASSUME RulesInit
             PROVE  RulesInv
  OBVIOUS
<1>1. loading \in BOOLEAN /\ overrun \in BOOLEAN
  BY DEF RulesInit
<1>2. RulesTypeOK
  BY <1>1 DEF RulesInit, RulesTypeOK
<1>3. TableInv /\ ActedInOrder
  BY DEF RulesInit, TableInv, ActedInOrder
<1>4. QED  BY <1>2, <1>3 DEF RulesInv

LEMMA RulesResetInv == RulesReset => RulesInv'
<1> SUFFICES ASSUME RulesReset
             PROVE  RulesInv'
  OBVIOUS
<1>1. loading' \in BOOLEAN /\ overrun' \in BOOLEAN
  BY DEF RulesReset
<1>2. RulesTypeOK'
  BY <1>1 DEF RulesReset, RulesTypeOK
<1>3. TableInv' /\ ActedInOrder'
  BY DEF RulesReset, TableInv, ActedInOrder
<1>4. QED  BY <1>2, <1>3 DEF RulesInv

\* The table doubles only when it is full, so one doubling is always enough; the
\* first size is not, if there are that many rules already.
LEMMA AddRuleKeeps ==
  ASSUME RulesInv, NEW r \in RuleLines, AddRule(r)
  PROVE  RulesInv'
<1> USE DEF RulesInv, AddRule
<1>1. /\ rules \in Seq(RuleLines) /\ Len(rules) \in Nat
      /\ cap \in Nat /\ alloc \in Nat /\ before \in Nat /\ Len(rules) <= alloc
      /\ cap = 0 => Len(rules) = before
      /\ cap > 0 => cap = alloc /\ before < FirstCapacity
      /\ event = Absent
  BY DEF RulesTypeOK, TableInv
<1>2. cap' \in Nat /\ cap' > 0
  BY <1>1 DEF Grown
<1>3. CASE Len(rules) < cap'
  <2>1. /\ rules' = Append(rules, r) /\ Len(rules') = Len(rules) + 1
        /\ rules' \in Seq(RuleLines) /\ overrun' = overrun
    BY <1>1, <1>3
  <2>2. before < FirstCapacity
    BY <1>1, <1>3 DEF Grown
  <2>3. RulesTypeOK'
    BY <1>2, <2>1 DEF RulesTypeOK
  <2>4. TableInv'
    <3>1. Len(rules') <= alloc'
      BY <1>1, <1>2, <1>3, <2>1
    <3>2. loading' /\ ~overrun' /\ event' = Absent
      BY <1>1, <2>1
    <3>3. cap' > 0 /\ cap' = alloc' /\ before' < FirstCapacity
      BY <1>2, <2>2
    <3>4. QED  BY <1>2, <3>1, <3>2, <3>3 DEF TableInv
  <2>5. ActedInOrder'
    BY <1>1 DEF ActedInOrder
  <2>6. QED  BY <2>3, <2>4, <2>5
<1>4. CASE ~(Len(rules) < cap')
  <2>1. overrun' = TRUE /\ rules' = rules
    BY <1>4
  <2>2. before >= FirstCapacity
    BY <1>1, <1>4 DEF Grown
  <2>3. overrun' \in BOOLEAN
    BY <2>1
  <2>4. RulesTypeOK'
    BY <1>2, <2>1, <2>3 DEF RulesTypeOK
  <2>5. TableInv'
    BY <1>1, <2>1, <2>2 DEF TableInv
  <2>6. ActedInOrder'
    BY <1>1 DEF ActedInOrder
  <2>7. QED  BY <2>4, <2>5, <2>6
<1>5. QED  BY <1>3, <1>4

LEMMA CallsNameRules ==
  ASSUME NEW s \in Seq(Calls)
  PROVE  /\ Len(s) \in Nat /\ DOMAIN s = 1 .. Len(s)
         /\ \A j \in DOMAIN s : s[j].rule \in Nat
<1>1. Len(s) \in Nat /\ DOMAIN s = 1 .. Len(s) /\ \A j \in DOMAIN s : s[j] \in Calls
  OBVIOUS
<1>2. \A c \in Calls : c.rule \in Nat
  BY DEF Calls
<1>3. QED  BY <1>1, <1>2

LEMMA PerformKeeps ==
  ASSUME RulesInv, NEW as \in {"stored", "refused", "failed"}, NEW row \in Nat, Perform(as, row)
  PROVE  RulesInv'
<1> USE DEF RulesInv, Perform, Looks
<1>1. /\ next \in Nat \ {0} /\ acted \in Seq(Calls) /\ Len(acted) \in Nat
      /\ DOMAIN acted = 1 .. Len(acted)
      /\ \A j \in DOMAIN acted : acted[j].rule \in Nat
  BY CallsNameRules DEF RulesTypeOK
<1>2. /\ acted' \in Seq(Calls) /\ DOMAIN acted' = 1 .. Len(acted) + 1
      /\ acted'[Len(acted) + 1].rule = next
      /\ \A j \in DOMAIN acted : acted'[j] = acted[j]
  <2> DEFINE c == [rule |-> next, as |-> as, row |-> row]
  <2>1. c \in Calls /\ c.rule = next /\ acted' = Append(acted, c)
    BY <1>1 DEF Calls
  <2> HIDE DEF c
  <2>2. QED  BY <1>1, <2>1
<1>3. RulesTypeOK'
  BY <1>1, <1>2 DEF RulesTypeOK
<1>4. TableInv'
  BY <1>1 DEF TableInv, RulesTypeOK
<1>5. ActedInOrder'
  <2>1. ASSUME NEW k \in 1 .. next
        PROVE  Matches(rules[k], event) <=> \E j \in DOMAIN acted' : acted'[j].rule = k
    <3>1. CASE k = next
      BY <1>1, <1>2, <3>1
    <3>2. CASE k # next
      <4>1. k \in 1 .. next - 1
        BY <1>1, <3>2
      <4>2. Matches(rules[k], event) <=> \E j \in DOMAIN acted : acted[j].rule = k
        BY <4>1 DEF ActedInOrder
      <4>3. QED  BY <1>1, <1>2, <3>2, <4>2
    <3>3. QED  BY <3>1, <3>2
  <2>2. \A j \in DOMAIN acted : acted[j].rule \in Nat /\ acted[j].rule < next
    BY <1>1 DEF ActedInOrder
  <2>3. \A j, k \in DOMAIN acted' : j < k => acted'[j].rule < acted'[k].rule
    <3>1. \A j, k \in DOMAIN acted : j < k => acted[j].rule < acted[k].rule
      BY DEF ActedInOrder
    <3>2. QED  BY <1>1, <1>2, <2>2, <3>1
  <2>4. \A j \in DOMAIN acted' : acted'[j].rule < next + 1
    BY <1>1, <1>2, <2>2
  <2>5. next' = next + 1 /\ next' - 1 = next /\ event' = event /\ rules' = rules
    BY <1>1
  <2>6. /\ \A k \in 1 .. next' - 1 :
             Matches(rules[k], event)' <=> \E j \in DOMAIN acted' : acted'[j].rule = k
        /\ \A j \in DOMAIN acted' : acted'[j].rule < next'
    BY <2>1, <2>4, <2>5 DEF Matches
  <2>7. QED  BY <2>3, <2>6 DEF ActedInOrder
<1>6. QED  BY <1>3, <1>4, <1>5

LEMMA PassKeeps ==
  ASSUME RulesInv, Pass
  PROVE  RulesInv'
<1> USE DEF RulesInv, Pass, Looks
<1>1. /\ next \in Nat \ {0} /\ DOMAIN acted = 1 .. Len(acted) /\ acted \in Seq(Calls)
      /\ \A j \in DOMAIN acted : acted[j].rule \in Nat
  BY CallsNameRules DEF RulesTypeOK
<1>2. RulesTypeOK'
  BY <1>1 DEF RulesTypeOK
<1>3. TableInv'
  BY <1>1 DEF TableInv, RulesTypeOK
<1>4. ActedInOrder'
  <2>1. \A j \in DOMAIN acted : acted[j].rule \in Nat /\ acted[j].rule < next
    BY <1>1 DEF ActedInOrder
  <2>2. ASSUME NEW k \in 1 .. next
        PROVE  Matches(rules[k], event) <=> \E j \in DOMAIN acted : acted[j].rule = k
    <3>1. CASE k = next
      BY <1>1, <2>1, <3>1
    <3>2. CASE k # next
      <4>1. k \in 1 .. next - 1
        BY <1>1, <3>2
      <4>2. QED  BY <4>1 DEF ActedInOrder
    <3>3. QED  BY <3>1, <3>2
  <2>3. next' - 1 = next /\ next' = next + 1
    BY <1>1
  <2>4. QED  BY <1>1, <2>1, <2>2, <2>3 DEF ActedInOrder
<1>5. QED  BY <1>2, <1>3, <1>4

LEMMA RulesStepInv ==
  ASSUME RulesInv, RulesStep
  PROVE  RulesInv'
<1> USE DEF RulesInv
<1>1. CASE BeginLoad
  <2>1. RulesTypeOK'
    BY <1>1 DEF BeginLoad, RulesTypeOK
  <2>2. TableInv' /\ ActedInOrder'
    BY <1>1 DEF BeginLoad, Idle, TableInv, ActedInOrder
  <2>3. QED  BY <2>1, <2>2
<1>2. CASE EndLoad
  <2>1. loading' \in BOOLEAN /\ overrun' \in BOOLEAN
    <3>1. loading' = FALSE /\ overrun' = overrun
      BY <1>2 DEF EndLoad
    <3>2. overrun \in BOOLEAN
      BY DEF RulesTypeOK
    <3>3. QED  BY <3>1, <3>2, Zenon
  <2>2. RulesTypeOK'
    BY <1>2, <2>1 DEF EndLoad, RulesTypeOK
  <2>3. TableInv' /\ ActedInOrder'
    BY <1>2 DEF EndLoad, TableInv, ActedInOrder
  <2>4. QED  BY <2>2, <2>3
<1>3. CASE EndEvaluate
  <2>1. RulesTypeOK'
    BY <1>3 DEF EndEvaluate, RulesTypeOK
  <2>2. TableInv' /\ ActedInOrder'
    BY <1>3 DEF EndEvaluate, TableInv, ActedInOrder
  <2>3. QED  BY <2>1, <2>2
<1>4. ASSUME NEW e \in Payloads, Evaluate(e)
      PROVE  RulesInv'
  <2>1. RulesTypeOK'
    BY <1>4 DEF Evaluate, RulesTypeOK
  <2>2. TableInv'
    BY <1>4 DEF Evaluate, Idle, TableInv, RulesTypeOK
  <2>3. ActedInOrder'
    BY <1>4 DEF Evaluate, ActedInOrder
  <2>4. QED  BY <2>1, <2>2, <2>3
<1>5. QED
  BY <1>1, <1>2, <1>3, <1>4, PassKeeps, AddRuleKeeps DEF RulesStep

LEMMA RulesStutter == RulesInv /\ UNCHANGED ruleVars => RulesInv'
  BY DEF RulesInv, ruleVars, RulesTypeOK, TableInv, ActedInOrder

-----------------------------------------------------------------------------

LEMMA NextKeeps == ModelInv /\ RulesInv /\ [Next]_vars => ModelInv' /\ RulesInv'
<1> SUFFICES ASSUME ModelInv, RulesInv, [Next]_vars
             PROVE  ModelInv' /\ RulesInv'
  OBVIOUS
<1>1. ASSUME NEW p \in Instances, StoreStep(p), UNCHANGED ruleVars
      PROVE  ModelInv' /\ RulesInv'
  BY <1>1, StoreStepInv, RulesStutter
<1>2. ASSUME NEW p \in Instances, Ends(p)
      PROVE  ModelInv' /\ RulesInv'
  BY <1>2, StoreStepInv, RulesStutter, RulesResetInv DEF Ends
<1>3. CASE Act
  <2>1. PICK how \in Outcomes : Perform(how, RowOf(how)) /\ InsertAlert(Ruler, how)
    BY <1>3 DEF Act
  <2>2. RowOf(how) \in Nat
    BY DEF RowOf, ModelInv, StoreTypeOK
  <2>3. QED  BY <2>1, <2>2, StoreStepInv, PerformKeeps DEF Outcomes
<1>4. CASE RulesWork
  BY <1>4, StoreStutter, RulesStepInv DEF RulesWork
<1>5. CASE UNCHANGED vars
  BY <1>5, StoreStutter, RulesStutter DEF vars
<1>6. QED  BY <1>1, <1>2, <1>3, <1>4, <1>5 DEF Next

\* The file only grows, and a refusal is forgotten only with the process.
LEMMA StoreGrows ==
  ASSUME ModelInv, NEW p \in Instances, StoreStep(p) \/ (\E how \in Outcomes : InsertAlert(p, how))
  PROVE  /\ DOMAIN log \subseteq DOMAIN log' /\ \A i \in DOMAIN log : log'[i] = log[i]
         /\ \A q \in Instances : refused[q] \subseteq refused'[q]
<1> DEFINE Grows ==
      /\ DOMAIN log \subseteq DOMAIN log' /\ \A i \in DOMAIN log : log'[i] = log[i]
      /\ \A q \in Instances : refused[q] \subseteq refused'[q]
<1>1. ASSUME NEW table \in Tables, NEW how \in Outcomes, Write(p, table, how)
      PROVE  Grows
  <2>1. log \in Seq(Rows) /\ refused \in [Instances -> SUBSET Tables]
    BY DEF ModelInv, StoreTypeOK
  <2>2. log' = log \/ log' = Append(log, [by |-> p, table |-> table])
    BY <1>1 DEF Write
  <2>3. DOMAIN log \subseteq DOMAIN log' /\ \A i \in DOMAIN log : log'[i] = log[i]
    BY <2>1, <2>2
  <2>4. refused' = refused \/ refused' = [refused EXCEPT ![p] = @ \cup {table}]
    BY <1>1 DEF Write
  <2>5. \A q \in Instances : refused[q] \subseteq refused'[q]
    BY <2>1, <2>4
  <2>6. QED  BY <2>3, <2>5
<1>2. CASE (\E how \in Outcomes : InsertAlert(p, how)) \/ Save(p)
  BY <1>1, <1>2 DEF InsertAlert, Save, Tables
<1>3. CASE Start(p) \/ LoadNone(p) \/ LoadRow(p) \/ LoadFails(p) \/ Retrain(p)
  <2>1. log' = log /\ refused' = refused
    BY <1>3 DEF Start, LoadNone, LoadRow, LoadFails, SelectRow, Retrain
  <2>2. QED  BY <2>1
<1>4. QED  BY <1>2, <1>3 DEF StoreStep, Raise

\* The next call of the response engine: a row of its own behind those of the
\* others, and none if one of them was refused.
LEMMA ActRecords ==
  ASSUME ModelInv, RulesInv, RecordInv, NEW how \in Outcomes,
         Perform(how, RowOf(how)), InsertAlert(Ruler, how)
  PROVE  RecordInv'
<1> DEFINE c == [rule |-> next, as |-> how, row |-> RowOf(how)]
           n == Len(acted) + 1
<1>1. /\ c.as = how /\ c.row = RowOf(how) /\ acted' = Append(acted, c)
      /\ acted \in Seq(Calls) /\ log \in Seq(Rows)
  BY DEF Perform, RulesInv, RulesTypeOK, ModelInv, StoreTypeOK
<1> HIDE DEF c
<1>2. /\ DOMAIN acted = 1 .. n - 1 /\ DOMAIN acted' = 1 .. n /\ n \in Nat \ {0}
      /\ acted'[n] = c /\ \A j \in DOMAIN acted : acted'[j] = acted[j]
  BY <1>1
<1>3. Len(log) \in Nat /\ DOMAIN log = 1 .. Len(log)
  BY <1>1
<1>4. /\ \A i \in DOMAIN log : i \in DOMAIN log' /\ log'[i] = log[i]
      /\ refused[Ruler] \subseteq refused'[Ruler]
  BY StoreGrows
<1>5. Write(Ruler, "alerts", how)
  BY DEF InsertAlert
<1>6. CASE how = "stored"
  <2>1. snap[Ruler] \in {None, Len(log)} /\ log' = Append(log, [by |-> Ruler, table |-> "alerts"])
    BY <1>5, <1>6 DEF Write
  <2>2. c.row = Len(log) + 1 /\ c.row \in DOMAIN log' /\ log'[c.row] = [by |-> Ruler, table |-> "alerts"]
    BY <1>1, <1>3, <1>6, <2>1 DEF RowOf
  <2>3. refused[Ruler] = {}
    BY <1>3, <2>1 DEF ModelInv, SnapInv
  <2>4. \A j \in DOMAIN acted : acted[j].as # "refused"
    BY <2>3 DEF RecordInv
  <2>5. \A j \in DOMAIN acted : acted[j].as = "stored" => acted[j].row < c.row
    BY <1>3, <2>2 DEF RecordInv
  <2>6. QED  BY <1>1, <1>2, <1>4, <1>6, <2>2, <2>4, <2>5 DEF RecordInv
<1>7. CASE how # "stored"
  <2>1. how = "refused" => "alerts" \in refused'[Ruler]
    BY <1>5 DEF Write, ModelInv, StoreTypeOK
  <2>2. QED  BY <1>1, <1>2, <1>4, <1>7, <2>1 DEF RecordInv
<1>8. QED  BY <1>6, <1>7

LEMMA RecordKeeps == ModelInv /\ RulesInv /\ RecordInv /\ [Next]_vars => RecordInv'
<1> SUFFICES ASSUME ModelInv, RulesInv, RecordInv, [Next]_vars
             PROVE  RecordInv'
  OBVIOUS
<1>1. ASSUME NEW p \in Instances, StoreStep(p), UNCHANGED ruleVars
      PROVE  RecordInv'
  <2>1. acted' = acted
    BY <1>1 DEF ruleVars
  <2>2. /\ \A i \in DOMAIN log : i \in DOMAIN log' /\ log'[i] = log[i]
        /\ refused[Ruler] \subseteq refused'[Ruler]
    BY <1>1, StoreGrows
  <2>3. QED  BY <2>1, <2>2 DEF RecordInv
<1>2. ASSUME NEW p \in Instances, Ends(p)
      PROVE  RecordInv'
  <2>1. CASE p = Ruler
    <3>1. acted' = <<>>
      BY <1>2, <2>1 DEF Ends, RulesReset
    <3>2. QED  BY <3>1 DEF RecordInv
  <2>2. CASE p # Ruler
    <3>1. acted' = acted /\ log' = log /\ refused'[Ruler] = refused[Ruler]
      BY <1>2, <2>2 DEF Ends, End, ruleVars, ModelInv, StoreTypeOK
    <3>2. QED  BY <3>1 DEF RecordInv
  <2>3. QED  BY <2>1, <2>2
<1>3. CASE Act
  BY <1>3, ActRecords DEF Act
<1>4. CASE RulesWork
  <2>1. log' = log /\ refused' = refused /\ (acted' = acted \/ acted' = <<>>)
    BY <1>4 DEF RulesWork, storeVars, RulesStep, BeginLoad, EndLoad, Pass, EndEvaluate, AddRule, Evaluate
  <2>2. QED  BY <2>1 DEF RecordInv
<1>5. CASE UNCHANGED vars
  <2>1. log' = log /\ refused' = refused /\ acted' = acted
    BY <1>5 DEF vars, storeVars, ruleVars
  <2>2. QED  BY <2>1 DEF RecordInv
<1>6. QED  BY <1>1, <1>2, <1>3, <1>4, <1>5 DEF Next

LEMMA AlertingInvariant == Spec => [](ModelInv /\ RulesInv /\ RecordInv)
<1>1. Init => ModelInv /\ RulesInv /\ RecordInv
  BY StoreInitInv, RulesInitInv DEF Init, RulesInit, RecordInv
<1>2. QED  BY <1>1, NextKeeps, RecordKeeps, PTL DEF Spec

\* An instance loses one array of trees at most, and what follows its open
\* snapshot is never its own.
THEOREM StoreCorrect == Spec => []ModelInv
  BY AlertingInvariant, PTL

\* For any number of rules, threads' alerts and other instances' commits in between:
\* each matching rule leaves a row of its own, in order, or a write that SQLite did
\* not take; and none after one that the instance's own SELECT kept out.
THEOREM RulesCorrect == Spec => []ActionsAccounted
<1>1. RulesInv /\ RecordInv => ActionsAccounted
  BY DEF RulesInv, ActionsAccounted
<1>2. QED  BY <1>1, AlertingInvariant, PTL

\* Only a load that begins with the table's first size or more can write behind
\* its end.
THEOREM OverrunTheorem == Spec => []OverrunNeedsLongReload
<1>1. RulesInv => OverrunNeedsLongReload
  BY DEF RulesInv, TableInv, OverrunNeedsLongReload
<1>2. QED  BY <1>1, AlertingInvariant, PTL

\* ARCHITECTURE.md:39 holds of a daemon that has the database for itself: the
\* SELECT that db_load_model leaves open (db.c:108-118) never keeps out an alert,
\* nor a model, however often the daemon is restarted.
THEOREM OneInstanceStores ==
  ASSUME NEW p, Instances = {p}
  PROVE  Spec => [](AlertsStored /\ \A q \in Instances : refused[q] = {})
<1>1. ModelInv => \A q \in Instances : refused[q] = {}
  <2> SUFFICES ASSUME ModelInv, refused[p] # {}
               PROVE  FALSE
    OBVIOUS
  <2>1. /\ snap[p] # None /\ snap[p] < Len(log)
        /\ \A i \in DOMAIN log : i > snap[p] => log[i].by # p
    BY DEF ModelInv, SnapInv
  <2>2. snap[p] \in Nat /\ log \in Seq(Rows) /\ Len(log) \in DOMAIN log
    BY <2>1 DEF ModelInv, StoreTypeOK
  <2>3. log[Len(log)] \in Rows
    BY <2>2
  <2>4. log[Len(log)].by = p
    BY <2>3 DEF Rows
  <2>5. QED  BY <2>1, <2>2, <2>4
<1>2. (\A q \in Instances : refused[q] = {}) => AlertsStored
  BY DEF AlertsStored
<1>3. QED  BY <1>1, <1>2, StoreCorrect, PTL

\* A refused instance commits nothing more until it is restarted.
THEOREM ForGoodTheorem == Spec => OutrunForGood
<1> DEFINE Stuck(p) ==
      refused[p] # {} /\ at'[p] # "down" =>
        /\ refused'[p] # {}
        /\ Len(log') > Len(log) => log'[Len(log')].by # p
<1>1. ASSUME ModelInv, NEW q \in Instances, NEW table \in Tables, NEW how \in Outcomes, Write(q, table, how)
      PROVE  \A p \in Instances : Stuck(p)
  <2> SUFFICES ASSUME NEW p \in Instances, refused[p] # {}
               PROVE  /\ refused'[p] # {}
                      /\ Len(log') > Len(log) => log'[Len(log')].by # p
    OBVIOUS
  <2>1. refused'[p] # {}
    BY <1>1 DEF Write, ModelInv, StoreTypeOK
  <2>2. ASSUME Len(log') > Len(log)
        PROVE  log'[Len(log')].by # p
    <3>1. log \in Seq(Rows) /\ Len(log) \in Nat
      BY <1>1 DEF ModelInv, StoreTypeOK
    <3>2. /\ snap[q] \in {None, Len(log)}
          /\ log' = Append(log, [by |-> q, table |-> table])
      BY <1>1, <2>2, <3>1 DEF Write
    <3>3. log'[Len(log')].by = q
      BY <3>1, <3>2
    <3>4. refused[q] = {}
      BY <1>1, <3>1, <3>2 DEF ModelInv, SnapInv
    <3>5. QED  BY <3>3, <3>4
  <2>3. QED  BY <2>1, <2>2
<1>2. ASSUME ModelInv, [Next]_vars
      PROVE  [\A p \in Instances : Stuck(p)]_storeVars
  <2> SUFFICES ASSUME ~(UNCHANGED storeVars)
               PROVE  \A p \in Instances : Stuck(p)
    OBVIOUS
  <2>1. ASSUME NEW q \in Instances, (\E how \in Outcomes : InsertAlert(q, how)) \/ Save(q)
        PROVE  \A p \in Instances : Stuck(p)
    BY <1>1, <1>2, <2>1 DEF InsertAlert, Save, Tables
  <2>2. ASSUME NEW q \in Instances,
               Start(q) \/ LoadNone(q) \/ LoadRow(q) \/ LoadFails(q) \/ Retrain(q)
        PROVE  \A p \in Instances : Stuck(p)
    <3>1. log' = log /\ refused' = refused
      BY <2>2 DEF Start, LoadNone, LoadRow, LoadFails, SelectRow, Retrain
    <3>2. Len(log) \in Nat
      BY <1>2 DEF ModelInv, StoreTypeOK
    <3>3. QED  BY <3>1, <3>2
  <2>3. ASSUME NEW q \in Instances, End(q)
        PROVE  \A p \in Instances : Stuck(p)
    <3>1. log' = log /\ at'[q] = "down" /\ Len(log) \in Nat
      BY <1>2, <2>3 DEF End, ModelInv, StoreTypeOK
    <3>2. \A p \in Instances : p # q => refused'[p] = refused[p]
      BY <1>2, <2>3 DEF End, ModelInv, StoreTypeOK
    <3>3. QED  BY <3>1, <3>2
  <2>4. QED
    BY <1>2, <2>1, <2>2, <2>3 DEF Next, StoreStep, Raise, Ends, Act, RulesWork, vars
<1>3. QED  BY <1>2, StoreCorrect, PTL DEF Spec, OutrunForGood
=============================================================================
