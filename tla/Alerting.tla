------------------------------ MODULE Alerting ------------------------------
(***************************************************************************)
(* Instances on one database, one of which evaluates rules: the response    *)
(* engine records what it performs with the same statement as the AI        *)
(* engine's alerts.  Nothing in the daemon loads rules yet; the thread that *)
(* does is a plugin's or a test's.                                          *)
(***************************************************************************)
EXTENDS ModelStore, Rules

CONSTANT Ruler  \* the instance with rules

ASSUME RulerAssumption == Ruler \in Instances

vars == <<storeVars, ruleVars>>

Init == StoreInit /\ RulesInit

\* The row of the file that a write of that outcome makes.
RowOf(how) == IF how = "stored" THEN Len(log) + 1 ELSE 0

\* Mutant: an action that is not recorded ends the evaluation.
ActUntilRefused ==
  \E how \in Outcomes :
    /\ InsertAlert(Ruler, how)
    /\ Looks /\ Matches(rules[next], event)
    /\ acted' = Append(acted, [rule |-> next, as |-> how, row |-> RowOf(how)])
    /\ next' = IF how = "stored" THEN next + 1 ELSE Len(rules) + 1
    /\ UNCHANGED <<rules, alloc, loading, cap, before, overrun, event>>

\* rules_evaluate_and_act calls response_engine_perform, and that db_insert_alert.
Act == \E how \in Outcomes : Perform(how, RowOf(how)) /\ InsertAlert(Ruler, how)

RulesWork ==
  /\ at[Ruler] \in {"on", "save"}
  /\ RulesStep
  /\ UNCHANGED storeVars

Ends(p) == End(p) /\ IF p = Ruler THEN RulesReset ELSE UNCHANGED ruleVars

Next ==
  \/ \E p \in Instances : StoreStep(p) /\ UNCHANGED ruleVars
  \/ \E p \in Instances : Ends(p)
  \/ Act
  \/ RulesWork

Spec == Init /\ [][Next]_vars

-----------------------------------------------------------------------------
(* Correctness *)

\* The calls of one evaluation against the commits of the file: a stored alert is
\* a row of its own, rows follow the order of the rules, and a refused one was
\* kept out by the instance's own SELECT, as is every one behind it.
RecordInv ==
  /\ \A j \in DOMAIN acted :
       /\ acted[j].as = "stored" =>
            acted[j].row \in DOMAIN log /\ log[acted[j].row] = [by |-> Ruler, table |-> "alerts"]
       /\ acted[j].as = "refused" => "alerts" \in refused[Ruler]
  /\ \A j, k \in DOMAIN acted :
       j < k /\ acted[k].as = "stored" =>
         /\ acted[j].as # "refused"
         /\ acted[j].as = "stored" => acted[j].row < acted[k].row

\* rules.c:102-107 with response_engine.c:18-30 and db.c:80-93.  What an event's
\* matching rules leave behind is one alert each, in the order of the rules, while
\* the AI engine and other instances write between them.  An alert that is missing
\* does not keep the next rule from being tried (the result is ignored); but when
\* it is the open SELECT that kept one out, the rest of the event's actions leave
\* nothing either.  "Executed" (docs/RULES.md:28) is no more than this.
ActionsAccounted == ActedInOrder /\ RecordInv
=============================================================================
