------------------------------- MODULE Rules -------------------------------
(***************************************************************************)
(* rules.c: rules are read from files into g_rules, one load after the      *)
(* other, and the actions of those that match an event are performed.       *)
(* One thread loads and evaluates, as in the unit tests.                    *)
(*                                                                         *)
(* A line that is no rule changes nothing and is left out.  A condition is  *)
(* the clauses it contains, a payload what a search finds in it: within its *)
(* length, and behind it up to the next NUL.                                *)
(***************************************************************************)
EXTENDS Integers, Sequences

CONSTANTS RuleLines,      \* the rules in the files: a word to find in the text, a
                          \* threshold to be above, a command; or Absent
          Payloads,
          Absent,         \* no clause, no score, no event
          FirstCapacity,  \* 8
          MaxRules        \* bound

ASSUME RulesAssumption ==
  FirstCapacity \in Nat \ {0} /\ MaxRules \in Nat /\ Absent \notin Payloads

VARIABLES
  rules,    \* the entries of g_rules
  alloc,    \* for how many it has memory
  loading,  \* in rules_load_from_file
  cap,      \* its local cap
  before,   \* history: how many rules there were when it was called
  overrun,  \* an entry was written behind the end of g_rules
  event,    \* the payload in rules_evaluate_and_act
  next,     \* the rule it looks at
  acted     \* the calls of response_engine_perform, and what became of their alerts

ruleVars == <<rules, alloc, loading, cap, before, overrun, event, next, acted>>

RulesInit ==
  /\ rules = <<>> /\ alloc = 0
  /\ loading = FALSE /\ cap = 0 /\ before = 0 /\ overrun = FALSE
  /\ event = Absent /\ next = 1 /\ acted = <<>>

\* The process ends, and another one begins.
RulesReset ==
  /\ rules' = <<>> /\ alloc' = 0
  /\ loading' = FALSE /\ cap' = 0 /\ before' = 0 /\ overrun' = FALSE
  /\ event' = Absent /\ next' = 1 /\ acted' = <<>>

\* What follows a write out of bounds is undefined.
Idle == ~loading /\ event = Absent /\ ~overrun

BeginLoad ==
  /\ Idle /\ Len(rules) < MaxRules
  /\ loading' = TRUE /\ cap' = 0 /\ before' = Len(rules)
  /\ UNCHANGED <<rules, alloc, overrun, event, next, acted>>

Grown == IF cap = 0 THEN FirstCapacity ELSE 2 * cap

\* Mutant: room for the entry is not counted.
AddRuleOffByOne(r) ==
  /\ loading /\ ~overrun /\ Len(rules) < MaxRules
  /\ cap' = IF Len(rules) > cap \/ cap = 0 THEN Grown ELSE cap
  /\ alloc' = cap'
  /\ IF Len(rules) < cap' THEN rules' = Append(rules, r) /\ UNCHANGED overrun
     ELSE overrun' = TRUE /\ UNCHANGED rules
  /\ UNCHANGED <<loading, before, event, next, acted>>

\* The table is reallocated when cap says so; it may shrink.
AddRule(r) ==
  /\ loading /\ ~overrun /\ Len(rules) < MaxRules
  /\ cap' = IF Len(rules) + 1 > cap THEN Grown ELSE cap
  /\ alloc' = cap'
  /\ IF Len(rules) < cap' THEN rules' = Append(rules, r) /\ UNCHANGED overrun
     ELSE overrun' = TRUE /\ UNCHANGED rules
  /\ UNCHANGED <<loading, before, event, next, acted>>

\* The end of the file, or no memory for the next rule.
EndLoad ==
  /\ loading /\ ~overrun
  /\ loading' = FALSE /\ cap' = 0 /\ before' = 0
  /\ UNCHANGED <<rules, alloc, overrun, event, next, acted>>

\* evaluate_condition_simple.  Only the search for text heeds the length.
Matches(r, e) ==
  LET scored == r.above # Absent /\ e.score # Absent
  IN  /\ e.size > 0
      /\ \/ r.text # Absent /\ r.text \in e.words
         \/ scored /\ e.score > r.above
         \/ ~scored /\ r.comm # Absent /\ r.comm \in e.words \cup e.behind

Evaluate(e) ==
  /\ Idle /\ alloc > 0
  /\ event' = e /\ next' = 1 /\ acted' = <<>>
  /\ UNCHANGED <<rules, alloc, loading, cap, before, overrun>>

Looks == event # Absent /\ next <= Len(rules)

Pass ==
  /\ Looks /\ ~Matches(rules[next], event)
  /\ next' = next + 1
  /\ UNCHANGED <<rules, alloc, loading, cap, before, overrun, event, acted>>

\* The call of response_engine_perform, which executes nothing: it logs the action
\* and inserts an alert, with the outcome "as" and as that row of the file.  Its
\* result is ignored.
Perform(as, row) ==
  /\ Looks /\ Matches(rules[next], event)
  /\ acted' = Append(acted, [rule |-> next, as |-> as, row |-> row])
  /\ next' = next + 1
  /\ UNCHANGED <<rules, alloc, loading, cap, before, overrun, event>>

EndEvaluate ==
  /\ event # Absent /\ next > Len(rules)
  /\ event' = Absent /\ next' = 1 /\ acted' = <<>>
  /\ UNCHANGED <<rules, alloc, loading, cap, before, overrun>>

\* The steps that leave the database alone.
RulesStep ==
  \/ BeginLoad \/ EndLoad \/ Pass \/ EndEvaluate
  \/ \E r \in RuleLines : AddRule(r)
  \/ \E e \in Payloads : Evaluate(e)

-----------------------------------------------------------------------------
(* Correctness *)

Calls == [rule : Nat, as : {"stored", "refused", "failed"}, row : Nat]

RulesTypeOK ==
  /\ rules \in Seq(RuleLines) /\ {alloc, cap, before} \subseteq Nat
  /\ loading \in BOOLEAN /\ overrun \in BOOLEAN
  /\ event \in Payloads \cup {Absent}
  /\ next \in Nat \ {0} /\ acted \in Seq(Calls)

\* Unless a load outgrew it, the table has memory for all its rules; a load
\* counts those of its own cap that are taken.
TableInv ==
  /\ ~overrun => Len(rules) <= alloc
  /\ loading /\ ~overrun =>
       /\ cap = 0 => Len(rules) = before
       /\ cap > 0 => cap = alloc /\ before < FirstCapacity
  /\ loading => event = Absent
  /\ event # Absent => ~overrun /\ next <= Len(rules) + 1
  /\ overrun => before >= FirstCapacity /\ loading

\* The matching rules up to here were handed to the response engine in order.
ActedInOrder ==
  event # Absent =>
    /\ \A k \in 1 .. next - 1 :
         Matches(rules[k], event) <=> \E j \in DOMAIN acted : acted[j].rule = k
    /\ \A j, k \in DOMAIN acted : j < k => acted[j].rule < acted[k].rule
    /\ \A j \in DOMAIN acted : acted[j].rule < next

RulesInv == RulesTypeOK /\ TableInv /\ ActedInOrder

\* rules.c:33-39: an entry is written behind the end of the table only by a load
\* that begins with the table's first size or more; a single load, of whatever
\* length and also after one that failed, never does.
OverrunNeedsLongReload == overrun => before >= FirstCapacity /\ loading
=============================================================================
