----------------------------- MODULE MCAlerting -----------------------------
(* Two rules with several clauses and a payload that tells them apart; all   *)
(* conditions of up to three clauses for the assumptions.                    *)
EXTENDS Alerting

CONSTANTS ssh, cron

Rule(text, above, comm) == [text |-> text, above |-> above, comm |-> comm]
SomeRules == {Rule(Absent, 80, ssh), Rule(ssh, 80, cron)}

Payload(size, words, behind, score) ==
  [size |-> size, words |-> words, behind |-> behind, score |-> score]
SomePayloads == {Payload(1, {ssh}, {}, 70)}

Words == {ssh, cron}
AllRules ==
  [text : Words \cup {Absent}, above : {70, 80, Absent}, comm : Words \cup {Absent}]
AllPayloads ==
  [size : {1}, words : SUBSET Words, behind : SUBSET Words, score : {70, 75, Absent}]

\* docs/RULES.md:21-23: a condition of one clause means what the document says,
\* if nothing stands behind the payload.
ASSUME OneClauseAsDocumented ==
  \A e \in {p \in AllPayloads : p.behind = {}}, w \in Words, n \in {70, 80} :
    /\ Matches(Rule(w, Absent, Absent), e) <=> w \in e.words
    /\ Matches(Rule(Absent, n, Absent), e) <=> e.score # Absent /\ e.score > n
    /\ Matches(Rule(Absent, Absent, w), e) <=> w \in e.words

\* rules.c:78: where there is a score, the threshold decides in place of comm.
ASSUME ScoreDecides ==
  \A r \in AllRules, e \in AllPayloads :
    r.above # Absent /\ e.score # Absent =>
      (Matches(r, e) <=> Matches([r EXCEPT !.comm = Absent], e))

\* rules.c:64, 90: text is looked for within the payload's length, a command
\* also behind it.
ASSUME LengthHeededByText ==
  \A r \in AllRules, e \in AllPayloads :
    r.comm = Absent => (Matches(r, e) <=> Matches(r, [e EXCEPT !.behind = {}]))
=============================================================================
