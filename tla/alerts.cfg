\* Two instances, one of which evaluates rules.
SPECIFICATION Spec
CONSTANTS
  Instances = {a, b}
  Ruler = a
  None = none
  Absent = absent
  MaxCommits = 3
  RuleLines <- SomeRules
  Payloads <- SomePayloads
  FirstCapacity = 2
  MaxRules = 3
  ssh = ssh
  cron = cron
INVARIANTS
  ModelInv
  ActionsAccounted
  OverrunNeedsLongReload
PROPERTY OutrunForGood
CHECK_DEADLOCK FALSE
