\* An instance that loaded its model, and another one that commits.
SPECIFICATION Spec
CONSTANTS
  Instances = {a, b}
  Ruler = a
  None = none
  Absent = absent
  MaxCommits = 2
  RuleLines = {}
  Payloads = {}
  FirstCapacity = 2
  MaxRules = 0
  ssh = ssh
  cron = cron
INVARIANT AlertsStored
CHECK_DEADLOCK FALSE
