\* Two racing publishers, which also count, and two racing consumers.
SPECIFICATION Spec
CONSTANTS
  Producers = {p1, p2}
  Consumers = {c1, c2}
  Observers = {p1, p2}
  Capacity = 2
  Events = {e1}
  Zero = zero
  Fields = {f1}
  WordSize = 64
  MaxPublish = 6
SYMMETRY ThreadSymmetry
INVARIANTS
  BusInv
  TakenAtMostPublished
  OverrunBounded
PROPERTIES
  LedgerSpec
  PendingAnswered
  RefusedForCause
