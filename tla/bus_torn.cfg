\* A consumer copies an event while it is written.
SPECIFICATION Spec
CONSTANTS
  Producers = {p1}
  Consumers = {c1}
  Observers = {}
  Capacity = 2
  Events = {e1, e2}
  Zero = zero
  Fields = {f1, f2}
  WordSize = 64
  MaxPublish = 4
INVARIANT ReceivedIntact
