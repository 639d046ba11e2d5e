\* One thread that publishes and consumes, as in test_event_bus.c.
SPECIFICATION Spec
CONSTANTS
  Producers = {t1}
  Consumers = {t1}
  Observers = {t1}
  Capacity = 3
  Events = {e1, e2}
  Zero = zero
  Fields = {f1, f2}
  WordSize = 64
  MaxPublish = 7
INVARIANT SerialInv
PROPERTY QueueSpec
