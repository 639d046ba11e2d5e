\* Two publishers and a single worker loop that drains the bus.
SPECIFICATION FairSpec
CONSTANTS
  Producers = {p1, p2}
  Consumers = {c1}
  Observers = {}
  Capacity = 2
  Events = {e1}
  Zero = zero
  Fields = {f1}
  WordSize = 64
  MaxPublish = 4
PROPERTIES
  TakesInOrder
  PendingEventuallyTaken
