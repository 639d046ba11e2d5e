\* Starts that fail wherever they can, stops, and the poll thread.
SPECIFICATION FairSpec
CONSTANTS
  Main = main
  Poller = poller
  Threads = {main, poller}
  None = none
  Messages <- AllLevels
  RingSize = 2
  o1 = o1
  o2 = o2
  o3 = o3
  Objects <- ThreeObjects
  Programs <- TwoPrograms
  Mapped <- AllButOne
  MaxObjects = 2
  MaxLinks = 2
  MaxStarts = 2
INVARIANTS
  LoaderInv
  ReleasedWhenOff
  PolledMapOpen
PROPERTIES
  LogSpec
  RecentSpec
  PolledEventsRead
  StopReturns
CHECK_DEADLOCK FALSE
