\* Two writers of the events table race for their one statement, while the AI
\* engine competes for the events and the scanner stores and publishes.
SPECIFICATION Spec
CONSTANTS
  Running = {"ai_engine", "process_monitor", "user_monitor", "file_integrity"}
  Capacity = 2
  Window = 2
  MaxItems = 3
INVARIANTS
  StoreInv
  NoHalfRow
PROPERTY UndisturbedCallExact
CHECK_DEADLOCK FALSE
