\* The AI engine and the process monitor poll one bus.
SPECIFICATION Spec
CONSTANTS
  Running = {"ai_engine", "process_monitor"}
  Capacity = 2
  Window = 2
  MaxItems = 2
INVARIANT RelevantEventsStored
CHECK_DEADLOCK FALSE
