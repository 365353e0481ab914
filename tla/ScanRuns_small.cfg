CONSTANTS
  MaxBar = 4
  Cap = 1
  Incidents = {"fault", "crash", "change", "extra"}
  MaxIncidents = 2
  LateBars = TRUE
SPECIFICATION FairSpec
INVARIANTS ExitsRead LiveKept
PROPERTIES ExitsFirst BarsAreServed
CHECK_DEADLOCK FALSE
