\* Deadlock is not checked: when the bounds are used up and all is handled,
\* nothing is left to happen.
CONSTANTS
  Requests <- AllRequests
  Attaching = TRUE
  Listened = {"package"}
  MaxSlots = 2
  HintLists <- TwoLists
  MaxHints = 2
  MaxStatus = 1
SPECIFICATION Spec
INVARIANTS TypeOK RequestDelivered EarlyResultsArrive ResultsOnce HintsInEffect
INVARIANTS PropertiesConverge QueuedMeansReady
CHECK_DEADLOCK FALSE
