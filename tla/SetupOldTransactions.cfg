\* Deadlock is not checked: when the bounds are used up and all is handled,
\* nothing is left to happen.
CONSTANTS
  Requests = {"getOldTransactions"}
  Attaching = FALSE
  Listened = {"transaction"}
  MaxSlots = 1
  HintLists = {}
  MaxHints = 0
  MaxStatus = 0
SPECIFICATION Spec
INVARIANT EarlyResultsArrive
CHECK_DEADLOCK FALSE
