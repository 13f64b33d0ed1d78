\* Deadlock is not checked: the thread stops when the object is deleted.
CONSTANTS
  NestedIn = {"finished"}
  Crashes = FALSE
  MaxLoops = 1
  MaxSignals = 0
  MaxBatch = 0
SPECIFICATION Spec
INVARIANT FinishedOnce
CHECK_DEADLOCK FALSE
