\* Deadlock is not checked: a client whose objects are all deleted may stop.
CONSTANTS
  o1 = o1
  Own = {o1}
  Foreign = {}
  Verdict = {"success", "killed"}
  Faults = {"lost"}
  MaxOwnerChanges = 1
SPECIFICATION Spec
INVARIANT FinishedOnce
CHECK_DEADLOCK FALSE
