\* Deadlock is not checked: a client whose objects are all deleted may stop.
CONSTANTS
  o1 = o1
  Own = {o1}
  Foreign = {}
  Verdict = {"success", "cancelled"}
  Faults = {}
  MaxOwnerChanges = 1
SPECIFICATION Spec
PROPERTY CancelTakesEffect
CHECK_DEADLOCK FALSE
