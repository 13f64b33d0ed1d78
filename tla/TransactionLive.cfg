\* Fairness of the event loop and of the daemon, all faults.
\* Deadlock is not checked: a client whose objects are all deleted may stop.
CONSTANTS
  o1 = o1
  f1 = f1
  Own = {o1}
  Foreign = {f1}
  Verdict = {"success"}
  Faults = {"lost", "expired", "timeout", "unsent"}
  MaxOwnerChanges = 1
SPECIFICATION FairSpec
PROPERTY OwnDeleted ForeignDeleted
CHECK_DEADLOCK FALSE
