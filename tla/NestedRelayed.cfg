\* Deadlock is not checked: the thread stops when the object is deleted.
CONSTANTS
  NestedIn = {"mediaChangeRequired"}
  Crashes = TRUE
  MaxLoops = 3
  MaxSignals = 4
  MaxBatch = 2
SPECIFICATION FairSpec
INVARIANTS TypeOK FinishedOnce NoResumeAfterDelete
PROPERTIES KeepsContract ReportedDeleted
CHECK_DEADLOCK FALSE
