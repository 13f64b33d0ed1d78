\* The daemon restarts, changes, withholds values and leaves calls without
\* an answer, in any order.
\* Deadlock is not checked: when the bounds are used up and all is handled,
\* nothing is left to happen.
CONSTANTS
  Faults = {"silent", "invalidate"}
  MaxOwnerChanges = 2
  MaxEvents = 2
SPECIFICATION FairSpec
INVARIANTS TypeOK RunningConverges CacheConverges DaemonChangesShown
INVARIANTS QuitOncePerLoss ListFollowed PreparedOnce
PROPERTY EventuallyCurrent
CHECK_DEADLOCK FALSE
