\* The Offline object misses a notification.
\* Deadlock is not checked: when the bounds are used up and all is handled,
\* nothing is left to happen.
CONSTANTS
  Faults = {}
  MaxOwnerChanges = 1
  MaxEvents = 1
SPECIFICATION Spec
INVARIANT OfflineChangesShown
CHECK_DEADLOCK FALSE
