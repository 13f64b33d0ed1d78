\* Everything that may go wrong does: the daemon dies under a transaction,
\* destroys one that nobody has run yet, answers late, or cannot be asked.
\* Deadlock is not checked: a client whose objects are all deleted may stop.
CONSTANTS
  o1 = o1
  f1 = f1
  Own = {o1}
  Foreign = {f1}
  Verdict = {"success", "killed"}
  Faults = {"lost", "expired", "timeout", "unsent"}
  MaxOwnerChanges = 2
SPECIFICATION Spec
INVARIANT TypeOK VerdictWins RepeatsOnlyFailure
PROPERTY KeepsContract KilledWithItsDaemon
CHECK_DEADLOCK FALSE
