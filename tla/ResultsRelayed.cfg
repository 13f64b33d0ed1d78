\* Groups at both ends of the enumeration, of two words, and beyond it.
\* Deadlock is not checked: when all results are relayed, nothing is left.
CONSTANTS
  Bits = {0, 1, 5, 34, 63}
  Reals = {0, 2}
  Severities = {0, 8}
  PackageIds <- Ids
  PackedBatches = FALSE
  MaxResults = 2
SPECIFICATION Spec
INVARIANT TypeOK GroupsDelivered ShownAsReported IdsReassembled
CHECK_DEADLOCK FALSE
