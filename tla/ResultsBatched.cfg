\* The daemon packs severities into the lists of Packages.
\* Deadlock is not checked: when all results are relayed, nothing is left.
CONSTANTS
  Bits = {5}
  Reals = {0, 2}
  Severities = {0, 8}
  PackageIds <- OneId
  PackedBatches = TRUE
  MaxResults = 2
SPECIFICATION Spec
INVARIANT ShownAsReported
CHECK_DEADLOCK FALSE
