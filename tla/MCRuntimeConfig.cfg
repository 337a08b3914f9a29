SPECIFICATION FairSpec
CONSTANTS
  Pages = {pg1, pg2}
  Values = {u, v, w}
  Valid = {u, v}
  Initial = u
  MaxRevision = 3
  MaxFaults = 3
INVARIANTS
  NeverTorn
  WrittenIsDurable
  BackupIsPredecessor
PROPERTIES
  SavedIsApplied
CHECK_DEADLOCK FALSE
