\* Groups 0 (reserved), 1 and 2 (two data clusters each) and 3 (the backup superblock).
SPECIFICATION Spec
CONSTANTS
  TotalClusters = 7
  FirstData = 2
  PerLab = 2
  Stale <- MCStale
  Owners = {f, g, h}
  NoOwner = NoOwner
  MaxStaleUses = 1
SYMMETRY Symmetry
INVARIANTS TypeOK ChainsExact AccountingExact LabsDistinct NothingLost
PROPERTY PoolSpec
\* When every cluster is in use or lost and no file is left, commands only report
\* a full disk.
CHECK_DEADLOCK FALSE
