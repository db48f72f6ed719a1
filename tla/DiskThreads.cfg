SPECIFICATION ThreadsSpec
CONSTANTS
  Volumes = {v1}
  Sectors = {1, 2, 3}
  Data = {d1, d2}
  Capacity = 2
  Capacities = {}
  Absent = Absent
  Closed = Closed
  NoResult = NoResult
  Workers = {w1, w2}
  NoData = NoData
INVARIANT ParallelReadsAreClean
