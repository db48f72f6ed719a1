SPECIFICATION RemountSpec
CONSTANTS
  v1 = v1
  v2 = v2
  s1 = s1
  s2 = s2
  s3 = s3
  d1 = d1
  d2 = d2
  Volumes <- TwoVolumes
  Sectors <- ThreeSectors
  Data <- TwoData
  Capacity = 2
  Capacities <- Sizes
  Absent = Absent
  Closed = Closed
  NoResult = NoResult
PROPERTY MountShowsVolume
