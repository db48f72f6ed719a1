SPECIFICATION Spec
CONSTANTS
  InSector = 2
  Sectors = 2
  Groups = 4
  PoolStart = 2
  DataStart = 6
  FirstData = 10
  Total = 16
  Files = {f, g}
  Nobody = Nobody
  END = 999
  Count = 1001
  MaxChain = 3
INVARIANT FilesKeepTheirData
CHECK_DEADLOCK FALSE
