SPECIFICATION MCSpec
CONSTANTS
  Contents = {c1, c2, c3}
  RootContent = RootContent
  LocalContent = LocalContent
  DataContent = DataContent
  NoContent = NoContent
  Names = {master, main}
  Master = master
  Main = main
  Local = Local
  Data = Data
  RootDir = RootDir
  Agreed = 3
  PerSector = 1
  Sectors = 2
  MaxId = 5
  MaxRefs = 2
  MaxClusters = 2
  MaxCommands = 6
SYMMETRY Symmetry
INVARIANTS TypeOK TableIdsSaved DuplicatesAreLost  MountsAreCounted
PROPERTIES MountStaysHome
CHECK_DEADLOCK FALSE
