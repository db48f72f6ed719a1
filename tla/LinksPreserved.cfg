SPECIFICATION MCSpec
CONSTANTS
  Chains = {c1, c2, c3, c4, c5}
  NoChain = NoChain
  Root = Root
  RootDir = RootDir
  Names = {a, b}
  LevelNames = {master, x}
  Master = master
  Main = x
  NoName = NoName
  Dot = Dot
  PerCluster = 1
  RootSlots = 2
  PerSector = 1
  LevelSlots = 2
  MaxSlots = 2
  MaxAttributes = 4
  MaxCommands = 4
SYMMETRY Symmetry
INVARIANTS LinksPreserved
CHECK_DEADLOCK FALSE
