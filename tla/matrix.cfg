SPECIFICATION FairSpec
CONSTANTS
  NodeCount = 2
  CellCount = 2
  ArmOf <- OneArm
  Experiments = {"A", "B", "C"}
  Faults = 2
INVARIANTS
  TypeOK
  NothingLeftBehind
PROPERTIES
  EveryCellRecorded
  OneRowEach
  WatchIsHonest
  RowsAreTrue
