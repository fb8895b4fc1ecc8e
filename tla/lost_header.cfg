SPECIFICATION FairSpec
CONSTANTS
  NodeCount = 2
  CellCount = 2
  ArmOf <- OneArm
  Experiments = {"C"}
  Faults = 2
PROPERTIES
  MatrixSurvives
