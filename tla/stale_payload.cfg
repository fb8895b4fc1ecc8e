SPECIFICATION Spec
CONSTANTS
  NodeCount = 2
  CellCount = 2
  ArmOf <- OneArm
  Experiments = {"A"}
  Faults = 1
PROPERTIES
  NoStalePayload
