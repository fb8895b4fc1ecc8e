SPECIFICATION Spec
SYMMETRY Symmetry
CONSTANTS
  a = a
  b = b
  f = f
  g = g
  Nodes = {a, b}
  Paths = {f}
  InitialHolders = {a, b}
  TombstoneTtl = 1
  Coarse = FALSE
  Hasty = TRUE
  Paced = FALSE
  HighWater = 1
  Droppable = {}
  Budget <- BudgetAging
PROPERTIES
  GraveYieldsOnlyToNewer
  DeadOnlyByLateRepair
