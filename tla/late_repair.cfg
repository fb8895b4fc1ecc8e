SPECIFICATION Spec
CONSTANTS
  a = a
  b = b
  f = f
  g = g
  Nodes = {a, b}
  Paths = {f, g}
  InitialHolders = {a}
  TombstoneTtl = 100
  Coarse = FALSE
  Hasty = FALSE
  Paced = TRUE
  HighWater = 5
  Droppable = {}
  Budget <- BudgetRestore
PROPERTIES
  DeadNeverAnnounced
