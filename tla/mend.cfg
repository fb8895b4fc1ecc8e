SPECIFICATION MendSpec
CONSTANTS
  a = a
  b = b
  f = f
  g = g
  Nodes = {a, b}
  Paths = {f}
  InitialHolders = {a, b}
  TombstoneTtl = 100
  Coarse = FALSE
  Hasty = FALSE
  Paced = FALSE
  HighWater = 5
  Droppable = {"create", "remove", "state", "digest"}
  Budget <- BudgetMend
INVARIANTS
  EqualHashesEqualFiles
PROPERTIES
  Converges
  FallsSilent
  DeletionSticks
