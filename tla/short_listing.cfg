SPECIFICATION Spec
CONSTANTS
  a = a
  b = b
  f = f
  g = g
  Nodes = {a, b}
  Paths = {f}
  InitialHolders = {a, b}
  TombstoneTtl = 100
  Coarse = FALSE
  Hasty = FALSE
  Paced = FALSE
  HighWater = 5
  Droppable = {}
  Budget <- BudgetShort
INVARIANTS
  NothingLostUnasked
