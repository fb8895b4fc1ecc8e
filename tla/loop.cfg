SPECIFICATION Spec
SYMMETRY Symmetry
CONSTANTS
  a = a
  b = b
  f = f
  g = g
  Nodes = {a, b}
  Paths = {f, g}
  InitialHolders = {a, b}
  TombstoneTtl = 100
  Coarse = TRUE
  Hasty = FALSE
  Paced = TRUE
  HighWater = 5
  Droppable = {}
  Budget <- BudgetLoop
INVARIANTS
  TypeOK
  ListingHonest
  NothingLostUnasked
PROPERTIES
  NoInventedDeletion
  GraveYieldsOnlyToNewer
