SPECIFICATION Spec
CONSTANTS
  Plan <- SmallPlan
  Watched = {1, 2}
  Times = {5, 130}
  MaxRows = 3
INVARIANTS
  TypeOK
  OneCellPerEntry
  BoundIsTheDeadline
  DaggersAddUp
  ProseMatchesTables
  TwoReadersAgree
CHECK_DEADLOCK FALSE
