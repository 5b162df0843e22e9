SPECIFICATION Spec
CONSTANTS
  k1 = k1
  k2 = k2
  Keys = {k1, k2}
  Plans <- SomePlans
CHECK_DEADLOCK FALSE
INVARIANTS
  TypeOK
  WithinApproval
  TotalHonest
  InStageOrder
PROPERTIES
  RefusalJustified
