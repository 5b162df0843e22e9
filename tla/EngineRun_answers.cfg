SPECIFICATION GuardedFairSpec
CONSTANTS
  peer = peer
  owner = owner
  stranger = stranger
  v = v
  w = w
  Ids = {owner, peer}
  Reader = reader
  Values = {v, w}
  Absent = absent
  NoValue = novalue
  Statuses = {200, 401, 403, 404, 500}
  Cases <- AnswerCases
  Oracles = {"record", "constant", "clock"}
  Watched <- GuardedCases
  Restorer = restorer
  MaxForeign = 0
CHECK_DEADLOCK FALSE
INVARIANTS
  TypeOK
  JudgedOnce
  DeadTokenProtectsNothing
  ProbedBeforeSent
  PlanSuffices
  RefusedJudgesNothing
PROPERTIES
  Terminates
