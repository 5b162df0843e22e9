SPECIFICATION GuardedSpec
CONSTANTS
  peer = peer
  owner = owner
  stranger = stranger
  v = v
  w = w
  Ids = {owner, peer, stranger}
  Reader = reader
  Values = {v, w}
  Absent = absent
  NoValue = novalue
  Statuses = {200, 202, 401}
  Cases <- VerifiedCases
  Oracles = {"record", "constant"}
  Watched <- NoCases
  Restorer = restorer
  MaxForeign = 1
CHECK_DEADLOCK FALSE
INVARIANTS
  AllowedTrue
  DeniedTrue
  TriedFromBaseline
  DenyFirst
  DeadTokenProtectsNothing
PROPERTIES
  CancelledJudgesNothing
