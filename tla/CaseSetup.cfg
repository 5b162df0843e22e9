SPECIFICATION Spec
CONSTANTS
  owner = owner
  token = token
  object = object
  Ids = {owner, peer}
  Reader = reader
  Nobody = nobody
  Names = {token, object}
  Cases <- SetupCases
CHECK_DEADLOCK FALSE
INVARIANTS
  CarriesLatest
  OnlyAfterSetup
