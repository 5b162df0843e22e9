SPECIFICATION Spec
CONSTANTS
  owner = owner
  token = token
  object = object
  Ids = {owner, peer}
  Reader = reader
  Nobody = nobody
  Names = {token, object}
  Cases <- HandshakeCases
CHECK_DEADLOCK FALSE
INVARIANTS
  NoPlaceholderSent
