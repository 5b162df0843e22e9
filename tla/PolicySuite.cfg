SPECIFICATION Spec
CONSTANTS
  Names = {"ann", "bob", "eve", "kim", "amy"}
  Roles = {"owner", "user", "public", "reader", "nobody"}
  Tenants = {"A", "B"}
  Endpoints = {"users", "orders"}
  Labels = {"refusals"}
  Files = {"shared", "extra"}
  Variables = {"TOKEN"}
  Invocations <- AllInvocations
  Answers <- AllAnswers
  None = None
CHECK_DEADLOCK FALSE
INVARIANTS
  ControlsTested
  NothingPasses
  FindingsSavable
