SPECIFICATION Spec
CONSTANTS
  r1 = r1
  r2 = r2
  r3 = r3
  r4 = r4
  j1 = j1
  j2 = j2
  j3 = j3
  u1 = u1
  u2 = u2
  Requests = {r1, r2, r3}
  Jobs = {j1, j2}
  Runners = {u1}
  Tokens = {"keyA", "keyB"}
  Tenants = {"A", "B"}
  Keys <- TwoTenants
  DefaultTenant = "A"
  Ops <- AllOps
  Bodies = {"ok"}
  Durable = TRUE
  IOErrors = TRUE
  MaxRestarts = 1
  None = None
SYMMETRY Symmetry
CHECK_DEADLOCK FALSE
INVARIANTS
  AuditTruthful
  AnsweredIsAudited
  AnsweredIsKept
  CompletionSticks
PROPERTIES
  ImplementsLifecycle
