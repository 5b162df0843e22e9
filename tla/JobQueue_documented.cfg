SPECIFICATION Spec
CONSTANTS
  r1 = r1
  r2 = r2
  r3 = r3
  r4 = r4
  j1 = j1
  j2 = j2
  j3 = j3
  u1 = u1
  u2 = u2
  Requests = {r1, r2, r3}
  Jobs = {j1}
  Runners = {u1}
  Tokens = {"keyA"}
  Tenants = {"A"}
  Keys <- NoKeys
  DefaultTenant = "A"
  Ops <- QueueOps
  Bodies = {"ok"}
  Durable = FALSE
  IOErrors = FALSE
  MaxRestarts = 0
  None = None
SYMMETRY Symmetry
CHECK_DEADLOCK FALSE
PROPERTIES
  LifecycleAsDocumented
