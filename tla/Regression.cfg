SPECIFICATION Spec
CONSTANTS
  u1 = u1
  u2 = u2
  c1 = c1
  c2 = c2
  s1 = s1
  s2 = s2
  Users = {u1, u2}
  Order <- TwoCases
  Bodies <- AllBodies
  Commands <- AllCommands
  Savers = {s1, s2}
  Layouts = {1, 2}
  Sessions <- AllSessions
  NoFile = NoFile
  Torn = Torn
  None = None
CHECK_DEADLOCK FALSE
INVARIANTS
  VerdictTruthful
  ValidatedFirst
  Reported
  BoundIsWhatRan
  ConfirmedIsWhole
PROPERTIES
  PublishedWhole
