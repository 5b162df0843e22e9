---------------------------- MODULE MCRequestGuard ----------------------------
(* Plans of RequestGuard for TLC: one of each shape, the last two malformed. *)
EXTENDS RequestGuard, TLC

CONSTANTS k1, k2

D(phase, key, max) == [phase |-> phase, key |-> key, max |-> max]
P(ds, max) == [dispatches |-> ds, max |-> max]

SomePlans ==
  { \* every stage, one request listed twice
    P(<<D("setup", k1, 1), D("preflight", k2, 1), D("resource", k1, 1),
        D("verification", k2, 2), D("resource", k1, 1)>>, 6),
    \* a reset repeated between resource requests
    P(<<D("reset", k1, 2), D("resource", k1, 2), D("resource", k2, 1)>>, 5),
    P(<<D("setup", k1, 2)>>, 2),
    \* dispatches beyond the total, and a phase no plan has
    P(<<D("resource", k1, 2), D("resource", k2, 1)>>, 2),
    P(<<D("unlabelled", k1, 1)>>, 1) }
=============================================================================
