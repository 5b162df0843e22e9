----------------------------- MODULE MCEngineRun -----------------------------
(* Cases and targets of EngineRun and GuardedRun for TLC. *)
EXTENDS GuardedRun, TLC

CONSTANTS peer, stranger, owner, v, w

\* The case every other one is a variation of: the owner is declared first, the
\* peer is to be denied, nothing is expected of a stranger.
Base ==
  [ order |-> <<owner, peer>>,
    expect |-> [id \in Ids |-> IF id = owner THEN "allow" ELSE IF id = peer THEN "deny" ELSE "none"],
    anonymous |-> {}, asserted |-> {}, denyStatus |-> {}, unauthorizedIsDenial |-> FALSE,
    setup |-> 0, preflight |-> {}, strict |-> FALSE, mutating |-> TRUE, verify |-> TRUE,
    strategy |-> "", environment |-> "synchronous_isolated", pointer |-> TRUE,
    target |-> NoValue, afterStatus |-> {}, reset |-> FALSE ]

\* Changes of a value, in the environments that let it be judged and not, with
\* and without a reset; the last one is not valid.
ValueCases ==
  { [Base EXCEPT !.target = w, !.environment = e] : e \in {"unknown", "synchronous_isolated"} }
  \cup { [Base EXCEPT !.strategy = "changed", !.target = t, !.reset = (t = NoValue)] :
           t \in {w, NoValue} }
  \cup { [Base EXCEPT !.strategy = "changed"] }

\* Three callers of one record: two to be denied, one of them declared after the
\* owner, all without a credential that could be dead; and one of whom nothing is
\* expected, declared before both.
PeersCases ==
  { [Base EXCEPT !.order = <<peer, owner, stranger>>, !.strategy = "changed", !.reset = TRUE,
                 !.expect[stranger] = "deny", !.anonymous = Ids],
    [Base EXCEPT !.order = <<stranger, owner, peer>>, !.strategy = "changed", !.target = w,
                 !.expect[stranger] = "skip"] }

\* A record that appears, disappears, or no longer lets its owner log in.
ExistenceCases ==
  { [Base EXCEPT !.strategy = s, !.pointer = FALSE, !.reset = (s = "created")] :
      s \in {"created", "deleted"} }
  \cup { [Base EXCEPT !.strategy = "changed", !.pointer = p, !.afterStatus = {401}, !.reset = TRUE] :
           p \in BOOLEAN }

VerifiedCases == ValueCases \cup PeersCases \cup ExistenceCases

\* Cases without verification, and every way they read an answer.
Reading == [Base EXCEPT !.verify = FALSE, !.mutating = FALSE]
PlainCases ==
  { [Reading EXCEPT !.expect[owner] = e, !.asserted = asserted, !.denyStatus = {401, 404},
                    !.anonymous = anonymous, !.unauthorizedIsDenial = declared] :
      e \in Expectations, asserted \in {{}, {peer}}, anonymous \in {{}, {peer}},
      declared \in BOOLEAN }

\* Cases that set up and probe first, the reader too where there is one; the
\* last one is not valid, since a strict case probes everybody.
ProbedCases ==
  { [Reading EXCEPT !.setup = 1, !.preflight = {owner, peer}, !.strict = TRUE],
    [Reading EXCEPT !.setup = 2, !.preflight = {peer}, !.asserted = {peer}],
    [Base EXCEPT !.target = w, !.environment = "", !.preflight = {owner, Reader}],
    [Reading EXCEPT !.preflight = {peer}, !.strict = TRUE] }

\* Cases behind a guard: with steps, probes, a skipped identity, and verified
\* with the reader probed and a reset before each write.
GuardedCases ==
  { [Reading EXCEPT !.setup = 2, !.preflight = {owner, peer}, !.expect[owner] = "skip"],
    [Base EXCEPT !.strategy = "changed", !.target = w, !.reset = TRUE, !.preflight = {Reader},
                 !.anonymous = {owner, peer}] }

AnswerCases == PlainCases \cup ProbedCases \cup GuardedCases
NoCases == {}
=============================================================================
