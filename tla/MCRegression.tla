---------------------------- MODULE MCRegression ----------------------------
(* Sessions of Regression for TLC. *)
EXTENDS Regression, TLC

CONSTANTS u1, u2, c1, c2, s1, s2

TwoCases == <<c1, c2>>

Expect(a, b) == [u \in Users |-> IF u = u1 THEN a ELSE b]
Owned ==
  [ name |-> "a", expect |-> Expect("allow", "deny"), unsafe |-> FALSE, verify |-> FALSE,
    cors |-> FALSE, preflight |-> FALSE, portable |-> TRUE ]
Reworded == [Owned EXCEPT !.name = "b"]
Turned == [Owned EXCEPT !.expect = Expect("deny", "skip"), !.preflight = TRUE]
Literal == [Owned EXCEPT !.portable = FALSE, !.preflight = TRUE, !.expect = Expect("skip", "deny")]
Written == [Owned EXCEPT !.unsafe = TRUE, !.verify = TRUE]
Open == [Owned EXCEPT !.cors = TRUE, !.expect = Expect("none", "deny")]
Draft == [Owned EXCEPT !.expect = Expect("allow", "TODO")]
Idle == [Owned EXCEPT !.expect = Expect("skip", "none")]
AllBodies == {Owned, Reworded, Turned, Literal, Written, Open, Draft, Idle}

\* Every kind of command with every threshold that tells findings apart.
Flags == [ kind |-> "cases", failOn |-> 4, failOnInconclusive |-> TRUE, allowMutating |-> FALSE,
           requirePreflight |-> FALSE, out |-> TRUE, sarif |-> TRUE, json |-> TRUE ]
Cases == { [Flags EXCEPT !.failOn = f, !.failOnInconclusive = i] : f \in {0, 2}, i \in BOOLEAN }
Job == [Flags EXCEPT !.kind = "job", !.requirePreflight = TRUE, !.failOn = 2]
Guarded == [Flags EXCEPT !.kind = "guarded", !.sarif = FALSE]
Mutating == [Flags EXCEPT !.allowMutating = TRUE, !.sarif = FALSE]
Suite == [Flags EXCEPT !.kind = "suite", !.json = FALSE, !.sarif = FALSE]
Policy == [Flags EXCEPT !.kind = "policy", !.out = FALSE]
Demo == [Flags EXCEPT !.kind = "demo", !.sarif = FALSE, !.failOnInconclusive = FALSE, !.json = FALSE]
Watched == [Guarded EXCEPT !.failOn = 0, !.failOnInconclusive = FALSE]
Listed == [Flags EXCEPT !.failOn = 0, !.sarif = FALSE]
AllCommands == Cases \cup {Flags, Guarded, Watched, Listed, Job, Mutating, Suite, Policy, Demo}

Desk(a, b) == [id \in Ids |-> [body |-> IF id = c1 THEN a ELSE b, layout |-> 1]]
NoSave == [s \in Savers |-> None]
Quiet(desk, commands) == [desk |-> desk, edits |-> 0, drafts |-> {}, commands |-> commands, saves |-> NoSave]

\* One command at a desk nobody touches, for every outcome of a batch.
Batches ==
  { Quiet(Desk(a, b), <<c>>) :
      a \in {Owned, Written, Turned}, b \in {Literal, Open, Draft}, c \in AllCommands }

\* A guarded job that replaces the result of an earlier job.
Replaced == { Quiet(Desk(Literal, Draft), <<Job, Guarded>>) }

\* The same text in another layout, the same meaning in other words, another
\* meaning, a text with a secret and one to review.
Drafts == { [body |-> b, layout |-> 2] : b \in {Owned, Reworded, Turned, Literal, Draft} }

\* Two saves beside two runs of a file that is edited meanwhile.
Ask(unbound) == [case |-> c1, allowUnbound |-> unbound]
Saved ==
  { [desk |-> Desk(body, Idle), edits |-> 1, drafts |-> Drafts, commands |-> <<c>>,
     saves |-> [s \in Savers |-> Ask(s = s1)]] :
      body \in {Owned, Literal}, c \in {Watched, Listed} }

\* One save beside two runs, the second of which may end in the middle.
Rerun ==
  { [desk |-> Desk(Turned, Idle), edits |-> 1, drafts |-> Drafts, commands |-> <<Listed, Listed>>,
     saves |-> [NoSave EXCEPT ![s1] = Ask(FALSE)]] }

AllSessions == Batches \cup Replaced \cup Saved \cup Rerun
=============================================================================
