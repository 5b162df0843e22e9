----------------------------- MODULE Regression -----------------------------
(***************************************************************************)
(* A session at a desk: commands run one after the other, the author edits *)
(* the case file at any moment, and operators save what was found as a     *)
(* regression (cmd/vardrgate/regression.go, input_digest.go).  A save      *)
(* trusts nothing but files: the case file as it is now, the result file   *)
(* some command wrote, perhaps long ago or not to the end.                 *)
(***************************************************************************)
EXTENDS RunCommand

CONSTANTS
  Savers,   \* regression save commands
  Layouts,  \* ways to lay one text out: indentation, line ends
  Sessions  \* what happens at the desk; each session is a bound of its own

Text == [body : Bodies, layout : Layouts]

\* --case, --allow-unbound-result, --out
Request == [case : Ids, allowUnbound : BOOLEAN]

Session ==
  [ desk : [Ids -> Text],               \* the case file at first
    edits : Nat,                        \* how often it is changed
    drafts : SUBSET Text,               \* what it is changed to
    commands : Seq(Commands),           \* what is run, in order
    saves : [Savers -> Request \cup {None}] ]

Manifest ==
  [ case : Ids, spec : Bodies,
    binding : {"exact_input_digest", "operator_confirmed_unbound"} ]

ASSUME SessionAssumption ==
  /\ Sessions \subseteq Session
  /\ \A s \in Sessions : s.commands # <<>>
  /\ NoFile # Torn /\ None \notin Bodies /\ {NoFile, Torn} \cap (Bodies \cup Manifest) = {}

VARIABLES
  session,       \* what is left of the session
  save,          \* save[s]: where a save stands, which case it read, how it is bound
  made,          \* whether the directory of the regression exists
  spec,          \* its cases.json
  confirmation   \* its confirmation.json

directory == <<made, spec, confirmation>>
vars == <<command, cases, session, save, directory>>

Init ==
  /\ session \in Sessions
  /\ cases = session.desk
  /\ cmd = session.commands[1] /\ pc = "ended" /\ at = 1 /\ exit = "none"
  /\ loaded = [id \in Ids |-> cases[id].body] /\ results = NoResults
  /\ signalled = FALSE /\ caught = FALSE /\ sent = {} /\ ran = {}
  /\ out = NoFile /\ temp = NoFile /\ sarif = NoFile /\ shown = FALSE
  /\ save = [s \in Savers |-> [pc |-> "asked", body |-> None, manifest |-> None]]
  /\ made = FALSE /\ spec = NoFile /\ confirmation = NoFile

-----------------------------------------------------------------------------
(* The desk. *)

RunNext ==
  /\ session.commands # <<>> /\ Start(Head(session.commands))
  /\ session' = [session EXCEPT !.commands = Tail(@)]
  /\ UNCHANGED <<save, directory>>

Edit ==
  /\ session.edits > 0
  /\ \E id \in Ids, text \in session.drafts : text # cases[id] /\ cases' = [cases EXCEPT ![id] = text]
  /\ session' = [session EXCEPT !.edits = @ - 1]
  /\ UNCHANGED <<command, save, directory>>

-----------------------------------------------------------------------------
(* A save: everything is checked before the directory is made. *)

Advance(s, step) == save' = [save EXCEPT ![s].pc = step]

\* Expectations are there and all of them reviewed, no secret is written out.
Savable(b) ==
  /\ \E u \in Users : b.expect[u] # "none"
  /\ \A u \in Users : b.expect[u] # "TODO"
  /\ b.portable

ReadCases(s) ==
  /\ session.saves[s] # None /\ save[s].pc = "asked"
  /\ LET body == cases[session.saves[s].case].body
     IN  /\ Savable(body)
         /\ save' = [save EXCEPT ![s].pc = "read", ![s].body = body]
  /\ UNCHANGED <<command, cases, session, directory>>

\* relevantRegressionFinding: it was made with an identity that was executed and
\* that this text expects what the finding contradicts of.
Relevant(b, r, f) ==
  /\ r.executions # "none" /\ b.expect[f[1]] \notin {"none", "skip"}
  /\ f[2] = "authorization_mismatch" => b.expect[f[1]] = "allow"
  /\ f[2] = "unexpected_access" => b.expect[f[1]] = "deny"
  /\ f[2] = "cors_misconfiguration" => b.cors

\* The result was made from this very text, or the operator answers for it.
Binding(r, body, allowUnbound) ==
  IF r.digest = body THEN "exact_input_digest"
  ELSE IF r.digest = None /\ allowUnbound THEN "operator_confirmed_unbound" ELSE "none"

\* The result file is there and whole, has the case once, and it ran.
ReadResult(s) ==
  LET wanted == session.saves[s]
      body == save[s].body
      r == out[wanted.case]
      binding == Binding(r, body, wanted.allowUnbound)
  IN  /\ save[s].pc = "read" /\ out \notin {NoFile, Torn} /\ wanted.case \in DOMAIN out
      /\ r.error = "" /\ ~r.preflightFailed /\ binding # "none"
      /\ \E f \in r.findings : Relevant(body, r, f)
      /\ save' = [save EXCEPT ![s].pc = "checked",
                  ![s].manifest = [case |-> wanted.case, spec |-> body, binding |-> binding]]
      /\ UNCHANGED <<command, cases, session, directory>>

\* Mutant: an existing directory is used.
Makeable_Any == TRUE

\* Mkdir: of two saves to one directory, one gets it.
Makeable == ~made

MakeDirectory(s) ==
  /\ save[s].pc = "checked" /\ Makeable
  /\ made' = TRUE /\ Advance(s, "open spec")
  /\ UNCHANGED <<command, cases, session, spec, confirmation>>

\* Two files, in this order, each truncated and then filled.
WriteSpec(s) ==
  /\ \/ save[s].pc = "open spec" /\ spec' = Torn /\ Advance(s, "fill spec")
     \/ save[s].pc = "fill spec" /\ spec' = save[s].body /\ Advance(s, "open confirmation")
  /\ UNCHANGED <<command, cases, session, made, confirmation>>

WriteConfirmation(s) ==
  /\ \/ save[s].pc = "open confirmation" /\ confirmation' = Torn /\ Advance(s, "fill confirmation")
     \/ save[s].pc = "fill confirmation" /\ confirmation' = save[s].manifest /\ Advance(s, "saved")
  /\ UNCHANGED <<command, cases, session, made, spec>>

\* A check fails, a write fails or the process is killed: what was written stays.
FailSave(s) ==
  /\ session.saves[s] # None /\ save[s].pc \notin {"saved", "failed"}
  /\ Advance(s, "failed")
  /\ UNCHANGED <<command, cases, session, directory>>

SaveStep(s) ==
  \/ ReadCases(s) \/ ReadResult(s) \/ MakeDirectory(s)
  \/ WriteSpec(s) \/ WriteConfirmation(s) \/ FailSave(s)

Next ==
  \/ RunNext \/ Edit
  \/ Step /\ UNCHANGED <<session, save, directory>>
  \/ \E s \in Savers : SaveStep(s)

Spec == Init /\ [][Next]_vars

-----------------------------------------------------------------------------
(* Properties. *)

\* A regression that claims to be bound to its input holds exactly a text that
\* was run and found wanting in what it says -- although the file may have been
\* edited before, during and after the run, and the result file may be an old
\* one.  An unbound one at least holds a text that a finding of that case
\* contradicts (saveRegression, inputDigest).
BoundIsWhatRan ==
  confirmation \notin {NoFile, Torn} =>
    \E r \in ran :
      /\ r.case = confirmation.case
      /\ confirmation.binding = "exact_input_digest" => r.body = confirmation.spec
      /\ r.findings \cap Findable(confirmation.spec) # {}

\* Where there is a confirmation.json, the cases.json beside it is complete and
\* the one it names, whichever saves raced for the directory, failed or were
\* killed: an existing regression is never overwritten (saveRegression).
ConfirmedIsWhole ==
  confirmation # NoFile =>
    /\ spec \in Bodies
    /\ confirmation # Torn => spec = confirmation.spec
=============================================================================
