----------------------------- MODULE RunCommand -----------------------------
(***************************************************************************)
(* cmd/vardrgate: the commands that execute test cases -- run --job, with  *)
(* and without a request guard, run --cases, policy run, policy run        *)
(* --suite and demo.  A command loads its cases, checks them all, runs one *)
(* after the other, writes the requested outputs and only then turns the   *)
(* results into an exit code.                                              *)
(*                                                                         *)
(* What one run of a case does is EngineRun; here it is one step with any  *)
(* of the results a run can end in.  Files are written in two steps, every *)
(* write may fail, the process may be killed at any moment, and a guarded  *)
(* job catches the first signal.                                           *)
(***************************************************************************)
EXTENDS Integers, Sequences, FiniteSets

CONSTANTS
  Users,     \* identities of a case
  Order,     \* the case ids in the order of their file
  Bodies,    \* what the file can say of a case
  Commands,  \* command lines
  NoFile,    \* nothing at a path
  Torn,      \* an empty or half written file
  None       \* no result, no digest

Ids == { Order[i] : i \in DOMAIN Order }
Expectations == {"allow", "deny", "skip", "TODO", "none"}

\* A case as its author wrote it, reduced to what a command or a save looks at.
Body ==
  [ name : STRING,                     \* the rest of the text
    expect : [Users -> Expectations],  \* "TODO": generated, not reviewed
    unsafe : BOOLEAN,                  \* a method that changes state, not confirmed
    verify : BOOLEAN,                  \* conclusions rest on the verifying reader
    cors : BOOLEAN,                    \* the CORS policy is probed
    preflight : BOOLEAN,               \* some identity is probed first
    portable : BOOLEAN ]               \* no literal secret, portableRegression accepts it

Severities == 1..5                     \* info, low, medium, high, critical
Kinds == {"job", "guarded", "cases", "policy", "suite", "demo"}
Command ==
  [ kind : Kinds,
    failOn : 0..5,                     \* 0: none
    failOnInconclusive : BOOLEAN,
    allowMutating : BOOLEAN,
    requirePreflight : BOOLEAN,
    out : BOOLEAN, sarif : BOOLEAN,    \* --out and --sarif are given
    json : BOOLEAN ]                   \* --format json

Categories == {"authorization_mismatch", "unexpected_access", "cors_misconfiguration"}
Finding == Users \X Categories

ASSUME CommandAssumption ==
  /\ Order # <<>> /\ Order \in Seq(Ids)
  /\ \A i, k \in DOMAIN Order : Order[i] = Order[k] => i = k
  /\ Bodies \subseteq Body
  /\ Commands \subseteq Command
  /\ \A c \in Commands :
       /\ c.kind = "guarded" => ~c.allowMutating
       /\ c.kind = "demo" => ~c.sarif /\ ~c.failOnInconclusive /\ ~c.json
       /\ c.requirePreflight => c.kind \in {"job", "guarded", "cases"}

\* Numbers of levels are those of model.Severity; every CORS policy is taken to
\* be one that admits credentials.
Rank(category) == IF category = "authorization_mismatch" THEN 2 ELSE 4

\* A result: whether the case could run, how many of its executions were
\* answered, what was found, and the digest of the text it was loaded from.
Result ==
  [ error : {"", "setup_failed", "execution_cancelled"},
    preflightFailed : BOOLEAN,
    executions : {"none", "errored", "answered"},   \* answered: at least one of them
    findings : SUBSET Finding,
    inconclusive : BOOLEAN,
    digest : Bodies \cup {None} ]

\* A file that holds results of cases is told apart from one that holds none.
ASSUME ResultAssumption ==
  /\ None \notin Result
  /\ \A some \in SUBSET Ids : {NoFile, Torn} \cap [some -> Result] = {}

VARIABLES
  cases,      \* the text of each case in its file
  cmd,        \* the command that runs, or ran last
  pc,         \* what it does next
  at,         \* position of the case whose turn it is
  loaded,     \* the cases as this command read them
  results,    \* results[id]: the result kept for a case, None before it ran
  signalled,  \* a guarded job has caught a signal
  caught,     \* it had when the engine returned
  sent,       \* cases whose requests went out
  out,        \* the file --out names
  temp,       \* the temporary file of a guarded job beside it
  sarif,      \* the file --sarif names
  shown,      \* whether the report is on the standard output
  exit,       \* how the command ended
  ran         \* history: which text ran, and what was found

files == <<out, temp, sarif, shown>>
command == <<cmd, pc, at, loaded, results, signalled, caught, sent, files, exit, ran>>

Single == cmd.kind \in {"job", "guarded", "policy", "demo"}
Batch == IF Single THEN {Order[1]} ELSE Ids
Last == IF Single THEN 1 ELSE Len(Order)

\* What the result file holds once it is written.
Payload == [id \in Batch |-> results[id]]

NoResults == [id \in Ids |-> None]

-----------------------------------------------------------------------------
(* Before the first request. *)

Judged(b) == { u \in Users : b.expect[u] \in {"allow", "deny"} }

\* engine.Validate, for the parts of a case this module keeps.
Validates(b) ==
  /\ \A u \in Users : b.expect[u] # "TODO"
  /\ b.unsafe => cmd.allowMutating

\* Mutant: a case is only checked when its turn comes.
Accepted_FirstOnly ==
  /\ cmd.kind \in {"cases", "policy", "suite"} => Validates(loaded[Order[1]])
  /\ cmd.requirePreflight => \A id \in Batch : loaded[id].preflight

\* validateSuite and --require-identity-preflight.  The case of a job is
\* validated by the engine, before it sends anything.
Accepted ==
  /\ cmd.kind \in {"cases", "policy", "suite"} => \A id \in Batch : Validates(loaded[id])
  /\ cmd.requirePreflight => \A id \in Batch : loaded[id].preflight

End(code) == exit' = code /\ pc' = "ended"

Start(c) ==
  /\ pc = "ended"
  /\ cmd' = c /\ pc' = "load" /\ at' = 1 /\ exit' = "none"
  /\ results' = NoResults /\ sent' = {} /\ shown' = FALSE
  /\ signalled' = FALSE /\ caught' = FALSE
  /\ UNCHANGED <<cases, loaded, out, temp, sarif, ran>>

\* The file is read once.  It may be missing or malformed, name a variable that
\* is not set, or, for a policy, not compile.
Load ==
  /\ pc = "load"
  /\ \/ loaded' = [id \in Ids |-> cases[id].body] /\ pc' = "check" /\ UNCHANGED exit
     \/ End("usage") /\ UNCHANGED loaded
  /\ UNCHANGED <<cases, cmd, at, results, signalled, caught, sent, files, ran>>

\* A guarded job may also have a projection of another tool or other options.
Check ==
  /\ pc = "check"
  /\ \/ Accepted /\ pc' = "run" /\ UNCHANGED exit
     \/ ~Accepted /\ End("usage")
     \/ cmd.kind = "guarded" /\ End("usage")
  /\ UNCHANGED <<cases, cmd, at, loaded, results, signalled, caught, sent, files, ran>>

-----------------------------------------------------------------------------
(* Running the cases. *)

\* What a case can be found to do: an identity refused what it should have, or
\* given what it should not, or a CORS policy that lets anybody in.
Findable(b) ==
  { f \in Finding :
      \/ f[2] = "authorization_mismatch" /\ b.expect[f[1]] = "allow"
      \/ f[2] = "unexpected_access" /\ b.expect[f[1]] = "deny"
      \/ f[2] = "cors_misconfiguration" /\ b.cors }

Outcome(error, failed, executions, findings, inconclusive) ==
  [ error |-> error, preflightFailed |-> failed, executions |-> executions,
    findings |-> findings, inconclusive |-> inconclusive, digest |-> None ]

\* Without an answer only the verifying reader finds anything.
Errored(b) ==
  { Outcome("", FALSE, "errored", fs, Judged(b) # {}) :
      fs \in SUBSET { f \in Findable(b) : b.verify /\ f[2] # "cors_misconfiguration" } }

\* Answered, and all of it judged, or not if there was anything to judge.
Conclusive(b) == { Outcome("", FALSE, "answered", fs, FALSE) : fs \in SUBSET Findable(b) }
Inconclusive(b) ==
  { Outcome("", FALSE, "answered", fs, Judged(b) # {}) : fs \in SUBSET Findable(b) }

\* What engine.Run can return for a case that validates: an error of its setup,
\* a failed preflight, no answer at all -- which a verified write may still be
\* judged without -- or answers, judged or not.
Outcomes(b) ==
  {Outcome("setup_failed", FALSE, "none", {}, FALSE)}
  \cup { r \in {Outcome("", TRUE, "none", {}, Judged(b) # {})} : b.preflight }
  \cup Errored(b) \cup Conclusive(b) \cup Inconclusive(b)

\* Mutant: the digest is that of the file when the result is written.
DigestOf_Now(id) == IF cmd.kind = "cases" /\ cases[id].body.portable THEN cases[id].body ELSE None

\* inputDigest: spaces around tokens do not count, a text with a literal secret
\* gets no digest, and only run --cases adds one.
DigestOf(id) == IF cmd.kind = "cases" /\ loaded[id].portable THEN loaded[id] ELSE None

RunCase ==
  LET id == Order[at]
  IN  /\ pc = "run"
      /\ IF Validates(loaded[id])
         THEN \E r \in Outcomes(loaded[id]) :
                /\ cmd.kind = "demo" => r.error = ""     \* its policy has no setup
                /\ results' = [results EXCEPT ![id] = [r EXCEPT !.digest = DigestOf(id)]]
                /\ ran' = ran \cup { [case |-> id, body |-> loaded[id], findings |-> r.findings] }
                /\ sent' = sent \cup {id} /\ pc' = "ran"
                /\ UNCHANGED exit
         ELSE End("usage") /\ UNCHANGED <<results, ran, sent>>
      /\ UNCHANGED <<cases, cmd, at, loaded, signalled, caught, files>>

\* The engine has returned and a guarded job looks whether it was interrupted.
\* A failed setup ends the command, except in a suite, which records it and goes
\* on, and when it was the interruption, which leaves an empty result.
Settle ==
  LET id == Order[at]
      r == results[id]
  IN  /\ pc = "ran"
      /\ caught' = (cmd.kind = "guarded" /\ signalled)
      /\ IF r.error = "setup_failed" /\ cmd.kind # "suite" /\ ~caught'
         THEN End("notExecuted") /\ UNCHANGED <<at, results>>
         ELSE /\ results' = [results EXCEPT ![id].error = IF caught' THEN "execution_cancelled" ELSE @]
              /\ IF at < Last THEN at' = at + 1 /\ pc' = "run" ELSE UNCHANGED at /\ pc' = "out"
              /\ UNCHANGED exit
      /\ UNCHANGED <<cases, cmd, loaded, signalled, sent, files, ran>>

-----------------------------------------------------------------------------
(* Writing the outputs.  A write that fails ends the command. *)

Goto(step) == pc' = step /\ UNCHANGED exit

\* Every step of emit but the write itself.
Emitting == UNCHANGED <<cases, cmd, at, loaded, results, signalled, caught, sent, ran>>

\* Mutant: a guarded job writes like the others.
Atomic_Never == FALSE

\* A guarded job publishes its result by renaming a complete file.
Atomic == cmd.kind = "guarded"

SkipOut == pc = "out" /\ ~cmd.out /\ Goto("sarif") /\ UNCHANGED files /\ Emitting

\* writeJSON truncates the file, or cannot open it.
OpenOut ==
  /\ pc = "out" /\ cmd.out /\ ~Atomic
  /\ \/ out' = Torn /\ Goto("fill out")
     \/ End("usage") /\ UNCHANGED out
  /\ UNCHANGED <<temp, sarif, shown>> /\ Emitting

\* Mutant: a full disk is not noticed.
FillOut_Unchecked ==
  /\ pc = "fill out" /\ out' \in {Payload, Torn} /\ Goto("sarif")
  /\ UNCHANGED <<temp, sarif, shown>> /\ Emitting

FillOut ==
  /\ pc = "fill out"
  /\ \/ out' = Payload /\ Goto("sarif")
     \/ End("usage") /\ UNCHANGED out
  /\ UNCHANGED <<temp, sarif, shown>> /\ Emitting

\* writeJSONAtomic writes a file beside it; what fails removes that file, what
\* is killed leaves it there.
OpenTemp ==
  /\ pc = "out" /\ cmd.out /\ Atomic
  /\ \/ temp' = Torn /\ Goto("fill temp")
     \/ End("usage") /\ UNCHANGED temp
  /\ UNCHANGED <<out, sarif, shown>> /\ Emitting

FillTemp ==
  /\ pc = "fill temp"
  /\ \/ temp' = Payload /\ Goto("rename")
     \/ temp' = NoFile /\ End("usage")
  /\ UNCHANGED <<out, sarif, shown>> /\ Emitting

Rename ==
  /\ pc = "rename" /\ temp' = NoFile
  /\ \/ out' = temp /\ Goto("sarif")
     \/ End("usage") /\ UNCHANGED out
  /\ UNCHANGED <<sarif, shown>> /\ Emitting

\* writeSARIF.
OpenSarif ==
  /\ pc = "sarif"
  /\ IF cmd.sarif
     THEN \/ sarif' = Torn /\ Goto("fill sarif")
          \/ End("usage") /\ UNCHANGED sarif
     ELSE Goto("show") /\ UNCHANGED sarif
  /\ UNCHANGED <<out, temp, shown>> /\ Emitting

FillSarif ==
  /\ pc = "fill sarif"
  /\ \/ sarif' = Payload /\ Goto("show")
     \/ End("usage") /\ UNCHANGED sarif
  /\ UNCHANGED <<out, temp, shown>> /\ Emitting

\* The result goes to the standard output unless --out has it; a report always
\* does.  demo does not look at the error of its summary.
Show ==
  /\ pc = "show"
  /\ IF cmd.json /\ cmd.out THEN Goto("gate") /\ UNCHANGED shown
     ELSE \/ shown' = TRUE /\ Goto("gate")
          \/ UNCHANGED shown /\ IF cmd.kind = "demo" THEN Goto("gate") ELSE End("usage")
  /\ UNCHANGED <<out, temp, sarif>> /\ Emitting

-----------------------------------------------------------------------------
(* The exit code. *)

Unreached(r) == r.executions = "errored"

Breach == \E id \in Batch : \E f \in results[id].findings : Rank(f[2]) >= cmd.failOn

\* Mutant: nothing was tested only if no case reached anything.
Untested_Suite ==
  \/ \E id \in Batch : results[id].preflightFailed \/ results[id].error # ""
  \/ \A id \in Batch : Unreached(results[id])

\* Looked at case by case.
Untested ==
  \E id \in Batch : results[id].preflightFailed \/ results[id].error # "" \/ Unreached(results[id])

\* gate, then gateInconclusive.
Verdict ==
  IF Untested THEN "notExecuted"
  ELSE IF cmd.failOn > 0 /\ Breach THEN "findings"
  ELSE IF cmd.failOnInconclusive /\ \E id \in Batch : results[id].inconclusive
       THEN "inconclusive" ELSE "ok"

\* What an interrupted job ends in, whatever it found.
Interrupted == IF results[Order[1]].executions = "answered" THEN "inconclusive" ELSE "notExecuted"

Gate ==
  /\ pc = "gate" /\ End(IF caught THEN Interrupted ELSE Verdict)
  /\ UNCHANGED files /\ Emitting

\* The first signal only stops the requests of a guarded job that has begun.
Signal ==
  /\ cmd.kind = "guarded" /\ pc \notin {"ended", "load", "check"} /\ ~signalled
  /\ signalled' = TRUE
  /\ UNCHANGED <<cases, cmd, pc, at, loaded, results, caught, sent, files, exit, ran>>

\* Every other command dies of a signal, and each of a crash.
Kill ==
  /\ pc # "ended" /\ End("killed")
  /\ UNCHANGED files /\ Emitting

Step ==
  \/ Load \/ Check \/ RunCase \/ Settle
  \/ SkipOut \/ OpenOut \/ FillOut \/ OpenTemp \/ FillTemp \/ Rename
  \/ OpenSarif \/ FillSarif \/ Show
  \/ Gate \/ Signal \/ Kill

-----------------------------------------------------------------------------
(* Properties. *)

Tested(r) == r.error = "" /\ ~r.preflightFailed /\ r.executions = "answered"
AllTested == \A id \in Batch : Tested(results[id])
Gates(r) == { f \in r.findings : cmd.failOn # 0 /\ Rank(f[2]) >= cmd.failOn }

\* The exit code is what happened: success means that every case of the batch
\* was tested, 2 that all were and one breached the threshold, 3 that one was
\* not tested, whatever the others found, 4 that all were tested, none breached
\* and one could not be judged -- or that an interruption stopped requests some
\* of which were answered (gate, gateInconclusive, runError).
VerdictTruthful ==
  LET judgedAll == \A id \in Batch : ~results[id].inconclusive
      breached == \E id \in Batch : Gates(results[id]) # {}
  IN  /\ exit = "ok" => /\ AllTested /\ ~breached /\ ~caught
                        /\ cmd.failOnInconclusive => judgedAll
      /\ exit = "findings" => AllTested /\ breached /\ ~caught
      /\ exit = "notExecuted" => \E id \in Batch : results[id] # None /\ ~Tested(results[id])
      /\ exit = "inconclusive" =>
           IF caught THEN results[Order[1]].executions = "answered"
           ELSE AllTested /\ ~breached /\ cmd.failOnInconclusive /\ ~judgedAll

\* No request of a batch goes out before every case of it was found valid: a bad
\* fifth case does not show after four cases of live traffic (validateSuite).
ValidatedFirst ==
  sent # {} => \A id \in Batch : Validates(loaded[id])

\* A setup that fails ends every command but a suite before anything is written.
Aborted ==
  cmd.kind # "suite" /\ \E id \in Batch : results[id] # None /\ results[id].error = "setup_failed"

\* Whoever reads an exit code that speaks of results finds the results: every
\* file asked for is complete and holds what this command found in every case,
\* also when it found something or tested nothing (emit runs before gate).
Reported ==
  exit \in {"ok", "findings", "notExecuted", "inconclusive"} /\ ~Aborted =>
    /\ \A id \in Batch : results[id] # None
    /\ cmd.out => out = Payload
    /\ cmd.sarif => sarif = Payload
    /\ cmd.kind # "demo" /\ ~(cmd.out /\ cmd.json) => shown

\* A guarded job never damages the result file of an earlier one: whatever fails
\* and whenever it is killed, the file stays as it was until a complete result
\* takes its place (writeJSONAtomic).
PublishedWhole ==
  [][cmd.kind = "guarded" /\ out' # out => out' \notin {NoFile, Torn} /\ out' = Payload]_<<out, cmd>>
=============================================================================
