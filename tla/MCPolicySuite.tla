---------------------------- MODULE MCPolicySuite ----------------------------
(* Suites, policies and answers of PolicySuite for TLC. *)
EXTENDS PolicySuite, TLC

NoProfiles == [label \in Labels |-> None]

Person(id, role, tenant) ==
  [id |-> id, role |-> role, tenant |-> tenant, anonymous |-> FALSE, variable |-> "TOKEN"]
Ann == Person("ann", "owner", "A")
Bob == Person("bob", "user", "B")
Kim == Person("kim", "reader", "A")
Eve == [Person("eve", "public", Missing) EXCEPT !.anonymous = TRUE, !.variable = Missing]
Amy == Person("amy", "owner", "A")

Everybody == <<Ann, Bob, Eve, Kim>>
Staff == <<Bob, Ann>>
Unset == <<Ann, [Bob EXCEPT !.variable = "UNSET"]>>

Expect(owner, user, public) ==
  [r \in Roles |-> CASE r = "owner" -> owner [] r = "user" -> user [] r = "public" -> public
                     [] OTHER -> "none"]

\* The policy every other one is a variation of: only the owner may read.
Base ==
  [ endpoint |-> "users", expect |-> Expect("allow", "deny", "none"), owner |-> "owner",
    named |-> TRUE, tenantField |-> FALSE, forbidden |-> {"user"}, verifier |-> Missing,
    setupAs |-> Missing, resetAs |-> Missing, rules |-> {}, profiles |-> {},
    defined |-> NoProfiles, bound |-> TRUE, mutating |-> FALSE, unsafe |-> FALSE,
    denyStatus |-> {}, denyWhen |-> FALSE, unauthorizedIsDenial |-> FALSE ]

Private == [decision |-> "allow", roles |-> {}]          \* a private field is there
ForUsers == [decision |-> "deny", roles |-> {"user"}]    \* an error code of one role
Refusal == [decision |-> "deny", roles |-> {}]           \* an error code

Confirmed == [confirmed |-> TRUE, endpoints |-> {"users"}, rules |-> {Refusal}]
Draft == [Confirmed EXCEPT !.confirmed = FALSE]
Permitting == [Confirmed EXCEPT !.rules = {Private}]
Own(profile) == [label \in Labels |-> profile]

\* Policies that are run, by the way their answers are judged ...
Judging ==
  { [Base EXCEPT !.tenantField = t, !.named = n, !.owner = o] :
      t \in BOOLEAN, n \in BOOLEAN, o \in {"owner", "nobody", Missing} }
  \cup { [Base EXCEPT !.expect = Expect("skip", "deny", "deny"), !.forbidden = {"owner", "public"}],
         [Base EXCEPT !.expect = Expect("none", "allow", "deny"), !.denyStatus = {404}],
         [Base EXCEPT !.denyWhen = TRUE, !.unauthorizedIsDenial = TRUE],
         [Base EXCEPT !.rules = {Private, ForUsers}],
         [Base EXCEPT !.rules = {ForUsers}, !.denyWhen = TRUE],
         [Base EXCEPT !.profiles = Labels, !.defined = Own(Confirmed)],
         [Base EXCEPT !.rules = {Private}, !.profiles = Labels],
         [Base EXCEPT !.verifier = "reader", !.resetAs = "owner", !.unsafe = TRUE, !.mutating = TRUE] }

\* ... and policies of which some do not compile or validate.
Broken ==
  { [Base EXCEPT !.expect = Expect("allow", "TODO", "none")], [Base EXCEPT !.bound = FALSE],
    [Base EXCEPT !.verifier = "user"], [Base EXCEPT !.verifier = "nobody"],
    [Base EXCEPT !.setupAs = "public"], [Base EXCEPT !.setupAs = "owner"],
    [Base EXCEPT !.verifier = "reader", !.setupAs = "reader"],
    [Base EXCEPT !.rules = {[ForUsers EXCEPT !.roles = {"reader"}]}],
    [Base EXCEPT !.profiles = Labels, !.defined = Own(Draft)],
    [Base EXCEPT !.profiles = Labels, !.defined = Own(Permitting)],
    [Base EXCEPT !.unsafe = TRUE], [Base EXCEPT !.denyStatus = {200}],
    [Base EXCEPT !.expect = Expect("allow", "deny", "deny")] }

\* Answers with a body that says something, and without.
Body(status, denied, matches, sensitive, tenant) ==
  [ error |-> FALSE, status |-> status, denied |-> {denied}, matches |-> matches,
    verdict |-> IF denied THEN "denied" ELSE "allowed", sensitive |-> sensitive, tenant |-> tenant ]
NoAnswer ==
  [ Body(500, FALSE, {}, {}, Missing) EXCEPT !.error = TRUE, !.verdict = "inconclusive" ]
AllAnswers ==
  {NoAnswer}
  \cup { Body(200, FALSE, m, s, t) :
           m \in {{}, {Private}}, s \in {{}, {"object_property_exposure"}}, t \in {Missing, "A"} }
  \cup { Body(s, TRUE, {Refusal, ForUsers}, {}, Missing) : s \in {200, 401} }
  \cup { Body(404, FALSE, {Private, Refusal}, {"sensitive_data_exposure"}, "A") }
  \cup { Body(s, FALSE, {}, {}, Missing) : s \in {403, 500} }

\* A body in which two spellings of the field disagree.
Mixed == [Body(200, FALSE, {}, {}, Missing) EXCEPT !.denied = {TRUE, FALSE}]
MixedAnswers == AllAnswers \cup {Mixed}

One(p, file) == [policy |-> p, id |-> Missing, file |-> file, tenant |-> Missing]
Plain ==
  [ suite |-> TRUE, entries |-> <<One(Base, "shared")>>, shared |-> NoProfiles,
    allowMutating |-> FALSE, target |-> Answers,
    files |-> [f \in Files |-> IF f = "shared" THEN Everybody ELSE Staff],
    edited |-> [f \in Files |-> IF f = "shared" THEN Everybody ELSE Staff] ]

\* One entry, for every answer: with a tenant it states, the suite's profiles,
\* two owners, and as a single policy, which may leave a role to nobody.
Judged ==
  { [Plain EXCEPT !.entries[1].policy = p, !.shared = s] :
      p \in Judging, s \in {NoProfiles, Own(Confirmed)} }
  \cup { [Plain EXCEPT !.entries[1] = [One(p, "extra") EXCEPT !.tenant = t], !.suite = FALSE] :
           p \in Judging, t \in {Missing, "A"} }
  \cup { [Plain EXCEPT !.files["shared"] = <<Ann, Bob, Amy>>] }

\* Two entries, of which one may not compile, and a file that is edited meanwhile.
Compiled ==
  { [Plain EXCEPT !.entries = <<One(Base, "shared"), [One(p, f) EXCEPT !.id = id]>>,
                  !.allowMutating = m, !.edited[f] = edited,
                  !.target = {Body(403, FALSE, {}, {}, Missing)}] :
      p \in Broken \cup {Base}, f \in Files, id \in {Missing, "second"}, m \in BOOLEAN,
      edited \in {Staff, Unset, <<>>, <<Eve, Amy, Bob>>, <<Ann, Bob, Bob>>} }

AllInvocations == Judged \cup Compiled
=============================================================================
