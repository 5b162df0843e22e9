----------------------------- MODULE MCCaseSetup -----------------------------
(* Cases of CaseSetup for TLC. *)
EXTENDS CaseSetup, TLC

CONSTANTS owner, token, object

Login == [as |-> Nobody, uses |-> {}, captures |-> {token}]
Create(uses) == [as |-> owner, uses |-> uses, captures |-> {object}]
Touch == [as |-> owner, uses |-> {object}, captures |-> {}]

\* No step, a step that captures nothing, the usual handshakes, a variable that
\* is captured twice, and one that is used before it is captured.
SomeSteps ==
  { <<>>, <<[Touch EXCEPT !.uses = {}]>>, <<Login>>, <<Login, Create({token})>>,
    <<Create({}), Touch>>, <<Login, Create({}), Login>>, <<Touch, Create({})>>,
    <<[Login EXCEPT !.captures = {token, object}], Create({token}), Touch>> }

\* References in the request, the reader's requests and the credentials.
SomeUses ==
  { [p \in Parts |-> CASE p \in {"request", "reset", "object_id"} -> request
                       [] p = "verification" -> {object}
                       [] p = owner -> credential
                       [] p = Reader -> credential
                       [] OTHER -> {}] :
      request \in {{}, {object}}, credential \in {{}, {token}} }

SetupCases ==
  [ steps : SomeSteps, uses : SomeUses, probed : {{}, {owner, Reader}}, verify : BOOLEAN,
    reset : {{}, {owner}} ]

\* The handshake of the README: log in, then create an object as the owner, whose
\* credential is the token of the login.
HandshakeCases ==
  { [steps |-> <<Login, Create({})>>, uses |-> uses, probed |-> {}, verify |-> verify,
     reset |-> {}] : uses \in SomeUses, verify \in BOOLEAN }
=============================================================================
