------------------------------ MODULE HttpApi ------------------------------
(***************************************************************************)
(* The HTTP surface of the service: what each operation makes of a body,   *)
(* in which order it is refused, how errors become RFC 9457 documents, and *)
(* what the OpenAPI document says of all that (service/routes.py,          *)
(* problem.py).                                                            *)
(*                                                                         *)
(* Of the sessions only what decides about a refusal is kept; Verifier has *)
(* the verdicts and the suspension, SessionStore the deadlines.            *)
(***************************************************************************)
EXTENDS Integers, FiniteSets

CONSTANTS SessionId, Cap, Nothing

ASSUME HttpAssumption == Cap \in Int

VARIABLES
  session,   \* each session: "unknown", "open" or "spent"
  openapi,   \* app.openapi_schema: Nothing until it is asked for, then cached
  reply      \* the last reply: of which operation, its status, its body's model

vars == <<session, openapi, reply>>

Operation == {"createSession", "submitPresentation", "debugTranscript", "health"}

Init ==
  /\ session = [id \in SessionId |-> "unknown"]
  /\ openapi = Nothing
  /\ reply = Nothing

-----------------------------------------------------------------------------
(* Replies.                                                                *)

Succeeds(op, status) == reply' = [op |-> op, status |-> status, model |-> "success"]

\* install_problem_handlers: every HTTPException and every body that pydantic
\* refuses is rendered by _problem, the latter with its errors.
Problem(op, status) == reply' = [op |-> op, status |-> status, model |-> "Problem"]
ValidationProblem(op) == reply' = [op |-> op, status |-> 422, model |-> "ValidationProblem"]

\* Whether the framework can read the body at all: one in no encoding of text,
\* one that is text and not JSON, and JSON, for the models to validate.
Form == {"undecodable", "not JSON", "JSON"}

\* CreateSessionRequest, with what can be wrong in it.
CreateBody == [form : Form,
               checks : {"missing", "no strings", "other", "supported"},
               expected_origin : {"absent", "valid", "invalid"}, extra : BOOLEAN]
ValidCreate(body) ==
  /\ body.form = "JSON" /\ body.checks \in {"other", "supported"}
  /\ body.expected_origin # "invalid" /\ ~body.extra

\* DigitalCredentialData: a response of any text, and nothing else.
SubmitBody == [form : Form, response : {"missing", "no string", "text"}, extra : BOOLEAN]
ValidSubmit(body) == body.form = "JSON" /\ body.response = "text" /\ ~body.extra

\* The framework's own HTTPException, raised before the path is looked at and
\* before the handler runs.
Unparsed(op) == Problem(op, 400) /\ UNCHANGED session

Known == {id \in SessionId : session[id] # "unknown"}

CreateSession(body) ==
  /\ IF body.form = "undecodable"
       THEN Unparsed("createSession")
     ELSE IF ~ValidCreate(body)
       THEN ValidationProblem("createSession") /\ UNCHANGED session
     ELSE IF body.checks # "supported"
       THEN Problem("createSession", 400) /\ UNCHANGED session
     ELSE IF Cardinality(Known) >= Cap
       THEN Problem("createSession", 503) /\ UNCHANGED session
       ELSE \E id \in SessionId \ Known :
              /\ session' = [session EXCEPT ![id] = "open"]
              /\ Succeeds("createSession", 201)
  /\ UNCHANGED openapi

\* A mistake: the attempt is taken before the body is looked at.
FaultySubmitPresentation(id, body) ==
  /\ session' = [session EXCEPT ![id] = IF @ = "open" THEN "spent" ELSE @]
  /\ IF body.form = "undecodable" THEN Problem("submitPresentation", 400)
     ELSE IF ~ValidSubmit(body) THEN ValidationProblem("submitPresentation")
     ELSE CASE session[id] = "unknown" -> Problem("submitPresentation", 404)
            [] session[id] = "spent" -> Problem("submitPresentation", 409)
            [] OTHER -> Succeeds("submitPresentation", 200)
  /\ UNCHANGED openapi

SubmitPresentation(id, body) ==
  /\ IF body.form = "undecodable"
       THEN Unparsed("submitPresentation")
     ELSE IF ~ValidSubmit(body)
       THEN ValidationProblem("submitPresentation") /\ UNCHANGED session
     ELSE IF session[id] = "unknown"
       THEN Problem("submitPresentation", 404) /\ UNCHANGED session
     ELSE IF session[id] = "spent"
       THEN Problem("submitPresentation", 409) /\ UNCHANGED session
       ELSE /\ session' = [session EXCEPT ![id] = "spent"]
            /\ Succeeds("submitPresentation", 200)
  /\ UNCHANGED openapi

DebugTranscript(id) ==
  /\ IF session[id] = "unknown" THEN Problem("debugTranscript", 404)
     ELSE Succeeds("debugTranscript", 200)
  /\ UNCHANGED <<session, openapi>>

Health == Succeeds("health", 200) /\ UNCHANGED <<session, openapi>>

\* Sessions expire.
Expire ==
  /\ \E ids \in SUBSET Known :
       session' = [id \in SessionId |-> IF id \in ids THEN "unknown" ELSE session[id]]
  /\ reply' = Nothing
  /\ UNCHANGED openapi

-----------------------------------------------------------------------------
(* The OpenAPI document: of each operation the model of each status, and   *)
(* the schemas that are registered.                                        *)

\* A mistake: what the store raises at its cap is forgotten.
FaultyDeclared(op) ==
  CASE op = "createSession" -> {400}
    [] op = "submitPresentation" -> {404, 409}
    [] op = "debugTranscript" -> {404}
    [] OTHER -> {}
\* problem_responses, as each route passes it to its decorator
Declared(op) ==
  CASE op = "createSession" -> {400, 503}
    [] op = "submitPresentation" -> {404, 409}
    [] op = "debugTranscript" -> {404}
    [] OTHER -> {}

Success(op) == IF op = "createSession" THEN 201 ELSE 200

\* The library documents a 422 wherever there is a body or a parameter.
Generated ==
  [responses |->
     [op \in Operation |->
       [status \in {Success(op)} \cup Declared(op)
                   \cup (IF op = "health" THEN {} ELSE {422}) |->
         CASE status = Success(op) -> "success"
           [] status = 422 -> "HTTPValidationError"
           [] OTHER -> "Problem"]],
   schemas |-> {"success", "HTTPValidationError", "ValidationError"}]

\* A mistake: only operations with a body are rewritten.
FaultyRewritten(responses) ==
  [op \in Operation |->
    [status \in DOMAIN responses[op] |->
      IF status = 422 /\ op # "debugTranscript" THEN "ValidationProblem"
      ELSE responses[op][status]]]
Rewritten(responses) ==
  [op \in Operation |->
    [status \in DOMAIN responses[op] |->
      IF status = 422 THEN "ValidationProblem" ELSE responses[op][status]]]

UseProblemForValidation(schema) ==
  LET touched == \E op \in Operation : 422 \in DOMAIN schema.responses[op] IN
  [responses |-> Rewritten(schema.responses),
   schemas |-> IF touched
     THEN (schema.schemas \cup {"Problem", "ValidationProblem"})
            \ {"HTTPValidationError", "ValidationError"}
     ELSE schema.schemas \cup {"Problem"}]

\* generate() returns what it cached, which is rewritten in place, again.
OpenApi ==
  /\ openapi' = UseProblemForValidation(IF openapi = Nothing THEN Generated ELSE openapi)
  /\ UNCHANGED <<session, reply>>

Next ==
  \/ \E body \in CreateBody : CreateSession(body)
  \/ \E id \in SessionId, body \in SubmitBody : SubmitPresentation(id, body)
  \/ \E id \in SessionId : DebugTranscript(id)
  \/ Health \/ Expire \/ OpenApi

Spec == Init /\ [][Next]_vars

-----------------------------------------------------------------------------

(***************************************************************************)
(* What the service answers, its OpenAPI document has announced: status    *)
(* and model of every reply, errors included, however often the cached     *)
(* document was rewritten (routes.py:160, 211-214, 257, problem.py:84-151).*)
(* One reply is not in it: submitPresentation declares no 400, and that is *)
(* what the framework answers to a body it cannot decode, there as in      *)
(* createSession, which declares one. It is a problem document all the     *)
(* same.                                                                   *)
(***************************************************************************)
RepliesDocumented ==
  openapi # Nothing /\ reply # Nothing =>
    \/ /\ reply.status \in DOMAIN openapi.responses[reply.op]
       /\ openapi.responses[reply.op][reply.status] = reply.model
    \/ reply = [op |-> "submitPresentation", status |-> 400, model |-> "Problem"]

(***************************************************************************)
(* The document refers to no schema it does not have: the stock schemas    *)
(* are dropped only after every reference to them (problem.py:94-128).     *)
(***************************************************************************)
RefsResolve ==
  openapi # Nothing =>
    \A op \in Operation : \A status \in DOMAIN openapi.responses[op] :
      openapi.responses[op][status] \in openapi.schemas

(***************************************************************************)
(* A reply that refuses a request leaves every session as it was: a body   *)
(* that does not validate does not cost a session its one attempt, nor an  *)
(* unsupported check a place in the store (routes.py:175-183, 216-238).    *)
(***************************************************************************)
RefusalCostsNothing ==
  [][reply' # Nothing /\ reply'.status >= 400 => UNCHANGED session]_vars

=============================================================================
