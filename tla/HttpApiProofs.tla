--------------------------- MODULE HttpApiProofs ---------------------------
(***************************************************************************)
(* What is proved of HttpApi, for every set of sessions and every cap.     *)
(***************************************************************************)
EXTENDS HttpApi, TLAPS

\* The document, rewritten once.
Document == UseProblemForValidation(Generated)

\* The document has this model for that status of the operation.
Announces(document, op, status, model) ==
  /\ status \in DOMAIN document.responses[op]
  /\ document.responses[op][status] = model

\* The framework's answer to a submission it cannot decode, the one reply that
\* is not in the document.
Undeclared == [op |-> "submitPresentation", status |-> 400, model |-> "Problem"]

\* Whatever the document is asked for, and whenever, it is Document; and any
\* other reply is in it, even while nobody has asked for the document yet.
CachedIsDocument == openapi \in {Nothing, Document}
ReplyAnnounced ==
  reply # Nothing =>
    Announces(Document, reply.op, reply.status, reply.model) \/ reply = Undeclared
Inv == CachedIsDocument /\ ReplyAnnounced

-----------------------------------------------------------------------------
(* The document.                                                           *)

Statuses(op) ==
  {Success(op)} \cup Declared(op) \cup (IF op = "health" THEN {} ELSE {422})

LEMMA SuccessStatus == \A op \in Operation : Success(op) \in {200, 201}
BY DEF Success

LEMMA GeneratedDocument ==
  ASSUME NEW op \in Operation
  PROVE  /\ DOMAIN Generated.responses[op] = Statuses(op)
         /\ \A status \in Statuses(op) :
              Generated.responses[op][status] =
                IF status = Success(op) THEN "success"
                ELSE IF status = 422 THEN "HTTPValidationError" ELSE "Problem"
<1>1. Generated.responses[op] =
        [status \in Statuses(op) |->
           CASE status = Success(op) -> "success"
             [] status = 422 -> "HTTPValidationError"
             [] OTHER -> "Problem"]
  BY Zenon DEF Generated, Statuses
<1>2. DOMAIN Generated.responses[op] = Statuses(op)
  BY <1>1
<1>3. ASSUME NEW status \in Statuses(op)
      PROVE  Generated.responses[op][status] =
               IF status = Success(op) THEN "success"
               ELSE IF status = 422 THEN "HTTPValidationError" ELSE "Problem"
  <2>1. Generated.responses[op][status] =
          (CASE status = Success(op) -> "success"
             [] status = 422 -> "HTTPValidationError"
             [] OTHER -> "Problem")
    BY <1>1
  <2>2. QED BY <2>1, SuccessStatus
<1>4. QED BY <1>2, <1>3

LEMMA RewrittenDocument ==
  ASSUME NEW responses, NEW op \in Operation
  PROVE  /\ DOMAIN Rewritten(responses)[op] = DOMAIN responses[op]
         /\ \A status \in DOMAIN responses[op] :
              Rewritten(responses)[op][status] =
                IF status = 422 THEN "ValidationProblem" ELSE responses[op][status]
BY DEF Rewritten

LEMMA RewrittenTwice ==
  ASSUME NEW responses
  PROVE  Rewritten(Rewritten(responses)) = Rewritten(responses)
<1> DEFINE once == Rewritten(responses)
           twice == Rewritten(once)
<1>1. ASSUME NEW op \in Operation
      PROVE  twice[op] = once[op]
  <2>1. once[op] = [status \in DOMAIN responses[op] |->
                      IF status = 422 THEN "ValidationProblem" ELSE responses[op][status]]
    BY <1>1 DEF Rewritten
  <2>2. twice[op] = [status \in DOMAIN once[op] |->
                       IF status = 422 THEN "ValidationProblem" ELSE once[op][status]]
    BY <1>1 DEF Rewritten
  <2> HIDE DEF once, twice
  <2>3. DOMAIN once[op] = DOMAIN responses[op]
    BY <2>1
  <2>4. \A status \in DOMAIN responses[op] :
          (IF status = 422 THEN "ValidationProblem" ELSE once[op][status]) = once[op][status]
    BY <2>1
  <2>5. QED BY <2>1, <2>2, <2>3, <2>4
<1>2. /\ once = [op \in Operation |-> once[op]]
      /\ twice = [op \in Operation |-> twice[op]]
  BY DEF Rewritten
<1> HIDE DEF once, twice
<1>3. twice = once
  BY <1>1, <1>2
<1>4. QED BY <1>3 DEF once, twice

Final == {"success", "Problem", "ValidationProblem"}

\* Every operation but health has a 422, so the stock schemas are dropped.
LEMMA HasValidation ==
  /\ "createSession" \in Operation
  /\ 422 \in DOMAIN Generated.responses["createSession"]
<1>1. "createSession" \in Operation
  BY DEF Operation
<1>2. 422 \in Statuses("createSession")
  BY DEF Statuses
<1>3. QED BY <1>1, <1>2, GeneratedDocument

LEMMA DocumentParts ==
  Document = [responses |-> Rewritten(Generated.responses), schemas |-> Final]
<1>1. Document = [responses |-> Rewritten(Generated.responses),
                  schemas |-> (Generated.schemas \cup {"Problem", "ValidationProblem"})
                                \ {"HTTPValidationError", "ValidationError"}]
  BY HasValidation DEF Document, UseProblemForValidation
<1>2. Generated.schemas = {"success", "HTTPValidationError", "ValidationError"}
  BY DEF Generated
<1>3. (Generated.schemas \cup {"Problem", "ValidationProblem"})
        \ {"HTTPValidationError", "ValidationError"} = Final
  BY <1>2 DEF Final
<1>4. QED BY <1>1, <1>3

\* What it has for each status of each operation.
LEMMA DocumentStatuses ==
  ASSUME NEW op \in Operation
  PROVE  /\ DOMAIN Document.responses[op] = Statuses(op)
         /\ \A status \in Statuses(op) :
              Document.responses[op][status] =
                IF status = 422 THEN "ValidationProblem"
                ELSE IF status = Success(op) THEN "success" ELSE "Problem"
<1>1. Document.responses = Rewritten(Generated.responses)
  BY DocumentParts
<1>2. DOMAIN Document.responses[op] = Statuses(op)
  BY <1>1, RewrittenDocument, GeneratedDocument
<1>3. ASSUME NEW status \in Statuses(op)
      PROVE  Document.responses[op][status] =
               IF status = 422 THEN "ValidationProblem" ELSE Generated.responses[op][status]
  BY <1>1, GeneratedDocument, RewrittenDocument
<1>4. QED BY <1>2, <1>3, GeneratedDocument, SuccessStatus

\* generate() rewrites the cached document in place each time it is asked for
\* it; from the second time on nothing is left to rewrite.
LEMMA RewritingIsIdempotent == UseProblemForValidation(Document) = Document
<1>1. Document.responses = Rewritten(Generated.responses) /\ Document.schemas = Final
  BY DocumentParts
<1>2. Rewritten(Document.responses) = Document.responses
  BY <1>1, RewrittenTwice
<1>3. 422 \in DOMAIN Document.responses["createSession"]
  BY <1>1, HasValidation, RewrittenDocument
<1>4. (Final \cup {"Problem", "ValidationProblem"})
        \ {"HTTPValidationError", "ValidationError"} = Final
  BY DEF Final
<1>5. UseProblemForValidation(Document) =
        [responses |-> Rewritten(Document.responses),
         schemas |-> (Document.schemas \cup {"Problem", "ValidationProblem"})
                       \ {"HTTPValidationError", "ValidationError"}]
  BY <1>3, HasValidation DEF UseProblemForValidation
<1>6. QED BY <1>1, <1>2, <1>4, <1>5, DocumentParts

-----------------------------------------------------------------------------
(* The replies.                                                            *)

LEMMA StatusesOf ==
  /\ Statuses("createSession") = {201, 400, 503, 422}
  /\ Statuses("submitPresentation") = {200, 404, 409, 422}
  /\ Statuses("debugTranscript") = {200, 404, 422}
  /\ Statuses("health") = {200}
<1>1. Declared("createSession") = {400, 503} /\ Declared("submitPresentation") = {404, 409}
  BY DEF Declared
<1>2. Declared("debugTranscript") = {404} /\ Declared("health") = {}
  BY DEF Declared
<1>3. QED BY <1>1, <1>2 DEF Statuses, Success

LEMMA SuccessAnnounced ==
  ASSUME NEW op \in Operation, Succeeds(op, Success(op))
  PROVE  ReplyAnnounced'
<1>1. Success(op) \in Statuses(op) /\ Success(op) # 422
  BY SuccessStatus DEF Statuses
<1>2. Document.responses[op][Success(op)] = "success"
  BY <1>1, DocumentStatuses
<1>3. QED BY <1>1, <1>2, DocumentStatuses DEF Succeeds, ReplyAnnounced, Announces

LEMMA ProblemAnnounced ==
  ASSUME NEW op \in Operation, NEW status \in Declared(op), Problem(op, status),
         status \notin {200, 201, 422}
  PROVE  ReplyAnnounced'
<1>1. status \in Statuses(op)
  BY DEF Statuses
<1>2. Document.responses[op][status] = "Problem"
  BY <1>1, DocumentStatuses, SuccessStatus
<1>3. QED BY <1>1, <1>2, DocumentStatuses DEF Problem, ReplyAnnounced, Announces

LEMMA ValidationAnnounced ==
  ASSUME NEW op \in Operation \ {"health"}, ValidationProblem(op)
  PROVE  ReplyAnnounced'
<1>1. 422 \in Statuses(op)
  BY DEF Statuses
<1>2. QED BY <1>1, DocumentStatuses DEF ValidationProblem, ReplyAnnounced, Announces

LEMMA InitInv == Init => Inv
BY DEF Init, Inv, CachedIsDocument, ReplyAnnounced

LEMMA CreateStep ==
  ASSUME NEW body \in CreateBody, CreateSession(body)
  PROVE  ReplyAnnounced' /\ UNCHANGED openapi
<1>1. "createSession" \in Operation \ {"health"} /\ Success("createSession") = 201
  BY DEF Operation, Success
<1>2. Declared("createSession") = {400, 503}
  BY DEF Declared
<1>3. \/ ValidationProblem("createSession")
      \/ Problem("createSession", 400)
      \/ Problem("createSession", 503)
      \/ Succeeds("createSession", Success("createSession"))
  BY <1>1 DEF CreateSession, Unparsed
<1>4. QED
  BY <1>1, <1>2, <1>3, ValidationAnnounced, ProblemAnnounced, SuccessAnnounced
  DEF CreateSession

LEMMA SubmitStep ==
  ASSUME NEW id \in SessionId, NEW body \in SubmitBody, SubmitPresentation(id, body)
  PROVE  ReplyAnnounced' /\ UNCHANGED openapi
<1>1. "submitPresentation" \in Operation \ {"health"} /\ Success("submitPresentation") = 200
  BY DEF Operation, Success
<1>2. Declared("submitPresentation") = {404, 409}
  BY DEF Declared
<1>3. \/ Problem("submitPresentation", 400)
      \/ ValidationProblem("submitPresentation")
      \/ Problem("submitPresentation", 404)
      \/ Problem("submitPresentation", 409)
      \/ Succeeds("submitPresentation", Success("submitPresentation"))
  BY <1>1 DEF SubmitPresentation, Unparsed
<1>4. CASE Problem("submitPresentation", 400)
  BY <1>4 DEF SubmitPresentation, Problem, ReplyAnnounced, Undeclared
<1>5. QED
  BY <1>1, <1>2, <1>3, <1>4, ValidationAnnounced, ProblemAnnounced, SuccessAnnounced
  DEF SubmitPresentation

LEMMA DebugStep ==
  ASSUME NEW id \in SessionId, DebugTranscript(id)
  PROVE  ReplyAnnounced' /\ UNCHANGED openapi
<1>1. "debugTranscript" \in Operation \ {"health"} /\ Success("debugTranscript") = 200
  BY DEF Operation, Success
<1>2. Declared("debugTranscript") = {404}
  BY DEF Declared
<1>3. \/ Problem("debugTranscript", 404)
      \/ Succeeds("debugTranscript", Success("debugTranscript"))
  BY <1>1 DEF DebugTranscript
<1>4. QED
  BY <1>1, <1>2, <1>3, ProblemAnnounced, SuccessAnnounced DEF DebugTranscript

LEMMA HealthStep ==
  ASSUME Health
  PROVE  ReplyAnnounced' /\ UNCHANGED openapi
<1>1. "health" \in Operation /\ Success("health") = 200
  BY DEF Operation, Success
<1>2. QED BY <1>1, SuccessAnnounced DEF Health

LEMMA OpenApiStep ==
  ASSUME Inv, OpenApi
  PROVE  Inv'
<1>1. openapi' = Document
  BY RewritingIsIdempotent DEF OpenApi, Inv, CachedIsDocument, Document
<1>2. reply' = reply
  BY DEF OpenApi
<1>3. QED BY <1>1, <1>2 DEF Inv, CachedIsDocument, ReplyAnnounced

LEMMA StepInv ==
  ASSUME Inv, [Next]_vars
  PROVE  Inv'
<1>1. ASSUME ReplyAnnounced', UNCHANGED openapi
      PROVE  Inv'
  BY <1>1 DEF Inv, CachedIsDocument
<1>2. CASE \E body \in CreateBody : CreateSession(body)
  BY <1>1, <1>2, CreateStep
<1>3. CASE \E id \in SessionId, body \in SubmitBody : SubmitPresentation(id, body)
  BY <1>1, <1>3, SubmitStep
<1>4. CASE \E id \in SessionId : DebugTranscript(id)
  BY <1>1, <1>4, DebugStep
<1>5. CASE Health
  BY <1>1, <1>5, HealthStep
<1>6. CASE Expire
  BY <1>1, <1>6 DEF Expire, ReplyAnnounced
<1>7. CASE OpenApi
  BY <1>7, OpenApiStep
<1>8. CASE UNCHANGED vars
  BY <1>8 DEF vars, Inv, CachedIsDocument, ReplyAnnounced
<1>9. QED
  BY <1>2, <1>3, <1>4, <1>5, <1>6, <1>7, <1>8 DEF Next

LEMMA InvHolds == Spec => []Inv
BY InitInv, StepInv, PTL DEF Spec

-----------------------------------------------------------------------------

(***************************************************************************)
(* However often the document is generated and rewritten, and whenever it  *)
(* is read, it has the status and the model of every reply, errors         *)
(* included, but for the 400 that a submission the framework cannot decode *)
(* is answered with (routes.py:160, 211-214, 257, problem.py:84-151).      *)
(***************************************************************************)
THEOREM DocumentIsKept == Spec => []RepliesDocumented
<1>1. Inv => RepliesDocumented
  BY DEF Inv, CachedIsDocument, ReplyAnnounced, Announces, Undeclared, RepliesDocumented
<1>2. QED BY <1>1, InvHolds, PTL

(***************************************************************************)
(* The document refers only to schemas it has, after any number of         *)
(* rewrites (problem.py:94-128).                                           *)
(***************************************************************************)
THEOREM NoDanglingReference == Spec => []RefsResolve
<1>1. ASSUME NEW op \in Operation, NEW status \in DOMAIN Document.responses[op]
      PROVE  Document.responses[op][status] \in Document.schemas
  <2>1. Document.schemas = Final
    BY DocumentParts
  <2>2. Document.responses[op][status] \in Final
    BY <1>1, DocumentStatuses DEF Final
  <2>3. QED BY <2>1, <2>2
<1>2. Inv => RefsResolve
  BY <1>1 DEF Inv, CachedIsDocument, RefsResolve
<1>3. QED BY <1>2, InvHolds, PTL

(***************************************************************************)
(* What is refused leaves every session as it was, for any sessions and    *)
(* any cap (routes.py:175-183, 216-238).                                   *)
(***************************************************************************)
THEOREM RefusedForFree == Spec => RefusalCostsNothing
<1>1. ASSUME Next, reply' # Nothing, reply'.status >= 400
      PROVE  UNCHANGED session
  <2>1. CASE \E body \in CreateBody : CreateSession(body)
    BY <1>1, <2>1 DEF CreateSession, Succeeds, Unparsed
  <2>2. CASE \E id \in SessionId, body \in SubmitBody : SubmitPresentation(id, body)
    BY <1>1, <2>2 DEF SubmitPresentation, Succeeds, Unparsed
  <2>3. CASE \E id \in SessionId : DebugTranscript(id)
    BY <2>3 DEF DebugTranscript
  <2>4. CASE Health
    BY <2>4 DEF Health
  <2>5. CASE Expire
    BY <1>1, <2>5 DEF Expire
  <2>6. CASE OpenApi
    BY <2>6 DEF OpenApi
  <2>7. QED BY <1>1, <2>1, <2>2, <2>3, <2>4, <2>5, <2>6 DEF Next
<1>2. [Next]_vars => [reply' # Nothing /\ reply'.status >= 400 => UNCHANGED session]_vars
  BY <1>1
<1>3. QED BY <1>2, PTL DEF Spec, RefusalCostsNothing

=============================================================================
