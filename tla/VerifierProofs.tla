--------------------------- MODULE VerifierProofs ---------------------------
(***************************************************************************)
(* What is proved of Verifier for every store, pool, skew, trust list,     *)
(* document and number of requests.                                        *)
(***************************************************************************)
EXTENDS Verifier, TLAPS

SP == INSTANCE SessionStoreProofs

(* The store's lemmas, as they are seen from here.                         *)

LEMMA SameTypes == Store!TypeOK <=> SP!TypeOK
BY DEF Store!TypeOK, SP!TypeOK, Store!Stored, SP!Stored, Store!Session, SP!Session,
       Store!Result, SP!Result

LEMMA SameCreate ==
  ASSUME NEW id, NEW override
  PROVE  Store!Create(id, override) <=> SP!Create(id, override)
BY DEF Store!Create, SP!Create, Store!HasRoom, SP!HasRoom, Store!MakeRoom, SP!MakeRoom,
       Store!Swept, SP!Swept, Store!Unexpired, SP!Unexpired, Store!Expired, SP!Expired,
       Store!Stored, SP!Stored, Store!Insert, SP!Insert, Store!OriginFor, SP!OriginFor,
       Store!Reply, SP!Reply, Store!Restrict, SP!Restrict, Store!Cardinality,
       SP!Cardinality

LEMMA SameReject == Store!RejectCreate <=> SP!RejectCreate
BY DEF Store!RejectCreate, SP!RejectCreate, Store!HasRoom, SP!HasRoom, Store!MakeRoom,
       SP!MakeRoom, Store!Swept, SP!Swept, Store!Unexpired, SP!Unexpired, Store!Expired,
       SP!Expired, Store!Stored, SP!Stored, Store!Reply, SP!Reply, Store!Restrict,
       SP!Restrict, Store!Cardinality, SP!Cardinality

LEMMA SameLookups ==
  ASSUME NEW id
  PROVE  /\ Store!Unknown(id) <=> SP!Unknown(id)
         /\ Store!Take(id) <=> SP!Take(id)
         /\ Store!AlreadyAttempted(id) <=> SP!AlreadyAttempted(id)
         /\ Store!Find(id) <=> SP!Find(id)
BY DEF Store!Unknown, SP!Unknown, Store!Take, SP!Take, Store!AlreadyAttempted,
       SP!AlreadyAttempted, Store!Find, SP!Find, Store!AnswersTo, SP!AnswersTo,
       Store!Expired, SP!Expired, Store!Stored, SP!Stored, Store!Evicted, SP!Evicted,
       Store!Reply, SP!Reply, Store!Restrict, SP!Restrict, Store!Cardinality,
       SP!Cardinality

LEMMA SameBackground ==
  /\ Store!SweepLoop <=> SP!SweepLoop
  /\ Store!Tick <=> SP!Tick
  /\ Store!StepClock <=> SP!StepClock
  /\ Store!Restart <=> SP!Restart
BY DEF Store!SweepLoop, SP!SweepLoop, Store!Tick, SP!Tick, Store!StepClock, SP!StepClock,
       Store!Restart, SP!Restart, Store!Swept, SP!Swept, Store!Unexpired, SP!Unexpired,
       Store!Expired, SP!Expired, Store!Stored, SP!Stored, Store!NoReply, SP!NoReply,
       Store!Restrict, SP!Restrict

LEMMA SameNext == [Store!Next]_storeVars <=> [SP!Next]_(SP!vars)
<1>1. Store!Next <=> SP!Next
  BY SameCreate, SameReject, SameLookups, SameBackground
  DEF Store!Next, SP!Next, Store!Background, SP!Background, Store!TakeForAttempt,
      SP!TakeForAttempt, Store!Get, SP!Get
<1>2. QED BY <1>1 DEF storeVars, SP!vars

LEMMA StoreTypeStep ==
  ASSUME Store!TypeOK, [Store!Next]_storeVars
  PROVE  Store!TypeOK'
<1>1. SP!TypeOK'
  BY SP!TypeStep, SameTypes, SameNext, VerifierStoreAssumption DEF Store!StoreAssumption
<1>2. QED
  BY <1>1 DEF Store!TypeOK, SP!TypeOK, Store!Stored, SP!Stored, Store!Session, SP!Session,
              Store!Result, SP!Result

\* A step of the store that gives nothing and takes no attempt.
Evicts ==
  \/ Store!RejectCreate \/ Store!Background \/ UNCHANGED storeVars
  \/ \E id \in SessionId : Store!Unknown(id) \/ Store!AlreadyAttempted(id) \/ Store!Find(id)

LEMMA StoreShrinks ==
  ASSUME Store!TypeOK, Evicts
  PROVE  /\ issued' = issued
         /\ DOMAIN sessions' \subseteq DOMAIN sessions
         /\ \A id \in DOMAIN sessions' : sessions'[id] = sessions[id]
<1>1. \/ SP!RejectCreate \/ SP!Background \/ UNCHANGED SP!vars
      \/ \E id \in SessionId : SP!Unknown(id) \/ SP!AlreadyAttempted(id) \/ SP!Find(id)
  BY SameReject, SameBackground, SameLookups
  DEF Evicts, Store!Background, SP!Background, storeVars, SP!vars
<1>2. QED
  BY <1>1, SP!Shrinks, SameTypes, VerifierStoreAssumption DEF Store!StoreAssumption

LEMMA StoreCreates ==
  ASSUME Store!TypeOK, NEW id \in SessionId, NEW override \in Origin \cup {NoOverride},
         Store!Create(id, override)
  PROVE  /\ id \notin issued /\ issued' = issued \cup {id}
         /\ Store!OriginFor(override) \in Origin
         /\ id \in DOMAIN sessions'
         /\ sessions'[id] = [created_at |-> wall, expires_at |-> wall + TTL,
                             expected_origin |-> Store!OriginFor(override),
                             attempted |-> FALSE]
         /\ DOMAIN sessions' \ {id} \subseteq DOMAIN sessions
         /\ \A i \in DOMAIN sessions' \ {id} : sessions'[i] = sessions[i]
<1>1. SP!TypeOK /\ SP!Create(id, override) BY SameTypes, SameCreate
<1>2. Store!OriginFor(override) = SP!OriginFor(override)
  BY DEF Store!OriginFor, SP!OriginFor
<1>3. QED
  BY <1>1, <1>2, SP!CreatedSession, VerifierStoreAssumption DEF Store!StoreAssumption

(***************************************************************************)
(* The handlers use the store through its operations only.                 *)
(***************************************************************************)
LEMMA StoreStep == [Next]_vars => [Store!Next]_storeVars
<1> SUFFICES ASSUME [Next]_vars PROVE [Store!Next]_storeVars OBVIOUS
<1> USE DEF Store!Next, Store!Background, Store!TakeForAttempt, Store!Get
<1>1. CASE CreateSession BY <1>1 DEF CreateSession
<1>2. ASSUME NEW id \in SessionId, NEW origin \in Origin, NEW doc \in Documents,
             NEW drift \in Drift, Present(id, origin, doc, drift)
      PROVE  [Store!Next]_storeVars
  BY <1>2 DEF Present
<1>3. ASSUME NEW r \in Request, NEW id \in SessionId, NEW resp \in presented,
             Submit(r, id, resp)
      PROVE  [Store!Next]_storeVars
  BY <1>3 DEF Submit
<1>4. CASE StartJob \/ \E r \in Request : FinishJob(r) \/ Resume(r)
  BY <1>4 DEF StartJob, FinishJob, Resume
<1>5. CASE DebugTranscript BY <1>5 DEF DebugTranscript
<1>6. CASE Background BY <1>6 DEF Background
<1>7. CASE Restart BY <1>7 DEF Restart
<1>8. CASE UNCHANGED vars BY <1>8 DEF vars, storeVars
<1>9. QED BY <1>1, <1>2, <1>3, <1>4, <1>5, <1>6, <1>7, <1>8 DEF Next

-----------------------------------------------------------------------------
(* Types.                                                                  *)

LEMMA StoreTypes ==
  ASSUME Store!TypeOK
  PROVE  /\ issued \subseteq SessionId
         /\ DOMAIN sessions \subseteq issued
         /\ wall \in Int /\ TTL \in Int
         /\ \A id \in DOMAIN sessions :
              sessions[id] \in [created_at : Int, expires_at : Int,
                                expected_origin : Origin, attempted : BOOLEAN]
         /\ sessions \in [DOMAIN sessions -> Store!Session]
BY VerifierStoreAssumption
DEF Store!TypeOK, Store!StoreAssumption, Store!Stored, Store!Session

ReqType == [pc : {"idle", "answered", "lost"} \cup Waiting,
            session : SessionId \cup {NoId},
            response : Response \cup {NoResponse},
            origin : Origin \cup {NoOverride},
            claimed_at : Int,
            says : {"nothing", "404", "409"} \cup Verdict]

\* A step of the store says what becomes of it; the rest is the service's own.
OwnTypes ==
  /\ terms \in [issued -> [origin : Origin, expires_at : Int]]
  /\ presented \subseteq Response
  /\ req \in [Request -> ReqType]
  /\ queue \in Seq(Request)

LEMMA TypeParts == TypeOK <=> Store!TypeOK /\ OwnTypes
BY DEF TypeOK, OwnTypes, ReqType

\* One request is told something, the others are left alone.
LEMMA Told ==
  ASSUME OwnTypes, NEW r \in Request, NEW new, req' = [req EXCEPT ![r] = new]
  PROVE  /\ req'[r] = new
         /\ \A other \in Request \ {r} : req'[other] = req[other]
         /\ new \in ReqType => req' \in [Request -> ReqType]
BY DEF OwnTypes

LEMMA AnswerTells ==
  ASSUME OwnTypes, NEW r \in Request, NEW id \in SessionId, NEW resp \in Response,
         NEW says \in {"404", "409"}, Answer(r, id, resp, says)
  PROVE  /\ req'[r].pc = "answered" /\ req'[r].session = id /\ req'[r].says = says
         /\ \A other \in Request \ {r} : req'[other] = req[other]
         /\ req' \in [Request -> ReqType]
<1> DEFINE new == [req[r] EXCEPT !.pc = "answered", !.session = id,
                                 !.response = resp, !.says = says]
<1>1. req[r] \in ReqType BY DEF OwnTypes
<1>2. new.pc = "answered" /\ new.session = id /\ new.says = says /\ new \in ReqType
  BY <1>1 DEF ReqType
<1>3. req' = [req EXCEPT ![r] = new] BY DEF Answer
<1> HIDE DEF new
<1>4. QED BY <1>2, <1>3, Told

\* What taking the attempt does to the store.
LEMMA StoreTakes ==
  ASSUME Store!TypeOK, NEW id \in SessionId, Store!Take(id)
  PROVE  /\ id \in DOMAIN sessions /\ ~sessions[id].attempted
         /\ wall < sessions[id].expires_at
         /\ issued' = issued /\ DOMAIN sessions' = DOMAIN sessions
         /\ sessions'[id].attempted
         /\ \A i \in DOMAIN sessions :
              /\ sessions'[i].expected_origin = sessions[i].expected_origin
              /\ sessions'[i].expires_at = sessions[i].expires_at
              /\ i # id => sessions'[i] = sessions[i]
<1>1. id \in DOMAIN sessions /\ ~sessions[id].attempted
  BY DEF Store!Take, Store!AnswersTo, Store!Stored
<1>2. wall < sessions[id].expires_at
  BY <1>1, StoreTypes DEF Store!Take, Store!AnswersTo, Store!Expired
<1> DEFINE spent == [sessions[id] EXCEPT !.attempted = TRUE]
<1>3. /\ spent.attempted
      /\ spent.expected_origin = sessions[id].expected_origin
      /\ spent.expires_at = sessions[id].expires_at
  BY <1>1, StoreTypes
<1>4. issued' = issued /\ sessions' = [sessions EXCEPT ![id] = spent]
  BY DEF Store!Take
<1> HIDE DEF spent
<1>5. QED
  BY <1>1, <1>2, <1>3, <1>4, StoreTypes

\* The request that is given the attempt holds on to its session.
LEMMA ClaimTells ==
  ASSUME TypeOK, NEW r \in Request, NEW id \in DOMAIN sessions, NEW resp \in Response,
         NEW pc, NEW says, Claimed(r, id, resp, pc, says)
  PROVE  /\ req'[r] = [pc |-> pc, session |-> id, response |-> resp,
                       origin |-> sessions[id].expected_origin, claimed_at |-> wall,
                       says |-> says]
         /\ \A other \in Request \ {r} : req'[other] = req[other]
         /\ pc \in {"queued", "answered"} /\ says \in {"nothing"} \cup Verdict
              => req' \in [Request -> ReqType]
<1> DEFINE new == [pc |-> pc, session |-> id, response |-> resp,
                   origin |-> sessions[id].expected_origin, claimed_at |-> wall,
                   says |-> says]
<1>1. Store!TypeOK /\ OwnTypes BY TypeParts
<1>2. id \in SessionId /\ sessions[id].expected_origin \in Origin /\ wall \in Int
  BY <1>1, StoreTypes
<1>3. pc \in {"queued", "answered"} /\ says \in {"nothing"} \cup Verdict => new \in ReqType
  BY <1>2 DEF ReqType, Waiting
<1>4. req' = [req EXCEPT ![r] = new] BY DEF Claimed
<1> HIDE DEF new
<1>5. req'[r] = new /\ (new \in ReqType => req' \in [Request -> ReqType])
      /\ \A other \in Request \ {r} : req'[other] = req[other]
  BY <1>1, <1>4, Told
<1>6. QED BY <1>3, <1>5 DEF new

-----------------------------------------------------------------------------
(* The checks before the proof check.                                      *)

Passes(resp, id, origin, now) ==
  /\ Unwraps(resp) /\ Opens(resp, id, origin)
  /\ resp.doc.shape # "malformed" /\ resp.doc.shape # "standard"
  /\ resp.doc.circuit = HeldCircuit
  /\ resp.doc.doctype /\ resp.doc.discloses # "unhashable" /\ ClaimsDisclosed(resp.doc)
  /\ Fresh(resp, now) /\ Resolves(resp.doc.cert, now)

Flawed(reason, resp, id, origin, now) ==
  CASE reason = "invalid-envelope" -> ~Unwraps(resp) \/ resp.doc.shape = "malformed"
    [] reason = "decrypt-failed" -> ~Opens(resp, id, origin)
    [] reason = "standard-mdoc-not-accepted" -> resp.doc.shape = "standard"
    [] reason = "unsupported-circuit" -> resp.doc.circuit # HeldCircuit
    [] reason = "claim-mismatch" ->
         \/ ~resp.doc.doctype
         \/ resp.doc.discloses # "unhashable" /\ ~ClaimsDisclosed(resp.doc)
    [] reason = "engine-error" -> resp.doc.discloses = "unhashable"
    [] reason = "stale-proof" -> ~Fresh(resp, now)
    [] reason = "untrusted-issuer" -> ~Resolves(resp.doc.cert, now)
    [] OTHER -> FALSE

LEMMA LeastOfTen ==
  ASSUME NEW S \in SUBSET (1..10), S # {}
  PROVE  Min(S) \in S /\ \A y \in S : Min(S) <= y
<1> DEFINE Above(k) == \A y \in S : k < y
<1>1. \E x \in S : \A y \in S : x <= y
  <2>1. SUFFICES ASSUME \A x \in S : \E y \in S : y < x
                 PROVE  FALSE
    OBVIOUS
  <2>2. \A k \in 0..9 : Above(k) => Above(k + 1)
    BY <2>1
  <2>3. Above(0)
    OBVIOUS
  <2> HIDE DEF Above
  <2>4. Above(5)
    BY <2>2, <2>3, 0 + 1 = 1, 1 + 1 = 2, 2 + 1 = 3, 3 + 1 = 4, 4 + 1 = 5
  <2>5. Above(10)
    BY <2>2, <2>4, 5 + 1 = 6, 6 + 1 = 7, 7 + 1 = 8, 8 + 1 = 9, 9 + 1 = 10
  <2>6. PICK y \in S : TRUE
    OBVIOUS
  <2>7. y \in 1..10 /\ 10 < y
    BY <2>5 DEF Above
  <2>8. QED
    BY <2>7
<1>2. QED BY <1>1 DEF Min

\* The reason given is that of a check that fails, and none is given when
\* all pass.
LEMMA EarlyMeans ==
  ASSUME NEW resp, NEW id, NEW origin, NEW now
  PROVE  LET v == EarlyVerdict(resp, id, origin, now)
         IN  \/ v = Passed /\ Passes(resp, id, origin, now)
             \/ v \in FailureReason /\ Flawed(v, resp, id, origin, now)
<1> DEFINE checks == ChecksInOrder(resp, id, origin, now)
           failed == {i \in DOMAIN checks : ~checks[i][2]}
           v == EarlyVerdict(resp, id, origin, now)
<1>1. DOMAIN checks = 1..10 BY DEF ChecksInOrder
<1>2. CASE failed = {}
  <2>1. v = Passed BY <1>2 DEF EarlyVerdict
  <2>2. \A i \in 1..10 : checks[i][2] BY <1>1, <1>2
  <2>3. Passes(resp, id, origin, now)
    <3>1. checks[1][2] /\ checks[2][2] /\ checks[3][2] /\ checks[4][2] /\ checks[5][2]
          /\ checks[6][2] /\ checks[7][2] /\ checks[8][2] /\ checks[9][2] /\ checks[10][2]
      BY <2>2
    <3>2. QED BY <3>1 DEF ChecksInOrder, Passes
  <2>4. QED BY <2>1, <2>3
<1>3. CASE failed # {}
  <2> DEFINE i == Min(failed)
  <2>1. i \in 1..10 /\ ~checks[i][2] /\ (i = 8 => checks[7][2])
    <3>1. failed \in SUBSET (1..10) BY <1>1
    <3>2. i \in failed /\ \A j \in failed : i <= j BY ONLY <3>1, <1>3, LeastOfTen
    <3>3. i = 8 => 7 \notin failed BY <3>2
    <3>4. QED BY <1>1, <3>2, <3>3
  <2>2. v = checks[i][1] BY <1>3 DEF EarlyVerdict
  <2> HIDE DEF i, failed, v, checks
  <2>3. \A k \in 1..10 : i = k => v = checks[k][1] /\ ~checks[k][2]
    BY <2>1, <2>2
  <2>4. v \in FailureReason /\ Flawed(v, resp, id, origin, now)
    <3> USE DEF checks, ChecksInOrder
    <3>1. checks[1][1] = "invalid-envelope" /\ (~checks[1][2] => ~Unwraps(resp))
      OBVIOUS
    <3>2. checks[2][1] = "decrypt-failed" /\ (~checks[2][2] => ~Opens(resp, id, origin))
      OBVIOUS
    <3>3. /\ checks[3][1] = "invalid-envelope"
          /\ ~checks[3][2] => resp.doc.shape = "malformed"
      OBVIOUS
    <3>4. /\ checks[4][1] = "standard-mdoc-not-accepted"
          /\ ~checks[4][2] => resp.doc.shape = "standard"
      OBVIOUS
    <3>5. /\ checks[5][1] = "unsupported-circuit"
          /\ ~checks[5][2] => resp.doc.circuit # HeldCircuit
      OBVIOUS
    <3>6. checks[6][1] = "claim-mismatch" /\ (~checks[6][2] => ~resp.doc.doctype)
      OBVIOUS
    <3>7. /\ checks[7][1] = "engine-error"
          /\ ~checks[7][2] => resp.doc.discloses = "unhashable"
      OBVIOUS
    <3>8. checks[8][1] = "claim-mismatch" /\ (~checks[8][2] => ~ClaimsDisclosed(resp.doc))
      OBVIOUS
    <3>9. checks[9][1] = "stale-proof" /\ (~checks[9][2] => ~Fresh(resp, now))
      OBVIOUS
    <3>10. /\ checks[10][1] = "untrusted-issuer"
           /\ ~checks[10][2] => ~Resolves(resp.doc.cert, now)
      OBVIOUS
    <3>11. checks[7][2] => resp.doc.discloses # "unhashable"
      OBVIOUS
    <3> HIDE DEF checks, ChecksInOrder
    <3>12. QED
      BY <2>1, <2>3, <3>1, <3>2, <3>3, <3>4, <3>5, <3>6, <3>7, <3>8, <3>9, <3>10, <3>11
      DEF FailureReason, Flawed
  <2>5. QED BY <2>4 DEF v
<1>4. QED BY <1>2, <1>3

-----------------------------------------------------------------------------
(* Type correctness.                                                       *)

LEMMA VerifyTypes ==
  ASSUME TypeOK, NEW r \in Request, NEW id \in DOMAIN sessions, NEW resp \in Response,
         Verify(r, id, resp)
  PROVE  req' \in [Request -> ReqType] /\ queue' \in Seq(Request)
<1> DEFINE early == EarlyVerdict(resp, id, sessions[id].expected_origin, wall)
<1>1. early = Passed \/ early \in FailureReason
  BY EarlyMeans
<1>2. CASE early = Passed
  <2>1. Claimed(r, id, resp, "queued", "nothing") /\ queue' = Append(queue, r)
    BY <1>2 DEF Verify
  <2>2. req' \in [Request -> ReqType] BY <2>1, ClaimTells
  <2>3. queue' \in Seq(Request) BY <2>1, TypeParts DEF OwnTypes
  <2>4. QED BY <2>2, <2>3
<1>3. CASE early # Passed
  <2>1. Claimed(r, id, resp, "answered", early) /\ queue' = queue
    BY <1>3 DEF Verify
  <2>2. early \in Verdict BY <1>1, <1>3 DEF Verdict
  <2>3. req' \in [Request -> ReqType] BY <2>1, <2>2, ClaimTells
  <2>4. queue' \in Seq(Request) BY <2>1, TypeParts DEF OwnTypes
  <2>5. QED BY <2>3, <2>4
<1>4. QED BY <1>2, <1>3

LEMMA ProofVerdictsTypes ==
  ASSUME NEW job, NEW v \in ProofVerdicts(job)
  PROVE  v \in Verdict
BY DEF ProofVerdicts, Verdict, FailureReason

LEMMA TypeStep ==
  ASSUME TypeOK, [Next]_vars
  PROVE  TypeOK'
<1>1. Store!TypeOK /\ OwnTypes /\ Store!TypeOK'
  BY TypeParts, StoreStep, StoreTypeStep
<1>2. SUFFICES OwnTypes'
  BY <1>1 DEF TypeOK, OwnTypes, ReqType
<1>3. CASE CreateSession
  <2>1. UNCHANGED <<presented, req, queue>>
    BY <1>3 DEF CreateSession
  <2>2. CASE Store!RejectCreate /\ UNCHANGED terms
    BY <1>1, <2>1, <2>2, StoreShrinks DEF OwnTypes, Evicts
  <2>3. ASSUME NEW id \in SessionId, NEW override \in Origin \cup {NoOverride},
               Store!Create(id, override),
               terms' = [i \in issued' |->
                 IF i \in issued THEN terms[i]
                 ELSE [origin |-> Store!OriginFor(override), expires_at |-> wall + TTL]]
        PROVE  OwnTypes'
    <3>1. Store!OriginFor(override) \in Origin
      BY <1>1, <2>3, StoreCreates
    <3>2. wall + TTL \in Int
      BY <1>1, StoreTypes
    <3>3. QED BY <1>1, <2>1, <2>3, <3>1, <3>2 DEF OwnTypes
  <2>4. QED BY <1>3, <2>2, <2>3 DEF CreateSession
<1>4. ASSUME NEW id \in SessionId, NEW origin \in Origin, NEW doc \in Documents,
             NEW drift \in Drift, Present(id, origin, doc, drift)
      PROVE  OwnTypes'
  <2>1. [session |-> id, origin |-> origin, timestamp |-> wall + drift, doc |-> doc] \in Response
    BY <1>1, StoreTypes, VerifierAssumption DEF Response
  <2>2. QED BY <1>1, <1>4, <2>1 DEF Present, OwnTypes, storeVars
<1>5. ASSUME NEW r \in Request, NEW id \in SessionId, NEW resp \in presented,
             Submit(r, id, resp)
      PROVE  OwnTypes'
  <2>1. resp \in Response /\ UNCHANGED <<terms, presented>>
    BY <1>1, <1>5 DEF Submit, OwnTypes
  <2>2. CASE /\ Store!Unknown(id) \/ Store!AlreadyAttempted(id)
             /\ Answer(r, id, resp, "404") \/ Answer(r, id, resp, "409")
    <3>1. issued' = issued BY <1>1, <2>2, StoreShrinks DEF Evicts
    <3>2. req' \in [Request -> ReqType] /\ UNCHANGED queue
      BY <1>1, <2>1, <2>2, AnswerTells DEF Answer
    <3>3. QED BY <1>1, <2>1, <3>1, <3>2 DEF OwnTypes
  <2>3. CASE Store!Take(id) /\ Verify(r, id, resp)
    <3>1. id \in DOMAIN sessions /\ issued' = issued BY <1>1, <2>3, StoreTakes
    <3>2. QED BY <1>1, <2>1, <2>3, <3>1, VerifyTypes DEF OwnTypes
  <2>4. QED BY <1>5, <2>2, <2>3 DEF Submit
<1>6. CASE StartJob
  <2>1. Head(queue) \in Request /\ Tail(queue) \in Seq(Request)
    BY <1>1, <1>6 DEF StartJob, OwnTypes
  <2> DEFINE r == Head(queue)
             new == [req[r] EXCEPT !.pc = "running"]
  <2>2. new \in ReqType BY <1>1, <2>1 DEF OwnTypes, ReqType, Waiting
  <2>3. req' = [req EXCEPT ![r] = new] /\ queue' = Tail(queue)
        /\ UNCHANGED <<storeVars, terms, presented>>
    BY <1>6 DEF StartJob
  <2> HIDE DEF r, new
  <2>4. r \in Request /\ Tail(queue) \in Seq(Request) BY <2>1 DEF r
  <2>5. QED BY <1>1, <2>2, <2>3, <2>4, Told DEF OwnTypes, storeVars
<1>7. ASSUME NEW r \in Request, FinishJob(r)
      PROVE  OwnTypes'
  <2>1. PICK v \in ProofVerdicts(Job(req[r].response, req[r].session, req[r].origin)) :
          req' = [req EXCEPT ![r] = [@ EXCEPT !.pc = "done", !.says = v]]
    BY <1>7 DEF FinishJob
  <2> DEFINE new == [req[r] EXCEPT !.pc = "done", !.says = v]
  <2>2. v \in Verdict BY ProofVerdictsTypes
  <2>3. new \in ReqType BY <1>1, <2>2 DEF OwnTypes, ReqType, Waiting
  <2>4. req' = [req EXCEPT ![r] = new] BY <2>1
  <2> HIDE DEF new
  <2>5. QED BY <1>1, <1>7, <2>3, <2>4, Told DEF OwnTypes, storeVars, FinishJob
<1>8. ASSUME NEW r \in Request, Resume(r)
      PROVE  OwnTypes'
  <2> DEFINE new == [req[r] EXCEPT !.pc = "answered"]
  <2>1. new \in ReqType BY <1>1 DEF OwnTypes, ReqType, Waiting
  <2>2. req' = [req EXCEPT ![r] = new] BY <1>8 DEF Resume
  <2> HIDE DEF new
  <2>3. QED BY <1>1, <1>8, <2>1, <2>2, Told DEF OwnTypes, storeVars, Resume
<1>9. CASE DebugTranscript \/ Background
  <2>1. Evicts /\ UNCHANGED <<terms, presented, req, queue>>
    BY <1>9 DEF DebugTranscript, Background, Evicts, Store!Background, Store!Get
  <2>2. QED BY <1>1, <2>1, StoreShrinks DEF OwnTypes
<1>10. CASE Restart
  <2>1. Evicts /\ UNCHANGED <<terms, presented>>
    BY <1>10 DEF Restart, Evicts, Store!Background
  <2>2. \A r \in Request : [req[r] EXCEPT !.pc = "lost"] \in ReqType
    BY <1>1 DEF OwnTypes, ReqType
  <2>3. queue' \in Seq(Request) BY <1>10 DEF Restart
  <2>4. QED BY <1>1, <1>10, <2>1, <2>2, <2>3, StoreShrinks DEF OwnTypes, Restart
<1>11. CASE UNCHANGED vars
  BY <1>1, <1>11 DEF vars, storeVars, OwnTypes
<1>12. QED
  BY <1>3, <1>4, <1>5, <1>6, <1>7, <1>8, <1>9, <1>10, <1>11 DEF Next

LEMMA TypeInit == Init => TypeOK
<1> SUFFICES ASSUME Init PROVE TypeOK OBVIOUS
<1>1. Store!TypeOK
  BY VerifierStoreAssumption
  DEF Init, Store!Init, Store!TypeOK, Store!Stored, Store!NoReply, Store!Result,
      Store!StoreAssumption
<1>2. OwnTypes
  BY DEF Init, Store!Init, OwnTypes, ReqType, Idle
<1>3. QED BY <1>1, <1>2, TypeParts

(***************************************************************************)
(* The variables of the service, the store's among them, keep their types. *)
(***************************************************************************)
THEOREM TypeCorrect == Spec => []TypeOK
<1>1. TypeOK /\ [Next]_vars => TypeOK'
  BY TypeStep
<1>2. QED
  BY <1>1, TypeInit, PTL DEF Spec

(***************************************************************************)
(* What SessionStore promises holds of the running service: its handlers   *)
(* reach the dict through the store's operations only (routes.py:181, 234, *)
(* 274).                                                                   *)
(***************************************************************************)
THEOREM StoreUsedAsMeant == Spec => StoreSpec
<1>1. Init => Store!Init
  BY DEF Init
<1>2. QED
  BY <1>1, StoreStep, PTL DEF Spec, StoreSpec, Store!Spec, storeVars, Store!vars

(***************************************************************************)
(* Hence, in the running service: a handle that was denied stays denied    *)
(* and is claimed once at most; there are never more sessions than         *)
(* max_pending_sessions; a 503 is answered only when that many unexpired   *)
(* ones are there; and only expiry or the end of the process removes one   *)
(* (sessions.py:66-192).                                                   *)
(***************************************************************************)
THEOREM StorePromiseKept ==
  Spec => /\ SP!HandleSpec
          /\ []SP!StoreBounded
          /\ []SP!FullOfUnexpired
          /\ SP!LeavesOnlyExpired
<1>1. Init => SP!Init
  BY DEF Init, Store!Init, SP!Init, Store!NoReply, SP!NoReply
<1>2. [Next]_vars => [SP!Next]_(SP!vars)
  BY StoreStep, SameNext
<1>3. Spec => SP!Spec
  BY <1>1, <1>2, PTL DEF Spec, SP!Spec
<1>4. SP!StoreAssumption
  BY VerifierStoreAssumption DEF Store!StoreAssumption, SP!StoreAssumption
<1>5. SP!Spec => /\ SP!HandleSpec
                 /\ []SP!StoreBounded
                 /\ []SP!FullOfUnexpired
                 /\ SP!LeavesOnlyExpired
  BY <1>4, SP!StoreImplementsHandle, SP!CapHolds, SP!CapacityIsHonest, SP!LeavingIsExpiry
<1>6. QED BY <1>3, <1>5

-----------------------------------------------------------------------------
(* The invariant behind the verdicts.  A request is described by itself    *)
(* (Grounded), by the terms its session was issued on (HoldsClaim), and by *)
(* the store: a stored session is marked exactly when a request holds its  *)
(* attempt (Marked).                                                       *)

Grounded(q) ==
  /\ q.pc = "idle" => q.says = "nothing"
  /\ q.pc = "done" => q.says \in Verdict
  /\ q.pc \in {"queued", "running"} =>
       q.says = "nothing" /\ Passes(q.response, q.session, q.origin, q.claimed_at)
  /\ q.says = "verified" =>
       /\ Passes(q.response, q.session, q.origin, q.claimed_at)
       /\ Proves(q.response, Job(q.response, q.session, q.origin))
  /\ q.says \in FailureReason =>
       \/ q.says = "engine-error"
       \/ Flawed(q.says, q.response, q.session, q.origin, q.claimed_at)
       \/ /\ q.says = "proof-invalid"
          /\ Passes(q.response, q.session, q.origin, q.claimed_at)
          /\ ~Proves(q.response, Job(q.response, q.session, q.origin))

HoldsClaim(r) ==
  /\ req[r].session \in issued
  /\ req[r].response \in Response
  /\ req[r].origin = terms[req[r].session].origin
  /\ req[r].claimed_at < terms[req[r].session].expires_at

AllGrounded == \A r \in Request : Grounded(req[r])
AllHold == \A r \in Request : Attempted(r) => HoldsClaim(r)

QueuedOnce ==
  /\ \A i \in DOMAIN queue : req[queue[i]].pc = "queued"
  /\ \A i, j \in DOMAIN queue : queue[i] = queue[j] => i = j

OnTerms(id) ==
  /\ sessions[id].expected_origin = terms[id].origin
  /\ sessions[id].expires_at = terms[id].expires_at

Marked(id) ==
  sessions[id].attempted <=> \E r \in Request : Attempted(r) /\ req[r].session = id

StoreAgrees == \A id \in DOMAIN sessions : OnTerms(id) /\ Marked(id)

Inv == AllGrounded /\ AllHold /\ QueuedOnce /\ StoreAgrees /\ OneAttempt /\ ConflictHasCause

LEMMA InvInit == Init => Inv
<1> SUFFICES ASSUME Init PROVE Inv OBVIOUS
<1>1. sessions = <<>> /\ queue = <<>> /\ \A r \in Request : req[r] = Idle
  BY DEF Init, Store!Init
<1>2. \A r \in Request : ~Attempted(r) /\ Grounded(req[r]) /\ req[r].says # "409"
  BY <1>1 DEF Attempted, Grounded, Idle, Waiting, Verdict, FailureReason
<1>3. QED
  BY <1>1, <1>2
  DEF Inv, AllGrounded, AllHold, QueuedOnce, StoreAgrees, OneAttempt, ConflictHasCause

\* What a step leaves as it was when it neither gives nor loses an attempt.
SameClaims ==
  \A r \in Request :
    /\ Attempted(r)' <=> Attempted(r)
    /\ Attempted(r) =>
         /\ req'[r].session = req[r].session /\ req'[r].response = req[r].response
         /\ req'[r].origin = req[r].origin /\ req'[r].claimed_at = req[r].claimed_at

SameTerms == issued \subseteq issued' /\ \A id \in issued : terms'[id] = terms[id]

\* The stored sessions were there before, or are new and on their terms.
SessionsKept ==
  \A id \in DOMAIN sessions' :
    \/ id \in DOMAIN sessions /\ sessions'[id] = sessions[id]
    \/ id \notin issued /\ OnTerms(id)' /\ ~sessions'[id].attempted

LEMMA ClaimsKept ==
  ASSUME TypeOK, Inv, SameClaims, SameTerms, SessionsKept
  PROVE  AllHold' /\ StoreAgrees' /\ OneAttempt'
<1>1. AllHold'
  BY DEF Inv, AllHold, HoldsClaim, SameClaims, SameTerms
<1>2. OneAttempt'
  BY DEF Inv, OneAttempt, SameClaims
<1>3. ASSUME NEW id \in DOMAIN sessions'
      PROVE  OnTerms(id)' /\ Marked(id)'
  <2>1. (\E r \in Request : Attempted(r) /\ req[r].session = id)'
          <=> \E r \in Request : Attempted(r) /\ req[r].session = id
    BY DEF SameClaims
  <2>2. CASE id \in DOMAIN sessions /\ sessions'[id] = sessions[id]
    <3>1. id \in issued /\ OnTerms(id) /\ Marked(id)
      BY <2>2, TypeParts, StoreTypes DEF Inv, StoreAgrees
    <3>2. OnTerms(id)'
      BY <2>2, <3>1 DEF OnTerms, SameTerms
    <3>3. Marked(id)'
      BY <2>1, <2>2, <3>1 DEF Marked
    <3>4. QED BY <3>2, <3>3
  <2>3. CASE id \notin issued /\ OnTerms(id)' /\ ~sessions'[id].attempted
    <3>1. ~\E r \in Request : Attempted(r) /\ req[r].session = id
      BY <2>3 DEF Inv, AllHold, HoldsClaim
    <3>2. Marked(id)'
      BY <2>1, <2>3, <3>1 DEF Marked
    <3>3. QED BY <2>3, <3>2
  <2>4. QED BY <1>3, <2>2, <2>3 DEF SessionsKept
<1>4. QED BY <1>1, <1>2, <1>3 DEF StoreAgrees

\* No request is touched.
LEMMA IdleStep ==
  ASSUME TypeOK, Inv, SameTerms, SessionsKept, UNCHANGED <<req, queue>>
  PROVE  Inv'
<1>1. SameClaims BY DEF SameClaims, Attempted
<1>2. AllGrounded' /\ QueuedOnce' /\ ConflictHasCause'
  BY DEF Inv, AllGrounded, QueuedOnce, ConflictHasCause, Attempted
<1>3. QED BY <1>1, <1>2, ClaimsKept DEF Inv

LEMMA EvictsKeeps ==
  ASSUME TypeOK, Evicts, UNCHANGED terms
  PROVE  SameTerms /\ SessionsKept
BY TypeParts, StoreShrinks DEF SameTerms, SessionsKept

LEMMA CreateStep ==
  ASSUME TypeOK, Inv, CreateSession
  PROVE  Inv'
<1>1. UNCHANGED <<req, queue>> BY DEF CreateSession
<1>2. CASE Store!RejectCreate /\ UNCHANGED terms
  BY <1>1, <1>2, EvictsKeeps, IdleStep DEF Evicts
<1>3. ASSUME NEW id \in SessionId, NEW override \in Origin \cup {NoOverride},
             Store!Create(id, override),
             terms' = [i \in issued' |->
               IF i \in issued THEN terms[i]
               ELSE [origin |-> Store!OriginFor(override), expires_at |-> wall + TTL]]
      PROVE  Inv'
  <2>1. Store!TypeOK BY TypeParts
  <2>2. /\ id \notin issued /\ issued' = issued \cup {id}
        /\ id \in DOMAIN sessions'
        /\ sessions'[id] = [created_at |-> wall, expires_at |-> wall + TTL,
                            expected_origin |-> Store!OriginFor(override),
                            attempted |-> FALSE]
        /\ \A i \in DOMAIN sessions' \ {id} :
             i \in DOMAIN sessions /\ sessions'[i] = sessions[i]
    BY <1>3, <2>1, StoreCreates
  <2>3. terms'[id] = [origin |-> Store!OriginFor(override), expires_at |-> wall + TTL]
    BY <1>3, <2>2
  <2>4. SameTerms BY <1>3, <2>2 DEF SameTerms
  <2>5. SessionsKept BY <2>2, <2>3 DEF SessionsKept, OnTerms
  <2>6. QED BY <1>1, <2>4, <2>5, IdleStep
<1>4. QED BY <1>2, <1>3 DEF CreateSession

\* A refused submission claims nothing, and a 409 has its cause.
LEMMA RefuseStep ==
  ASSUME TypeOK, Inv, NEW r \in Request, NEW id \in SessionId, NEW resp \in Response,
         req[r].pc = "idle", UNCHANGED terms,
         \/ Store!Unknown(id) /\ Answer(r, id, resp, "404")
         \/ Store!AlreadyAttempted(id) /\ Answer(r, id, resp, "409")
  PROVE  Inv'
<1>1. PICK says \in {"404", "409"} :
        /\ Answer(r, id, resp, says)
        /\ Store!Unknown(id) \/ Store!AlreadyAttempted(id)
        /\ says = "409" => Store!AlreadyAttempted(id)
  OBVIOUS
<1>2. /\ req'[r].pc = "answered" /\ req'[r].session = id /\ req'[r].says = says
      /\ \A other \in Request \ {r} : req'[other] = req[other]
      /\ UNCHANGED queue
  BY <1>1, TypeParts, AnswerTells DEF Answer
<1>3. ~Attempted(r) /\ ~Attempted(r)'
  BY <1>2 DEF Inv, AllGrounded, Grounded, Attempted, Waiting, Verdict, FailureReason
<1>4. SameClaims BY <1>2, <1>3 DEF SameClaims, Attempted
<1>5. SameTerms /\ SessionsKept BY <1>1, EvictsKeeps DEF Evicts
<1>6. AllGrounded'
  <2>1. Grounded(req'[r]) BY <1>2 DEF Grounded, Verdict, FailureReason
  <2>2. QED BY <1>2, <2>1 DEF Inv, AllGrounded
<1>7. QueuedOnce'
  <2>1. \A i \in DOMAIN queue : queue[i] \in Request /\ queue[i] # r
    BY TypeParts DEF OwnTypes, Inv, QueuedOnce
  <2>2. QED BY <1>2, <2>1 DEF Inv, QueuedOnce
<1>8. ConflictHasCause'
  <2>1. ASSUME says = "409"
        PROVE  \E other \in Request : Attempted(other) /\ req[other].session = id
    <3>1. id \in DOMAIN sessions /\ sessions[id].attempted
      BY <1>1, <2>1 DEF Store!AlreadyAttempted, Store!AnswersTo, Store!Stored
    <3>2. QED BY <3>1 DEF Inv, StoreAgrees, Marked
  <2>2. \A x, y \in Request : Attempted(y) /\ req[y].session = req[x].session /\ x # r
          => Attempted(y)' /\ req'[y].session = req'[x].session
    BY <1>2, <1>4 DEF SameClaims
  <2>3. ASSUME NEW x \in Request, req'[x].says = "409"
        PROVE  \E other \in Request :
                 Attempted(other)' /\ req'[other].session = req'[x].session
    <3>1. CASE x = r BY <1>2, <1>4, <2>1, <2>3, <3>1 DEF SameClaims
    <3>2. CASE x # r BY <1>2, <2>2, <2>3, <3>2 DEF Inv, ConflictHasCause
    <3>3. QED BY <3>1, <3>2
  <2>4. QED BY <2>3 DEF ConflictHasCause
<1>9. QED BY <1>4, <1>5, <1>6, <1>7, <1>8, ClaimsKept DEF Inv

\* A request that is answered or moves on in the pool keeps what it holds.
LEMMA JobStep ==
  ASSUME TypeOK, Inv, UNCHANGED <<storeVars, terms>>,
         NEW r \in Request, Attempted(r), Attempted(r)', Grounded(req'[r]),
         req'[r].says # "409",
         req'[r].session = req[r].session, req'[r].response = req[r].response,
         req'[r].origin = req[r].origin, req'[r].claimed_at = req[r].claimed_at,
         \A other \in Request \ {r} : req'[other] = req[other],
         QueuedOnce'
  PROVE  Inv'
<1>1. SameClaims BY DEF SameClaims, Attempted
<1>2. SameTerms /\ SessionsKept BY DEF storeVars, SameTerms, SessionsKept
<1>3. AllGrounded' BY DEF Inv, AllGrounded
<1>4. ConflictHasCause'
  <2>1. ASSUME NEW x \in Request, req'[x].says = "409"
        PROVE  \E other \in Request :
                 Attempted(other)' /\ req'[other].session = req'[x].session
    <3>1. x # r /\ req'[x] = req[x] BY <2>1
    <3>2. PICK other \in Request : Attempted(other) /\ req[other].session = req[x].session
      BY <2>1, <3>1 DEF Inv, ConflictHasCause
    <3>3. QED BY <1>1, <3>1, <3>2 DEF SameClaims
  <2>2. QED BY <2>1 DEF ConflictHasCause
<1>5. QED BY <1>1, <1>2, <1>3, <1>4, ClaimsKept DEF Inv

\* What verify_response has done when it first suspends, or has failed.
LEMMA TakeTells ==
  ASSUME TypeOK, NEW r \in Request, NEW id \in SessionId, NEW resp \in Response,
         Store!Take(id), Verify(r, id, resp)
  PROVE  \E pc, says :
           /\ req'[r] = [pc |-> pc, session |-> id, response |-> resp,
                         origin |-> sessions[id].expected_origin, claimed_at |-> wall,
                         says |-> says]
           /\ \A other \in Request \ {r} : req'[other] = req[other]
           /\ \/ /\ pc = "queued" /\ says = "nothing" /\ queue' = Append(queue, r)
                 /\ Passes(resp, id, sessions[id].expected_origin, wall)
              \/ /\ pc = "answered" /\ says \in FailureReason /\ queue' = queue
                 /\ Flawed(says, resp, id, sessions[id].expected_origin, wall)
<1> DEFINE origin == sessions[id].expected_origin
           early == EarlyVerdict(resp, id, origin, wall)
<1>1. id \in DOMAIN sessions BY TypeParts, StoreTakes
<1>2. \/ early = Passed /\ Passes(resp, id, origin, wall)
      \/ early \in FailureReason /\ Flawed(early, resp, id, origin, wall)
  BY EarlyMeans
<1>3. CASE early = Passed
  <2>1. Claimed(r, id, resp, "queued", "nothing") /\ queue' = Append(queue, r)
    BY <1>3 DEF Verify
  <2>2. Passes(resp, id, origin, wall)
    BY <1>2, <1>3 DEF Passed, FailureReason
  <2> HIDE DEF early, origin
  <2>3. /\ req'[r] = [pc |-> "queued", session |-> id, response |-> resp,
                      origin |-> origin, claimed_at |-> wall, says |-> "nothing"]
        /\ \A other \in Request \ {r} : req'[other] = req[other]
    BY <1>1, <2>1, ClaimTells DEF origin
  <2>4. QED BY <2>1, <2>2, <2>3 DEF origin
<1>4. CASE early # Passed
  <2>1. Claimed(r, id, resp, "answered", early) /\ queue' = queue
    BY <1>4 DEF Verify
  <2>2. early \in FailureReason /\ Flawed(early, resp, id, origin, wall)
    BY <1>2, <1>4
  <2> HIDE DEF early, origin
  <2>3. /\ req'[r] = [pc |-> "answered", session |-> id, response |-> resp,
                      origin |-> origin, claimed_at |-> wall, says |-> early]
        /\ \A other \in Request \ {r} : req'[other] = req[other]
    BY <1>1, <2>1, ClaimTells DEF origin
  <2>4. QED BY <2>1, <2>2, <2>3 DEF origin
<1>5. QED BY <1>3, <1>4

\* The submission that is given the attempt.
LEMMA TakeStep ==
  ASSUME TypeOK, Inv, NEW r \in Request, NEW id \in SessionId, NEW resp \in Response,
         req[r].pc = "idle", UNCHANGED terms, Store!Take(id), Verify(r, id, resp)
  PROVE  Inv'
<1> DEFINE origin == sessions[id].expected_origin
<1>1. Store!TypeOK /\ OwnTypes BY TypeParts
<1>2. /\ id \in DOMAIN sessions /\ ~sessions[id].attempted
      /\ wall < sessions[id].expires_at
      /\ issued' = issued /\ DOMAIN sessions' = DOMAIN sessions
      /\ sessions'[id].attempted
      /\ \A i \in DOMAIN sessions :
           /\ sessions'[i].expected_origin = sessions[i].expected_origin
           /\ sessions'[i].expires_at = sessions[i].expires_at
           /\ i # id => sessions'[i] = sessions[i]
  BY <1>1, StoreTakes
<1>4. ~Attempted(r)
  BY DEF Inv, AllGrounded, Grounded, Attempted, Waiting, Verdict, FailureReason
<1>5. \A i \in DOMAIN queue : queue[i] \in Request /\ queue[i] # r
  BY <1>1 DEF OwnTypes, Inv, QueuedOnce
<1>6. PICK pc, says :
        /\ req'[r] = [pc |-> pc, session |-> id, response |-> resp,
                      origin |-> origin, claimed_at |-> wall, says |-> says]
        /\ \A other \in Request \ {r} : req'[other] = req[other]
        /\ \/ /\ pc = "queued" /\ says = "nothing" /\ queue' = Append(queue, r)
              /\ Passes(resp, id, origin, wall)
           \/ /\ pc = "answered" /\ says \in FailureReason /\ queue' = queue
              /\ Flawed(says, resp, id, origin, wall)
  BY TakeTells
<1> HIDE DEF origin
<1>7. /\ req'[r].pc = pc /\ req'[r].says = says
      /\ req'[r].session = id /\ req'[r].response = resp
      /\ req'[r].origin = sessions[id].expected_origin /\ req'[r].claimed_at = wall
      /\ \A other \in Request \ {r} : req'[other] = req[other]
  BY <1>6 DEF origin
<1>8. Attempted(r)' /\ says # "verified" /\ says # "409"
  BY <1>6, <1>7 DEF Attempted, Waiting, Verdict, FailureReason
<1>9. \A x \in Request \ {r} : Attempted(x)' <=> Attempted(x)
  BY <1>7 DEF Attempted
<1>10. AllGrounded'
  <2>1. Grounded(req'[r])
    BY <1>6, <1>7 DEF Grounded, origin, FailureReason
  <2>2. QED BY <1>7, <2>1 DEF Inv, AllGrounded
<1>11. id \in issued /\ OnTerms(id) /\ Marked(id)
  BY <1>1, <1>2, StoreTypes DEF Inv, StoreAgrees
<1>12. AllHold'
  <2>1. HoldsClaim(r)' BY <1>2, <1>7, <1>11 DEF HoldsClaim, OnTerms
  <2>2. \A x \in Request \ {r} : HoldsClaim(x) => HoldsClaim(x)'
    BY <1>2, <1>7 DEF HoldsClaim
  <2>3. QED BY <1>9, <2>1, <2>2 DEF Inv, AllHold
<1>13. QueuedOnce'
  <2>1. CASE queue' = queue BY <1>5, <1>7, <2>1 DEF Inv, QueuedOnce
  <2>2. CASE pc = "queued" /\ queue' = Append(queue, r)
    <3>1. /\ DOMAIN queue' = 1..(Len(queue) + 1) /\ DOMAIN queue = 1..Len(queue)
          /\ Len(queue) \in Nat
          /\ queue'[Len(queue) + 1] = r
          /\ \A i \in 1..Len(queue) : queue'[i] = queue[i]
      BY <1>1, <2>2 DEF OwnTypes
    <3>2. QED BY <1>5, <1>7, <2>2, <3>1 DEF Inv, QueuedOnce
  <2>3. QED BY <1>6, <2>1, <2>2
<1>14. StoreAgrees'
  <2>1. ASSUME NEW i \in DOMAIN sessions, i # id
        PROVE  OnTerms(i)' /\ Marked(i)'
    <3>1. OnTerms(i) /\ Marked(i) BY <2>1 DEF Inv, StoreAgrees
    <3>2. (\E x \in Request : Attempted(x) /\ req[x].session = i)'
            <=> \E x \in Request : Attempted(x) /\ req[x].session = i
      BY <1>4, <1>7, <1>9, <2>1
    <3>3. Marked(i)' BY <1>2, <2>1, <3>1, <3>2 DEF Marked
    <3>4. OnTerms(i)' BY <1>2, <2>1, <3>1 DEF OnTerms
    <3>5. QED BY <3>3, <3>4
  <2>2. OnTerms(id)' BY <1>2, <1>11 DEF OnTerms
  <2>3. Marked(id)' BY <1>2, <1>7, <1>8 DEF Marked
  <2>4. QED BY <1>2, <2>1, <2>2, <2>3 DEF StoreAgrees
<1>15. OneAttempt'
  <2>1. ~\E x \in Request : Attempted(x) /\ req[x].session = id
    BY <1>2, <1>11 DEF Marked
  <2>2. \A x \in Request \ {r} : Attempted(x)' => req'[x].session # id
    BY <1>7, <1>9, <2>1
  <2>3. QED BY <1>7, <1>9, <2>2 DEF Inv, OneAttempt
<1>16. ConflictHasCause'
  <2>1. ASSUME NEW x \in Request, req'[x].says = "409"
        PROVE  \E other \in Request :
                 Attempted(other)' /\ req'[other].session = req'[x].session
    <3>1. x # r /\ req'[x] = req[x] BY <1>7, <1>8, <2>1
    <3>2. PICK other \in Request : Attempted(other) /\ req[other].session = req[x].session
      BY <2>1, <3>1 DEF Inv, ConflictHasCause
    <3>3. other # r BY <1>4, <3>2
    <3>4. QED BY <1>7, <1>9, <3>1, <3>2, <3>3
  <2>2. QED BY <2>1 DEF ConflictHasCause
<1>17. QED BY <1>10, <1>12, <1>13, <1>14, <1>15, <1>16 DEF Inv

\* A request moves on: its record is the same but for pc and says.
LEMMA MovesOn ==
  ASSUME TypeOK, NEW r \in Request, NEW pc, NEW says,
         req' = [req EXCEPT ![r] = [@ EXCEPT !.pc = pc, !.says = says]]
  PROVE  /\ req'[r].pc = pc /\ req'[r].says = says
         /\ req'[r].session = req[r].session /\ req'[r].response = req[r].response
         /\ req'[r].origin = req[r].origin /\ req'[r].claimed_at = req[r].claimed_at
         /\ \A other \in Request \ {r} : req'[other] = req[other]
<1> DEFINE new == [req[r] EXCEPT !.pc = pc, !.says = says]
<1>1. OwnTypes /\ req[r] \in ReqType BY TypeParts DEF OwnTypes
<1>2. /\ new.pc = pc /\ new.says = says
      /\ new.session = req[r].session /\ new.response = req[r].response
      /\ new.origin = req[r].origin /\ new.claimed_at = req[r].claimed_at
  BY <1>1 DEF ReqType
<1>3. req' = [req EXCEPT ![r] = new] OBVIOUS
<1> HIDE DEF new
<1>4. req'[r] = new /\ \A other \in Request \ {r} : req'[other] = req[other]
  BY <1>1, <1>3, Told
<1>5. QED BY <1>2, <1>4

\* Setting pc alone is setting says to what it was.
LEMMA SetPc ==
  ASSUME TypeOK, NEW r \in Request, NEW pc, req' = [req EXCEPT ![r].pc = pc]
  PROVE  /\ req'[r].pc = pc /\ req'[r].says = req[r].says
         /\ req'[r].session = req[r].session /\ req'[r].response = req[r].response
         /\ req'[r].origin = req[r].origin /\ req'[r].claimed_at = req[r].claimed_at
         /\ \A other \in Request \ {r} : req'[other] = req[other]
<1> DEFINE new == [req[r] EXCEPT !.pc = pc]
<1>1. OwnTypes /\ req[r] \in ReqType BY TypeParts DEF OwnTypes
<1>2. /\ new.pc = pc /\ new.says = req[r].says
      /\ new.session = req[r].session /\ new.response = req[r].response
      /\ new.origin = req[r].origin /\ new.claimed_at = req[r].claimed_at
  BY <1>1 DEF ReqType
<1>3. req' = [req EXCEPT ![r] = new] OBVIOUS
<1> HIDE DEF new
<1>4. req'[r] = new /\ \A other \in Request \ {r} : req'[other] = req[other]
  BY <1>1, <1>3, Told
<1>5. QED BY <1>2, <1>4

LEMMA StartStep ==
  ASSUME TypeOK, Inv, StartJob
  PROVE  Inv'
<1>1. OwnTypes BY TypeParts
<1>2. PICK r \in Request :
      /\ Len(queue) \in Nat \ {0} /\ DOMAIN queue = 1..Len(queue)
      /\ r = Head(queue) /\ r = queue[1]
      /\ queue' = Tail(queue) /\ DOMAIN queue' = 1..(Len(queue) - 1)
      /\ \A i \in 1..(Len(queue) - 1) : queue'[i] = queue[i + 1]
      /\ \A i \in DOMAIN queue : queue[i] \in Request
  BY <1>1 DEF StartJob, OwnTypes
<1>3. req' = [req EXCEPT ![r].pc = "running"] /\ UNCHANGED <<storeVars, terms>>
  BY <1>2 DEF StartJob
<1>4. req[r].pc = "queued"
  BY <1>2 DEF Inv, QueuedOnce
<1>5. /\ req'[r].pc = "running" /\ req'[r].says = req[r].says
      /\ req'[r].session = req[r].session /\ req'[r].response = req[r].response
      /\ req'[r].origin = req[r].origin /\ req'[r].claimed_at = req[r].claimed_at
      /\ \A other \in Request \ {r} : req'[other] = req[other]
  BY <1>3, <1>4, SetPc
<1>6. Attempted(r) /\ Attempted(r)' BY <1>4, <1>5 DEF Attempted, Waiting
<1>7. Grounded(req[r]) BY <1>4 DEF Inv, AllGrounded
<1>8. Grounded(req'[r])
  BY <1>4, <1>5, <1>7 DEF Grounded
<1>9. QueuedOnce'
  <2>1. \A i, j \in DOMAIN queue : queue[i] = queue[j] => i = j
    BY DEF Inv, QueuedOnce
  <2>2. \A i \in 1..(Len(queue) - 1) :
          queue'[i] \in Request /\ queue'[i] # r /\ req[queue'[i]].pc = "queued"
    <3>1. ASSUME NEW i \in 1..(Len(queue) - 1)
          PROVE  queue'[i] \in Request /\ queue'[i] # r /\ req[queue'[i]].pc = "queued"
      <4>1. i + 1 \in DOMAIN queue /\ 1 \in DOMAIN queue /\ i + 1 # 1 BY <1>2
      <4>2. queue'[i] = queue[i + 1] BY <1>2
      <4>3. QED BY <1>2, <2>1, <4>1, <4>2 DEF Inv, QueuedOnce
    <3>2. QED BY <3>1
  <2>3. \A i, j \in 1..(Len(queue) - 1) : queue'[i] = queue'[j] => i = j
    <3>1. ASSUME NEW i \in 1..(Len(queue) - 1), NEW j \in 1..(Len(queue) - 1),
                 queue'[i] = queue'[j]
          PROVE  i = j
      <4>1. i + 1 \in DOMAIN queue /\ j + 1 \in DOMAIN queue BY <1>2
      <4>2. i + 1 = j + 1 BY <1>2, <2>1, <3>1, <4>1
      <4>3. QED BY <4>2
    <3>2. QED BY <3>1
  <2>4. QED BY <1>2, <1>5, <2>2, <2>3 DEF QueuedOnce
<1>10. req'[r].says # "409"
  BY <1>4, <1>5, <1>7 DEF Grounded
<1>11. QED BY <1>3, <1>4, <1>5, <1>6, <1>8, <1>9, <1>10, JobStep

\* The proof check says what it says of what passed the other checks.
LEMMA FinishStep ==
  ASSUME TypeOK, Inv, NEW r \in Request, FinishJob(r)
  PROVE  Inv'
<1>1. PICK v \in ProofVerdicts(Job(req[r].response, req[r].session, req[r].origin)) :
        req' = [req EXCEPT ![r] = [@ EXCEPT !.pc = "done", !.says = v]]
  BY DEF FinishJob
<1>2. req[r].pc = "running" /\ UNCHANGED <<storeVars, terms, queue>>
  BY DEF FinishJob
<1>3. /\ req'[r].pc = "done" /\ req'[r].says = v
      /\ req'[r].session = req[r].session /\ req'[r].response = req[r].response
      /\ req'[r].origin = req[r].origin /\ req'[r].claimed_at = req[r].claimed_at
      /\ \A other \in Request \ {r} : req'[other] = req[other]
  BY <1>1, MovesOn
<1>4. Attempted(r) /\ Attempted(r)' BY <1>2, <1>3 DEF Attempted, Waiting
<1>5. Passes(req[r].response, req[r].session, req[r].origin, req[r].claimed_at)
  BY <1>2 DEF Inv, AllGrounded, Grounded
<1> DEFINE job == Job(req[r].response, req[r].session, req[r].origin)
<1>6. \/ v = "engine-error"
      \/ v = "verified" /\ Proves(req[r].response, job)
      \/ v = "proof-invalid" /\ ~Proves(req[r].response, job)
  <2>1. job.proof = req[r].response BY DEF Job
  <2> HIDE DEF job
  <2>2. v \in ProofVerdicts(job) BY <1>1 DEF job
  <2>3. QED BY <2>1, <2>2 DEF ProofVerdicts
<1>7. Grounded(req'[r])
  BY <1>3, <1>5, <1>6 DEF Grounded, Verdict, FailureReason
<1>8. v # "409" BY <1>6
<1>9. QueuedOnce'
  <2>1. \A i \in DOMAIN queue : queue[i] \in Request /\ queue[i] # r
    BY <1>2, TypeParts DEF OwnTypes, Inv, QueuedOnce
  <2>2. QED BY <1>2, <1>3, <2>1 DEF Inv, QueuedOnce
<1>10. QED BY <1>2, <1>3, <1>4, <1>7, <1>8, <1>9, JobStep

LEMMA ResumeStep ==
  ASSUME TypeOK, Inv, NEW r \in Request, Resume(r)
  PROVE  Inv'
<1>1. /\ req[r].pc = "done" /\ req' = [req EXCEPT ![r].pc = "answered"]
      /\ UNCHANGED <<storeVars, terms, queue>>
  BY DEF Resume
<1>2. /\ req'[r].pc = "answered" /\ req'[r].says = req[r].says
      /\ req'[r].session = req[r].session /\ req'[r].response = req[r].response
      /\ req'[r].origin = req[r].origin /\ req'[r].claimed_at = req[r].claimed_at
      /\ \A other \in Request \ {r} : req'[other] = req[other]
  BY <1>1, SetPc
<1>3. req[r].says \in Verdict /\ Grounded(req[r])
  BY <1>1 DEF Inv, AllGrounded, Grounded
<1>4. Attempted(r) /\ Attempted(r)' BY <1>2, <1>3 DEF Attempted
<1>5. Grounded(req'[r]) BY <1>2, <1>3 DEF Grounded
<1>6. req'[r].says # "409" BY <1>2, <1>3 DEF Verdict, FailureReason
<1>7. QueuedOnce'
  <2>1. \A i \in DOMAIN queue : queue[i] \in Request /\ queue[i] # r
    BY <1>1, TypeParts DEF OwnTypes, Inv, QueuedOnce
  <2>2. QED BY <1>1, <1>2, <2>1 DEF Inv, QueuedOnce
<1>8. QED BY <1>1, <1>2, <1>4, <1>5, <1>6, <1>7, JobStep

\* What was in flight when the process died keeps its claim and its record.
LEMMA RestartStep ==
  ASSUME TypeOK, Inv, Restart
  PROVE  Inv'
<1>1. SameTerms /\ SessionsKept
  BY EvictsKeeps DEF Restart, Evicts, Store!Background
<1>2. ASSUME NEW r \in Request
      PROVE  /\ req'[r].says = req[r].says
             /\ req'[r].session = req[r].session /\ req'[r].response = req[r].response
             /\ req'[r].origin = req[r].origin /\ req'[r].claimed_at = req[r].claimed_at
             /\ req'[r].pc = IF req[r].pc \in Waiting THEN "lost" ELSE req[r].pc
  <2> DEFINE new == [req[r] EXCEPT !.pc = "lost"]
  <2>1. req[r] \in ReqType BY TypeParts DEF OwnTypes
  <2>2. /\ new.pc = "lost" /\ new.says = req[r].says
        /\ new.session = req[r].session /\ new.response = req[r].response
        /\ new.origin = req[r].origin /\ new.claimed_at = req[r].claimed_at
    BY <2>1 DEF ReqType
  <2>3. req'[r] = IF req[r].pc \in Waiting THEN new ELSE req[r] BY DEF Restart
  <2> HIDE DEF new
  <2>4. QED BY <2>2, <2>3
<1>3. SameClaims BY <1>2 DEF SameClaims, Attempted
<1>4. AllGrounded'
  <2>1. ASSUME NEW r \in Request PROVE Grounded(req'[r])
    <3>1. Grounded(req[r]) BY DEF Inv, AllGrounded
    <3>2. req'[r].pc \notin {"queued", "running", "done"}
      BY <1>2 DEF Waiting
    <3>3. req'[r].pc = "idle" => req[r].pc = "idle" BY <1>2
    <3>4. QED BY <1>2, <3>1, <3>2, <3>3 DEF Grounded
  <2>2. QED BY <2>1 DEF AllGrounded
<1>5. QueuedOnce'
  <2>1. queue' = <<>> BY DEF Restart
  <2>2. QED BY <2>1 DEF QueuedOnce
<1>6. ConflictHasCause'
  <2>1. \A x, y \in Request : Attempted(y) /\ req[y].session = req[x].session
          => Attempted(y)' /\ req'[y].session = req'[x].session
    BY <1>2, <1>3 DEF SameClaims
  <2>2. \A x \in Request : req'[x].says = "409" => req[x].says = "409" BY <1>2
  <2>3. QED BY <2>1, <2>2 DEF Inv, ConflictHasCause
<1>7. QED BY <1>1, <1>3, <1>4, <1>5, <1>6, ClaimsKept DEF Inv

LEMMA InvStep ==
  ASSUME TypeOK, Inv, [Next]_vars
  PROVE  Inv'
<1>1. CASE CreateSession BY <1>1, CreateStep
<1>2. ASSUME NEW id \in SessionId, NEW origin \in Origin, NEW doc \in Documents,
             NEW drift \in Drift, Present(id, origin, doc, drift)
      PROVE  Inv'
  <2>1. SameTerms /\ SessionsKept /\ UNCHANGED <<req, queue>>
    BY <1>2 DEF Present, storeVars, SameTerms, SessionsKept
  <2>2. QED BY <2>1, IdleStep
<1>3. ASSUME NEW r \in Request, NEW id \in SessionId, NEW resp \in presented,
             Submit(r, id, resp)
      PROVE  Inv'
  <2>1. resp \in Response BY TypeParts DEF OwnTypes
  <2>2. req[r].pc = "idle" /\ UNCHANGED terms BY <1>3 DEF Submit
  <2>3. CASE Store!Take(id) /\ Verify(r, id, resp)
    BY <2>1, <2>2, <2>3, TakeStep
  <2>4. CASE \/ Store!Unknown(id) /\ Answer(r, id, resp, "404")
             \/ Store!AlreadyAttempted(id) /\ Answer(r, id, resp, "409")
    BY <2>1, <2>2, <2>4, RefuseStep
  <2>5. QED BY <1>3, <2>3, <2>4 DEF Submit
<1>4. CASE StartJob BY <1>4, StartStep
<1>5. ASSUME NEW r \in Request, FinishJob(r) \/ Resume(r) PROVE Inv'
  BY <1>5, FinishStep, ResumeStep
<1>6. CASE DebugTranscript \/ Background
  <2>1. Evicts /\ UNCHANGED <<terms, req, queue>>
    BY <1>6 DEF DebugTranscript, Background, Evicts, Store!Background, Store!Get
  <2>2. QED BY <2>1, EvictsKeeps, IdleStep
<1>7. CASE Restart BY <1>7, RestartStep
<1>8. CASE UNCHANGED vars
  BY <1>8, IdleStep DEF vars, storeVars, SameTerms, SessionsKept
<1>9. QED BY <1>1, <1>2, <1>3, <1>4, <1>5, <1>6, <1>7, <1>8 DEF Next

LEMMA InvHolds == Spec => []Inv
<1>1. TypeOK /\ Inv /\ [Next]_vars => Inv'
  BY InvStep
<1>2. QED
  BY <1>1, InvInit, TypeCorrect, PTL DEF Spec

-----------------------------------------------------------------------------
(* What the invariant says of the answers.                                 *)

(***************************************************************************)
(* No two submissions are ever let through to verification for one         *)
(* session, whatever the number of requests, threads and clock steps       *)
(* (sessions.py:122-125).                                                  *)
(***************************************************************************)
THEOREM AttemptIsSingle == Spec => []OneAttempt
<1>1. Inv => OneAttempt BY DEF Inv
<1>2. QED BY <1>1, InvHolds, PTL

(***************************************************************************)
(* A 409 is answered only when another submission was given the session's  *)
(* attempt (routes.py:237-238).                                            *)
(***************************************************************************)
THEOREM ConflictIsTrue == Spec => []ConflictHasCause
<1>1. Inv => ConflictHasCause BY DEF Inv
<1>2. QED BY <1>1, InvHolds, PTL

\* What a verified request went through.
LEMMA Earned ==
  ASSUME Inv, NEW r \in Request, req[r].says \in Verdict
  PROVE  /\ HoldsClaim(r) /\ Grounded(req[r])
         /\ req[r].says = "verified" =>
              /\ Passes(req[r].response, req[r].session, req[r].origin, req[r].claimed_at)
              /\ Proves(req[r].response,
                        Job(req[r].response, req[r].session, req[r].origin))
BY DEF Inv, AllGrounded, AllHold, Grounded, Attempted

LEMMA OpensMeans ==
  ASSUME NEW resp, NEW id, NEW origin
  PROVE  Opens(resp, id, origin) <=> resp.session = id /\ resp.origin = origin
BY DEF Opens, Transcript

(***************************************************************************)
(* "verified" is said only of a sound proof of all the claims, made for    *)
(* this session and the origin it was issued with (dc.py:192-195,          *)
(* verify.py:165-167, mdoc_zk.py:129-166).                                 *)
(***************************************************************************)
THEOREM VerifiedMeansBound == Spec => []VerifiedIsBound
<1>1. ASSUME Inv, NEW r \in Request, req[r].says = "verified"
      PROVE  LET resp == req[r].response
             IN  /\ resp.session = req[r].session
                 /\ resp.origin = terms[req[r].session].origin
                 /\ resp.doc.wrapped /\ resp.doc.shape = "zk" /\ resp.doc.sound
                 /\ resp.doc.circuit = HeldCircuit
                 /\ resp.doc.doctype /\ resp.doc.discloses = "all"
  <2> DEFINE resp == req[r].response
  <2>1. /\ HoldsClaim(r)
        /\ Passes(resp, req[r].session, req[r].origin, req[r].claimed_at)
        /\ Proves(resp, Job(resp, req[r].session, req[r].origin))
    BY <1>1, Earned DEF Verdict
  <2>2. resp.session = req[r].session /\ resp.origin = terms[req[r].session].origin
    BY <2>1, OpensMeans DEF Passes, HoldsClaim
  <2>3. resp.doc.shape = "zk"
    <3>1. resp.doc.shape \in {"zk", "standard", "malformed"}
      BY <2>1 DEF HoldsClaim, Response, Document
    <3>2. QED BY <2>1, <3>1 DEF Passes
  <2>4. resp.doc.wrapped /\ resp.doc.discloses = "all"
    BY <2>1 DEF Passes, Unwraps, ClaimsDisclosed
  <2>5. resp.doc.sound /\ resp.doc.circuit = HeldCircuit /\ resp.doc.doctype
    BY <2>1 DEF Passes, Proves
  <2>6. QED BY <2>2, <2>3, <2>4, <2>5
<1>2. Inv => VerifiedIsBound BY <1>1 DEF VerifiedIsBound
<1>3. QED BY <1>2, InvHolds, PTL

(***************************************************************************)
(* A verified attempt was claimed before the deadline, with a fresh proof  *)
(* and an issuer some anchor vouched for then, however long the check took *)
(* (sessions.py:157, mdoc_zk.py:139-143).                                  *)
(***************************************************************************)
THEOREM VerifiedMeansInTime == Spec => []VerifiedInTime
<1>1. ASSUME TypeOK, Inv, NEW r \in Request, req[r].says = "verified"
      PROVE  LET resp == req[r].response
                 at == req[r].claimed_at
             IN  /\ at < terms[req[r].session].expires_at
                 /\ at - resp.timestamp <= Skew /\ resp.timestamp - at <= Skew
                 /\ Resolves(resp.doc.cert, at)
  <2> DEFINE resp == req[r].response
             at == req[r].claimed_at
  <2>1. HoldsClaim(r) /\ Passes(resp, req[r].session, req[r].origin, at)
    BY <1>1, Earned DEF Verdict
  <2>2. at \in Int /\ resp.timestamp \in Int /\ Skew \in Int
    BY <1>1, <2>1, TypeParts, VerificationAssumption
    DEF OwnTypes, ReqType, HoldsClaim, Response
  <2>3. at - resp.timestamp \in -Skew..Skew /\ Resolves(resp.doc.cert, at)
    BY <2>1 DEF Passes, Fresh
  <2>4. at < terms[req[r].session].expires_at
    BY <2>1 DEF HoldsClaim
  <2> HIDE DEF resp, at
  <2>5. at - resp.timestamp <= Skew /\ resp.timestamp - at <= Skew
    BY <2>2, <2>3
  <2>6. QED BY <2>3, <2>4, <2>5 DEF resp, at
<1>2. TypeOK /\ Inv => VerifiedInTime BY <1>1 DEF VerifiedInTime
<1>3. QED BY <1>2, InvHolds, TypeCorrect, PTL

(***************************************************************************)
(* A failure names a flaw the response has, unless it is the backend's     *)
(* own (verify.py:141-203).                                                *)
(***************************************************************************)
THEOREM ReasonsAreTrue == Spec => []ReasonIsTrue
<1>1. ASSUME TypeOK, Inv, NEW r \in Request, req[r].says \in FailureReason
      PROVE  AtFault(req[r].says, req[r].response, req[r].session, req[r].claimed_at)
  <2> DEFINE resp == req[r].response
             id == req[r].session
             at == req[r].claimed_at
             origin == req[r].origin
             says == req[r].says
  <2>1. HoldsClaim(r) /\ Grounded(req[r])
    BY <1>1, Earned DEF Verdict
  <2>2. origin = terms[id].origin /\ resp.timestamp \in Int /\ at \in Int /\ Skew \in Int
        /\ resp.doc.discloses \in Disclosure
    BY <1>1, <2>1, TypeParts, VerificationAssumption
    DEF OwnTypes, ReqType, HoldsClaim, Response, Document
  <2>3. \/ says = "engine-error"
        \/ Flawed(says, resp, id, origin, at)
        \/ /\ says = "proof-invalid"
           /\ Passes(resp, id, origin, at) /\ ~Proves(resp, Job(resp, id, origin))
    BY <1>1, <2>1 DEF Grounded
  <2> SUFFICES AtFault(says, resp, id, at)
    OBVIOUS
  <2> HIDE DEF resp, id, at, origin, says
  <2>4. CASE says = "engine-error" BY <2>4 DEF AtFault
  <2>5. CASE /\ says = "proof-invalid"
             /\ Passes(resp, id, origin, at) /\ ~Proves(resp, Job(resp, id, origin))
    <3>1. Transcript(id, origin) = Transcript(resp.session, resp.origin)
      BY <2>5 DEF Passes, Opens
    <3>2. ~resp.doc.sound \/ resp.doc.device # AssumedDeviceNamespaces
      BY <2>5, <3>1 DEF Proves, Job
    <3>3. QED BY <2>5, <3>2 DEF AtFault
  <2>6. CASE Flawed(says, resp, id, origin, at)
    <3>1. ~Fresh(resp, at) => at > resp.timestamp + Skew \/ resp.timestamp > at + Skew
      BY <2>2 DEF Fresh
    <3>2. ~ClaimsDisclosed(resp.doc) /\ resp.doc.discloses # "unhashable"
            => resp.doc.discloses = "missing"
      BY <2>2 DEF ClaimsDisclosed, Disclosure
    <3>3. ~Opens(resp, id, origin) => resp.session # id \/ resp.origin # terms[id].origin
      BY <2>2, OpensMeans
    <3>4. QED
      BY <2>6, <3>1, <3>2, <3>3 DEF Flawed, AtFault, Unwraps
  <2>7. QED BY <2>3, <2>4, <2>5, <2>6
<1>2. TypeOK /\ Inv => ReasonIsTrue BY <1>1 DEF ReasonIsTrue
<1>3. QED BY <1>2, InvHolds, TypeCorrect, PTL

-----------------------------------------------------------------------------
(***************************************************************************)
(* Verifier implements SessionVerdict, for every store, pool, skew, trust  *)
(* list, document and number of requests.                                  *)
(***************************************************************************)


Owns(r, id) == Attempted(r) /\ req[r].session = id
Unclaimed(id) == \A r \in Request : ~Owns(r, id)

Outcome(q) ==
  IF q.pc \in Waiting THEN "pending"
  ELSE IF q.pc = "lost" THEN "lost"
  ELSE IF q.says = "verified" THEN "verified" ELSE "failed"

Standing(id) ==
  IF id \notin issued THEN "unissued" ELSE IF id \in DOMAIN sessions THEN "open" ELSE "gone"

\* A session has the status of the request that holds its attempt, and
\* without one that of its entry in the store.
StatusMeaning ==
  \A id \in SessionId :
    /\ Unclaimed(id) => StatusOf(id) = Standing(id)
    /\ \A r \in Request : Owns(r, id) => StatusOf(id) = Outcome(req[r])

LEMMA StatusIs == TypeOK /\ Inv => StatusMeaning
<1> SUFFICES ASSUME TypeOK, Inv, NEW id \in SessionId
             PROVE  /\ Unclaimed(id) => StatusOf(id) = Standing(id)
                    /\ \A r \in Request : Owns(r, id) => StatusOf(id) = Outcome(req[r])
  BY DEF StatusMeaning
<1>1. ASSUME Unclaimed(id)
      PROVE  StatusOf(id) = Standing(id)
  <2>1. Attempts(id, Waiting) = {} /\ Attempts(id, {"lost"}) = {}
    BY <1>1 DEF Attempts, Unclaimed, Owns, Attempted
  <2>2. \A r \in Attempts(id, {"answered"}) : req[r].says \notin Verdict
    BY <1>1 DEF Attempts, Unclaimed, Owns, Attempted
  <2>3. QED BY <2>1, <2>2 DEF StatusOf, Standing, Store!Stored, Verdict
<1>2. ASSUME NEW r \in Request, Owns(r, id)
      PROVE  StatusOf(id) = Outcome(req[r])
  <2>1. \A x \in Request : Attempted(x) /\ req[x].session = id => x = r
    BY <1>2 DEF Inv, OneAttempt, Owns
  <2>2. \A x \in Request :
          req[x].session = id /\ req[x].pc \in Waiting \cup {"lost"} => x = r
    BY <2>1 DEF Attempted
  <2>3. \A x \in Request : req[x].session = id /\ req[x].says \in Verdict => x = r
    BY <2>1 DEF Attempted
  <2>4. id \in issued /\ req[r].session = id
    BY <1>2 DEF Inv, AllHold, HoldsClaim, Owns
  <2>5. \/ req[r].pc \in Waiting \/ req[r].pc = "lost"
        \/ req[r].pc = "answered" /\ req[r].says \in Verdict
    <3>1. req[r].pc \in {"idle", "answered", "lost"} \cup Waiting
      BY TypeParts DEF OwnTypes, ReqType
    <3>2. req[r].pc = "idle" => req[r].says \notin Verdict
      BY DEF Inv, AllGrounded, Grounded, Verdict, FailureReason
    <3>3. QED BY <1>2, <3>1, <3>2 DEF Owns, Attempted
  <2>6. CASE req[r].pc \in Waiting
    BY <2>4, <2>6 DEF StatusOf, Attempts, Outcome
  <2>7. CASE req[r].pc = "lost"
    <3>1. Attempts(id, Waiting) = {} /\ r \in Attempts(id, {"lost"})
      BY <2>2, <2>4, <2>7 DEF Attempts, Waiting
    <3>2. QED BY <2>4, <2>7, <3>1 DEF StatusOf, Outcome, Waiting
  <2>8. CASE req[r].pc = "answered" /\ req[r].says \in Verdict
    <3>1. Attempts(id, Waiting) = {} /\ Attempts(id, {"lost"}) = {}
          /\ r \in Attempts(id, {"answered"})
      BY <2>2, <2>4, <2>8 DEF Attempts, Waiting
    <3>2. \A x \in Attempts(id, {"answered"}) : req[x].says \in Verdict => x = r
      BY <2>3 DEF Attempts
    <3>3. CASE req[r].says = "verified"
      BY <2>4, <2>8, <3>1, <3>3 DEF StatusOf, Outcome, Waiting
    <3>4. CASE req[r].says # "verified"
      <4>1. req[r].says \in FailureReason BY <2>8, <3>4 DEF Verdict
      <4>2. ~\E x \in Attempts(id, {"answered"}) : req[x].says = "verified"
        BY <3>2, <3>4 DEF Verdict
      <4>3. QED BY <2>4, <2>8, <3>1, <3>4, <4>1, <4>2 DEF StatusOf, Outcome, Waiting
    <3>5. QED BY <3>3, <3>4
  <2>9. QED BY <2>5, <2>6, <2>7, <2>8
<1>3. QED BY <1>1, <1>2

LEMMA StatusWillBe == ASSUME TypeOK', Inv' PROVE StatusMeaning'
<1>1. (TypeOK /\ Inv => StatusMeaning)'
  BY StatusIs, PTL
<1>2. QED BY <1>1

statuses == [id \in SessionId |-> StatusOf(id)]

\* Who owns a claim, and how it stands, says what becomes of the status.
LEMMA StatusKept ==
  ASSUME StatusMeaning, StatusMeaning', NEW id \in SessionId,
         \/ /\ Unclaimed(id) /\ Unclaimed(id)' /\ Standing(id)' = Standing(id)
         \/ \E r \in Request : /\ Owns(r, id) /\ Owns(r, id)'
                               /\ Outcome(req'[r]) = Outcome(req[r])
  PROVE  StatusOf(id)' = StatusOf(id)
BY DEF StatusMeaning

\* No attempt is given and none ends: at most, open sessions are forgotten.
LEMMA ForgetStep ==
  ASSUME StatusMeaning, StatusMeaning', SameClaims, issued' = issued,
         DOMAIN sessions' \subseteq DOMAIN sessions,
         \A r \in Request : Attempted(r) => Outcome(req'[r]) = Outcome(req[r])
  PROVE  Promise!Forget
<1> DEFINE left == {id \in SessionId : StatusOf(id) = "open" /\ StatusOf(id)' # "open"}
<1>1. ASSUME NEW id \in SessionId
      PROVE  StatusOf(id)' = IF id \in left THEN "gone" ELSE StatusOf(id)
  <2>1. CASE Unclaimed(id)
    <3>1. Unclaimed(id)' BY <2>1 DEF Unclaimed, Owns, SameClaims
    <3>2. StatusOf(id) = Standing(id) /\ StatusOf(id)' = Standing(id)'
      BY <2>1, <3>1 DEF StatusMeaning
    <3>3. QED BY <3>2 DEF Standing
  <2>2. ASSUME NEW r \in Request, Owns(r, id)
        PROVE  StatusOf(id)' = IF id \in left THEN "gone" ELSE StatusOf(id)
    <3>1. Owns(r, id)' /\ Outcome(req'[r]) = Outcome(req[r])
      BY <2>2 DEF Owns, SameClaims
    <3>2. StatusOf(id)' = StatusOf(id) BY <2>2, <3>1, StatusKept
    <3>3. QED BY <3>2
  <2>3. QED BY <2>1, <2>2 DEF Unclaimed
<1> HIDE DEF left
<1>2. statuses' = [id \in SessionId |-> IF id \in left THEN "gone" ELSE statuses[id]]
  BY <1>1 DEF statuses
<1>3. left \in SUBSET Promise!With("open")
  BY DEF left, Promise!With
<1>4. QED BY <1>2, <1>3 DEF Promise!Forget, Promise!Without, statuses

\* Issue, from a successful create.
LEMMA PromiseIssue ==
  ASSUME TypeOK, Inv, StatusMeaning, StatusMeaning', UNCHANGED req,
         NEW id \in SessionId, NEW override \in Origin \cup {NoOverride},
         Store!Create(id, override)
  PROVE  Promise!Issue(id)
<1>1. /\ id \notin issued /\ issued' = issued \cup {id}
      /\ id \in DOMAIN sessions' /\ DOMAIN sessions' \ {id} \subseteq DOMAIN sessions
  BY TypeParts, StoreCreates
<1>2. SameClaims BY DEF SameClaims, Attempted
<1>3. Unclaimed(id) BY <1>1 DEF Unclaimed, Owns, Inv, AllHold, HoldsClaim
<1>4. Unclaimed(id)' BY <1>3 DEF Unclaimed, Owns, Attempted
<1>5. StatusOf(id) = "unissued" /\ StatusOf(id)' = "open"
  BY <1>1, <1>3, <1>4 DEF StatusMeaning, Standing
<1> DEFINE left == {i \in SessionId \ {id} : StatusOf(i) = "open" /\ StatusOf(i)' # "open"}
<1>6. ASSUME NEW i \in SessionId \ {id}
      PROVE  StatusOf(i)' = IF i \in left THEN "gone" ELSE StatusOf(i)
  <2>1. CASE Unclaimed(i)
    <3>1. Unclaimed(i)' BY <2>1 DEF Unclaimed, Owns, Attempted
    <3>2. StatusOf(i) = Standing(i) /\ StatusOf(i)' = Standing(i)'
      BY <2>1, <3>1 DEF StatusMeaning
    <3>3. QED BY <1>1, <3>2 DEF Standing
  <2>2. ASSUME NEW r \in Request, Owns(r, i)
        PROVE  StatusOf(i)' = IF i \in left THEN "gone" ELSE StatusOf(i)
    <3>1. Owns(r, i)' /\ Outcome(req'[r]) = Outcome(req[r])
      BY <2>2 DEF Owns, Attempted
    <3>2. StatusOf(i)' = StatusOf(i) BY <2>2, <3>1, StatusKept
    <3>3. QED BY <3>2
  <2>3. QED BY <2>1, <2>2 DEF Unclaimed
<1> HIDE DEF left
<1>7. id \notin left BY DEF left
<1>8. statuses' = [[i \in SessionId |-> IF i \in left THEN "gone" ELSE statuses[i]]
                     EXCEPT ![id] = "open"]
  BY <1>5, <1>6, <1>7 DEF statuses
<1>9. left \in SUBSET Promise!With("open")
  BY DEF left, Promise!With
<1>10. statuses[id] = "unissued" BY <1>5 DEF statuses
<1>11. QED BY <1>8, <1>9, <1>10 DEF Promise!Issue, Promise!Without, statuses

\* One session's status changes, from a step of the request that holds it.
LEMMA OneChanges ==
  ASSUME StatusMeaning, StatusMeaning', NEW r \in Request, NEW id \in SessionId,
         Owns(r, id)', issued' = issued, DOMAIN sessions' = DOMAIN sessions,
         \A x \in Request \ {r} : req'[x] = req[x],
         Attempted(r) => req[r].session = id
  PROVE  statuses' = [statuses EXCEPT ![id] = Outcome(req'[r])]
<1>1. StatusOf(id)' = Outcome(req'[r]) BY DEF StatusMeaning
<1>2. ASSUME NEW i \in SessionId \ {id}
      PROVE  StatusOf(i)' = StatusOf(i)
  <2>1. ~Owns(r, i) /\ ~Owns(r, i)' BY DEF Owns
  <2>2. \A x \in Request : Owns(x, i)' <=> Owns(x, i)
    BY <2>1 DEF Owns, Attempted
  <2>3. CASE Unclaimed(i)
    BY <2>2, <2>3, StatusKept DEF Unclaimed, Standing
  <2>4. ASSUME NEW x \in Request, Owns(x, i)
        PROVE  StatusOf(i)' = StatusOf(i)
    <3>1. x # r /\ Owns(x, i)' /\ req'[x] = req[x] BY <2>1, <2>2, <2>4
    <3>2. QED BY <2>4, <3>1, StatusKept
  <2>5. QED BY <2>3, <2>4 DEF Unclaimed
<1>3. QED BY <1>1, <1>2 DEF statuses

\* Claim, or FailAtOnce when a check before the proof check fails.
LEMMA PromiseTake ==
  ASSUME TypeOK, Inv, Inv', StatusMeaning, StatusMeaning', UNCHANGED terms,
         NEW r \in Request, NEW id \in SessionId, NEW resp \in Response,
         req[r].pc = "idle", Store!Take(id), Verify(r, id, resp)
  PROVE  Promise!Claim(id) \/ Promise!FailAtOnce(id)
<1>1. /\ id \in DOMAIN sessions /\ ~sessions[id].attempted
      /\ issued' = issued /\ DOMAIN sessions' = DOMAIN sessions
  BY TypeParts, StoreTakes
<1>2. PICK pc, says :
        /\ req'[r] = [pc |-> pc, session |-> id, response |-> resp,
                      origin |-> sessions[id].expected_origin, claimed_at |-> wall,
                      says |-> says]
        /\ \A other \in Request \ {r} : req'[other] = req[other]
        /\ \/ /\ pc = "queued" /\ says = "nothing" /\ queue' = Append(queue, r)
              /\ Passes(resp, id, sessions[id].expected_origin, wall)
           \/ /\ pc = "answered" /\ says \in FailureReason /\ queue' = queue
              /\ Flawed(says, resp, id, sessions[id].expected_origin, wall)
  BY TakeTells
<1>3. /\ req'[r].pc = pc /\ req'[r].says = says /\ req'[r].session = id
      /\ \A other \in Request \ {r} : req'[other] = req[other]
  BY <1>2
<1>4. ~Attempted(r)
  BY DEF Inv, AllGrounded, Grounded, Attempted, Waiting, Verdict, FailureReason
<1>5. Owns(r, id)'
  BY <1>2, <1>3 DEF Owns, Attempted, Waiting, Verdict
<1>6. statuses' = [statuses EXCEPT ![id] = Outcome(req'[r])]
  BY <1>1, <1>3, <1>4, <1>5, OneChanges
<1>7. Outcome(req'[r]) = "pending" \/ Outcome(req'[r]) = "failed"
  BY <1>2, <1>3 DEF Outcome, Waiting, FailureReason
<1>8. statuses[id] = "open"
  <2>1. id \in issued BY <1>1, TypeParts, StoreTypes
  <2>2. Unclaimed(id) BY <1>1 DEF Inv, StoreAgrees, Marked, Unclaimed, Owns
  <2>3. StatusOf(id) = "open" BY <1>1, <2>1, <2>2 DEF StatusMeaning, Standing
  <2>4. QED BY <2>3 DEF statuses
<1>9. QED
  BY <1>6, <1>7, <1>8 DEF Promise!Claim, Promise!FailAtOnce, statuses

\* Decide, when the handler gets its turn.
LEMMA PromiseResume ==
  ASSUME TypeOK, Inv, StatusMeaning, StatusMeaning', NEW r \in Request, Resume(r)
  PROVE  \E verdict \in {"verified", "failed"} : Promise!Decide(req[r].session, verdict)
<1>1. /\ req[r].pc = "done" /\ req' = [req EXCEPT ![r].pc = "answered"]
      /\ UNCHANGED <<storeVars, terms, queue>>
  BY DEF Resume
<1>2. /\ req'[r].pc = "answered" /\ req'[r].says = req[r].says
      /\ req'[r].session = req[r].session
      /\ \A other \in Request \ {r} : req'[other] = req[other]
  BY <1>1, SetPc
<1>3. PICK id \in SessionId : id = req[r].session
  BY <1>1, TypeParts, StoreTypes
  DEF Inv, AllHold, HoldsClaim, Attempted, Waiting
<1>4. req[r].says \in Verdict
  BY <1>1 DEF Inv, AllGrounded, Grounded
<1>5. Owns(r, id) /\ Owns(r, id)'
  BY <1>1, <1>2, <1>3, <1>4 DEF Owns, Attempted
<1>6. statuses' = [statuses EXCEPT ![id] = Outcome(req'[r])]
  <2>1. issued' = issued /\ DOMAIN sessions' = DOMAIN sessions BY <1>1 DEF storeVars
  <2>2. QED BY <1>2, <1>3, <1>5, <2>1, OneChanges
<1>7. Outcome(req'[r]) \in {"verified", "failed"}
  BY <1>2 DEF Outcome, Waiting
<1>8. statuses[id] = "pending"
  BY <1>1, <1>5 DEF StatusMeaning, Outcome, Waiting, statuses
<1>9. QED
  BY <1>3, <1>6, <1>7, <1>8 DEF Promise!Decide, statuses

\* The process ends: what is open or pending is so no more.
LEMMA PromiseStop ==
  ASSUME TypeOK, Inv, StatusMeaning, StatusMeaning', Restart
  PROVE  Promise!Stop
<1>1. issued' = issued /\ DOMAIN sessions' = {}
  BY DEF Restart, Store!Restart
<1>2. ASSUME NEW r \in Request
      PROVE  /\ req'[r].says = req[r].says /\ req'[r].session = req[r].session
             /\ req'[r].pc = IF req[r].pc \in Waiting THEN "lost" ELSE req[r].pc
  <2> DEFINE new == [req[r] EXCEPT !.pc = "lost"]
  <2>1. req[r] \in ReqType BY TypeParts DEF OwnTypes
  <2>2. new.pc = "lost" /\ new.says = req[r].says /\ new.session = req[r].session
    BY <2>1 DEF ReqType
  <2>3. req'[r] = IF req[r].pc \in Waiting THEN new ELSE req[r] BY DEF Restart
  <2> HIDE DEF new
  <2>4. QED BY <2>2, <2>3
<1>3. ASSUME NEW id \in SessionId
      PROVE  StatusOf(id)' = CASE StatusOf(id) = "open" -> "gone"
                               [] StatusOf(id) = "pending" -> "lost"
                               [] OTHER -> StatusOf(id)
  <2>1. CASE Unclaimed(id)
    <3>1. Unclaimed(id)' BY <1>2, <2>1 DEF Unclaimed, Owns, Attempted
    <3>2. StatusOf(id) = Standing(id) /\ StatusOf(id)' = Standing(id)'
      BY <2>1, <3>1 DEF StatusMeaning
    <3>3. QED BY <1>1, <3>2 DEF Standing
  <2>2. ASSUME NEW r \in Request, Owns(r, id)
        PROVE  StatusOf(id)' = CASE StatusOf(id) = "open" -> "gone"
                                 [] StatusOf(id) = "pending" -> "lost"
                                 [] OTHER -> StatusOf(id)
    <3>1. Owns(r, id)' BY <1>2, <2>2 DEF Owns, Attempted
    <3>2. StatusOf(id) = Outcome(req[r]) /\ StatusOf(id)' = Outcome(req'[r])
      BY <2>2, <3>1 DEF StatusMeaning
    <3>3. QED BY <1>2, <3>2 DEF Outcome, Waiting
  <2>3. QED BY <2>1, <2>2 DEF Unclaimed
<1>4. QED BY <1>3 DEF Promise!Stop

\* Every step but these four leaves the claims and their outcomes alone.
LEMMA PromiseQuiet ==
  ASSUME TypeOK, Inv, StatusMeaning, StatusMeaning',
         \/ UNCHANGED vars
         \/ Store!RejectCreate /\ UNCHANGED req
         \/ \E id \in SessionId, origin \in Origin, doc \in Documents, drift \in Drift :
              Present(id, origin, doc, drift)
         \/ \E r \in Request, id \in SessionId, resp \in Response :
              /\ req[r].pc = "idle"
              /\ \/ Store!Unknown(id) /\ Answer(r, id, resp, "404")
                 \/ Store!AlreadyAttempted(id) /\ Answer(r, id, resp, "409")
         \/ StartJob \/ (\E r \in Request : FinishJob(r))
         \/ DebugTranscript \/ Background
  PROVE  Promise!Forget
<1>1. CASE UNCHANGED req /\ Evicts
  BY <1>1, TypeParts, StoreShrinks, ForgetStep DEF SameClaims, Attempted
<1>2. CASE \/ UNCHANGED vars
           \/ Store!RejectCreate /\ UNCHANGED req
           \/ \E id \in SessionId, origin \in Origin, doc \in Documents, drift \in Drift :
                Present(id, origin, doc, drift)
           \/ DebugTranscript \/ Background
  <2>1. UNCHANGED req /\ Evicts
    BY <1>2 DEF vars, storeVars, Present, DebugTranscript, Background, Evicts,
                Store!Background, Store!Get
  <2>2. QED BY <1>1, <2>1
<1>3. ASSUME NEW r \in Request, NEW id \in SessionId, NEW resp \in Response,
             NEW says \in {"404", "409"}, req[r].pc = "idle",
             Store!Unknown(id) \/ Store!AlreadyAttempted(id), Answer(r, id, resp, says)
      PROVE  Promise!Forget
  <2>1. /\ req'[r].pc = "answered" /\ req'[r].says = says
        /\ \A other \in Request \ {r} : req'[other] = req[other]
    BY <1>3, TypeParts, AnswerTells
  <2>2. ~Attempted(r) /\ ~Attempted(r)'
    BY <1>3, <2>1 DEF Inv, AllGrounded, Grounded, Attempted, Waiting, Verdict, FailureReason
  <2>3. SameClaims /\ \A x \in Request : Attempted(x) => Outcome(req'[x]) = Outcome(req[x])
    BY <2>1, <2>2 DEF SameClaims, Attempted
  <2>4. Evicts BY <1>3 DEF Evicts
  <2>5. QED BY <2>3, <2>4, TypeParts, StoreShrinks, ForgetStep
<1>4. ASSUME NEW r \in Request, req[r].pc \in Waiting, req'[r].pc \in Waiting,
             req'[r].session = req[r].session, req'[r].response = req[r].response,
             req'[r].origin = req[r].origin, req'[r].claimed_at = req[r].claimed_at,
             \A other \in Request \ {r} : req'[other] = req[other], UNCHANGED storeVars
      PROVE  Promise!Forget
  <2>1. SameClaims /\ \A x \in Request : Attempted(x) => Outcome(req'[x]) = Outcome(req[x])
    BY <1>4 DEF SameClaims, Attempted, Outcome
  <2>2. issued' = issued /\ DOMAIN sessions' \subseteq DOMAIN sessions
    BY <1>4 DEF storeVars
  <2>3. QED BY <2>1, <2>2, ForgetStep
<1>5. CASE StartJob
  <2>1. PICK r \in Request : r = Head(queue) /\ req[r].pc = "queued"
    BY <1>5, TypeParts DEF StartJob, OwnTypes, Inv, QueuedOnce
  <2>2. req' = [req EXCEPT ![r].pc = "running"] /\ UNCHANGED storeVars
    BY <1>5, <2>1 DEF StartJob
  <2>3. req'[r].pc = "running" BY <2>2, SetPc
  <2>4. QED BY <1>4, <2>1, <2>2, <2>3, SetPc DEF Waiting
<1>6. ASSUME NEW r \in Request, FinishJob(r)
      PROVE  Promise!Forget
  <2>1. PICK v \in ProofVerdicts(Job(req[r].response, req[r].session, req[r].origin)) :
          req' = [req EXCEPT ![r] = [@ EXCEPT !.pc = "done", !.says = v]]
    BY <1>6 DEF FinishJob
  <2>2. req[r].pc = "running" /\ UNCHANGED storeVars BY <1>6 DEF FinishJob
  <2>3. req'[r].pc = "done" BY <2>1, MovesOn
  <2>4. QED BY <1>4, <2>1, <2>2, <2>3, MovesOn DEF Waiting
<1>7. QED BY <1>2, <1>3, <1>5, <1>6

LEMMA PromiseStep ==
  ASSUME TypeOK, Inv, TypeOK', Inv', [Next]_vars
  PROVE  Promise!Next
<1>1. StatusMeaning /\ StatusMeaning' BY StatusIs, StatusWillBe
<1>2. Promise!Forget => Promise!Next BY DEF Promise!Next
<1>3. CASE CreateSession
  <2>1. UNCHANGED req BY <1>3 DEF CreateSession
  <2>2. CASE Store!RejectCreate BY <1>1, <1>2, <2>1, <2>2, PromiseQuiet
  <2>3. ASSUME NEW id \in SessionId, NEW override \in Origin \cup {NoOverride},
               Store!Create(id, override)
        PROVE  Promise!Next
    <3>1. Promise!Issue(id) BY <1>1, <2>1, <2>3, PromiseIssue
    <3>2. QED BY <3>1 DEF Promise!Next
  <2>4. QED BY <1>3, <2>2, <2>3 DEF CreateSession
<1>4. ASSUME NEW r \in Request, NEW id \in SessionId, NEW resp \in presented,
             Submit(r, id, resp)
      PROVE  Promise!Next
  <2>1. resp \in Response BY TypeParts DEF OwnTypes
  <2>2. req[r].pc = "idle" /\ UNCHANGED terms BY <1>4 DEF Submit
  <2>3. CASE Store!Take(id) /\ Verify(r, id, resp)
    <3>1. Promise!Claim(id) \/ Promise!FailAtOnce(id)
      BY <1>1, <2>1, <2>2, <2>3, PromiseTake
    <3>2. QED BY <3>1 DEF Promise!Next
  <2>4. CASE \/ Store!Unknown(id) /\ Answer(r, id, resp, "404")
             \/ Store!AlreadyAttempted(id) /\ Answer(r, id, resp, "409")
    BY <1>1, <1>2, <2>1, <2>2, <2>4, PromiseQuiet
  <2>5. QED BY <1>4, <2>3, <2>4 DEF Submit
<1>5. ASSUME NEW r \in Request, Resume(r)
      PROVE  Promise!Next
  <2>1. req[r].session \in SessionId
    BY <1>5, TypeParts, StoreTypes
    DEF Inv, AllHold, HoldsClaim, Attempted, Waiting, Resume
  <2>2. QED BY <1>1, <1>5, <2>1, PromiseResume DEF Promise!Next
<1>6. CASE Restart BY <1>1, <1>6, PromiseStop DEF Promise!Next
<1>7. CASE \/ UNCHANGED vars \/ StartJob \/ DebugTranscript \/ Background
           \/ \E r \in Request : FinishJob(r)
           \/ \E id \in SessionId, origin \in Origin, doc \in Documents, drift \in Drift :
                Present(id, origin, doc, drift)
  BY <1>1, <1>2, <1>7, PromiseQuiet
<1>8. QED BY <1>3, <1>4, <1>5, <1>6, <1>7 DEF Next

(***************************************************************************)
(* The service implements SessionVerdict, through requests, sweeps, clock  *)
(* steps, thread scheduling and restarts: one claim per session, verified  *)
(* only by a proof check, and a verdict that stands (routes.py:230-242,    *)
(* sessions.py:122-125, verify.py:187-203).                                *)
(***************************************************************************)
THEOREM KeepsItsPromise == Spec => VerdictSpec
<1>1. Init => Promise!Init
  <2> SUFFICES ASSUME Init PROVE Promise!Init OBVIOUS
  <2>1. issued = {} BY DEF Init, Store!Init
  <2>2. \A id \in SessionId : StatusOf(id) = "unissued" BY <2>1 DEF StatusOf
  <2>3. QED BY <2>2 DEF Promise!Init
<1>2. TypeOK /\ Inv /\ TypeOK' /\ Inv' /\ [Next]_vars => Promise!Next
  BY PromiseStep
<1>3. QED
  BY <1>1, <1>2, TypeCorrect, InvHolds, PTL DEF Spec, VerdictSpec, Promise!Spec

=============================================================================
