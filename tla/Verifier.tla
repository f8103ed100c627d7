------------------------------ MODULE Verifier ------------------------------
(***************************************************************************)
(* The running service: the handlers of service/routes.py over the session *)
(* store, the verification pipeline, and the thread pool the proof check   *)
(* runs in.                                                                *)
(*                                                                         *)
(* submit_response suspends in one place only, where verify_presentation   *)
(* awaits the executor.  So claiming the attempt, opening the response and *)
(* all checks before the proof check are one step (Submit), and sessions   *)
(* may expire, be swept or be asked for while the proof check waits for a  *)
(* thread or runs in one (StartJob, FinishJob), until the handler gets its *)
(* next turn (Resume).                                                     *)
(*                                                                         *)
(* Wallets and relays are outside: Present makes a response, and a relay   *)
(* may hand over any response, to any session, at any time, again.         *)
(***************************************************************************)
EXTENDS Verification, FiniteSets

CONSTANTS
  NoId, DefaultOrigin, NoOverride, Cap, TTL, Interval, Jumps, Horizon,
  Request,        \* the submissions followed, one HTTP request each
  NoResponse,     \* the body of a request not made yet
  PoolSize,       \* threads of the event loop's default executor
  Documents,      \* the documents wallets hold
  Drift,          \* how far the clock of a wallet may be ahead of the service's
  MaxPresented    \* bound: the number of responses wallets make

ASSUME VerifierAssumption ==
  /\ PoolSize \in Nat \ {0}
  /\ Documents \subseteq Document
  /\ Drift \subseteq Int
  /\ NoResponse \notin Response
  /\ MaxPresented \in Nat

VARIABLES
  sessions, issued, wall, mono, wakeAt, reply,   \* see SessionStore
  terms,       \* history: expected_origin and expires_at each id was issued with
  presented,   \* the responses wallets have made
  req,         \* each request: where it is, what it asked, what it is told
  queue        \* the executor's queue of proof checks, oldest first

storeVars == <<sessions, issued, wall, mono, wakeAt, reply>>
vars == <<storeVars, terms, presented, req, queue>>

Store == INSTANCE SessionStore

ASSUME VerifierStoreAssumption == Store!StoreAssumption

Waiting == {"queued", "running", "done"}
Verdict == {"verified"} \cup FailureReason

Idle == [pc |-> "idle", session |-> NoId, response |-> NoResponse,
         origin |-> NoOverride, claimed_at |-> 0, says |-> "nothing"]

TypeOK ==
  /\ Store!TypeOK
  /\ terms \in [issued -> [origin : Origin, expires_at : Int]]
  /\ presented \subseteq Response
  /\ req \in [Request ->
       [pc : {"idle", "answered", "lost"} \cup Waiting,
        session : SessionId \cup {NoId},
        response : Response \cup {NoResponse},
        origin : Origin \cup {NoOverride},
        claimed_at : Int,
        says : {"nothing", "404", "409"} \cup Verdict]]
  /\ queue \in Seq(Request)

Init ==
  /\ Store!Init
  /\ terms = <<>>
  /\ presented = {}
  /\ req = [r \in Request |-> Idle]
  /\ queue = <<>>

Running == {r \in Request : req[r].pc = "running"}

-----------------------------------------------------------------------------
(* Opening a session, and the wallet's response to its offer.              *)

\* create_session, once its body is valid and asks for the supported check:
\* anything else is refused (422, 400) before the store is reached.
CreateSession ==
  /\ \/ /\ Store!RejectCreate
        /\ UNCHANGED terms
     \/ \E id \in SessionId, override \in Origin \cup {NoOverride} :
          /\ Store!Create(id, override)
          /\ terms' = [i \in issued' |->
               IF i \in issued THEN terms[i]
               ELSE [origin |-> Store!OriginFor(override), expires_at |-> wall + TTL]]
  /\ UNCHANGED <<presented, req, queue>>

\* A wallet answers the offer of id for the page at origin, with doc, at the
\* time its own clock shows.
Present(id, origin, doc, drift) ==
  /\ id \in issued
  /\ Cardinality(presented) < MaxPresented
  /\ presented' = presented \cup
       {[session |-> id, origin |-> origin, timestamp |-> wall + drift, doc |-> doc]}
  /\ UNCHANGED <<storeVars, terms, req, queue>>

-----------------------------------------------------------------------------
(* submit_response.                                                        *)

Answer(r, id, resp, says) ==
  /\ req' = [req EXCEPT ![r] = [@ EXCEPT !.pc = "answered", !.session = id,
                                         !.response = resp, !.says = says]]
  /\ UNCHANGED queue

\* The attempt is this request's: sessions[id] is the session it holds on to
\* from here, whatever becomes of the store's entry.
Claimed(r, id, resp, pc, says) ==
  req' = [req EXCEPT ![r] =
    [pc |-> pc, session |-> id, response |-> resp,
     origin |-> sessions[id].expected_origin, claimed_at |-> wall, says |-> says]]

\* A mistake: the configured origin where the session's own belongs.
FaultyVerify(r, id, resp) ==
  IF EarlyVerdict(resp, id, DefaultOrigin, wall) = Passed
    THEN /\ Claimed(r, id, resp, "queued", "nothing")
         /\ queue' = Append(queue, r)
    ELSE /\ Claimed(r, id, resp, "answered",
                    EarlyVerdict(resp, id, DefaultOrigin, wall))
         /\ UNCHANGED queue

\* verify_response up to its first suspension or its failure.
Verify(r, id, resp) ==
  LET early == EarlyVerdict(resp, id, sessions[id].expected_origin, wall)
  IN  IF early = Passed
        THEN /\ Claimed(r, id, resp, "queued", "nothing")
             /\ queue' = Append(queue, r)
        ELSE /\ Claimed(r, id, resp, "answered", early)
             /\ UNCHANGED queue

\* One turn of submit_response, its body valid: 422 comes before the handler.
Submit(r, id, resp) ==
  /\ req[r].pc = "idle"
  /\ \/ Store!Unknown(id) /\ Answer(r, id, resp, "404")
     \/ Store!AlreadyAttempted(id) /\ Answer(r, id, resp, "409")
     \/ Store!Take(id) /\ Verify(r, id, resp)
  /\ UNCHANGED <<terms, presented>>

\* The executor's threads take jobs in the order they were submitted.
StartJob ==
  /\ queue # <<>>
  /\ Cardinality(Running) < PoolSize
  /\ req' = [req EXCEPT ![Head(queue)].pc = "running"]
  /\ queue' = Tail(queue)
  /\ UNCHANGED <<storeVars, terms, presented>>

FinishJob(r) ==
  /\ req[r].pc = "running"
  /\ \E v \in ProofVerdicts(Job(req[r].response, req[r].session, req[r].origin)) :
       req' = [req EXCEPT ![r].pc = "done", ![r].says = v]
  /\ UNCHANGED <<storeVars, terms, presented, queue>>

\* A mistake: a failure of the backend is not handed back to the loop.
FaultyResume(r) ==
  /\ req[r].pc = "done"
  /\ req[r].says # "engine-error"
  /\ req' = [req EXCEPT ![r].pc = "answered"]
  /\ UNCHANGED <<storeVars, terms, presented, queue>>

\* A mistake: a failed verdict hands the attempt back, if it still can.
FaultyResumeReopens(r) ==
  /\ req[r].pc = "done"
  /\ req' = [req EXCEPT ![r].pc = "answered"]
  /\ sessions' = IF req[r].session \in Store!Stored /\ req[r].says # "verified"
                   THEN [sessions EXCEPT ![req[r].session].attempted = FALSE]
                   ELSE sessions
  /\ UNCHANGED <<issued, wall, mono, wakeAt, reply, terms, presented, queue>>

\* The awaiting handler gets its turn and returns the verdict.
Resume(r) ==
  /\ req[r].pc = "done"
  /\ req' = [req EXCEPT ![r].pc = "answered"]
  /\ UNCHANGED <<storeVars, terms, presented, queue>>

-----------------------------------------------------------------------------
(* debug_transcript, the background and the process.                       *)

DebugTranscript ==
  /\ \E id \in SessionId : Store!Get(id)
  /\ UNCHANGED <<terms, presented, req, queue>>

Background ==
  /\ Store!SweepLoop \/ Store!Tick \/ Store!StepClock
  /\ UNCHANGED <<terms, presented, req, queue>>

\* The process dies and comes back: what was in flight is never answered.
Restart ==
  /\ Store!Restart
  /\ req' = [r \in Request |->
       IF req[r].pc \in Waiting THEN [req[r] EXCEPT !.pc = "lost"] ELSE req[r]]
  /\ queue' = <<>>
  /\ UNCHANGED <<terms, presented>>

Next ==
  \/ CreateSession
  \/ \E id \in SessionId, origin \in Origin, doc \in Documents, drift \in Drift :
       Present(id, origin, doc, drift)
  \/ \E r \in Request, id \in SessionId, resp \in presented : Submit(r, id, resp)
  \/ StartJob
  \/ \E r \in Request : FinishJob(r) \/ Resume(r)
  \/ DebugTranscript
  \/ Background
  \/ Restart

Spec == Init /\ [][Next]_vars

\* The backend's verify call returns, the executor hands jobs to free
\* threads, and the loop gives every ready handler its turn.
FairSpec ==
  /\ Spec
  /\ WF_vars(StartJob)
  /\ \A r \in Request : WF_vars(FinishJob(r)) /\ WF_vars(Resume(r))

-----------------------------------------------------------------------------
(* Properties.                                                             *)

\* r was given the session's attempt.
Attempted(r) == req[r].pc \in Waiting \cup {"lost"} \/ req[r].says \in Verdict

(***************************************************************************)
(* One attempt per session, ever: no two requests are let through to       *)
(* verification for one id, in whatever order they, the sweeper and the    *)
(* executor's results come (sessions.py:122-125, routes.py:230-238).       *)
(***************************************************************************)
OneAttempt ==
  \A r1, r2 \in Request :
    Attempted(r1) /\ Attempted(r2) /\ req[r1].session = req[r2].session => r1 = r2

(***************************************************************************)
(* A 409 blames an earlier submission, and there was one: some other       *)
(* request was given this session's attempt (routes.py:237-238).           *)
(***************************************************************************)
ConflictHasCause ==
  \A r \in Request : req[r].says = "409" =>
    \E other \in Request : Attempted(other) /\ req[other].session = req[r].session

(***************************************************************************)
(* "verified" is said only of a response to this session's own offer, made *)
(* for the origin the session was issued with, holding a sound zero-       *)
(* knowledge proof over the held circuit that discloses every requested    *)
(* claim (dc.py:192-195, verify.py:165-167, mdoc_zk.py:129-166).           *)
(***************************************************************************)
VerifiedIsBound ==
  \A r \in Request : req[r].says = "verified" =>
    LET resp == req[r].response
    IN  /\ resp.session = req[r].session
        /\ resp.origin = terms[req[r].session].origin
        /\ resp.doc.wrapped /\ resp.doc.shape = "zk" /\ resp.doc.sound
        /\ resp.doc.circuit = HeldCircuit
        /\ resp.doc.doctype /\ resp.doc.discloses = "all"

(***************************************************************************)
(* However long the proof check waited for a thread, and whether or not    *)
(* the session is gone by then, a verified attempt was claimed before the  *)
(* deadline the consumer was told, with a fresh proof and an issuer some   *)
(* anchor vouched for at that time (sessions.py:157, mdoc_zk.py:139-143).  *)
(***************************************************************************)
VerifiedInTime ==
  \A r \in Request : req[r].says = "verified" =>
    LET resp == req[r].response
        at == req[r].claimed_at
    IN  /\ at < terms[req[r].session].expires_at
        /\ at - resp.timestamp <= Skew /\ resp.timestamp - at <= Skew
        /\ Resolves(resp.doc.cert, at)

(***************************************************************************)
(* A reason is never blamed on a response that does not have the flaw it   *)
(* names, so a flawless response that reaches its own session in time is   *)
(* verified unless the backend itself fails (verify.py:141-203).  The      *)
(* reason decrypt-failed is also how an origin mismatch shows, and         *)
(* proof-invalid how a device that signed namespaces does                  *)
(* (routes.py:204-208, mdoc_zk.py:145-150).                                *)
(***************************************************************************)
AtFault(reason, resp, id, at) ==
  CASE reason = "invalid-envelope" -> ~resp.doc.wrapped \/ resp.doc.shape = "malformed"
    [] reason = "decrypt-failed" -> resp.session # id \/ resp.origin # terms[id].origin
    [] reason = "standard-mdoc-not-accepted" -> resp.doc.shape = "standard"
    [] reason = "unsupported-circuit" -> resp.doc.circuit # HeldCircuit
    [] reason = "claim-mismatch" -> ~resp.doc.doctype \/ resp.doc.discloses = "missing"
    [] reason = "stale-proof" -> at > resp.timestamp + Skew \/ resp.timestamp > at + Skew
    [] reason = "untrusted-issuer" -> ~Resolves(resp.doc.cert, at)
    [] reason = "proof-invalid" ->
         ~resp.doc.sound \/ resp.doc.device # AssumedDeviceNamespaces
    [] OTHER -> TRUE

ReasonIsTrue ==
  \A r \in Request : req[r].says \in FailureReason =>
    AtFault(req[r].says, req[r].response, req[r].session, req[r].claimed_at)

(***************************************************************************)
(* The handlers use the store through its operations only, so what         *)
(* SessionStore promises holds of the running service (routes.py:181, 234, *)
(* 274).                                                                   *)
(***************************************************************************)
StoreSpec == Store!Spec

(***************************************************************************)
(* The service keeps the promise of SessionVerdict: whatever requests,     *)
(* sweeps, clocks and restarts do, a session is claimed once, verified     *)
(* only by a proof check, and its verdict stands (routes.py:230-242,       *)
(* sessions.py:122-125, verify.py:187-203).                                *)
(***************************************************************************)
Attempts(id, pcs) == {r \in Request : req[r].session = id /\ req[r].pc \in pcs}

StatusOf(id) ==
  IF id \notin issued THEN "unissued"
  ELSE IF Attempts(id, Waiting) # {} THEN "pending"
  ELSE IF Attempts(id, {"lost"}) # {} THEN "lost"
  ELSE IF \E r \in Attempts(id, {"answered"}) : req[r].says = "verified" THEN "verified"
  ELSE IF \E r \in Attempts(id, {"answered"}) : req[r].says \in FailureReason THEN "failed"
  ELSE IF id \in Store!Stored THEN "open" ELSE "gone"

Promise == INSTANCE SessionVerdict WITH status <- [id \in SessionId |-> StatusOf(id)]

VerdictSpec == Promise!Spec

(***************************************************************************)
(* Every submission that claims the attempt is answered, unless the        *)
(* process dies first: the consumer waits in the same call                 *)
(* (routes.py:240, verify.py:187-203).                                     *)
(***************************************************************************)
EveryAttemptAnswered ==
  \A r \in Request : req[r].pc \in Waiting ~> req[r].pc \in {"answered", "lost"}

=============================================================================
