---------------------------- MODULE SessionStore ----------------------------
(***************************************************************************)
(* The in-process session store (service/sessions.py) with its sweeper.    *)
(*                                                                         *)
(* Every method of SessionStore is synchronous and is called from one      *)
(* event loop, so a method runs to its end before any other code touches   *)
(* the dict: each is one action.  A method reads the clock once or twice   *)
(* within a turn; the model reads one value per turn.                      *)
(*                                                                         *)
(* Two clocks matter.  Deadlines are compared with the wall clock          *)
(* (datetime.now), which an operator or NTP may set back or forward; the   *)
(* sweeper sleeps on the loop's monotonic clock.                           *)
(*                                                                         *)
(* Operators named Faulty... are deliberate mistakes.  Nothing uses them:  *)
(* they stand in for the definition that follows them to show that a       *)
(* property would notice.                                                  *)
(***************************************************************************)
EXTENDS Integers, FiniteSets, Functions

CONSTANTS
  SessionId,      \* the ids secrets.token_urlsafe may draw, never one twice
  NoId,           \* "no id", for answers that concern no session
  Origin,         \* origins a session may expect
  DefaultOrigin,  \* config.service.expected_origin
  NoOverride,     \* expected_origin absent from the request body
  Cap,            \* config.service.session_cap: any int, the config has no range
  TTL,            \* config.service.session_ttl_seconds: likewise
  Interval,       \* _SWEEP_INTERVAL_SECONDS
  Jumps,          \* the adjustments the wall clock may be given
  Horizon         \* bound: neither clock is followed past it

ASSUME StoreAssumption ==
  /\ NoId \notin SessionId
  /\ DefaultOrigin \in Origin
  /\ NoOverride \notin Origin
  /\ Cap \in Int /\ TTL \in Int
  /\ Interval \in Nat \ {0}
  /\ Jumps \subseteq Int
  /\ Horizon \in Nat

VARIABLES
  sessions,   \* SessionStore._sessions: the stored ids, each with its record
  issued,     \* history: every id ever drawn
  wall,       \* datetime.now(UTC)
  mono,       \* loop.time()
  wakeAt,     \* mono when the sweeper's sleep ends
  reply       \* what the last step returned or raised, and for which id

vars == <<sessions, issued, wall, mono, wakeAt, reply>>

\* session_id is the key of the dict; dc goes by it, being fresh for each id;
\* claims are the one supported list.
Session == [created_at : Int, expires_at : Int,
            expected_origin : Origin, attempted : BOOLEAN]

Result == {"nothing", "created", "full", "taken", "already", "found", "unknown"}

Stored == DOMAIN sessions

TypeOK ==
  /\ issued \subseteq SessionId
  /\ Stored \subseteq issued
  /\ sessions \in [Stored -> Session]
  /\ wall \in Int
  /\ mono \in 0..Horizon
  /\ wakeAt \in Nat
  /\ reply \in [id : SessionId \cup {NoId}, result : Result]

Reply(id, result) == reply' = [id |-> id, result |-> result]
NoReply == [id |-> NoId, result |-> "nothing"]

Init ==
  /\ sessions = <<>>
  /\ issued = {}
  /\ wall = 0
  /\ mono = 0
  /\ wakeAt = Interval
  /\ reply = NoReply

-----------------------------------------------------------------------------
(* Expiry and eviction.                                                    *)

FaultyExpiredLate(id) == wall > sessions[id].expires_at

\* The test _live and sweep share: now >= expires_at.
Expired(id) == wall >= sessions[id].expires_at

Unexpired == {id \in Stored : ~Expired(id)}

FaultySweptSpentToo == Restrict(sessions, {id \in Unexpired : ~sessions[id].attempted})
FaultySweptSpentNever ==
  Restrict(sessions, Unexpired \cup {id \in Stored : sessions[id].attempted})

\* The dict once every expired session has been evicted (sweep).
Swept == Restrict(sessions, Unexpired)

\* What sessions becomes when a lookup of id fails: _live evicts what it
\* finds expired.
FaultyEvictNothing(id) == sessions
Evicted(id) == Restrict(sessions, Stored \ {id})

AnswersTo(id) == id \in Stored /\ ~Expired(id)

-----------------------------------------------------------------------------
(* create.                                                                 *)

FaultyRoomOffByOne(s) == Cardinality(DOMAIN s) <= Cap
HasRoom(s) == Cardinality(DOMAIN s) < Cap

\* The dict create tests the cap against the second time.
FaultyMakeRoomNot == sessions
MakeRoom == IF HasRoom(sessions) THEN sessions ELSE Swept

Insert(s, id, origin) ==
  [i \in DOMAIN s \cup {id} |->
     IF i = id
       THEN [created_at |-> wall, expires_at |-> wall + TTL,
             expected_origin |-> origin, attempted |-> FALSE]
       ELSE s[i]]

FaultyOriginFor(override) == override
OriginFor(override) == IF override = NoOverride THEN DefaultOrigin ELSE override

Create(id, override) ==
  /\ id \notin issued
  /\ HasRoom(MakeRoom)
  /\ sessions' = Insert(MakeRoom, id, OriginFor(override))
  /\ issued' = issued \cup {id}
  /\ Reply(id, "created")
  /\ UNCHANGED <<wall, mono, wakeAt>>

\* StoreAtCapacity: the sweep has happened all the same.
RejectCreate ==
  /\ ~HasRoom(MakeRoom)
  /\ sessions' = MakeRoom
  /\ Reply(NoId, "full")
  /\ UNCHANGED <<issued, wall, mono, wakeAt>>

-----------------------------------------------------------------------------
(* take_for_attempt and get, over the lookup they share (_live).           *)

Unknown(id) ==
  /\ ~AnswersTo(id)
  /\ sessions' = Evicted(id)
  /\ Reply(id, "unknown")
  /\ UNCHANGED <<issued, wall, mono, wakeAt>>

\* A mistake: the attempt is not marked before the session is handed over.
FaultyTake(id) ==
  /\ AnswersTo(id)
  /\ ~sessions[id].attempted
  /\ Reply(id, "taken")
  /\ UNCHANGED <<sessions, issued, wall, mono, wakeAt>>

Take(id) ==
  /\ AnswersTo(id)
  /\ ~sessions[id].attempted
  /\ sessions' = [sessions EXCEPT ![id].attempted = TRUE]
  /\ Reply(id, "taken")
  /\ UNCHANGED <<issued, wall, mono, wakeAt>>

AlreadyAttempted(id) ==
  /\ AnswersTo(id)
  /\ sessions[id].attempted
  /\ Reply(id, "already")
  /\ UNCHANGED <<sessions, issued, wall, mono, wakeAt>>

TakeForAttempt(id) == Take(id) \/ AlreadyAttempted(id) \/ Unknown(id)

\* A mistake: looking counts as attempting.
FaultyFind(id) ==
  /\ AnswersTo(id)
  /\ sessions' = [sessions EXCEPT ![id].attempted = TRUE]
  /\ Reply(id, "found")
  /\ UNCHANGED <<issued, wall, mono, wakeAt>>

Find(id) ==
  /\ AnswersTo(id)
  /\ Reply(id, "found")
  /\ UNCHANGED <<sessions, issued, wall, mono, wakeAt>>

Get(id) == Find(id) \/ Unknown(id)

-----------------------------------------------------------------------------
(* The sweeper, the clocks and the process.                                *)

\* sweep_loop: the sleep is over, one sweep, and back to sleep.
SweepLoop ==
  /\ mono >= wakeAt
  /\ sessions' = Swept
  /\ wakeAt' = mono + Interval
  /\ reply' = NoReply
  /\ UNCHANGED <<issued, wall, mono>>

Tick ==
  /\ mono < Horizon
  /\ mono' = mono + 1
  /\ wall' = wall + 1
  /\ reply' = NoReply
  /\ UNCHANGED <<sessions, issued, wakeAt>>

\* The wall clock is set; bounded to 0..Horizon.
StepClock ==
  /\ \E d \in Jumps : wall + d \in 0..Horizon /\ wall' = wall + d
  /\ reply' = NoReply
  /\ UNCHANGED <<sessions, issued, mono, wakeAt>>

\* The process stops and starts again: the dict is in memory only, and
\* lifespan starts a new sweeper.
Restart ==
  /\ sessions' = <<>>
  /\ wakeAt' = mono + Interval
  /\ reply' = NoReply
  /\ UNCHANGED <<issued, wall, mono>>

Background == SweepLoop \/ Tick \/ StepClock \/ Restart

Next ==
  \/ \E id \in SessionId, override \in Origin \cup {NoOverride} : Create(id, override)
  \/ RejectCreate
  \/ \E id \in SessionId : TakeForAttempt(id) \/ Get(id)
  \/ Background

Spec == Init /\ [][Next]_vars

\* The loop goes on running: time passes and a sweeper whose sleep is over
\* gets its turn.  Clients need not do anything.
FairSpec == Spec /\ WF_vars(Tick) /\ WF_vars(SweepLoop)

-----------------------------------------------------------------------------
(* Properties.                                                             *)

(***************************************************************************)
(* The cap bounds the whole dict, expired and spent sessions included, and *)
(* not only the unexpired ones (sessions.py:85-90).                        *)
(***************************************************************************)
StoreBounded == Stored # {} => Cardinality(Stored) <= Cap

(***************************************************************************)
(* A 503 is given only when Cap sessions that have not expired fill the    *)
(* store: expired sessions do not count against the cap (sessions.py:84).  *)
(***************************************************************************)
FullOfUnexpired ==
  reply.result = "full" => Unexpired = Stored /\ Cardinality(Stored) >= Cap

(***************************************************************************)
(* A session, spent or not, leaves the dict only by its deadline or with   *)
(* the process.  For a spent one this is what keeps the second submission  *)
(* a 409 until the session's own expiry (sessions.py:125, 170).            *)
(***************************************************************************)
LeavesOnlyExpired ==
  [][\A id \in Stored \ Stored' : wall >= sessions[id].expires_at \/ Restart]_vars

(***************************************************************************)
(* An expired session does not outlive the next sweep, whatever requests   *)
(* come in between: nothing still stored had expired when the sweeper last *)
(* ran, at wakeAt - Interval.  Holds where the wall clock is not adjusted  *)
(* and TTL >= 1 (sessions.py:170-172, 185-187).                            *)
(***************************************************************************)
SweptSinceExpiry ==
  \A id \in Stored : sessions[id].expires_at > wakeAt - Interval

(***************************************************************************)
(* An expired session is evicted even if no client ever asks for it again, *)
(* as far as the followed time allows a sweep to come (sessions.py:178).   *)
(***************************************************************************)
Overdue(id) == id \in Stored /\ Expired(id) /\ wakeAt <= Horizon
ExpiredIsEvicted == \A id \in SessionId : Overdue(id) ~> id \notin Stored

(***************************************************************************)
(* The store keeps the promise of SessionHandle: claimed once, and a 404   *)
(* is final even if the clock is set back (sessions.py:122-125, 157-160).  *)
(***************************************************************************)
PhaseOf(id) ==
  CASE id \notin issued -> "unissued"
    [] id \in Stored /\ sessions[id].attempted -> "spent"
    [] id \in Stored /\ ~sessions[id].attempted -> "open"
    [] OTHER -> "gone"

Handle == INSTANCE SessionHandle WITH
  phase <- [id \in SessionId |-> PhaseOf(id)],
  answer <- [id |-> reply.id, says |-> reply.result]

HandleSpec == Handle!Spec

=============================================================================
