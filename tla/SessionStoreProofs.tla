------------------------- MODULE SessionStoreProofs -------------------------
(***************************************************************************)
(* What is proved of SessionStore for every cap, TTL, interval, clock      *)
(* adjustment and horizon.                                                 *)
(***************************************************************************)
EXTENDS SessionStore, FiniteSetTheorems, TLAPS

USE StoreAssumption

(* The dict after each of the things that happen to it.                    *)

\* Evicting sessions leaves a dict of fewer, unchanged, sessions.
LEMMA RestrictedDict ==
  ASSUME TypeOK, NEW S \in SUBSET Stored
  PROVE  /\ DOMAIN Restrict(sessions, S) = S
         /\ Restrict(sessions, S) \in [S -> Session]
         /\ \A id \in S : Restrict(sessions, S)[id] = sessions[id]
BY DEF TypeOK, Restrict, Stored

\* A swept dict holds the unexpired sessions, unchanged.
LEMMA SweptDict ==
  ASSUME TypeOK
  PROVE  /\ DOMAIN Swept = Unexpired
         /\ Unexpired \subseteq Stored
         /\ Swept \in [Unexpired -> Session]
         /\ \A id \in Unexpired : Swept[id] = sessions[id]
<1>1. Unexpired \subseteq Stored
  BY DEF Unexpired
<1>2. QED
  BY <1>1, RestrictedDict DEF Swept

\* create makes room by sweeping, or not at all.
LEMMA MadeRoom ==
  ASSUME TypeOK
  PROVE  /\ DOMAIN MakeRoom \subseteq Stored
         /\ MakeRoom \in [DOMAIN MakeRoom -> Session]
         /\ \A id \in DOMAIN MakeRoom : MakeRoom[id] = sessions[id]
         /\ \A id \in Stored \ DOMAIN MakeRoom : Expired(id)
<1>1. CASE HasRoom(sessions)
  BY <1>1 DEF MakeRoom, TypeOK, Stored
<1>2. CASE ~HasRoom(sessions)
  <2>1. MakeRoom = Swept
    BY <1>2 DEF MakeRoom
  <2>2. \A id \in Stored \ Unexpired : Expired(id)
    BY DEF Unexpired
  <2>3. QED
    BY <2>1, <2>2, SweptDict
<1>3. QED
  BY <1>1, <1>2

\* The dict with one more session in it.
LEMMA InsertedDict ==
  ASSUME TypeOK, NEW id \in SessionId, NEW origin \in Origin
  PROVE  /\ DOMAIN Insert(MakeRoom, id, origin) = DOMAIN MakeRoom \cup {id}
         /\ Insert(MakeRoom, id, origin) \in [DOMAIN MakeRoom \cup {id} -> Session]
         /\ Insert(MakeRoom, id, origin)[id].attempted = FALSE
         /\ \A i \in DOMAIN MakeRoom \ {id} : Insert(MakeRoom, id, origin)[i] = sessions[i]
<1>1. wall \in Int /\ wall + TTL \in Int
  BY DEF TypeOK
<1>2. \A i \in DOMAIN MakeRoom : MakeRoom[i] \in Session /\ MakeRoom[i] = sessions[i]
  BY MadeRoom
<1>3. QED
  BY <1>1, <1>2 DEF Insert, Session

\* The session's own origin is a legal one.
LEMMA OriginForType ==
  ASSUME NEW override \in Origin \cup {NoOverride}
  PROVE  OriginFor(override) \in Origin
BY DEF OriginFor

\* Every step but a successful create and a take only evicts: the sessions
\* that are left are as they were.
LEMMA Shrinks ==
  ASSUME TypeOK,
         \/ RejectCreate \/ Background \/ UNCHANGED vars
         \/ \E id \in SessionId : Unknown(id) \/ AlreadyAttempted(id) \/ Find(id)
  PROVE  /\ issued' = issued
         /\ DOMAIN sessions' \subseteq DOMAIN sessions
         /\ \A id \in DOMAIN sessions' : sessions'[id] = sessions[id]
<1>1. CASE RejectCreate
  BY <1>1, MadeRoom DEF RejectCreate, Stored
<1>2. CASE SweepLoop
  BY <1>2, SweptDict DEF SweepLoop, Stored
<1>3. ASSUME NEW id \in SessionId, Unknown(id)
      PROVE  /\ issued' = issued
             /\ DOMAIN sessions' \subseteq DOMAIN sessions
             /\ \A i \in DOMAIN sessions' : sessions'[i] = sessions[i]
  BY <1>3, RestrictedDict DEF Unknown, Evicted, Stored
<1>4. CASE Restart
  BY <1>4 DEF Restart
<1>5. CASE \/ Tick \/ StepClock \/ UNCHANGED vars
           \/ \E id \in SessionId : AlreadyAttempted(id) \/ Find(id)
  BY <1>5 DEF Tick, StepClock, vars, AlreadyAttempted, Find
<1>6. QED
  BY <1>1, <1>2, <1>3, <1>4, <1>5 DEF Background

\* A successful create adds one session, open, with its deadline and origin.
LEMMA CreatedSession ==
  ASSUME TypeOK, NEW id \in SessionId, NEW override \in Origin \cup {NoOverride},
         Create(id, override)
  PROVE  /\ id \notin issued /\ issued' = issued \cup {id}
         /\ OriginFor(override) \in Origin
         /\ id \in DOMAIN sessions'
         /\ sessions'[id] = [created_at |-> wall, expires_at |-> wall + TTL,
                             expected_origin |-> OriginFor(override), attempted |-> FALSE]
         /\ DOMAIN sessions' \ {id} \subseteq DOMAIN sessions
         /\ \A i \in DOMAIN sessions' \ {id} : sessions'[i] = sessions[i]
<1>1. sessions' = Insert(MakeRoom, id, OriginFor(override))
  BY DEF Create
<1>2. id \in DOMAIN sessions' /\ sessions'[id] =
        [created_at |-> wall, expires_at |-> wall + TTL,
         expected_origin |-> OriginFor(override), attempted |-> FALSE]
  BY <1>1 DEF Insert
<1>3. DOMAIN sessions' = DOMAIN MakeRoom \cup {id}
  BY <1>1, InsertedDict, OriginForType
<1>4. \A i \in DOMAIN MakeRoom \ {id} : sessions'[i] = sessions[i]
  BY <1>1, InsertedDict, OriginForType
<1>5. QED
  BY <1>2, <1>3, <1>4, MadeRoom, OriginForType DEF Create, Stored

-----------------------------------------------------------------------------

LEMMA ReplyType ==
  ASSUME NEW id \in SessionId \cup {NoId}, NEW result \in Result
  PROVE  [id |-> id, result |-> result] \in [id : SessionId \cup {NoId}, result : Result]
OBVIOUS

\* Every step keeps the types.
LEMMA TypeStep ==
  ASSUME TypeOK, [Next]_vars
  PROVE  TypeOK'
<1> USE DEF TypeOK, Stored
<1>1. ASSUME NEW id \in SessionId, NEW override \in Origin \cup {NoOverride},
             Create(id, override)
      PROVE  TypeOK'
  <2>1. DOMAIN sessions' = DOMAIN MakeRoom \cup {id} /\ sessions' \in [DOMAIN sessions' -> Session]
    BY <1>1, InsertedDict, OriginForType DEF Create
  <2>2. reply' \in [id : SessionId \cup {NoId}, result : Result]
    BY <1>1 DEF Create, Reply, Result
  <2>3. QED
    BY <1>1, <2>1, <2>2, MadeRoom DEF Create
<1>2. CASE RejectCreate
  <2>1. reply' \in [id : SessionId \cup {NoId}, result : Result]
    BY <1>2 DEF RejectCreate, Reply, Result
  <2>2. QED
    BY <1>2, <2>1, MadeRoom DEF RejectCreate
<1>3. ASSUME NEW id \in SessionId, Unknown(id)
      PROVE  TypeOK'
  <2>1. DOMAIN sessions' \subseteq DOMAIN sessions /\ sessions' \in [DOMAIN sessions' -> Session]
    BY <1>3, RestrictedDict DEF Unknown, Evicted
  <2>2. reply' \in [id : SessionId \cup {NoId}, result : Result]
    BY <1>3 DEF Unknown, Reply, Result
  <2>3. QED
    BY <1>3, <2>1, <2>2 DEF Unknown
<1>4. ASSUME NEW id \in SessionId, Take(id)
      PROVE  TypeOK'
  <2>1. DOMAIN sessions' = DOMAIN sessions /\ sessions' \in [DOMAIN sessions' -> Session]
    BY <1>4 DEF Take, AnswersTo, Session
  <2>2. reply' \in [id : SessionId \cup {NoId}, result : Result]
    BY <1>4 DEF Take, Reply, Result
  <2>3. QED
    BY <1>4, <2>1, <2>2 DEF Take
<1>5. ASSUME NEW id \in SessionId, AlreadyAttempted(id) \/ Find(id)
      PROVE  TypeOK'
  BY <1>5 DEF AlreadyAttempted, Find, Reply, Result
<1>6. CASE SweepLoop
  BY <1>6, SweptDict DEF SweepLoop, NoReply, Result
<1>7. CASE Tick
  BY <1>7 DEF Tick, NoReply, Result
<1>8. CASE StepClock
  BY <1>8 DEF StepClock, NoReply, Result
<1>9. CASE Restart
  BY <1>9 DEF Restart, NoReply, Result
<1>10. CASE UNCHANGED vars
  BY <1>10 DEF vars
<1>11. QED
  BY <1>1, <1>2, <1>3, <1>4, <1>5, <1>6, <1>7, <1>8, <1>9, <1>10
  DEF Next, Background, TakeForAttempt, Get

LEMMA TypeInit == Init => TypeOK
BY DEF Init, TypeOK, Stored, NoReply, Result

(***************************************************************************)
(* The variables keep their types: in particular every stored id was       *)
(* issued, and every record is a whole Session.                            *)
(***************************************************************************)
THEOREM TypeCorrect == Spec => []TypeOK
<1>1. TypeOK /\ [Next]_vars => TypeOK'
  BY TypeStep
<1>2. QED
  BY <1>1, TypeInit, PTL DEF Spec

-----------------------------------------------------------------------------
(* The cap.                                                                *)

\* What the steps do to the domain of the dict, and when.
LEMMA DomainStep ==
  ASSUME TypeOK, [Next]_vars
  PROVE  \/ Stored' \subseteq Stored
         \/ /\ HasRoom(MakeRoom)
            /\ \E id \in SessionId : Stored' = DOMAIN MakeRoom \cup {id}
<1> USE DEF Stored
<1>1. ASSUME NEW id \in SessionId, NEW override \in Origin \cup {NoOverride},
             Create(id, override)
      PROVE  Stored' = DOMAIN MakeRoom \cup {id} /\ HasRoom(MakeRoom)
  BY <1>1, InsertedDict, OriginForType DEF Create
<1>2. CASE RejectCreate
  BY <1>2, MadeRoom DEF RejectCreate
<1>3. ASSUME NEW id \in SessionId, Unknown(id)
      PROVE  Stored' \subseteq Stored
  BY <1>3, RestrictedDict DEF Unknown, Evicted
<1>4. ASSUME NEW id \in SessionId, Take(id)
      PROVE  Stored' = Stored
  BY <1>4 DEF Take, TypeOK
<1>5. ASSUME NEW id \in SessionId, AlreadyAttempted(id) \/ Find(id)
      PROVE  Stored' = Stored
  BY <1>5 DEF AlreadyAttempted, Find
<1>6. CASE SweepLoop
  BY <1>6, SweptDict DEF SweepLoop
<1>7. CASE Tick \/ StepClock \/ UNCHANGED vars
  BY <1>7 DEF Tick, StepClock, vars
<1>8. CASE Restart
  BY <1>8 DEF Restart
<1>9. QED
  BY <1>1, <1>2, <1>3, <1>4, <1>5, <1>6, <1>7, <1>8
  DEF Next, Background, TakeForAttempt, Get

\* Cardinality says nothing of an infinite set: the dict is finite, too.
FiniteAndBounded == IsFiniteSet(Stored) /\ StoreBounded

LEMMA BoundedStep ==
  ASSUME TypeOK, FiniteAndBounded, [Next]_vars
  PROVE  FiniteAndBounded'
<1> USE DEF FiniteAndBounded, StoreBounded
<1>1. CASE Stored' \subseteq Stored
  <2>1. IsFiniteSet(Stored') /\ Cardinality(Stored') <= Cardinality(Stored)
    BY <1>1, FS_Subset
  <2>2. Cardinality(Stored) \in Nat /\ Cardinality(Stored') \in Nat
    BY <2>1, FS_CardinalityType
  <2>3. Stored' # {} => Stored # {}
    BY <1>1
  <2>4. QED
    BY <2>1, <2>2, <2>3
<1>2. ASSUME NEW id \in SessionId, HasRoom(MakeRoom), Stored' = DOMAIN MakeRoom \cup {id}
      PROVE  FiniteAndBounded'
  <2>1. IsFiniteSet(DOMAIN MakeRoom)
    BY MadeRoom, FS_Subset
  <2>2. Cardinality(DOMAIN MakeRoom) \in Nat /\ Cardinality(DOMAIN MakeRoom) < Cap
    BY <1>2, <2>1, FS_CardinalityType DEF HasRoom
  <2> DEFINE D == DOMAIN MakeRoom
  <2> HIDE DEF D
  <2>3. IsFiniteSet(D) /\ Cardinality(D) \in Nat /\ Cardinality(D) < Cap
    BY <2>1, <2>2 DEF D
  <2>4. /\ IsFiniteSet(D \cup {id})
        /\ Cardinality(D \cup {id}) = IF id \in D THEN Cardinality(D) ELSE Cardinality(D) + 1
    BY <2>3, FS_AddElement
  <2>5. Cardinality(D \cup {id}) <= Cap
    BY <2>3, <2>4
  <2>6. Stored' = D \cup {id}
    BY <1>2 DEF D
  <2>7. QED
    BY <2>4, <2>5, <2>6
<1>3. QED
  BY <1>1, <1>2, DomainStep

(***************************************************************************)
(* The dict never holds more than Cap sessions, expired ones included,     *)
(* whatever Cap is configured (sessions.py:85-90).                         *)
(***************************************************************************)
THEOREM CapHolds == Spec => []StoreBounded
<1>1. Init => FiniteAndBounded
  BY FS_EmptySet DEF Init, FiniteAndBounded, StoreBounded, Stored
<1>2. TypeOK /\ FiniteAndBounded /\ [Next]_vars => FiniteAndBounded'
  BY BoundedStep
<1>3. FiniteAndBounded => StoreBounded
  BY DEF FiniteAndBounded
<1>4. QED
  BY <1>1, <1>2, <1>3, TypeCorrect, PTL DEF Spec

-----------------------------------------------------------------------------
(* Who leaves the dict.                                                    *)

LEMMA LeavingStep ==
  ASSUME TypeOK, [Next]_vars, NEW id \in Stored \ Stored'
  PROVE  wall >= sessions[id].expires_at \/ Restart
<1> USE DEF Stored
<1>1. ASSUME NEW i \in SessionId, NEW override \in Origin \cup {NoOverride},
             Create(i, override)
      PROVE  Expired(id)
  BY <1>1, InsertedDict, OriginForType, MadeRoom DEF Create
<1>2. ASSUME RejectCreate
      PROVE  Expired(id)
  BY <1>2, MadeRoom DEF RejectCreate
<1>3. ASSUME NEW i \in SessionId, Unknown(i)
      PROVE  Expired(id)
  BY <1>3, RestrictedDict DEF Unknown, Evicted, AnswersTo
<1>4. ASSUME NEW i \in SessionId, Take(i) \/ AlreadyAttempted(i) \/ Find(i)
      PROVE  FALSE
  BY <1>4 DEF Take, AlreadyAttempted, Find, TypeOK
<1>5. ASSUME SweepLoop
      PROVE  Expired(id)
  BY <1>5, SweptDict DEF SweepLoop, Unexpired
<1>6. ASSUME Tick \/ StepClock \/ UNCHANGED vars
      PROVE  FALSE
  BY <1>6 DEF Tick, StepClock, vars
<1>7. QED
  BY <1>1, <1>2, <1>3, <1>4, <1>5, <1>6
  DEF Next, Background, TakeForAttempt, Get, Expired

(***************************************************************************)
(* Only its own deadline or the end of the process takes a session out of  *)
(* the dict; in particular no spent session makes way for a new one.       *)
(***************************************************************************)
THEOREM LeavingIsExpiry == Spec => LeavesOnlyExpired
<1>1. TypeOK /\ [Next]_vars =>
        [\A id \in Stored \ Stored' : wall >= sessions[id].expires_at \/ Restart]_vars
  BY LeavingStep
<1>2. QED
  BY <1>1, TypeCorrect, PTL DEF Spec, LeavesOnlyExpired

-----------------------------------------------------------------------------
(* Capacity answers and the sweeper.                                       *)

LEMMA FullStep ==
  ASSUME TypeOK, FiniteAndBounded, FullOfUnexpired, [Next]_vars
  PROVE  FullOfUnexpired'
<1> USE DEF FullOfUnexpired
<1>1. CASE RejectCreate
  <2>1. ~HasRoom(sessions)
    BY <1>1 DEF RejectCreate, MakeRoom
  <2>2. sessions' = Swept /\ wall' = wall /\ ~HasRoom(Swept)
    BY <1>1, <2>1 DEF RejectCreate, MakeRoom
  <2>3. Stored' = Unexpired /\ \A id \in Stored' : sessions'[id] = sessions[id]
    BY <2>2, SweptDict DEF Stored
  <2>4. Unexpired' = Stored'
    BY <2>2, <2>3 DEF Unexpired, Expired
  <2>5. Cardinality(Stored') \in Nat
    BY BoundedStep, FS_CardinalityType DEF FiniteAndBounded
  <2>6. ~(Cardinality(Stored') < Cap)
    BY <2>2 DEF HasRoom, Stored
  <2>7. QED
    BY <2>4, <2>5, <2>6
<1>2. CASE reply'.result # "full"
  BY <1>2
<1>3. CASE UNCHANGED vars
  BY <1>3 DEF vars, Unexpired, Stored, Expired
<1>4. QED
  BY <1>1, <1>2, <1>3
  DEF Next, Background, TakeForAttempt, Get, Create, Unknown, Take, AlreadyAttempted,
      Find, SweepLoop, Tick, StepClock, Restart, Reply, NoReply

(***************************************************************************)
(* StoreAtCapacity is raised only over a dict that Cap unexpired sessions  *)
(* fill (sessions.py:84-90).                                               *)
(***************************************************************************)
THEOREM CapacityIsHonest == Spec => []FullOfUnexpired
<1>1. Init => FiniteAndBounded /\ FullOfUnexpired
  BY FS_EmptySet
  DEF Init, FiniteAndBounded, StoreBounded, Stored, FullOfUnexpired, NoReply
<1>2. TypeOK /\ FiniteAndBounded /\ FullOfUnexpired /\ [Next]_vars
        => FiniteAndBounded' /\ FullOfUnexpired'
  BY BoundedStep, FullStep
<1>3. QED
  BY <1>1, <1>2, TypeCorrect, PTL DEF Spec

\* Why an expired session is gone after a sweep: without adjustments both
\* clocks show the same time, and the sweeper last ran at wakeAt - Interval.
SweptInv ==
  /\ wall = mono
  /\ wakeAt - Interval <= mono
  /\ SweptSinceExpiry

LEMMA SweptSinceStep ==
  ASSUME Jumps = {}, TTL \in Nat \ {0}, TypeOK, SweptInv, [Next]_vars
  PROVE  SweptInv'
<1> USE DEF SweptInv, SweptSinceExpiry
<1>1. ASSUME NEW S \in SUBSET Stored, sessions' = Restrict(sessions, S),
             UNCHANGED <<wall, mono, wakeAt>>
      PROVE  SweptInv'
  BY <1>1, RestrictedDict DEF Stored
<1>2. ASSUME NEW id \in SessionId, NEW override \in Origin \cup {NoOverride},
             Create(id, override)
      PROVE  SweptInv'
  <2>1. \A i \in DOMAIN MakeRoom \ {id} : sessions'[i].expires_at > wakeAt - Interval
    BY <1>2, InsertedDict, OriginForType, MadeRoom DEF Create
  <2>2. sessions'[id].expires_at = wall + TTL
    BY <1>2 DEF Create, Insert
  <2>3. wall + TTL > wakeAt - Interval
    BY DEF TypeOK
  <2>4. Stored' = DOMAIN MakeRoom \cup {id}
    BY <1>2, InsertedDict, OriginForType DEF Create, Stored
  <2>5. UNCHANGED <<wall, mono, wakeAt>>
    BY <1>2 DEF Create
  <2>6. QED
    BY <2>1, <2>2, <2>3, <2>4, <2>5
<1>3. CASE RejectCreate
  BY <1>3, MadeRoom DEF RejectCreate, Stored
<1>4. ASSUME NEW id \in SessionId, Unknown(id)
      PROVE  SweptInv'
  BY <1>1, <1>4 DEF Unknown, Evicted
<1>5. ASSUME NEW id \in SessionId, Take(id)
      PROVE  SweptInv'
  <2>1. \A i \in Stored : sessions'[i].expires_at = sessions[i].expires_at
    BY <1>5 DEF Take, TypeOK, Session
  <2>2. QED
    BY <1>5, <2>1 DEF Take, Stored, TypeOK
<1>6. ASSUME NEW id \in SessionId, AlreadyAttempted(id) \/ Find(id)
      PROVE  SweptInv'
  BY <1>6 DEF AlreadyAttempted, Find, Stored
<1>7. CASE SweepLoop
  <2>1. Stored' = Unexpired /\ \A id \in Unexpired : sessions'[id] = sessions[id]
    BY <1>7, SweptDict DEF SweepLoop, Stored
  <2>2. \A id \in Unexpired : sessions[id].expires_at > wall
    BY DEF Unexpired, Expired, TypeOK, Session
  <2>3. wakeAt' - Interval = mono
    BY <1>7 DEF SweepLoop, TypeOK
  <2>4. QED
    BY <1>7, <2>1, <2>2, <2>3 DEF SweepLoop, TypeOK
<1>8. CASE Tick
  BY <1>8 DEF Tick, Stored, TypeOK
<1>9. CASE StepClock
  BY <1>9 DEF StepClock
<1>10. CASE Restart
  BY <1>10 DEF Restart, Stored, TypeOK
<1>11. CASE UNCHANGED vars
  BY <1>11 DEF vars, Stored
<1>12. QED
  BY <1>2, <1>3, <1>4, <1>5, <1>6, <1>7, <1>8, <1>9, <1>10, <1>11
  DEF Next, Background, TakeForAttempt, Get

(***************************************************************************)
(* With a clock nobody sets and a positive TTL, an expired session does    *)
(* not outlive the next sweep, whatever requests come in between.          *)
(***************************************************************************)
THEOREM SweptInTime ==
  ASSUME Jumps = {}, TTL \in Nat \ {0}
  PROVE  Spec => []SweptSinceExpiry
<1>1. Init => SweptInv
  BY DEF Init, SweptInv, SweptSinceExpiry, Stored
<1>2. TypeOK /\ SweptInv /\ [Next]_vars => SweptInv'
  BY SweptSinceStep
<1>3. SweptInv => SweptSinceExpiry
  BY DEF SweptInv
<1>4. QED
  BY <1>1, <1>2, <1>3, TypeCorrect, PTL DEF Spec

-----------------------------------------------------------------------------
(***************************************************************************)
(* SessionStore implements SessionHandle, for every value of the           *)
(* constants: expiry, the cap, the sweeper, restarts and clock adjustments *)
(* never break the promise a handle makes.                                 *)
(***************************************************************************)


\* The mapped phase, as a function.
phaseBar == [id \in SessionId |-> PhaseOf(id)]
answerBar == [id |-> reply.id, says |-> reply.result]

LEMMA PhaseCases ==
  ASSUME TypeOK, NEW id \in SessionId
  PROVE  /\ id \notin issued => PhaseOf(id) = "unissued"
         /\ id \in issued /\ id \notin Stored => PhaseOf(id) = "gone"
         /\ id \in Stored /\ sessions[id].attempted => PhaseOf(id) = "spent"
         /\ id \in Stored /\ ~sessions[id].attempted => PhaseOf(id) = "open"
BY DEF PhaseOf, TypeOK

LEMMA PhaseCasesNext ==
  ASSUME TypeOK', NEW id \in SessionId
  PROVE  /\ id \notin issued' => PhaseOf(id)' = "unissued"
         /\ id \in issued' /\ id \notin Stored' => PhaseOf(id)' = "gone"
         /\ id \in Stored' /\ sessions'[id].attempted => PhaseOf(id)' = "spent"
         /\ id \in Stored' /\ ~sessions'[id].attempted => PhaseOf(id)' = "open"
BY DEF PhaseOf, TypeOK

\* A usable handle is a stored one.
LEMMA UsableIsStored ==
  ASSUME TypeOK
  PROVE  Handle!Usable = Stored
BY PhaseCases DEF Handle!Usable, TypeOK, Session

\* Evicting a set of sessions is forgetting their handles.
LEMMA EvictionForgets ==
  ASSUME TypeOK, TypeOK', NEW ids \in SUBSET Stored,
         issued' = issued, Stored' = Stored \ ids,
         \A id \in Stored' : sessions'[id] = sessions[id]
  PROVE  phaseBar' = Handle!Forgotten(ids)
<1>1. ASSUME NEW id \in SessionId
      PROVE  PhaseOf(id)' = IF id \in ids THEN "gone" ELSE PhaseOf(id)
  <2>1. CASE id \in ids
    BY <2>1, PhaseCasesNext DEF TypeOK
  <2>2. CASE id \in Stored'
    BY <2>2, PhaseCases, PhaseCasesNext DEF TypeOK, Session
  <2>3. CASE id \notin Stored
    BY <2>3, PhaseCases, PhaseCasesNext DEF TypeOK
  <2>4. QED
    BY <2>1, <2>2, <2>3
<1>2. QED
  BY <1>1 DEF phaseBar, Handle!Forgotten

-----------------------------------------------------------------------------
(* Each step of the store, seen as a step of the handles.                  *)

LEMMA InitRefines ==
  ASSUME Init
  PROVE  Handle!Init
<1>1. \A id \in SessionId : PhaseOf(id) = "unissued"
  BY TypeInit, PhaseCases DEF Init
<1>2. QED
  BY <1>1 DEF Init, Handle!Init, Handle!Silence, NoReply

LEMMA CreateRefines ==
  ASSUME TypeOK, TypeOK', NEW id \in SessionId, NEW override \in Origin \cup {NoOverride},
         Create(id, override)
  PROVE  Handle!Issue(id)
<1> DEFINE ids == Stored \ DOMAIN MakeRoom
<1>1. /\ Stored' = DOMAIN MakeRoom \cup {id}
      /\ sessions'[id].attempted = FALSE
      /\ \A i \in DOMAIN MakeRoom \ {id} : sessions'[i] = sessions[i]
      /\ DOMAIN MakeRoom \subseteq Stored
  BY InsertedDict, OriginForType, MadeRoom DEF Create, Stored
<1>2. id \notin issued /\ issued' = issued \cup {id}
  BY DEF Create
<1>3. PhaseOf(id) = "unissued" /\ PhaseOf(id)' = "open"
  BY <1>1, <1>2, PhaseCases, PhaseCasesNext
<1>4. ASSUME NEW i \in SessionId \ {id}
      PROVE  PhaseOf(i)' = IF i \in ids THEN "gone" ELSE PhaseOf(i)
  <2>1. CASE i \in ids
    BY <1>1, <1>2, <2>1, PhaseCasesNext DEF TypeOK
  <2>2. CASE i \in DOMAIN MakeRoom
    BY <1>1, <1>2, <2>2, PhaseCases, PhaseCasesNext DEF TypeOK, Session
  <2>3. CASE i \notin Stored
    BY <1>1, <1>2, <2>3, PhaseCases, PhaseCasesNext DEF TypeOK
  <2>4. QED
    BY <2>1, <2>2, <2>3
<1>5. phaseBar' = [Handle!Forgotten(ids) EXCEPT ![id] = "open"]
  BY <1>3, <1>4 DEF phaseBar, Handle!Forgotten
<1>6. ids \in SUBSET Handle!Usable
  BY UsableIsStored
<1>7. answerBar' = Handle!Says(id, "created")
  BY DEF Create, Reply, answerBar, Handle!Says
<1>8. QED
  BY <1>3, <1>5, <1>6, <1>7 DEF Handle!Issue, phaseBar, answerBar

LEMMA RejectCreateRefines ==
  ASSUME TypeOK, TypeOK', RejectCreate
  PROVE  Handle!Full
<1> DEFINE ids == Stored \ DOMAIN MakeRoom
<1>1. phaseBar' = Handle!Forgotten(ids)
  BY EvictionForgets, MadeRoom DEF RejectCreate, Stored
<1>2. ids \in SUBSET Handle!Usable
  BY UsableIsStored
<1>3. answerBar' = Handle!Says(NoId, "full")
  BY DEF RejectCreate, Reply, answerBar, Handle!Says
<1>4. QED
  BY <1>1, <1>2, <1>3 DEF Handle!Full, phaseBar, answerBar

LEMMA UnknownRefines ==
  ASSUME TypeOK, TypeOK', NEW id \in SessionId, Unknown(id)
  PROVE  Handle!Deny(id)
<1>1. phaseBar' = Handle!Forgotten({id} \cap Stored)
  BY EvictionForgets, RestrictedDict DEF Unknown, Evicted, Stored
<1>2. answerBar' = Handle!Says(id, "unknown")
  BY DEF Unknown, Reply, answerBar, Handle!Says
<1>3. QED
  BY <1>1, <1>2, UsableIsStored DEF Handle!Deny, phaseBar, answerBar

LEMMA TakeRefines ==
  ASSUME TypeOK, TypeOK', NEW id \in SessionId, Take(id)
  PROVE  Handle!Claim(id)
<1>1. /\ id \in Stored /\ Stored' = Stored /\ issued' = issued
      /\ ~sessions[id].attempted /\ sessions'[id].attempted
      /\ \A i \in Stored \ {id} : sessions'[i] = sessions[i]
  BY DEF Take, AnswersTo, Stored, TypeOK, Session
<1>2. PhaseOf(id) = "open" /\ PhaseOf(id)' = "spent"
  BY <1>1, PhaseCases, PhaseCasesNext
<1>3. ASSUME NEW i \in SessionId \ {id}
      PROVE  PhaseOf(i)' = PhaseOf(i)
  BY <1>1, PhaseCases, PhaseCasesNext DEF TypeOK, Session
<1>4. phaseBar' = [phaseBar EXCEPT ![id] = "spent"]
  BY <1>2, <1>3 DEF phaseBar
<1>5. answerBar' = Handle!Says(id, "taken")
  BY DEF Take, Reply, answerBar, Handle!Says
<1>6. QED
  BY <1>2, <1>4, <1>5 DEF Handle!Claim, phaseBar, answerBar

\* A step that leaves the dict and the issued ids alone moves no phase.
LEMMA PhaseUnmoved ==
  ASSUME UNCHANGED <<sessions, issued>>
  PROVE  phaseBar' = phaseBar
BY DEF phaseBar, PhaseOf, Stored

LEMMA AlreadyRefines ==
  ASSUME TypeOK, NEW id \in SessionId, AlreadyAttempted(id)
  PROVE  Handle!Refuse(id)
<1>1. PhaseOf(id) = "spent"
  BY PhaseCases DEF AlreadyAttempted, AnswersTo
<1>2. phaseBar' = phaseBar
  BY PhaseUnmoved DEF AlreadyAttempted
<1>3. answerBar' = Handle!Says(id, "already")
  BY DEF AlreadyAttempted, Reply, answerBar, Handle!Says
<1>4. QED
  BY <1>1, <1>2, <1>3 DEF Handle!Refuse, phaseBar, answerBar

LEMMA FindRefines ==
  ASSUME TypeOK, NEW id \in SessionId, Find(id)
  PROVE  Handle!Look(id)
<1>1. id \in Handle!Usable
  BY UsableIsStored DEF Find, AnswersTo
<1>2. phaseBar' = phaseBar
  BY PhaseUnmoved DEF Find
<1>3. answerBar' = Handle!Says(id, "found")
  BY DEF Find, Reply, answerBar, Handle!Says
<1>4. QED
  BY <1>1, <1>2, <1>3 DEF Handle!Look, phaseBar, answerBar

LEMMA BackgroundRefines ==
  ASSUME TypeOK, TypeOK', Background
  PROVE  Handle!Background
<1>1. \E ids \in SUBSET Stored : phaseBar' = Handle!Forgotten(ids)
  <2>1. CASE SweepLoop
    <3>1. phaseBar' = Handle!Forgotten(Stored \ Unexpired)
      BY <2>1, EvictionForgets, SweptDict DEF SweepLoop, Stored
    <3>2. QED
      BY <3>1
  <2>2. CASE Restart
    <3>1. phaseBar' = Handle!Forgotten(Stored)
      BY <2>2, EvictionForgets DEF Restart, Stored
    <3>2. QED
      BY <3>1
  <2>3. CASE Tick \/ StepClock
    <3>1. phaseBar' = phaseBar
      BY <2>3, PhaseUnmoved DEF Tick, StepClock
    <3>2. phaseBar = Handle!Forgotten({})
      BY DEF phaseBar, Handle!Forgotten
    <3>3. QED
      BY <3>1, <3>2
  <2>4. QED
    BY <2>1, <2>2, <2>3 DEF Background
<1>2. answerBar' = Handle!Silence
  BY DEF Background, SweepLoop, Tick, StepClock, Restart, NoReply, answerBar, Handle!Silence
<1>3. QED
  BY <1>1, <1>2, UsableIsStored DEF Handle!Background, phaseBar, answerBar

LEMMA StepRefines ==
  ASSUME TypeOK, TypeOK', [Next]_vars
  PROVE  [Handle!Next]_(Handle!vars)
<1>1. CASE UNCHANGED vars
  <2>1. phaseBar' = phaseBar /\ answerBar' = answerBar
    BY <1>1, PhaseUnmoved DEF vars, answerBar
  <2>2. QED
    BY <2>1 DEF Handle!vars, phaseBar, answerBar
<1>2. CASE Next
  <2>1. Handle!Next
    BY <1>2, CreateRefines, RejectCreateRefines, UnknownRefines, TakeRefines,
       AlreadyRefines, FindRefines, BackgroundRefines
    DEF Next, TakeForAttempt, Get, Handle!Next
  <2>2. QED
    BY <2>1
<1>3. QED
  BY <1>1, <1>2

(***************************************************************************)
(* The store keeps the promise: every behaviour of SessionStore is one of  *)
(* SessionHandle, so an id is claimed at most once and a 404 about it is   *)
(* final (SessionHandleProofs, DenialFinal).                               *)
(***************************************************************************)
THEOREM StoreImplementsHandle == Spec => HandleSpec
<1>1. Init => Handle!Init
  BY InitRefines
<1>2. TypeOK /\ TypeOK' /\ [Next]_vars => [Handle!Next]_(Handle!vars)
  BY StepRefines
<1>3. QED
  BY <1>1, <1>2, TypeCorrect, PTL DEF Spec, HandleSpec, Handle!Spec

=============================================================================
