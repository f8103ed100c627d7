------------------------- MODULE SessionHandleProofs -------------------------
(***************************************************************************)
(* What the promise of SessionHandle amounts to, for any set of handles.   *)
(***************************************************************************)
EXTENDS SessionHandle, TLAPS

LEMMA ForgottenType ==
  ASSUME TypeOK, NEW ids
  PROVE  Forgotten(ids) \in [SessionId -> Phase]
BY DEF TypeOK, Phase, Forgotten

LEMMA HandleTypeStep ==
  ASSUME TypeOK, [Next]_vars
  PROVE  TypeOK'
<1> USE DEF TypeOK, Phase
<1>1. ASSUME NEW i \in SessionId, Issue(i)
      PROVE  TypeOK'
  BY <1>1, ForgottenType DEF Issue, Says
<1>2. ASSUME NEW i \in SessionId, Claim(i)
      PROVE  TypeOK'
  BY <1>2 DEF Claim, Says
<1>3. ASSUME NEW i \in SessionId, Refuse(i)
      PROVE  TypeOK'
  BY <1>3 DEF Refuse, Says
<1>4. ASSUME NEW i \in SessionId, Look(i)
      PROVE  TypeOK'
  BY <1>4 DEF Look, Says
<1>5. ASSUME NEW i \in SessionId, Deny(i)
      PROVE  TypeOK'
  BY <1>5, ForgottenType DEF Deny, Says
<1>6. CASE Full
  BY <1>6, ForgottenType DEF Full, Says
<1>7. CASE Background
  BY <1>7, ForgottenType DEF Background, Silence
<1>8. CASE UNCHANGED vars
  BY <1>8 DEF vars
<1>9. QED
  BY <1>1, <1>2, <1>3, <1>4, <1>5, <1>6, <1>7, <1>8 DEF Next

LEMMA HandleTypeCorrect == Spec => []TypeOK
<1>1. Init => TypeOK
  BY DEF Init, TypeOK, Phase, Silence
<1>2. TypeOK /\ [Next]_vars => TypeOK'
  BY HandleTypeStep
<1>3. QED
  BY <1>1, <1>2, PTL DEF Spec

\* Gone is for good.
LEMMA GoneStays ==
  ASSUME TypeOK, [Next]_vars, NEW id \in SessionId, phase[id] = "gone"
  PROVE  phase'[id] = "gone"
BY DEF TypeOK, Next, vars, Usable, Forgotten, Issue, Full, Claim, Refuse,
       Look, Deny, Background

\* The last answer about a handle agrees with what became of it.
AnswerAgrees(id) ==
  /\ Denied(id) => phase[id] = "gone"
  /\ Served(id) => phase[id] \in {"open", "spent"}

LEMMA AnswerAgreesStep ==
  ASSUME TypeOK, [Next]_vars, NEW id \in SessionId, AnswerAgrees(id)
  PROVE  AnswerAgrees(id)'
<1> USE DEF AnswerAgrees, Denied, Served, Says, TypeOK
<1>1. ASSUME NEW i \in SessionId, Issue(i)
      PROVE  AnswerAgrees(id)'
  BY <1>1 DEF Issue
<1>2. ASSUME NEW i \in SessionId, Claim(i)
      PROVE  AnswerAgrees(id)'
  BY <1>2 DEF Claim
<1>3. ASSUME NEW i \in SessionId, Refuse(i)
      PROVE  AnswerAgrees(id)'
  BY <1>3 DEF Refuse
<1>4. ASSUME NEW i \in SessionId, Look(i)
      PROVE  AnswerAgrees(id)'
  BY <1>4 DEF Look, Usable
<1>5. ASSUME NEW i \in SessionId, Deny(i)
      PROVE  AnswerAgrees(id)'
  BY <1>5 DEF Deny, Usable, Forgotten, Phase
<1>6. CASE Full
  BY <1>6 DEF Full
<1>7. CASE Background
  BY <1>7 DEF Background, Silence
<1>8. CASE UNCHANGED vars
  BY <1>8 DEF vars
<1>9. QED
  BY <1>1, <1>2, <1>3, <1>4, <1>5, <1>6, <1>7, <1>8 DEF Next

(***************************************************************************)
(* Once a handle that was issued has been denied, it is never served       *)
(* again.                                                                  *)
(***************************************************************************)
THEOREM DenialFinal == Spec => DenialIsFinal
<1>1. SUFFICES ASSUME NEW id \in SessionId
               PROVE  Spec => [](Denied(id) => []~Served(id))
  BY DEF DenialIsFinal
<1>2. Init => AnswerAgrees(id)
  BY DEF Init, AnswerAgrees, Denied, Served, Says, Silence
<1>3. TypeOK /\ AnswerAgrees(id) /\ [Next]_vars => AnswerAgrees(id)'
  BY AnswerAgreesStep
<1>4. TypeOK /\ phase[id] = "gone" /\ [Next]_vars => (phase[id] = "gone")'
  BY GoneStays
<1>5. AnswerAgrees(id) => (Denied(id) => phase[id] = "gone")
  BY DEF AnswerAgrees
<1>6. AnswerAgrees(id) /\ phase[id] = "gone" => ~Served(id)
  BY DEF AnswerAgrees
<1>7. QED
  BY <1>2, <1>3, <1>4, <1>5, <1>6, HandleTypeCorrect, PTL DEF Spec

=============================================================================
