------------------------- MODULE DcTransportProofs -------------------------
(* Proofs about DcTransport: binding of a response to its session.          *)
EXTENDS DcTransport, TLAPS

\* What is kept of a session is what its creator was handed.
Kept ==
  \A id \in DOMAIN dc : \E nonce \in Nonce :
    /\ dc[id].state = DcSessionState(nonce, id)
    /\ offered[id] = DcRequest(DeviceRequest, EncryptionInfo(nonce, id))

\* The offer's text is the stored one, and names the session's key.
TextOf(id) == dc[id].state.encryption_info_b64

\* What a wallet sealed is bound to the offer it answered.
SealedFor(w) ==
  /\ w.session \in DOMAIN dc
  /\ \E plaintext \in Plaintext :
       w.cipherText = SealResponse(plaintext, w.enc, w.session,
                                   Transcript(TextOf(w.session), w.origin))

Bound == \A w \in sealed : SealedFor(w)

\* No encapsulated key is drawn twice.
OneKemEach == \A w1, w2 \in sealed : w1.enc = w2.enc => w1 = w2

\* The last outcome is the one its session and response still have.
LastIsKept ==
  Relayed =>
    /\ last.session \in DOMAIN dc
    /\ last.outcome = Outcome(last.session, last.data)
    /\ \E form \in Form, w1, w2 \in sealed :
         last.data = [form |-> form, enc |-> w1.enc, cipherText |-> w2.cipherText]

IInv == StoredIsServed /\ Kept /\ Bound /\ OneKemEach /\ LastIsKept

\* Every offer that is built passes the response model.
LEMMA OffersConform ==
  ASSUME NEW bytes1, NEW bytes2
  PROVE  Conforms(DcRequest(bytes1, bytes2))
BY DEF Conforms, DcRequest, B64urlEncode

\* What a session keeps, and the text handed out, agree: both are the same
\* encoding of the same bytes, which name the key.
LEMMA TextAgrees ==
  ASSUME Kept, NEW id \in DOMAIN dc
  PROVE  /\ offered[id].encryptionInfo = TextOf(id)
         /\ KeyIn(TextOf(id)) = id
         /\ dc[id].state.private_key = id
<1>1. PICK nonce \in Nonce :
        /\ dc[id].state = DcSessionState(nonce, id)
        /\ offered[id] = DcRequest(DeviceRequest, EncryptionInfo(nonce, id))
  BY DEF Kept
<1>2. TextOf(id) = B64urlEncode(EncryptionInfo(nonce, id)) /\ dc[id].state.private_key = id
  BY <1>1 DEF TextOf, DcSessionState
<1>3. offered[id].encryptionInfo = TextOf(id) BY <1>1, <1>2 DEF DcRequest
<1>4. CoseKey(id)[2] = id BY DEF CoseKey
<1>5. KeyIn(TextOf(id)) = EncryptionInfo(nonce, id)[5][2]
  BY <1>2 DEF KeyIn, B64urlEncode
<1>6. EncryptionInfo(nonce, id)[5] = CoseKey(id) BY DEF EncryptionInfo
<1>7. QED BY <1>2, <1>3, <1>4, <1>5, <1>6

LEMMA InitHolds == Init => IInv
BY DEF Init, IInv, StoredIsServed, Kept, Bound, OneKemEach, LastIsKept, Relayed

LEMMA CreateHolds ==
  ASSUME IInv, NEW id \in SessionId, NEW nonce \in Nonce, NEW origin \in Origin,
         CreateSession(id, nonce, origin)
  PROVE  IInv'
<1> DEFINE ei == EncryptionInfo(nonce, id)
           kept == [state |-> DcSessionState(nonce, id), expected_origin |-> origin]
<1>1. /\ id \notin DOMAIN dc /\ dc' = With(dc, id, kept)
      /\ offered' = With(offered, id, DcRequest(DeviceRequest, ei))
      /\ sealed' = sealed /\ last' = last
  BY OffersConform DEF CreateSession
<1>2. /\ DOMAIN dc' = DOMAIN dc \cup {id} /\ dc'[id] = kept
      /\ \A i \in DOMAIN dc : dc'[i] = dc[i]
  BY <1>1 DEF With
<1>3. /\ DOMAIN offered' = DOMAIN offered \cup {id}
      /\ offered'[id] = DcRequest(DeviceRequest, ei)
      /\ \A i \in DOMAIN dc : offered'[i] = offered[i]
  BY <1>1 DEF With, IInv, StoredIsServed
<1>4. StoredIsServed' BY <1>2, <1>3 DEF IInv, StoredIsServed
<1>5. Kept' BY <1>2, <1>3 DEF IInv, Kept
<1>6. Bound' BY <1>1, <1>2 DEF IInv, Bound, SealedFor, TextOf
<1>7. OneKemEach' BY <1>1 DEF IInv, OneKemEach
<1>8. LastIsKept' BY <1>1, <1>2 DEF IInv, LastIsKept, Relayed, Outcome
<1>9. QED BY <1>4, <1>5, <1>6, <1>7, <1>8 DEF IInv

LEMMA SealHolds ==
  ASSUME IInv, NEW id \in SessionId, NEW origin \in Origin, NEW plaintext \in Plaintext,
         NEW kem \in Encapsulation, WalletSeals(id, origin, plaintext, kem)
  PROVE  IInv'
<1> DEFINE text == offered[id].encryptionInfo
           w == [enc |-> kem, session |-> id, origin |-> origin,
                 cipherText |-> SealResponse(plaintext, kem, KeyIn(text), Transcript(text, origin))]
<1>1. /\ id \in DOMAIN dc /\ \A other \in sealed : other.enc # kem
      /\ sealed' = sealed \cup {w}
      /\ dc' = dc /\ offered' = offered /\ last' = last
  BY DEF WalletSeals, IInv, StoredIsServed
<1>2. text = TextOf(id) /\ KeyIn(text) = id BY <1>1, TextAgrees DEF IInv
<1>3. SealedFor(w) BY <1>1, <1>2 DEF SealedFor
<1>4. StoredIsServed' /\ Kept' BY <1>1 DEF IInv, StoredIsServed, Kept
<1>5. Bound' BY <1>1, <1>3 DEF IInv, Bound, SealedFor, TextOf
<1>6. OneKemEach' BY <1>1 DEF IInv, OneKemEach
<1>7. LastIsKept' BY <1>1 DEF IInv, LastIsKept, Relayed, Outcome
<1>8. QED BY <1>4, <1>5, <1>6, <1>7 DEF IInv

LEMMA RelayHolds ==
  ASSUME IInv, NEW id \in SessionId, NEW form \in Form, NEW w1 \in sealed, NEW w2 \in sealed,
         Relay(id, form, w1, w2)
  PROVE  IInv'
<1>1. dc' = dc /\ offered' = offered /\ sealed' = sealed BY DEF Relay
<1>2. StoredIsServed' /\ Kept' /\ Bound' /\ OneKemEach'
  BY <1>1 DEF IInv, StoredIsServed, Kept, Bound, SealedFor, TextOf, OneKemEach
<1>3. LastIsKept' BY <1>1 DEF Relay, LastIsKept, Relayed, Outcome
<1>4. QED BY <1>2, <1>3 DEF IInv

LEMMA Inductive == Spec => []IInv
<1>1. IInv /\ [Next]_vars => IInv'
  <2> SUFFICES ASSUME IInv, [Next]_vars PROVE IInv' OBVIOUS
  <2>1. ASSUME NEW id \in SessionId, NEW nonce \in Nonce, NEW origin \in Origin,
               CreateSession(id, nonce, origin)
        PROVE  IInv'
    BY <2>1, CreateHolds
  <2>2. ASSUME NEW id \in SessionId, NEW origin \in Origin, NEW plaintext \in Plaintext,
               NEW kem \in Encapsulation, WalletSeals(id, origin, plaintext, kem)
        PROVE  IInv'
    BY <2>2, SealHolds
  <2>3. ASSUME NEW id \in SessionId, NEW form \in Form, NEW w1 \in sealed, NEW w2 \in sealed,
               Relay(id, form, w1, w2)
        PROVE  IInv'
    BY <2>3, RelayHolds
  <2>4. CASE UNCHANGED vars
    BY <2>4 DEF vars, IInv, StoredIsServed, Kept, Bound, SealedFor, TextOf, OneKemEach,
                LastIsKept, Relayed, Outcome
  <2>5. QED BY <2>1, <2>2, <2>3, <2>4 DEF Next
<1>2. QED BY InitHolds, <1>1, PTL DEF Spec

\* The outcome, opened or not, by the conditions that decide it.
LEMMA OpenedMeans ==
  ASSUME NEW id, NEW data
  PROVE  Outcome(id, data) = "opened" <=>
           /\ data.form = "dcapi"
           /\ OpenResponse(data, dc[id].state.private_key,
                Transcript(dc[id].state.encryption_info_b64, dc[id].expected_origin))
<1>1. CASE data.form # "dcapi" BY <1>1 DEF Outcome, ParseResponseWrapper
<1>2. CASE data.form = "dcapi" BY <1>2 DEF Outcome, ParseResponseWrapper
<1>3. QED BY <1>1, <1>2

(***************************************************************************)
(* Only a response to this session's offer, for its origin, opens.         *)
(***************************************************************************)
THEOREM ResponseIsBound == Spec => []OpensOwn
<1>1. ASSUME IInv, Relayed, last.outcome = "opened"
      PROVE  \E w \in sealed : IsResponseOf(last.data, w) /\ MeantFor(w, last.session)
  <2> DEFINE id == last.session
  <2>1. id \in DOMAIN dc BY <1>1 DEF IInv, LastIsKept
  <2>2. PICK form \in Form, w1 \in sealed, w2 \in sealed :
          last.data = [form |-> form, enc |-> w1.enc, cipherText |-> w2.cipherText]
    BY <1>1 DEF IInv, LastIsKept
  <2>3. /\ form = "dcapi" /\ w2.cipherText.kem = w1.enc
        /\ w2.cipherText.key = dc[id].state.private_key
        /\ w2.cipherText.info = Transcript(TextOf(id), dc[id].expected_origin)
    BY <1>1, <2>2, OpenedMeans DEF IInv, LastIsKept, OpenResponse, TextOf
  <2>4. PICK plaintext \in Plaintext :
          w2.cipherText = SealResponse(plaintext, w2.enc, w2.session,
                                       Transcript(TextOf(w2.session), w2.origin))
    BY <1>1 DEF IInv, Bound, SealedFor
  <2>5. w2.enc = w1.enc BY <2>3, <2>4 DEF SealResponse
  <2>6. w1 = w2 BY <1>1, <2>5 DEF IInv, OneKemEach
  <2>7. w2.session = id BY <1>1, <2>1, <2>3, <2>4, TextAgrees DEF IInv, SealResponse
  <2>8. w2.origin = dc[id].expected_origin
    BY <2>3, <2>4 DEF SealResponse, Transcript
  <2>9. QED BY <2>2, <2>3, <2>6, <2>7, <2>8 DEF IsResponseOf, MeantFor
<1>2. IInv => OpensOwn BY <1>1 DEF OpensOwn
<1>3. QED BY Inductive, <1>2, PTL

(***************************************************************************)
(* The answer to this session's offer, for its origin, always opens.       *)
(***************************************************************************)
THEOREM HonestResponseOpens == Spec => []HonestOpens
<1>1. ASSUME IInv, NEW w \in sealed, Relayed, IsResponseOf(last.data, w), MeantFor(w, last.session)
      PROVE  last.outcome = "opened"
  <2> DEFINE id == last.session
  <2>1. id \in DOMAIN dc /\ last.outcome = Outcome(id, last.data)
    BY <1>1 DEF IInv, LastIsKept
  <2>2. PICK plaintext \in Plaintext :
          w.cipherText = SealResponse(plaintext, w.enc, id,
                                      Transcript(TextOf(id), dc[id].expected_origin))
    BY <1>1 DEF IInv, Bound, SealedFor, MeantFor
  <2>3. dc[id].state.private_key = id BY <1>1, <2>1, TextAgrees DEF IInv
  <2>4. /\ last.data.form = "dcapi" /\ last.data.enc = w.enc
        /\ last.data.cipherText = w.cipherText
    BY <1>1 DEF IsResponseOf
  <2>5. OpenResponse(last.data, dc[id].state.private_key,
                     Transcript(dc[id].state.encryption_info_b64, dc[id].expected_origin))
    BY <2>2, <2>3, <2>4 DEF OpenResponse, SealResponse, TextOf
  <2>6. QED BY <2>1, <2>4, <2>5, OpenedMeans
<1>2. IInv => HonestOpens BY <1>1 DEF HonestOpens
<1>3. QED BY Inductive, <1>2, PTL

(***************************************************************************)
(* Every session that is kept was handed out.                              *)
(***************************************************************************)
THEOREM NoOrphanSession == Spec => []StoredIsServed
<1>1. IInv => StoredIsServed BY DEF IInv
<1>2. QED BY Inductive, <1>1, PTL

=============================================================================
