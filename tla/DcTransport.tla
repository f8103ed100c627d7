---------------------------- MODULE DcTransport ----------------------------
(***************************************************************************)
(* The Digital Credentials transport (core/transport/dc.py) between the    *)
(* service and the wallets: the offer that is handed out, what is kept of  *)
(* it, what a wallet seals to it, and how the relayed response is          *)
(* unwrapped and opened.  It is the detail behind Unwraps and Opens of     *)
(* Verification.                                                           *)
(*                                                                         *)
(* CBOR bytes are the sequence of the items in the order they are written, *)
(* a base64url text its bytes and the pads behind it (see Base64url), a    *)
(* key pair the session it was generated for.  Hashes and encodings are    *)
(* injective, and HPKE opens what was sealed to the key under the same     *)
(* info, with the encapsulated key that came with it.                      *)
(***************************************************************************)
CONSTANTS
  SessionId, Origin,
  Nonce,           \* may repeat; the key of a session does not
  Plaintext,       \* the device responses wallets seal
  Encapsulation,   \* bound: the encapsulated keys wallets draw
  NothingYet

VARIABLES
  dc,        \* the transport state and expected origin of each stored session
  offered,   \* the offers that reached the consumer
  sealed,    \* what wallets have sealed, and to which offer and origin
  last       \* the response last relayed, and what became of it

vars == <<dc, offered, sealed, last>>

-----------------------------------------------------------------------------
(* Building an offer.                                                      *)

\* The library puts one pad behind the 125 octets of an encryption info.
LibraryEncode(bytes) == [bytes |-> bytes, pads |-> 1]

\* A mistake: the pads are left on.
FaultyB64urlEncode(bytes) == LibraryEncode(bytes)
B64urlEncode(bytes) == [bytes |-> bytes, pads |-> 0]

CoseKey(key) == <<"y", key, "x", key, "crv", "P256", "kty", "EC2">>
EncryptionInfo(nonce, key) ==
  <<"dcapi", "nonce", nonce, "recipientPublicKey", CoseKey(key)>>

\* The same for every session: the supported claim, the held circuit.
DeviceRequest == <<"version", "1.1", "docRequests", "itemsRequest">>

DcRequest(deviceRequest, encryptionInfo) ==
  [protocol |-> "org-iso-mdoc", mediation |-> "required",
   deviceRequest |-> B64urlEncode(deviceRequest),
   encryptionInfo |-> B64urlEncode(encryptionInfo)]

\* A mistake: the string is written anew from the key, in the order that the
\* reference wallet writes.
FaultyState(nonce, key) ==
  [private_key |-> key,
   encryption_info_b64 |-> B64urlEncode(
     <<"dcapi", "nonce", nonce, "recipientPublicKey",
       <<"kty", "EC2", "crv", "P256", "x", key, "y", key>> >>)]
DcSessionState(nonce, key) ==
  [private_key |-> key, encryption_info_b64 |-> B64urlEncode(EncryptionInfo(nonce, key))]

\* DcRequest and the models in it are closed; _B64URL has no "=".
Conforms(offer) ==
  /\ offer.protocol = "org-iso-mdoc" /\ offer.mediation = "required"
  /\ offer.deviceRequest.pads = 0 /\ offer.encryptionInfo.pads = 0

\* build_session_transcript over build_handover_hash.  The mistake: the
\* origin is not hashed in.
FaultyTranscript(text, origin) == <<"dcapi", text>>
Transcript(text, origin) == <<"dcapi", text, origin>>

-----------------------------------------------------------------------------

Init ==
  /\ dc = [id \in {} |-> NothingYet]
  /\ offered = [id \in {} |-> NothingYet]
  /\ sealed = {}
  /\ last = NothingYet

With(f, id, value) == [i \in DOMAIN f \cup {id} |-> IF i = id THEN value ELSE f[i]]

\* create_session: the store keeps the session before the body of the reply
\* is validated, and a reply that does not conform is a 500.
CreateSession(id, nonce, origin) ==
  LET offer == DcRequest(DeviceRequest, EncryptionInfo(nonce, id)) IN
  /\ id \notin DOMAIN dc
  /\ dc' = With(dc, id, [state |-> DcSessionState(nonce, id), expected_origin |-> origin])
  /\ offered' = IF Conforms(offer) THEN With(offered, id, offer) ELSE offered
  /\ UNCHANGED <<sealed, last>>

\* seal_response, as a wallet runs it: the key from the offer, the transcript
\* from its string, character by character, and the origin the browser names.
KeyIn(text) == text.bytes[5][2]

SealResponse(plaintext, kem, key, info) ==
  [kem |-> kem, key |-> key, info |-> info, plaintext |-> plaintext]

WalletSeals(id, origin, plaintext, kem) ==
  LET text == offered[id].encryptionInfo IN
  /\ id \in DOMAIN offered
  /\ \A other \in sealed : other.enc # kem
  /\ sealed' = sealed \cup
       {[enc |-> kem, session |-> id, origin |-> origin,
         cipherText |-> SealResponse(plaintext, kem, KeyIn(text), Transcript(text, origin))]}
  /\ UNCHANGED <<dc, offered, last>>

-----------------------------------------------------------------------------
(* Opening a response.                                                     *)

\* What may be wrong with the text in the data object, in the order it shows:
\* no base64url of CBOR, no ["dcapi", {...}], no byte strings in it.
Form == {"dcapi", "unreadable", "unwrapped", "incomplete"}

ParseResponseWrapper(data) == data.form = "dcapi"

OpenResponse(data, private_key, info) ==
  /\ data.cipherText.kem = data.enc
  /\ data.cipherText.key = private_key
  /\ data.cipherText.info = info

\* _open_presentation, once the attempt is claimed (see Verifier).
Outcome(id, data) ==
  LET state == dc[id].state
      info == Transcript(state.encryption_info_b64, dc[id].expected_origin)
  IN  CASE ~ParseResponseWrapper(data) -> "invalid-envelope"
        [] ParseResponseWrapper(data) /\ ~OpenResponse(data, state.private_key, info)
             -> "decrypt-failed"
        [] OTHER -> "opened"

\* The relay may confuse the parts of two responses.
Relay(id, form, w1, w2) ==
  LET data == [form |-> form, enc |-> w1.enc, cipherText |-> w2.cipherText] IN
  /\ id \in DOMAIN dc
  /\ last' = [session |-> id, data |-> data, outcome |-> Outcome(id, data)]
  /\ UNCHANGED <<dc, offered, sealed>>

Next ==
  \/ \E id \in SessionId, nonce \in Nonce, origin \in Origin : CreateSession(id, nonce, origin)
  \/ \E id \in SessionId, origin \in Origin, plaintext \in Plaintext, kem \in Encapsulation :
       WalletSeals(id, origin, plaintext, kem)
  \/ \E id \in SessionId, form \in Form, w1, w2 \in sealed : Relay(id, form, w1, w2)

Spec == Init /\ [][Next]_vars

-----------------------------------------------------------------------------
(* Properties.                                                             *)

Relayed == last # NothingYet

\* The response of wallet w, as the browser returned it.
IsResponseOf(data, w) ==
  data = [form |-> "dcapi", enc |-> w.enc, cipherText |-> w.cipherText]

\* w is an answer to session id's offer, given to a page of its origin.
MeantFor(w, id) == w.session = id /\ w.origin = dc[id].expected_origin

(***************************************************************************)
(* What opens was sealed, whole, by a wallet that answered this session's  *)
(* own offer for the origin the session expects: the pair that             *)
(* Verification takes a transcript to be (dc.py:146-176, 184-214).         *)
(***************************************************************************)
OpensOwn ==
  Relayed /\ last.outcome = "opened" =>
    \E w \in sealed : IsResponseOf(last.data, w) /\ MeantFor(w, last.session)

(***************************************************************************)
(* The answer to this session's offer, for its origin, opens: the string   *)
(* that is kept is the one that was handed out, character for character,   *)
(* although the wallet writes the key in another order than the service    *)
(* (dc.py:55-58, 120-121, 309-312).                                        *)
(***************************************************************************)
HonestOpens ==
  \A w \in sealed :
    Relayed /\ IsResponseOf(last.data, w) /\ MeantFor(w, last.session)
      => last.outcome = "opened"

(***************************************************************************)
(* No session is kept whose creator got an error instead of its offer:     *)
(* the store takes it in before the response model, closed and strict, has *)
(* validated the offer, and such a session would keep its place in the     *)
(* store until it expires (sessions.py:93-104, routes.py:56-104, 184-188). *)
(***************************************************************************)
StoredIsServed == DOMAIN dc = DOMAIN offered

=============================================================================
