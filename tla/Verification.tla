---------------------------- MODULE Verification ----------------------------
(***************************************************************************)
(* The verification pipeline as operators: open the relayed response       *)
(* (transport/dc.py), check the presentation (engine/mdoc_zk.py), name the *)
(* first failure (service/verify.py).                                      *)
(*                                                                         *)
(* A response is what a wallet made of one offer: the session whose        *)
(* encryption info it used, the origin the browser told it, the time of    *)
(* the proof, and the document inside.  The key pair and the encryption    *)
(* info of a session are fresh random values, so both go by its id, and a  *)
(* transcript is the pair that build_handover_hash hashes.                 *)
(***************************************************************************)
EXTENDS TrustList, FiniteSetsExt

CONSTANTS
  SessionId,
  Origin,
  Circuit,            \* zkSystemId strings
  HeldCircuit,        \* held.zk_system_id
  Skew                \* config.service.timestamp_skew_seconds

ASSUME VerificationAssumption == HeldCircuit \in Circuit /\ Skew \in Int

\* What a document discloses under issuerSigned[DOC_TYPE]: every requested
\* claim as true, not every one, or an identifier no set can hold.
Disclosure == {"all", "missing", "unhashable"}

\* deviceSigned: the namespaces the device signed, which the wire leaves out.
DeviceNamespaces == {"empty", "populated"}
AssumedDeviceNamespaces == "empty"

Document == [wrapped : BOOLEAN,      \* a dcapi wrapper around enc and cipherText
             shape : {"zk", "standard", "malformed"},
             circuit : Circuit,
             doctype : BOOLEAN,      \* docType is DOC_TYPE
             discloses : Disclosure,
             cert : Certificate,     \* msoX5chain[0]
             device : DeviceNamespaces,
             sound : BOOLEAN]        \* the proof is one, of the requested claims

Response == [session : SessionId, origin : Origin, timestamp : Int, doc : Document]

\* parse_response_wrapper raises nothing.
Unwraps(resp) == resp.doc.wrapped

\* build_session_transcript.  The mistake: the origin is not hashed in.
FaultyTranscript(id, origin) == <<id>>
Transcript(id, origin) == <<id, origin>>

\* open_response: the private key of session id opens what was sealed to its
\* public key under the same transcript, and nothing else.
Opens(resp, id, origin) ==
  /\ resp.session = id
  /\ Transcript(resp.session, resp.origin) = Transcript(id, origin)

\* abs(now - timestamp) <= skew, either way.  The mistake: no abs.
FaultyFresh(resp, now) == now - resp.timestamp <= Skew
Fresh(resp, now) == now - resp.timestamp \in -Skew..Skew

\* _claims_disclosed, once its set could be built.  The mistake: any for all.
FaultyClaimsDisclosed(doc) == doc.discloses \in Disclosure
ClaimsDisclosed(doc) == doc.discloses = "all"

\* What is tried in the event loop's turn, in this order, each with the
\* reason verify.py gives when it fails.
ChecksInOrder(resp, id, origin, now) ==
  LET doc == resp.doc IN
  << <<"invalid-envelope", Unwraps(resp)>>,
     <<"decrypt-failed", Opens(resp, id, origin)>>,
     <<"invalid-envelope", doc.shape # "malformed">>,
     <<"standard-mdoc-not-accepted", doc.shape # "standard">>,
     <<"unsupported-circuit", doc.circuit = HeldCircuit>>,
     <<"claim-mismatch", doc.doctype>>,
     <<"engine-error", doc.discloses # "unhashable">>,
     <<"claim-mismatch", ClaimsDisclosed(doc)>>,
     <<"stale-proof", Fresh(resp, now)>>,
     <<"untrusted-issuer", Resolves(doc.cert, now)>> >>

Passed == "passed"

\* The reason for the first check that fails.
EarlyVerdict(resp, id, origin, now) ==
  LET checks == ChecksInOrder(resp, id, origin, now)
      failed == {i \in DOMAIN checks : ~checks[i][2]}
  IN  IF failed = {} THEN Passed ELSE checks[Min(failed)][1]

\* The arguments of held.longfellow.verify, fixed before the executor runs.
\* The mistake: no substitution of the empty map.
FaultyJob(resp, id, origin) ==
  [key |-> resp.doc.cert.id, transcript |-> Transcript(id, origin),
   timestamp |-> resp.timestamp, device |-> "none", proof |-> resp]
Job(resp, id, origin) ==
  [key |-> resp.doc.cert.id, transcript |-> Transcript(id, origin),
   timestamp |-> resp.timestamp, device |-> AssumedDeviceNamespaces,
   proof |-> resp]

\* held.longfellow.verify accepts a proof exactly for the statement it proves.
Proves(resp, job) ==
  /\ resp.doc.sound
  /\ job.key = resp.doc.cert.id
  /\ job.transcript = Transcript(resp.session, resp.origin)
  /\ job.timestamp = resp.timestamp
  /\ job.device = resp.doc.device

FailureReason == {"invalid-envelope", "decrypt-failed",
                  "standard-mdoc-not-accepted", "unsupported-circuit",
                  "claim-mismatch", "stale-proof", "untrusted-issuer",
                  "proof-invalid", "engine-error"}

\* What the worker thread returns, as _run_engine maps it: the backend may
\* also fail for reasons of its own.
ProofVerdicts(job) ==
  {IF Proves(job.proof, job) THEN "verified" ELSE "proof-invalid", "engine-error"}

=============================================================================
