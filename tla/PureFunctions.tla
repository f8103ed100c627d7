--------------------------- MODULE PureFunctions ---------------------------
(***************************************************************************)
(* The service's pure functions, each over every input of a family and     *)
(* compared with a definition of its own of what the answer should be:     *)
(* validate_origin (Origins), the text form of bytes (Base64url), and the  *)
(* keyUsage of a certificate (KeyUsageDer).                                *)
(***************************************************************************)
EXTENDS Origins, Base64url, KeyUsageDer

CONSTANTS Called,        \* the functions a run is about
          Data,          \* byte strings
          MaxPads,       \* pads another library may write behind a text
          Certificates

ASSUME PureAssumption ==
  /\ Data \subseteq Seq(Octet) /\ MaxPads \in Nat
  /\ Certificates \subseteq {cert \in Certificate : WellFormed(cert)}

VARIABLES call,       \* a function and its arguments
          returned,   \* whether it has answered
          answer

vars == <<call, returned, answer>>

-----------------------------------------------------------------------------
(* The calls.                                                              *)

\* A keyUsage cut short is itself an extension the library cannot read.
Init ==
  /\ returned = FALSE /\ answer = "none"
  /\ \/ /\ "validate_origin" \in Called
        /\ \E c \in Candidate : call = [fn |-> "validate_origin", origin |-> c]
     \/ /\ "b64url_decode" \in Called
        /\ \E data \in Data, pads \in 0..MaxPads :
             call = [fn |-> "b64url_decode", data |-> data, pads |-> pads]
     \/ /\ "key_usage_permits" \in Called
        /\ \E cert \in Certificates, bit \in Asked, legible \in BOOLEAN :
             /\ legible => Whole(cert)
             /\ call = [fn |-> "key_usage_permits", cert |-> cert, bit |-> bit,
                        legible |-> legible]

\* What another library wrote has some or all of the pads.
Text == B64urlEncode(call.data) \o Pads(call.pads)

Return ==
  /\ returned' = TRUE
  /\ answer' = CASE call.fn = "validate_origin" -> ValidOrigin(call.origin)
                 [] call.fn = "b64url_decode" -> B64urlDecode(Text)
                 [] OTHER -> KeyUsagePermits(call.cert, call.bit, call.legible)
  /\ UNCHANGED call

Spec == Init /\ [][Return]_vars

Answered(fn) == returned /\ call.fn = fn

-----------------------------------------------------------------------------

(***************************************************************************)
(* No origin a browser can assert is refused: every page can be configured *)
(* for (config.py:53-60).                                                  *)
(***************************************************************************)
BareIsAccepted == Answered("validate_origin") /\ Bare(call.origin) => answer

(***************************************************************************)
(* What validate_origin says of itself: it requires a bare                 *)
(* scheme://host[:port] (config.py:38).  The value is returned unchanged   *)
(* and hashed into the transcript, so one that is not bare is an origin no *)
(* presentation can assert.                                                *)
(***************************************************************************)
AcceptedIsBare == Answered("validate_origin") /\ answer => Bare(call.origin)

(***************************************************************************)
(* What was encoded is what is decoded, with the padding that other        *)
(* encoders write, without it, or with part of it or too much              *)
(* (encoding.py:18-28).  One pad too few raises in the library, and every  *)
(* response of a wallet whose text has that length would be refused.       *)
(***************************************************************************)
PaddingIsOptional ==
  Answered("b64url_decode") => answer = [raised |-> FALSE, bytes |-> call.data]

(***************************************************************************)
(* The fallback reads of a certificate what the library would have read,   *)
(* had the other extensions let it: wherever keyUsage stands, however long *)
(* the fields around it are, with critical written or not, with its        *)
(* trailing zeros dropped (trustlist.py:146-189, core test                 *)
(* test_der_fallback_agrees_with_pyca).                                    *)
(***************************************************************************)
FallbackAgrees ==
  Answered("key_usage_permits") /\ Whole(call.cert)
    => (answer <=> Asserts(call.cert, call.bit))

(***************************************************************************)
(* Whatever is missing of the keyUsage extension, the octets around it are *)
(* never read for it: only a bit its issuer set is ever found to be set    *)
(* (trustlist.py:54-56, 185-189).                                          *)
(***************************************************************************)
NothingInvented ==
  Answered("key_usage_permits") /\ answer => Asserts(call.cert, call.bit)

=============================================================================
