------------------------------ MODULE TrustList ------------------------------
(***************************************************************************)
(* Trust anchors and the issuer they vouch for (core/trustlist.py).        *)
(*                                                                         *)
(* A certificate is known by what the code asks of it: its identity (the   *)
(* SHA-256 fingerprint), its validity window, its keyUsage extension and   *)
(* how reading it went, the certificate whose key signed it, and whether   *)
(* its own key is P-256.                                                   *)
(***************************************************************************)
EXTENDS Integers, Sequences

CONSTANTS
  CertId,    \* fingerprints
  Anchors    \* AnchorSet.anchors: a sequence of certificates

KeyUsageBit == {"digital_signature", "key_cert_sign"}

\* How keyUsage was read: by the library, by the DER walk after the library
\* raised ValueError, not there at all, or not by either.
KeyUsageRead == {"parsed", "walked", "absent", "unreadable"}

Certificate == [id : CertId, issued_by : CertId,
                not_before : Int, not_after : Int,
                read : KeyUsageRead, bits : SUBSET KeyUsageBit,
                p256 : BOOLEAN]

\* load_anchors refuses to start the service on an empty set.
ASSUME TrustAssumption == Anchors \in Seq(Certificate) /\ Anchors # <<>>

\* _key_usage_permits: what could not be read is not asserted.
KeyUsagePermits(cert, bit) ==
  /\ cert.read \in {"parsed", "walked"}
  /\ bit \in cert.bits

\* cert.verify_directly_issued_by(anchor) raises nothing.
DirectlyIssuedBy(cert, anchor) == cert.issued_by = anchor.id

\* An anchor's own validity window is not consulted.
VouchedFor(cert) ==
  \E i \in DOMAIN Anchors :
    \/ cert.id = Anchors[i].id
    \/ /\ KeyUsagePermits(Anchors[i], "key_cert_sign")
       /\ DirectlyIssuedBy(cert, Anchors[i])

\* AnchorSet._accepts, at wall-clock time now.
Accepts(cert, now) ==
  /\ cert.not_before <= now
  /\ now <= cert.not_after
  /\ KeyUsagePermits(cert, "digital_signature")
  /\ VouchedFor(cert)

\* AnchorSet.resolve returns a key instead of raising UntrustedIssuer.
Resolves(cert, now) == Accepts(cert, now) /\ cert.p256

=============================================================================
