--------------------------- MODULE DerCertificate ---------------------------
(***************************************************************************)
(* The part of X.509 that trustlist.py walks by hand: how DER writes the   *)
(* TBSCertificate of a certificate down in octets.  This is the reference  *)
(* the walk is compared with, and none of it is the verifier's own code.   *)
(*                                                                         *)
(* An extension has its keyUsage bits where it is a keyUsage extension;    *)
(* the last lacks octets of its value are missing from the certificate.    *)
(***************************************************************************)
EXTENDS Integers, SequencesExt

\* Of the KeyUsage bits, those at positions 0, 5 and 8 (RFC 5280, 4.2.1.3).
Bit == {"digital_signature", "key_cert_sign", "decipher_only"}

KeyUsageOid == <<85, 29, 15>>

Octet == 0..255
Extension == [oid : Seq(Octet), critical : BOOLEAN, bits : SUBSET Bit, octets : Seq(Octet),
              lacks : Nat]
Certificate == [serial : Seq(Octet), names : Seq(Octet), extensions : Seq(Extension)]

\* From here on, a length needs more than two octets.
Limit == 65536

LengthOctets(n) ==
  IF n < 128 THEN <<n>>
  ELSE IF n < 256 THEN <<129, n>> ELSE <<130, n \div 256, n % 256>>

Tlv(tag, content) == <<tag>> \o LengthOctets(Len(content)) \o content

\* A count of unused trailing bits, then the bits, most significant first;
\* trailing zeros are dropped.
BitString(bits) ==
  LET first == (IF "digital_signature" \in bits THEN 128 ELSE 0)
                 + (IF "key_cert_sign" \in bits THEN 4 ELSE 0)
  IN  Tlv(3, CASE "decipher_only" \in bits -> <<7, first, 128>>
               [] bits = {} -> <<0>>
               [] OTHER -> <<IF "key_cert_sign" \in bits THEN 2 ELSE 7, first>>)

WholeValue(ext) == IF ext.oid = KeyUsageOid THEN BitString(ext.bits) ELSE ext.octets
ExtensionValue(ext) == SubSeq(WholeValue(ext), 1, Len(WholeValue(ext)) - ext.lacks)

\* critical is written only when it is true.
ExtensionDer(ext) ==
  Tlv(48, Tlv(6, ext.oid) \o (IF ext.critical THEN Tlv(1, <<255>>) ELSE <<>>)
          \o Tlv(4, ExtensionValue(ext)))

\* The fields before the extensions, as far as they matter: a number, the
\* rest, and the [3] block, which is left out when there are no extensions.
TbsDer(cert) ==
  LET list == Tlv(48, FlattenSeq([i \in DOMAIN cert.extensions |->
                                    ExtensionDer(cert.extensions[i])]))
  IN  Tlv(48, Tlv(2, cert.serial) \o Tlv(48, cert.names)
              \o (IF cert.extensions = <<>> THEN <<>> ELSE Tlv(163, list)))

\* What the issuer asserted by its keyUsage extension.
Asserts(cert, bit) ==
  \E i \in DOMAIN cert.extensions :
    cert.extensions[i].oid = KeyUsageOid /\ bit \in cert.extensions[i].bits

\* The keyUsage extension, if any, is all there.
Whole(cert) ==
  \A i \in DOMAIN cert.extensions :
    cert.extensions[i].oid = KeyUsageOid => cert.extensions[i].lacks = 0

\* What is written with lengths of at most two octets, with one keyUsage at most.
WellFormed(cert) ==
  /\ Len(TbsDer(cert)) < Limit
  /\ \A i, j \in DOMAIN cert.extensions :
       cert.extensions[i].oid = KeyUsageOid /\ cert.extensions[j].oid = KeyUsageOid => i = j
  /\ \A i \in DOMAIN cert.extensions :
       cert.extensions[i].lacks <= Len(WholeValue(cert.extensions[i]))

=============================================================================
