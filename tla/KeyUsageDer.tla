----------------------------- MODULE KeyUsageDer -----------------------------
(***************************************************************************)
(* Reading one keyUsage bit of a certificate (trustlist.py, from           *)
(* _key_usage_permits down).  The library reads every extension at once,   *)
(* and raises when any of them is malformed; then the bit is looked up in  *)
(* the octets of the TBSCertificate.                                       *)
(*                                                                         *)
(* An element is what _read_tlv returns.  Where the code may run past the  *)
(* end of its data and raise, or find nothing, the model has a set with at *)
(* most one element; both come out of _key_usage_permits as False.         *)
(***************************************************************************)
EXTENDS DerCertificate

\* The bits the code asks for, _KEY_USAGE_BIT_INDEX.
Position == [digital_signature |-> 0, key_cert_sign |-> 5]
Asked == DOMAIN Position

-----------------------------------------------------------------------------
(* _read_tlv.                                                              *)

\* data[from:to], which is cut off at the end of data.
Slice(data, from, to) == SubSeq(data, from + 1, IF to < Len(data) THEN to ELSE Len(data))

BigEndian(octets) ==
  LET value[i \in 0..Len(octets)] == IF i = 0 THEN 0 ELSE 256 * value[i - 1] + octets[i]
  IN  value[Len(octets)]

ReadTlv(data, offset) ==
  LET first == data[offset + 2]
      start == offset + 2 + IF first >= 128 THEN first - 128 ELSE 0
      length == IF first >= 128 THEN BigEndian(Slice(data, offset + 2, start)) ELSE first
  IN  [tag |-> data[offset + 1],
       content |-> Slice(data, start, start + length),
       end |-> start + length]

\* The element at offset, unless the tag or the length raises IndexError.
Element(data, offset) ==
  IF offset + 1 < Len(data) THEN {ReadTlv(data, offset)} ELSE {}

-----------------------------------------------------------------------------
(* _key_usage_from_tbs.                                                    *)

\* What the two while loops look for.
Sought(e, tags, prefix) == e.tag \in tags /\ IsPrefix(prefix, e.content)

\* The first of the elements in data that is sought.
First(data, tags, prefix) ==
  LET from[offset \in Nat] ==
        UNION {IF Sought(e, tags, prefix) THEN {e} ELSE from[e.end] :
               e \in Element(data, offset)}
  IN  from[0]

Extensions(tbs) ==
  UNION {First(fields.content, {163}, <<>>) : fields \in Element(tbs, 0)}

KeyUsageOidDer == <<6, 3>> \o KeyUsageOid

KeyUsageExtension(extensions) ==
  UNION {First(list.content, 0..255, KeyUsageOidDer) :
         list \in Element(extensions.content, 0)}

\* A mistake: what follows the OID is taken to be the value.
FaultyValue(extension) == Element(extension.content, Len(KeyUsageOidDer))

\* The value follows the OID, or the BOOLEAN critical that follows the OID.
Value(extension) ==
  UNION {IF e.tag = 1 THEN Element(extension.content, e.end) ELSE {e} :
         e \in Element(extension.content, Len(KeyUsageOidDer))}

\* A mistake: the count of unused bits is taken for the first octet of bits.
FaultyBitSet(content, b) ==
  LET octet == Position[b] \div 8
  IN  /\ octet < Len(content)
      /\ (content[octet + 1] \div (2 ^ (7 - (Position[b] % 8)))) % 2 = 1

\* The bit in the content of the BIT STRING; past its end, none is asserted.
BitSet(content, b) ==
  LET octet == Position[b] \div 8
  IN  /\ octet < Len(content) - 1
      /\ (content[octet + 2] \div (2 ^ (7 - (Position[b] % 8)))) % 2 = 1

KeyUsageFromTbs(tbs, b) ==
  \E extensions \in Extensions(tbs) :
    \E extension \in KeyUsageExtension(extensions) :
      \E value \in Value(extension) :
        \E bit_string \in Element(value.content, 0) : BitSet(bit_string.content, b)

-----------------------------------------------------------------------------

\* legible: the library could read every extension.
KeyUsagePermits(cert, b, legible) ==
  IF legible THEN Asserts(cert, b) ELSE KeyUsageFromTbs(TbsDer(cert), b)

=============================================================================
