-------------------------- MODULE MCPureFunctions --------------------------
(* The inputs of PureFunctions that pure_functions.cfg tries.              *)
EXTENDS PureFunctions

MCData == BoundedSeq({0, 3, 96, 255}, 5)

\* 163 is the tag the walk looks for, here inside other fields.
Filler(n) == [i \in 1..n |-> 163]

\* Lengths on both sides of where the length needs one and two more octets.
Lengths == {0, 3, 127, 128, 255, 256}

KeyUsages ==
  {[oid |-> KeyUsageOid, critical |-> c, bits |-> bits, octets |-> <<>>, lacks |-> n] :
     c \in BOOLEAN, bits \in SUBSET Bit, n \in 0..5}
Complete == {k \in KeyUsages : k.lacks <= Len(BitString(k.bits))}

Other(oid, critical, octets) ==
  [oid |-> oid, critical |-> critical, bits |-> {}, octets |-> octets, lacks |-> 0]

\* Another OID that begins the same; the keyUsage OID, or a BIT STRING that
\* sets every bit, as the value of something else.
Others ==
  {Other(<<85, 29, 15, 1>>, TRUE, <<3, 2, 0, 255>>),
   Other(<<85, 29, 14>>, FALSE, KeyUsageOidDer \o <<4, 4, 3, 2, 0, 255>>),
   Other(<<85, 29, 14>>, TRUE, Filler(120)),
   Other(<<85, 29, 14>>, FALSE, Filler(250))}

AtMostOne(S) == {<<>>} \cup {<<e>> : e \in S}

MCCertificates ==
  {[serial |-> <<1, 163>>, names |-> Filler(n), extensions |-> before \o usage \o after] :
     n \in {3, 256}, before \in AtMostOne(Others), usage \in AtMostOne(Complete),
     after \in AtMostOne(Others)}
  \cup
  {[serial |-> <<1>>, names |-> Filler(n), extensions |-> before \o <<usage>>] :
     n \in Lengths, usage \in Complete,
     before \in {<<Other(<<85, 29, 14>>, TRUE, Filler(m))>> : m \in Lengths}}

=============================================================================
