----------------------------- MODULE MCVerifier -----------------------------
(* Small instances of Verifier: the verifier*.cfg files.                    *)
EXTENDS Verifier, TLC

CONSTANTS iaca, leaf, self, stranger, held, other

NoJumps == {}
SomeJumps == {-2}

\* Wallets on the service's time, and one that is further ahead than the skew.
OnTime == {0}
Ahead == {0, 2}

CertIds == {iaca, leaf, self, stranger}

Iaca == [id |-> iaca, issued_by |-> iaca, not_before |-> 0, not_after |-> 0,
         read |-> "walked", bits |-> {"key_cert_sign"}, p256 |-> TRUE]
Leaf == [id |-> leaf, issued_by |-> iaca, not_before |-> 0, not_after |-> 2,
         read |-> "parsed", bits |-> {"digital_signature"}, p256 |-> TRUE]
Stranger == [Leaf EXCEPT !.id = stranger, !.issued_by = stranger]
\* A signer that is listed itself, and may not issue.
Self == [Leaf EXCEPT !.id = self, !.issued_by = self]
\* Issued by a listed certificate that may not issue; not yet valid; with a
\* keyUsage nobody could read; without one; on another curve.
Certs == {Leaf, Stranger, Self,
          [Leaf EXCEPT !.issued_by = self],
          [Leaf EXCEPT !.not_before = 1],
          [Leaf EXCEPT !.read = "unreadable"],
          [Leaf EXCEPT !.read = "absent", !.bits = {}],
          [Leaf EXCEPT !.p256 = FALSE]}
MCAnchors == <<Iaca, Self>>

Good == [wrapped |-> TRUE, shape |-> "zk", circuit |-> held, doctype |-> TRUE,
         discloses |-> "all", cert |-> Leaf, device |-> "empty", sound |-> TRUE]
Tampered == [Good EXCEPT !.sound = FALSE]

MCDocuments == {Good, Tampered}
OnlyGood == {Good}
AllDocuments == [wrapped : BOOLEAN, shape : {"zk", "standard", "malformed"},
                 circuit : {held, other}, doctype : BOOLEAN, discloses : Disclosure,
                 cert : Certs, device : DeviceNamespaces, sound : BOOLEAN]
\* Every flaw, and every two of them, so that the order of the checks shows.
TwoFlaws ==
  {doc \in AllDocuments : Cardinality({f \in DOMAIN doc : doc[f] # Good[f]}) <= 2}

Interchangeable == Permutations(Request) \cup Permutations(SessionId)

=============================================================================
