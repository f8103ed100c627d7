------------------------------ MODULE Base64url ------------------------------
(***************************************************************************)
(* The text form of every binary wire field (core/encoding.py), over       *)
(* octets and sextets.  A character is its sextet, or Pad; a text is       *)
(* characters, then pads.                                                  *)
(***************************************************************************)
EXTENDS Integers, Sequences

Pad == 64
Pads(n) == [i \in 1..n |-> Pad]

\* Zero bits follow the last element.
At(s, i) == IF i <= Len(s) THEN s[i] ELSE 0

\* The bits of s, whose elements have from bits, as count numbers of width
\* bits, each of which lies within two elements.
Regroup(s, from, width, count) ==
  [i \in 1..count |->
    LET bit == width * (i - 1)
        at == (bit \div from) + 1
    IN  ((2^from * At(s, at) + At(s, at + 1)) \div 2^(2 * from - width - (bit % from)))
          % 2^width]

\* urlsafe_b64encode pads the last quartet.
LibraryEncode(bytes) ==
  LET count == (8 * Len(bytes) + 5) \div 6
  IN  Regroup(bytes, 8, 6, count) \o Pads((-count) % 4)

\* rstrip(b"=")
Stripped(text) ==
  SubSeq(text, 1, CHOOSE n \in 0..Len(text) :
                    /\ \A i \in n + 1..Len(text) : text[i] = Pad
                    /\ n > 0 => text[n] # Pad)

B64urlEncode(bytes) == Stripped(LibraryEncode(bytes))

Raised == [raised |-> TRUE, bytes |-> <<>>]

\* A quartet of two or three characters has to be filled up with pads; other
\* pads are skipped.
LibraryDecode(text) ==
  LET sextets == Stripped(text)
      pads == Len(text) - Len(sextets)
      rest == Len(sextets) % 4
  IN  IF rest = 1 \/ (rest > 1 /\ rest + pads < 4) THEN Raised
      ELSE [raised |-> FALSE, bytes |-> Regroup(sextets, 6, 8, (6 * Len(sextets)) \div 8)]

\* A mistake: the text is taken to come as long as the library wants it.
FaultyB64urlDecode(text) == LibraryDecode(text)
B64urlDecode(text) == LibraryDecode(text \o Pads((-Len(text)) % 4))

=============================================================================
