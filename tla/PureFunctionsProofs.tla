------------------------ MODULE PureFunctionsProofs ------------------------
(***************************************************************************)
(* What is proved of PureFunctions: for every byte string and every number *)
(* of pads, the text form of bytes loses nothing; of every certificate     *)
(* that lengths of two octets can write, the walk reads the keyUsage its   *)
(* issuer asserted; and no origin that a browser can assert is refused.    *)
(***************************************************************************)
EXTENDS PureFunctions, WellFoundedInduction, TLAPS

-----------------------------------------------------------------------------
(* Base64url.                                                              *)

Sextet == 0..63

(* Groups of three octets and four sextets.                                *)

\* The four sextets of three octets, one by one.
LEMMA FourOfThree ==
  ASSUME NEW a \in Octet, NEW b \in Octet
  PROVE  /\ ((256 * a + b) \div 2^10) % 2^6 = a \div 4
         /\ ((256 * a + b) \div 2^4) % 2^6 = 16 * (a % 4) + (b \div 16)
         /\ ((256 * a + b) \div 2^6) % 2^6 = 4 * (a % 16) + (b \div 64)
         /\ ((256 * a + b) \div 2^8) % 2^6 = a % 64
<1>1. ((256 * a + b) \div 1024) % 64 = a \div 4
  BY DEF Octet
<1>2. ((256 * a + b) \div 16) % 64 = 16 * (a % 4) + (b \div 16)
  BY DEF Octet
<1>3. ((256 * a + b) \div 64) % 64 = 4 * (a % 16) + (b \div 64)
  BY DEF Octet
<1>4. ((256 * a + b) \div 256) % 64 = a % 64
  BY DEF Octet
<1>5. 2^10 = 1024 /\ 2^4 = 16 /\ 2^6 = 64 /\ 2^8 = 256
  OBVIOUS
<1>6. QED BY <1>1, <1>2, <1>3, <1>4, <1>5

\* The three octets that those four sextets make.
LEMMA ThreeOfFour ==
  ASSUME NEW a \in Octet, NEW b \in Octet, NEW c \in Octet
  PROVE  /\ ((64 * (a \div 4) + (16 * (a % 4) + (b \div 16))) \div 2^4) % 2^8 = a
         /\ ((64 * (16 * (a % 4) + (b \div 16)) + (4 * (b % 16) + (c \div 64))) \div 2^2) % 2^8
              = b
         /\ ((64 * (4 * (b % 16) + (c \div 64)) + (c % 64)) \div 2^0) % 2^8 = c
<1>1. ((64 * (a \div 4) + (16 * (a % 4) + (b \div 16))) \div 16) % 256 = a
  BY DEF Octet
<1>2. ((64 * (16 * (a % 4) + (b \div 16)) + (4 * (b % 16) + (c \div 64))) \div 4) % 256 = b
  <2>1. /\ b = 16 * (b \div 16) + (b % 16)
        /\ a % 4 \in 0..3 /\ b \div 16 \in 0..15 /\ b % 16 \in 0..15 /\ c \div 64 \in 0..3
    BY DEF Octet
  <2>2. 64 * (16 * (a % 4) + (b \div 16)) + (4 * (b % 16) + (c \div 64))
          = 4 * (256 * (a % 4) + b) + (c \div 64)
    BY <2>1
  <2>3. (4 * (256 * (a % 4) + b) + (c \div 64)) \div 4 = 256 * (a % 4) + b
    BY <2>1 DEF Octet
  <2>4. (256 * (a % 4) + b) % 256 = b
    BY <2>1 DEF Octet
  <2>5. QED BY <2>2, <2>3, <2>4
<1>3. ((64 * (4 * (b % 16) + (c \div 64)) + (c % 64)) \div 1) % 256 = c
  <2>1. /\ c = 64 * (c \div 64) + (c % 64)
        /\ b % 16 \in 0..15 /\ c \div 64 \in 0..3 /\ c % 64 \in 0..63
    BY DEF Octet
  <2>2. 64 * (4 * (b % 16) + (c \div 64)) + (c % 64) = 256 * (b % 16) + c
    BY <2>1
  <2>3. (256 * (b % 16) + c) \div 1 = 256 * (b % 16) + c
    BY <2>1 DEF Octet
  <2>4. (256 * (b % 16) + c) % 256 = c
    BY <2>1 DEF Octet
  <2>5. QED BY <2>2, <2>3, <2>4
<1>4. 2^4 = 16 /\ 2^2 = 4 /\ 2^0 = 1 /\ 2^8 = 256
  OBVIOUS
<1>5. QED BY <1>1, <1>2, <1>3, <1>4

\* The text of some octets, without its pads, and the octets of such a text.
Sextets(bytes) == Regroup(bytes, 8, 6, (8 * Len(bytes) + 5) \div 6)
Octets(sextets) == Regroup(sextets, 6, 8, (6 * Len(sextets)) \div 8)

\* Behind the last octet the regrouping reads zeros.
LEMMA AtOctet ==
  ASSUME NEW bytes \in Seq(Octet), NEW i \in Nat \ {0}
  PROVE  At(bytes, i) \in Octet
<1>1. CASE i <= Len(bytes)
  <2>1. i \in 1..Len(bytes) /\ bytes[i] \in Octet
    BY <1>1
  <2>2. QED BY <1>1, <2>1 DEF At
<1>2. CASE ~(i <= Len(bytes))
  BY <1>2 DEF At, Octet
<1>3. QED BY <1>1, <1>2

\* As many characters as six bits each take, the last one begun.
LEMMA SextetsLength ==
  ASSUME NEW bytes \in Seq(Octet)
  PROVE  LET n == Len(bytes)
             count == Len(Sextets(bytes))
         IN  /\ count = (8 * n + 5) \div 6
             /\ count \in Nat
             /\ (6 * count) \div 8 = n
             /\ count % 4 = IF n % 3 = 0 THEN 0 ELSE (n % 3) + 1
<1> DEFINE n == Len(bytes)
           count == (8 * n + 5) \div 6
<1>1. n \in Nat /\ count \in Nat
  OBVIOUS
<1>2. Len(Sextets(bytes)) = count
  BY <1>1 DEF Sextets, Regroup
<1>3. PICK q \in Nat, r \in 0..2 : n = 3 * q + r
  <2>1. n = 3 * (n \div 3) + (n % 3) /\ n \div 3 \in Nat /\ n % 3 \in 0..2
    BY <1>1
  <2>2. QED BY <2>1
<1>4. n % 3 = r
  BY <1>3
<1>5. count = IF r = 0 THEN 4 * q ELSE 4 * q + r + 1
  BY <1>3
<1>6. (6 * count) \div 8 = n /\ count % 4 = IF r = 0 THEN 0 ELSE r + 1
  BY <1>3, <1>5
<1>7. QED BY <1>1, <1>2, <1>4, <1>6

\* The sextets of the q-th group.
LEMMA SextetValue ==
  ASSUME NEW bytes \in Seq(Octet), NEW q \in Nat, NEW k \in 1..4,
         4 * q + k \in 1..Len(Sextets(bytes))
  PROVE  LET a == At(bytes, 3 * q + 1)
             b == At(bytes, 3 * q + 2)
             c == At(bytes, 3 * q + 3)
         IN  Sextets(bytes)[4 * q + k] =
               CASE k = 1 -> a \div 4
                 [] k = 2 -> 16 * (a % 4) + (b \div 16)
                 [] k = 3 -> 4 * (b % 16) + (c \div 64)
                 [] k = 4 -> c % 64
<1> DEFINE n == Len(bytes)
           count == (8 * n + 5) \div 6
           a == At(bytes, 3 * q + 1)
           b == At(bytes, 3 * q + 2)
           c == At(bytes, 3 * q + 3)
           d == At(bytes, 3 * q + 4)
           S == Regroup(bytes, 8, 6, count)
<1>1. count \in Nat /\ 4 * q + k \in 1..count /\ Sextets(bytes) = S
  BY SextetsLength DEF Sextets
<1>2. a \in Octet /\ b \in Octet /\ c \in Octet /\ d \in Octet
  BY AtOctet
<1> HIDE DEF a, b, c, d, count, n, S
<1>3. CASE k = 1
  <2>1. (6 * ((4 * q + k) - 1)) \div 8 = 3 * q /\ (6 * ((4 * q + k) - 1)) % 8 = 0
    BY <1>3
  <2>2. S[4 * q + k] = ((2^8 * a + b) \div 2^(2 * 8 - 6 - 0)) % 2^6
    BY <1>1, <2>1, 3 * q + 2 = (3 * q + 1) + 1 DEF a, b, S, Regroup
  <2>3. 2^8 = 256 /\ 2 * 8 - 6 - 0 = 10
    OBVIOUS
  <2>4. QED BY <1>1, <1>2, <1>3, <2>2, <2>3, FourOfThree DEF a, b
<1>4. CASE k = 2
  <2>1. (6 * ((4 * q + k) - 1)) \div 8 = 3 * q /\ (6 * ((4 * q + k) - 1)) % 8 = 6
    BY <1>4
  <2>2. S[4 * q + k] = ((2^8 * a + b) \div 2^(2 * 8 - 6 - 6)) % 2^6
    BY <1>1, <2>1, 3 * q + 2 = (3 * q + 1) + 1 DEF a, b, S, Regroup
  <2>3. 2^8 = 256 /\ 2 * 8 - 6 - 6 = 4
    OBVIOUS
  <2>4. QED BY <1>1, <1>2, <1>4, <2>2, <2>3, FourOfThree DEF a, b
<1>5. CASE k = 3
  <2>1. (6 * ((4 * q + k) - 1)) \div 8 = 3 * q + 1 /\ (6 * ((4 * q + k) - 1)) % 8 = 4
    BY <1>5
  <2>2. S[4 * q + k] = ((2^8 * b + c) \div 2^(2 * 8 - 6 - 4)) % 2^6
    BY <1>1, <2>1, 3 * q + 2 = (3 * q + 1) + 1, 3 * q + 3 = (3 * q + 2) + 1 DEF b, c, S, Regroup
  <2>3. 2^8 = 256 /\ 2 * 8 - 6 - 4 = 6
    OBVIOUS
  <2>4. QED BY <1>1, <1>2, <1>5, <2>2, <2>3, FourOfThree DEF b, c
<1>6. CASE k = 4
  <2>1. (6 * ((4 * q + k) - 1)) \div 8 = 3 * q + 2 /\ (6 * ((4 * q + k) - 1)) % 8 = 2
    BY <1>6
  <2>2. S[4 * q + k] = ((2^8 * c + d) \div 2^(2 * 8 - 6 - 2)) % 2^6
    BY <1>1, <2>1, 3 * q + 3 = (3 * q + 2) + 1, 3 * q + 4 = (3 * q + 3) + 1 DEF c, d, S, Regroup
  <2>3. 2^8 = 256 /\ 2 * 8 - 6 - 2 = 8
    OBVIOUS
  <2>4. QED BY <1>1, <1>2, <1>6, <2>2, <2>3, FourOfThree DEF c, d
<1>7. QED BY <1>3, <1>4, <1>5, <1>6

\* Every number has its place in a group.
LEMMA InGroup ==
  ASSUME NEW i \in Nat \ {0}
  PROVE  /\ \E q \in Nat, k \in 1..3 : i = 3 * q + k
         /\ \E q \in Nat, k \in 1..4 : i = 4 * q + k
<1>1. \E q \in Nat, k \in 1..3 : i = 3 * q + k
  <2>1. /\ (i - 1) \div 3 \in Nat /\ ((i - 1) % 3) + 1 \in 1..3
        /\ i = 3 * ((i - 1) \div 3) + (((i - 1) % 3) + 1)
    OBVIOUS
  <2>2. QED BY <2>1
<1>2. \E q \in Nat, k \in 1..4 : i = 4 * q + k
  <2>1. /\ (i - 1) \div 4 \in Nat /\ ((i - 1) % 4) + 1 \in 1..4
        /\ i = 4 * ((i - 1) \div 4) + (((i - 1) % 4) + 1)
    OBVIOUS
  <2>2. QED BY <2>1
<1>3. QED BY <1>1, <1>2

\* The characters are sextets.
LEMMA SextetsType ==
  ASSUME NEW bytes \in Seq(Octet)
  PROVE  Sextets(bytes) \in Seq(Sextet)
<1> DEFINE S == Sextets(bytes)
<1>1. Len(S) \in Nat /\ S = [i \in 1..Len(S) |-> S[i]]
  <2>1. Len(S) = (8 * Len(bytes) + 5) \div 6 /\ Len(S) \in Nat
    BY SextetsLength
  <2>2. QED BY <2>1 DEF Sextets, Regroup
<1>2. ASSUME NEW i \in 1..Len(S)
      PROVE  S[i] \in Sextet
  <2>1. PICK q \in Nat, k \in 1..4 : i = 4 * q + k
    BY <1>1, i \in Nat \ {0}, InGroup
  <2> DEFINE a == At(bytes, 3 * q + 1)
             b == At(bytes, 3 * q + 2)
             c == At(bytes, 3 * q + 3)
  <2>2. a \in Octet /\ b \in Octet /\ c \in Octet
    BY AtOctet
  <2>3. S[i] \in {a \div 4, 16 * (a % 4) + (b \div 16), 4 * (b % 16) + (c \div 64), c % 64}
    BY <2>1, SextetValue
  <2> HIDE DEF a, b, c, S
  <2>4. /\ a \div 4 \in Sextet /\ 16 * (a % 4) + (b \div 16) \in Sextet
        /\ 4 * (b % 16) + (c \div 64) \in Sextet /\ c % 64 \in Sextet
    <3>1. /\ a \div 4 \in 0..63 /\ a % 4 \in 0..3 /\ b \div 16 \in 0..15
          /\ b % 16 \in 0..15 /\ c \div 64 \in 0..3 /\ c % 64 \in 0..63
      BY <2>2 DEF Octet
    <3>2. QED BY <2>2, <3>1 DEF Octet, Sextet
  <2>5. QED BY <2>3, <2>4
<1>3. QED BY <1>1, <1>2

\* No bit is lost on the way.
LEMMA OctetsOfSextets ==
  ASSUME NEW bytes \in Seq(Octet)
  PROVE  Octets(Sextets(bytes)) = bytes
<1> DEFINE n == Len(bytes)
           S == Sextets(bytes)
<1>1. n \in Nat /\ (6 * Len(S)) \div 8 = n /\ Len(S) \in Nat
  BY SextetsLength
<1>2. Octets(S) = Regroup(S, 6, 8, n)
  BY <1>1 DEF Octets
<1>3. ASSUME NEW i \in 1..n
      PROVE  Regroup(S, 6, 8, n)[i] = bytes[i]
  <2>1. PICK q \in Nat, k \in 1..3 : i = 3 * q + k
    BY <1>1, i \in Nat \ {0}, InGroup
  <2> DEFINE a == At(bytes, 3 * q + 1)
             b == At(bytes, 3 * q + 2)
             c == At(bytes, 3 * q + 3)
  <2>2. a \in Octet /\ b \in Octet /\ c \in Octet
    BY AtOctet
  <2>3. 4 * q + k \in 1..Len(S) /\ 4 * q + (k + 1) \in 1..Len(S)
    <3>1. Len(S) = (8 * n + 5) \div 6
      BY SextetsLength
    <3>2. QED BY <1>1, <2>1, <3>1
  <2>4. At(S, 4 * q + k) = S[4 * q + k] /\ At(S, 4 * q + (k + 1)) = S[4 * q + (k + 1)]
    BY <2>3 DEF At
  <2>5. At(bytes, i) = bytes[i]
    BY DEF At
  <2> HIDE DEF S, n
  <2>6. CASE k = 1
    <3>1. (8 * (i - 1)) \div 6 = 4 * q /\ (8 * (i - 1)) % 6 = 0
      BY <2>1, <2>6
    <3>2. Regroup(S, 6, 8, n)[i] =
            ((2^6 * At(S, 4 * q + 1) + At(S, 4 * q + 2)) \div 2^(2 * 6 - 8 - 0)) % 2^8
      BY <1>1, <3>1, 4 * q + 2 = (4 * q + 1) + 1, 4 * q + 3 = (4 * q + 2) + 1,
         4 * q + 4 = (4 * q + 3) + 1 DEF Regroup
    <3>3. S[4 * q + 1] = a \div 4 /\ S[4 * q + 2] = 16 * (a % 4) + (b \div 16)
      BY <2>3, <2>6, SextetValue DEF S
    <3>4. 2 * 6 - 8 - 0 = 4 /\ 2^6 = 64
      OBVIOUS
    <3> HIDE DEF a, b, c
    <3>5. Regroup(S, 6, 8, n)[i] = a
      BY <2>2, <2>4, <2>6, <3>2, <3>3, <3>4, ThreeOfFour
    <3>6. QED BY <2>1, <2>5, <2>6, <3>5 DEF a
  <2>7. CASE k = 2
    <3>1. (8 * (i - 1)) \div 6 = 4 * q + 1 /\ (8 * (i - 1)) % 6 = 2
      BY <2>1, <2>7
    <3>2. Regroup(S, 6, 8, n)[i] =
            ((2^6 * At(S, 4 * q + 2) + At(S, 4 * q + 3)) \div 2^(2 * 6 - 8 - 2)) % 2^8
      BY <1>1, <3>1, 4 * q + 2 = (4 * q + 1) + 1, 4 * q + 3 = (4 * q + 2) + 1,
         4 * q + 4 = (4 * q + 3) + 1 DEF Regroup
    <3>3. S[4 * q + 2] = 16 * (a % 4) + (b \div 16) /\ S[4 * q + 3] = 4 * (b % 16) + (c \div 64)
      BY <2>3, <2>7, SextetValue DEF S
    <3>4. 2 * 6 - 8 - 2 = 2 /\ 2^6 = 64
      OBVIOUS
    <3> HIDE DEF a, b, c
    <3>5. Regroup(S, 6, 8, n)[i] = b
      BY <2>2, <2>4, <2>7, <3>2, <3>3, <3>4, ThreeOfFour
    <3>6. QED BY <2>1, <2>5, <2>7, <3>5 DEF b
  <2>8. CASE k = 3
    <3>1. (8 * (i - 1)) \div 6 = 4 * q + 2 /\ (8 * (i - 1)) % 6 = 4
      BY <2>1, <2>8
    <3>2. Regroup(S, 6, 8, n)[i] =
            ((2^6 * At(S, 4 * q + 3) + At(S, 4 * q + 4)) \div 2^(2 * 6 - 8 - 4)) % 2^8
      BY <1>1, <3>1, 4 * q + 2 = (4 * q + 1) + 1, 4 * q + 3 = (4 * q + 2) + 1,
         4 * q + 4 = (4 * q + 3) + 1 DEF Regroup
    <3>3. S[4 * q + 3] = 4 * (b % 16) + (c \div 64) /\ S[4 * q + 4] = c % 64
      BY <2>3, <2>8, SextetValue DEF S
    <3>4. 2 * 6 - 8 - 4 = 0 /\ 2^6 = 64
      OBVIOUS
    <3> HIDE DEF a, b, c
    <3>5. Regroup(S, 6, 8, n)[i] = c
      BY <2>2, <2>4, <2>8, <3>2, <3>3, <3>4, ThreeOfFour
    <3>6. QED BY <2>1, <2>5, <2>8, <3>5 DEF c
  <2>9. QED BY <2>6, <2>7, <2>8
<1>4. QED BY <1>1, <1>2, <1>3 DEF Regroup


(* Texts.                                                                  *)

\* rstrip(b"=") takes all pads behind the characters, and no character.
LEMMA StrippedText ==
  ASSUME NEW s \in Seq(Sextet), NEW n \in Nat
  PROVE  Stripped(s \o Pads(n)) = s
<1> DEFINE text == s \o Pads(n)
           Ends(m) == /\ \A i \in m + 1..Len(text) : text[i] = Pad
                      /\ m > 0 => text[m] # Pad
<1>1. /\ Len(s) \in Nat /\ Len(text) = Len(s) + n
      /\ \A i \in 1..Len(s) : text[i] = s[i]
      /\ \A i \in Len(s) + 1..Len(text) : text[i] = Pad
  <2>1. Pads(n) \in Seq({Pad}) /\ Len(Pads(n)) = n /\ \A i \in 1..n : Pads(n)[i] = Pad
    BY DEF Pads
  <2>2. QED BY <2>1
<1>2. \A i \in 1..Len(s) : s[i] # Pad
  <2>1. \A i \in 1..Len(s) : s[i] \in Sextet
    OBVIOUS
  <2>2. 64 \notin Sextet
    BY DEF Sextet
  <2>3. QED BY <2>1, <2>2 DEF Pad
<1>3. text \in Seq(Sextet \cup {Pad})
  BY DEF Pads
<1> HIDE DEF text
<1>4. Len(s) \in 0..Len(text) /\ Ends(Len(s))
  BY <1>1, <1>2
<1>5. ASSUME NEW m \in 0..Len(text), Ends(m)
      PROVE  m = Len(s)
  <2>1. CASE m < Len(s)
    BY <1>1, <1>2, <1>5, <2>1
  <2>2. CASE m > Len(s)
    BY <1>1, <1>5, <2>2
  <2>3. QED BY <1>1, <2>1, <2>2
<1>6. (CHOOSE m \in 0..Len(text) : Ends(m)) = Len(s)
  BY <1>4, <1>5
<1>7. Stripped(text) = SubSeq(text, 1, Len(s))
  BY <1>6 DEF Stripped
<1>8. SubSeq(text, 1, Len(s)) = s
  BY <1>1, <1>3
<1>9. QED BY <1>7, <1>8 DEF text

\* Pads added to pads are pads.
LEMMA PadsAdd ==
  ASSUME NEW s \in Seq(Sextet), NEW m \in Nat, NEW n \in Nat
  PROVE  (s \o Pads(m)) \o Pads(n) = s \o Pads(m + n)
BY DEF Pads

(***************************************************************************)
(* Every byte string reads back from its text, whatever the number of pads *)
(* behind it (encoding.py:6-28).                                           *)
(***************************************************************************)
THEOREM RoundTrip ==
  ASSUME NEW bytes \in Seq(Octet), NEW pads \in Nat
  PROVE  B64urlDecode(B64urlEncode(bytes) \o Pads(pads))
           = [raised |-> FALSE, bytes |-> bytes]
<1> DEFINE s == Sextets(bytes)
           count == (8 * Len(bytes) + 5) \div 6
           added == (-(Len(s) + pads)) % 4
           all == pads + added
           n == Len(bytes)
<1>1. /\ s \in Seq(Sextet) /\ Len(s) \in Nat /\ Len(s) = count
      /\ Len(s) % 4 = IF n % 3 = 0 THEN 0 ELSE (n % 3) + 1
  BY SextetsType, SextetsLength
<1>2. B64urlEncode(bytes) = s
  <2>1. (-count) % 4 \in Nat
    BY <1>1
  <2>2. LibraryEncode(bytes) = s \o Pads((-count) % 4)
    BY DEF LibraryEncode, Sextets
  <2>3. QED BY <1>1, <2>1, <2>2, StrippedText DEF B64urlEncode
<1>3. added \in Nat /\ all \in Nat /\ (Len(s) + all) % 4 = 0
  BY <1>1
<1>4. B64urlDecode(s \o Pads(pads)) = LibraryDecode(s \o Pads(all))
  <2>1. Len(s \o Pads(pads)) = Len(s) + pads
    BY <1>1 DEF Pads
  <2>2. (s \o Pads(pads)) \o Pads(added) = s \o Pads(all)
    BY <1>1, <1>3, PadsAdd
  <2>3. QED BY <2>1, <2>2 DEF B64urlDecode
<1>5. Stripped(s \o Pads(all)) = s /\ Len(s \o Pads(all)) - Len(s) = all
  <2>1. Len(s \o Pads(all)) = Len(s) + all
    BY <1>1, <1>3 DEF Pads
  <2>2. QED BY <1>1, <1>3, <2>1, StrippedText
<1>6. n \in Nat /\ n % 3 \in 0..2
  OBVIOUS
<1> HIDE DEF s, all, added, n
<1>7. Len(s) % 4 # 1 /\ (Len(s) % 4 > 1 => (Len(s) % 4) + all >= 4)
  <2>1. Len(s) % 4 \in {0, 2, 3}
    BY <1>1, <1>6
  <2>2. CASE Len(s) % 4 = 0
    BY <2>2
  <2>3. CASE Len(s) % 4 = 2
    BY <1>1, <1>3, <2>3
  <2>4. CASE Len(s) % 4 = 3
    BY <1>1, <1>3, <2>4
  <2>5. QED BY <2>1, <2>2, <2>3, <2>4
<1>8. LibraryDecode(s \o Pads(all)) = [raised |-> FALSE, bytes |-> Octets(s)]
  <2>1. ~(Len(s) % 4 = 1 \/ (Len(s) % 4 > 1 /\ (Len(s) % 4) + all < 4))
    BY <1>1, <1>3, <1>7
  <2>2. QED BY <1>5, <2>1, Zenon DEF LibraryDecode, Octets
<1>9. Octets(s) = bytes
  BY OctetsOfSextets DEF s
<1>10. QED BY <1>2, <1>4, <1>8, <1>9 DEF s

\* Of any set of naturals, one is the smallest; what follows by induction on
\* a number is proved with it.
LEMMA Smallest ==
  ASSUME NEW T \in SUBSET Nat, T # {}
  PROVE  \E m \in T : \A n \in T : m <= n
<1>1. PICK m \in T : \A n \in T : <<n, m>> \notin OpToRel(<, Nat)
  BY WFMin, NatLessThanWellFounded, Zenon
<1>2. ASSUME NEW k \in Nat, NEW l \in Nat, k < l
      PROVE  <<k, l>> \in OpToRel(<, Nat)
  BY <1>2 DEF OpToRel
<1>3. \A n \in T : ~(n < m)
  BY <1>1, <1>2
<1>4. QED BY <1>3

\* What holds of 0, and of a number if of the one before, holds up to n.
LEMMA UpTo ==
  ASSUME NEW n \in Nat, NEW T \in SUBSET (0..n), 0 \in T,
         \A i \in 1..n : i - 1 \in T => i \in T
  PROVE  T = 0..n
<1> SUFFICES ASSUME (0..n) \ T # {}
             PROVE  FALSE
  OBVIOUS
<1>1. PICK m \in (0..n) \ T : \A k \in (0..n) \ T : m <= k
  <2>1. (0..n) \ T \in SUBSET Nat
    OBVIOUS
  <2>2. QED BY <2>1, Smallest
<1>2. m # 0 /\ m \in 1..n /\ m - 1 \in 0..n
  BY <1>1
<1>3. m - 1 \in T
  BY <1>1, <1>2
<1>4. QED BY <1>1, <1>2, <1>3

-----------------------------------------------------------------------------
(* Reading an element.                                                     *)

\* An octet, as its bounds.
LEMMA OctetIs == \A x : x \in Octet <=> x \in Int /\ 0 <= x /\ x <= 255
BY DEF Octet

\* The octets of a string are numbers.
LEMMA OctetsOf ==
  ASSUME NEW data \in Seq(Octet)
  PROVE  /\ Len(data) \in Nat
         /\ \A i \in 1..Len(data) : data[i] \in Octet /\ data[i] \in Nat
<1>1. Len(data) \in Nat /\ \A i \in 1..Len(data) : data[i] \in Octet
  OBVIOUS
<1>2. QED BY <1>1, OctetIs

\* int.from_bytes as the values after each octet.
LEMMA BigEndianValues ==
  ASSUME NEW octets \in Seq(Octet)
  PROVE  \E f \in [0..Len(octets) -> Nat] :
           /\ f[0] = 0
           /\ \A i \in 1..Len(octets) : f[i] = 256 * f[i - 1] + octets[i]
           /\ BigEndian(octets) = f[Len(octets)]
<1> DEFINE n == Len(octets)
           Def(f, i) == IF i = 0 THEN 0 ELSE 256 * f[i - 1] + octets[i]
           Good(f, m) == \A i \in 0..m : f[i] = Def(f, i)
           T == {m \in 0..n : \E f \in [0..n -> Nat] : Good(f, m)}
<1>1. n \in Nat /\ \A i \in 1..n : octets[i] \in Nat
  BY OctetsOf
<1> HIDE DEF n
<1>2. 0 \in T
  <2>1. [i \in 0..n |-> 0] \in [0..n -> Nat] /\ Good([i \in 0..n |-> 0], 0)
    BY <1>1
  <2>2. 0 \in 0..n
    BY <1>1
  <2> HIDE DEF Good
  <2>3. QED BY <2>1, <2>2
<1>3. ASSUME NEW m \in 1..n, m - 1 \in T
      PROVE  m \in T
  <2>1. PICK f \in [0..n -> Nat] : Good(f, m - 1)
    BY <1>3
  <2> DEFINE g == [f EXCEPT ![m] = 256 * f[m - 1] + octets[m]]
  <2>2. m - 1 \in 0..n /\ m \in 0..n /\ f[m - 1] \in Nat /\ octets[m] \in Nat
    BY <1>1
  <2>3. g \in [0..n -> Nat]
    BY <2>2
  <2>4. \A i \in 0..n : g[i] = IF i = m THEN 256 * f[m - 1] + octets[m] ELSE f[i]
    BY <2>2
  <2> HIDE DEF g
  <2>5. Good(g, m)
    <3> SUFFICES ASSUME NEW i \in 0..m
                 PROVE  g[i] = Def(g, i)
      OBVIOUS
    <3>1. CASE i = m
      <4>1. g[m - 1] = f[m - 1]
        BY <2>2, <2>4
      <4>2. QED BY <2>2, <2>4, <3>1, <4>1
    <3>2. CASE i # m
      <4>1. i \in 0..m - 1 /\ i \in 0..n
        BY <3>2, <1>1
      <4>2. g[i] = f[i] /\ f[i] = Def(f, i)
        BY <2>1, <2>4, <3>2, <4>1
      <4>3. i # 0 => i - 1 \in 0..n /\ i - 1 # m
        BY <1>1, <4>1
      <4>4. i # 0 => g[i - 1] = f[i - 1]
        BY <2>4, <4>3
      <4>5. QED BY <4>2, <4>4
    <3>3. QED BY <3>1, <3>2
  <2> HIDE DEF Good
  <2>6. QED BY <2>2, <2>3, <2>5
<1>4. n \in T
  <2>1. T \in SUBSET (0..n)
    OBVIOUS
  <2> HIDE DEF T
  <2>2. T = 0..n
    BY <1>1, <1>2, <1>3, <2>1, UpTo
  <2>3. QED BY <1>1, <2>2
<1>5. PICK f \in [0..n -> Nat] : Good(f, n)
  BY <1>4
<1> DEFINE v == CHOOSE v : v = [i \in 0..n |-> Def(v, i)]
<1>6. v = [i \in 0..n |-> Def(v, i)]
  <2>1. f = [i \in 0..n |-> Def(f, i)]
    BY <1>5
  <2>2. QED BY <2>1
<1>7. BigEndian(octets) = v[n]
  BY DEF BigEndian, n
<1> HIDE DEF v
<1>8. v[0] = 0 /\ \A i \in 1..n : v[i] = 256 * v[i - 1] + octets[i]
  <2>1. \A i \in 0..n : v[i] = Def(v, i)
    BY <1>6
  <2>2. QED BY <1>1, <2>1
<1>9. v \in [0..n -> Nat]
  <2> DEFINE U == {i \in 0..n : v[i] \in Nat}
  <2>1. 0 \in U
    BY <1>1, <1>8
  <2>2. ASSUME NEW i \in 1..n, i - 1 \in U
        PROVE  i \in U
    <3>1. v[i] = 256 * v[i - 1] + octets[i] /\ v[i - 1] \in Nat /\ octets[i] \in Nat
      BY <1>1, <1>8, <2>2
    <3>2. QED BY <1>1, <3>1
  <2>3. U = 0..n
    <3>1. U \in SUBSET (0..n)
      OBVIOUS
    <3> HIDE DEF U
    <3>2. QED BY <1>1, <2>1, <2>2, <3>1, UpTo
  <2>4. QED BY <1>6, <2>3
<1>10. QED BY <1>7, <1>8, <1>9 DEF n

\* The lengths that DER writes in one and in two octets.
LEMMA BigEndianValue ==
  /\ \A octets \in Seq(Octet) : BigEndian(octets) \in Nat
  /\ \A a \in Octet : BigEndian(<<a>>) = a
  /\ \A a, b \in Octet : BigEndian(<<a, b>>) = 256 * a + b
<1>1. ASSUME NEW octets \in Seq(Octet)
      PROVE  BigEndian(octets) \in Nat
  <2>1. Len(octets) \in 0..Len(octets)
    BY OctetsOf
  <2>2. QED BY <2>1, BigEndianValues
<1>2. ASSUME NEW a \in Octet
      PROVE  BigEndian(<<a>>) = a
  <2>1. <<a>> \in Seq(Octet) /\ Len(<<a>>) = 1 /\ <<a>>[1] = a /\ a \in Nat
    BY OctetIs
  <2>2. PICK f \in [0..1 -> Nat] : /\ f[0] = 0
                                   /\ \A i \in 1..1 : f[i] = 256 * f[i - 1] + <<a>>[i]
                                   /\ BigEndian(<<a>>) = f[1]
    BY <2>1, BigEndianValues
  <2>3. f[1] = 256 * f[0] + a
    BY <2>1, <2>2, 1 \in 1..1, 1 - 1 = 0
  <2>4. QED BY <2>1, <2>2, <2>3
<1>3. ASSUME NEW a \in Octet, NEW b \in Octet
      PROVE  BigEndian(<<a, b>>) = 256 * a + b
  <2> DEFINE s == <<a, b>>
  <2>1. s \in Seq(Octet) /\ Len(s) = 2 /\ s[1] = a /\ s[2] = b /\ a \in Nat /\ b \in Nat
    BY OctetIs
  <2> HIDE DEF s
  <2>2. PICK f \in [0..2 -> Nat] : /\ f[0] = 0
                                   /\ \A i \in 1..2 : f[i] = 256 * f[i - 1] + s[i]
                                   /\ BigEndian(s) = f[2]
    BY <2>1, BigEndianValues
  <2>3. f[1] = 256 * f[0] + a /\ f[2] = 256 * f[1] + b
    BY <2>1, <2>2, 1 \in 1..2, 2 \in 1..2, 1 - 1 = 0, 2 - 1 = 1
  <2>4. QED BY <2>1, <2>2, <2>3 DEF s
<1>4. QED BY <1>1, <1>2, <1>3

\* What a slice that lies within the data returns.
LEMMA SliceIs ==
  ASSUME NEW data \in Seq(Octet), NEW from \in Nat, NEW to \in Nat
  PROVE  LET s == Slice(data, from, to) IN
         /\ s \in Seq(Octet)
         /\ to <= Len(data) => /\ Len(s) = IF from < to THEN to - from ELSE 0
                               /\ \A i \in 1..to - from : s[i] = data[from + i]
         /\ Len(data) < to => /\ Len(s) = IF from < Len(data) THEN Len(data) - from ELSE 0
                              /\ \A i \in 1..Len(data) - from : s[i] = data[from + i]
<1> DEFINE till == IF to < Len(data) THEN to ELSE Len(data)
<1>1. till \in Nat /\ till <= Len(data) /\ Len(data) \in Nat
  OBVIOUS
<1>2. Slice(data, from, to) = SubSeq(data, from + 1, till)
  BY DEF Slice
<1> HIDE DEF till
<1>3. \A i \in from + 1..till : data[i] \in Octet
  BY <1>1, OctetsOf
<1>4. SubSeq(data, from + 1, till) \in Seq(Octet)
  BY <1>1, <1>3
<1>5. Len(SubSeq(data, from + 1, till)) = IF from < till THEN till - from ELSE 0
  BY <1>1
<1>6. ASSUME NEW i \in 1..till - from
      PROVE  SubSeq(data, from + 1, till)[i] = data[from + i]
  BY <1>1
<1>7. to <= Len(data) => till = to
  BY <1>1 DEF till
<1>8. Len(data) < to => till = Len(data)
  BY <1>1 DEF till
<1>9. QED BY <1>2, <1>4, <1>5, <1>6, <1>7, <1>8

\* What _read_tlv returns lies behind where it began.
LEMMA ReadTlvType ==
  ASSUME NEW data \in Seq(Octet), NEW offset \in Nat, offset + 1 < Len(data)
  PROVE  /\ ReadTlv(data, offset) \in [tag : Octet, content : Seq(Octet), end : Nat]
         /\ ReadTlv(data, offset).end > offset
<1> DEFINE first == data[offset + 2]
           start == offset + 2 + IF first >= 128 THEN first - 128 ELSE 0
           length == IF first >= 128 THEN BigEndian(Slice(data, offset + 2, start)) ELSE first
<1>1. data[offset + 1] \in Octet /\ first \in Octet /\ first \in Nat
  <2>1. offset + 1 \in 1..Len(data) /\ offset + 2 \in 1..Len(data)
    BY OctetsOf
  <2>2. QED BY <2>1, OctetsOf
<1>2. ReadTlv(data, offset) = [tag |-> data[offset + 1],
                              content |-> Slice(data, start, start + length),
                              end |-> start + length]
  BY DEF ReadTlv
<1> HIDE DEF first
<1>3. start \in Nat /\ start > offset
  BY <1>1
<1> HIDE DEF start
<1>4. length \in Nat
  <2>1. Slice(data, offset + 2, start) \in Seq(Octet)
    BY <1>3, SliceIs, offset + 2 \in Nat
  <2>2. BigEndian(Slice(data, offset + 2, start)) \in Nat
    BY <2>1, BigEndianValue
  <2>3. QED BY <1>1, <2>2
<1> HIDE DEF length
<1>5. start + length \in Nat /\ start + length > offset
  BY <1>3, <1>4
<1>6. Slice(data, start, start + length) \in Seq(Octet)
  BY <1>3, <1>5, SliceIs
<1>7. QED BY <1>1, <1>2, <1>5, <1>6

-----------------------------------------------------------------------------
(* Writing an element, and reading what was written.                       *)

\* How many octets come before the content, and what those of the length are.
Heading(n) == IF n < 128 THEN 2 ELSE IF n < 256 THEN 3 ELSE 4

Announces(t, n) ==
  /\ n < 128 => t[2] = n
  /\ n >= 128 /\ n < 256 => t[2] = 129 /\ t[3] = n
  /\ n >= 256 => t[2] = 130 /\ t[3] = n \div 256 /\ t[4] = n % 256

\* The literal sequences the encoder writes.
LEMMA ShortSequences ==
  ASSUME NEW a \in Octet, NEW b \in Octet, NEW c \in Octet
  PROVE  /\ <<a>> \in Seq(Octet) /\ Len(<<a>>) = 1 /\ <<a>>[1] = a
         /\ <<a, b>> \in Seq(Octet) /\ Len(<<a, b>>) = 2
         /\ <<a, b>>[1] = a /\ <<a, b>>[2] = b
         /\ <<a, b, c>> \in Seq(Octet) /\ Len(<<a, b, c>>) = 3
         /\ <<a, b, c>>[1] = a /\ <<a, b, c>>[2] = b /\ <<a, b, c>>[3] = c
OBVIOUS

\* The octets of a length, by its three forms.
LEMMA LengthOctetsIs ==
  ASSUME NEW n \in Nat, n < Limit, NEW l, l = LengthOctets(n)
  PROVE  /\ l \in Seq(Octet)
         /\ Len(l) = Heading(n) - 1
         /\ n < 128 => l[1] = n
         /\ n >= 128 /\ n < 256 => l[1] = 129 /\ l[2] = n
         /\ n >= 256 => l[1] = 130 /\ l[2] = n \div 256 /\ l[3] = n % 256
<1>1. CASE n < 128
  <2>1. n \in Octet /\ l = <<n>>
    BY <1>1, OctetIs DEF LengthOctets
  <2>2. l \in Seq(Octet) /\ Len(l) = 1 /\ l[1] = n
    BY <2>1, ShortSequences
  <2>3. QED BY <1>1, <2>2 DEF Heading
<1>2. CASE n >= 128 /\ n < 256
  <2>1. n \in Octet /\ 129 \in Octet /\ l = <<129, n>>
    BY <1>2, OctetIs DEF LengthOctets
  <2>2. l \in Seq(Octet) /\ Len(l) = 2 /\ l[1] = 129 /\ l[2] = n
    BY <2>1, ShortSequences
  <2>3. QED BY <1>2, <2>2 DEF Heading
<1>3. CASE n >= 256
  <2> DEFINE high == n \div 256
             low == n % 256
  <2>1. high \in Octet /\ low \in Octet
    BY <1>3, OctetIs, SMT DEF Limit
  <2>2. l = <<130, high, low>>
    BY <1>3 DEF LengthOctets
  <2> HIDE DEF high, low
  <2>3. 130 \in Octet /\ high \in Octet /\ low \in Octet
    BY <2>1 DEF Octet
  <2>4. l \in Seq(Octet) /\ Len(l) = 3 /\ l[1] = 130 /\ l[2] = high /\ l[3] = low
    BY <2>2, <2>3, ShortSequences
  <2>5. QED BY <1>3, <2>4 DEF Heading, high, low
<1>4. QED BY <1>1, <1>2, <1>3

\* What stands where in two strings joined.
LEMMA Joined ==
  ASSUME NEW a \in Seq(Octet), NEW b \in Seq(Octet)
  PROVE  /\ a \o b \in Seq(Octet)
         /\ Len(a \o b) = Len(a) + Len(b)
         /\ \A i \in 1..Len(a) : (a \o b)[i] = a[i]
         /\ \A i \in 1..Len(b) : (a \o b)[Len(a) + i] = b[i]
OBVIOUS

\* The octets t stand in data from offset on.
Stands(t, data, offset) ==
  /\ offset + Len(t) <= Len(data)
  /\ \A i \in 1..Len(t) : data[offset + i] = t[i]

\* What stands where in an encoded element.
LEMMA TlvIs ==
  ASSUME NEW tag \in Octet, NEW content \in Seq(Octet), Len(content) < Limit,
         NEW t, t = Tlv(tag, content)
  PROVE  /\ t \in Seq(Octet)
         /\ Len(t) = Heading(Len(content)) + Len(content)
         /\ t[1] = tag
         /\ Announces(t, Len(content))
         /\ \A i \in 1..Len(content) : t[Heading(Len(content)) + i] = content[i]
<1> DEFINE n == Len(content)
           l == LengthOctets(n)
           head == <<tag>> \o l
<1>1. n \in Nat /\ n < Limit
  BY OctetsOf
<1>2. <<tag>> \in Seq(Octet) /\ Len(<<tag>>) = 1 /\ <<tag>>[1] = tag
  OBVIOUS
<1>3. /\ l \in Seq(Octet) /\ Len(l) = Heading(n) - 1
      /\ n < 128 => l[1] = n
      /\ n >= 128 /\ n < 256 => l[1] = 129 /\ l[2] = n
      /\ n >= 256 => l[1] = 130 /\ l[2] = n \div 256 /\ l[3] = n % 256
  BY <1>1, LengthOctetsIs
<1>4. t = head \o content
  BY DEF Tlv
<1> HIDE DEF l, n
<1>5. /\ head \in Seq(Octet) /\ Len(head) = 1 + Len(l) /\ head[1] = tag
      /\ \A i \in 1..Len(l) : head[1 + i] = l[i]
  BY <1>2, <1>3, Joined
<1> HIDE DEF head
<1>6. /\ t \in Seq(Octet) /\ Len(t) = Len(head) + n
      /\ \A i \in 1..Len(head) : t[i] = head[i]
      /\ \A i \in 1..n : t[Len(head) + i] = content[i]
  <2>1. head \o content \in Seq(Octet) /\ Len(head \o content) = Len(head) + Len(content)
    BY <1>5, Joined
  <2>2. \A i \in 1..Len(head) : (head \o content)[i] = head[i]
    BY <1>5, Joined
  <2>3. \A i \in 1..Len(content) : (head \o content)[Len(head) + i] = content[i]
    BY <1>5, Joined
  <2>4. QED BY <1>4, <2>1, <2>2, <2>3 DEF n
<1>7. Len(l) \in Nat /\ Len(head) = Heading(n) /\ Len(l) = Heading(n) - 1
  <2>1. Len(l) \in Nat
    BY <1>3, OctetsOf
  <2>2. Heading(n) \in Nat
    BY DEF Heading
  <2>3. QED BY <1>3, <1>5, <2>1, <2>2
<1>8. t[1] = tag /\ \A i \in 1..Len(l) : t[1 + i] = l[i]
  BY <1>5, <1>6, <1>7
<1>9. Announces(t, n)
  <2>1. CASE n < 128
    <3>1. Len(l) = 1
      <4>1. Heading(n) = 2
        BY <1>1, <2>1 DEF Heading
      <4>2. QED BY <1>7, <4>1, SMT
    <3>2. t[2] = l[1]
      BY <1>8, <3>1
    <3>3. QED BY <1>1, <1>3, <2>1, <3>2 DEF Announces
  <2>2. CASE n >= 128 /\ n < 256
    <3>1. Len(l) = 2
      <4>1. Heading(n) = 3
        BY <1>1, <2>2 DEF Heading
      <4>2. QED BY <1>7, <4>1, SMT
    <3>2. t[2] = l[1] /\ t[3] = l[2]
      BY <1>8, <3>1
    <3>3. QED BY <1>1, <1>3, <2>2, <3>2 DEF Announces
  <2>3. CASE n >= 256
    <3>1. Len(l) = 3
      <4>1. Heading(n) = 4
        BY <1>1, <2>3 DEF Heading
      <4>2. QED BY <1>7, <4>1, SMT
    <3>2. t[2] = l[1] /\ t[3] = l[2] /\ t[4] = l[3]
      BY <1>8, <3>1
    <3>3. QED BY <1>1, <1>3, <2>3, <3>2 DEF Announces
  <2>4. QED BY <1>1, <2>1, <2>2, <2>3
<1>10. QED BY <1>6, <1>7, <1>8, <1>9 DEF n

\* Strings with the same octets are the same string.
LEMMA SameSequence ==
  ASSUME NEW s \in Seq(Octet), NEW t \in Seq(Octet), Len(s) = Len(t),
         \A i \in 1..Len(s) : s[i] = t[i]
  PROVE  s = t
OBVIOUS

\* A slice is the string that stands there.
LEMMA SliceStands ==
  ASSUME NEW data \in Seq(Octet), NEW from \in Nat, NEW to \in Nat, NEW s \in Seq(Octet),
         to <= Len(data), Len(s) = to - from, \A i \in 1..Len(s) : data[from + i] = s[i]
  PROVE  Slice(data, from, to) = s
<1> DEFINE r == Slice(data, from, to)
<1>1. Len(data) \in Nat /\ Len(s) \in Nat
  BY OctetsOf
<1>3. /\ r \in Seq(Octet) /\ Len(r) = IF from < to THEN to - from ELSE 0
      /\ \A i \in 1..to - from : r[i] = data[from + i]
  BY SliceIs
<1>4. Len(r) = Len(s)
  BY <1>1, <1>3
<1> HIDE DEF r
<1>5. \A i \in 1..Len(r) : r[i] = s[i]
  BY <1>3, <1>4
<1>6. r = s
  BY <1>3, <1>4, <1>5, SameSequence
<1>7. QED BY <1>6 DEF r

\* _read_tlv returns the tag and the content of what was written.
LEMMA ReadsWhatWasWritten ==
  ASSUME NEW data \in Seq(Octet), NEW offset \in Nat,
         NEW tag \in Octet, NEW content \in Seq(Octet), Len(content) < Limit,
         NEW t, t = Tlv(tag, content), Stands(t, data, offset)
  PROVE  Element(data, offset) = {[tag |-> tag, content |-> content, end |-> offset + Len(t)]}
<1> DEFINE n == Len(content)
           h == Heading(n)
           first == data[offset + 2]
           start == offset + 2 + IF first >= 128 THEN first - 128 ELSE 0
           length == IF first >= 128 THEN BigEndian(Slice(data, offset + 2, start)) ELSE first
<1>1. n \in Nat /\ Len(data) \in Nat /\ h \in 2..4
  BY OctetsOf DEF Heading
<1>2. /\ Len(t) = h + n /\ t[1] = tag /\ Announces(t, n)
      /\ \A i \in 1..n : t[h + i] = content[i]
  BY TlvIs
<1> HIDE DEF n, h, first, start, length
<1>3. offset + (h + n) <= Len(data) /\ \A i \in 1..(h + n) : data[offset + i] = t[i]
  BY <1>2 DEF Stands
<1>4. data[offset + 1] = tag /\ first = t[2]
  BY <1>1, <1>2, <1>3, 1 \in 1..(h + n), 2 \in 1..(h + n) DEF first
<1>5. start = offset + h /\ length = n
  <2>1. CASE n < 128
    <3>1. h = 2 /\ first = n
      BY <1>2, <1>4, <2>1 DEF Announces, Heading, h
    <3>2. QED BY <1>1, <2>1, <3>1 DEF start, length
  <2>2. CASE n >= 128 /\ n < 256
    <3>1. h = 3 /\ first = 129 /\ t[3] = n
      BY <1>1, <1>2, <1>4, <2>2 DEF Announces, Heading, h
    <3>2. start = offset + 3
      BY <3>1 DEF start
    <3>3. data[offset + 3] = n /\ n \in Octet
      <4>1. data[offset + 3] = n
        BY <1>1, <1>3, <3>1, 3 \in 1..(h + n)
      <4>2. QED BY <1>1, <2>2, <4>1, OctetIs
    <3>4. <<n>> \in Seq(Octet) /\ Len(<<n>>) = 1 /\ <<n>>[1] = n
      BY <3>3, ShortSequences
    <3>5. (offset + 2) + 1 = offset + 3 /\ offset + 3 <= Len(data)
      BY <1>1, <1>3, <3>1
    <3>6. Slice(data, offset + 2, offset + 3) = <<n>>
      <4>1. \A i \in 1..Len(<<n>>) : data[(offset + 2) + i] = <<n>>[i]
        BY <3>3, <3>4, <3>5
      <4>2. Len(<<n>>) = (offset + 3) - (offset + 2)
        BY <3>4
      <4>3. QED BY <3>4, <3>5, <4>1, <4>2, SliceStands, offset + 2 \in Nat, offset + 3 \in Nat
    <3>7. length = BigEndian(<<n>>)
      BY <3>1, <3>2, <3>6 DEF length
    <3>8. QED BY <3>1, <3>2, <3>3, <3>7, BigEndianValue
  <2>3. CASE n >= 256
    <3> DEFINE high == n \div 256
               low == n % 256
               s == <<high, low>>
    <3>1. h = 4 /\ first = 130 /\ t[3] = high /\ t[4] = low
      BY <1>1, <1>2, <1>4, <2>3 DEF Announces, Heading, h
    <3>2. start = offset + 4
      BY <3>1 DEF start
    <3>3. high \in Octet /\ low \in Octet /\ 256 * high + low = n
      <4>1. n < 65536
        BY SMT DEF Limit, n
      <4>2. high \in Nat /\ high < 256 /\ low \in Nat /\ low < 256 /\ 256 * high + low = n
        BY <1>1, <4>1, SMT
      <4> HIDE DEF high, low
      <4>3. high \in Octet /\ low \in Octet
        BY <4>2 DEF Octet
      <4>4. QED BY <4>2, <4>3
    <3> HIDE DEF high, low
    <3>4. s \in Seq(Octet) /\ Len(s) = 2 /\ s[1] = high /\ s[2] = low
      BY <3>3, ShortSequences
    <3> HIDE DEF s
    <3>5. /\ data[offset + 3] = high /\ data[offset + 4] = low
          /\ (offset + 2) + 1 = offset + 3 /\ (offset + 2) + 2 = offset + 4
          /\ offset + 4 <= Len(data)
      BY <1>1, <1>3, <3>1
    <3>6. Slice(data, offset + 2, offset + 4) = s
      <4>1. \A i \in 1..Len(s) : data[(offset + 2) + i] = s[i]
        BY <3>4, <3>5
      <4>2. Len(s) = (offset + 4) - (offset + 2)
        BY <3>4
      <4>3. QED BY <3>4, <3>5, <4>1, <4>2, SliceStands, offset + 2 \in Nat, offset + 4 \in Nat
    <3>7. length = BigEndian(s)
      BY <3>1, <3>2, <3>6 DEF length
    <3>8. QED BY <3>1, <3>2, <3>3, <3>7, BigEndianValue DEF s
  <2>4. QED BY <1>1, <2>1, <2>2, <2>3
<1>6. Slice(data, offset + h, (offset + h) + n) = content
  <2>1. /\ offset + h \in Nat /\ (offset + h) + n \in Nat
        /\ (offset + h) + n <= Len(data) /\ Len(content) = ((offset + h) + n) - (offset + h)
    BY <1>1, <1>3 DEF n
  <2>2. \A i \in 1..Len(content) : data[(offset + h) + i] = content[i]
    <3> SUFFICES ASSUME NEW i \in 1..n
                 PROVE  data[(offset + h) + i] = content[i]
      BY DEF n
    <3>1. h + i \in 1..(h + n) /\ (offset + h) + i = offset + (h + i)
      BY <1>1
    <3>2. QED BY <1>2, <1>3, <3>1
  <2>3. QED BY <2>1, <2>2, SliceStands
<1>7. ReadTlv(data, offset) = [tag |-> data[offset + 1],
                              content |-> Slice(data, start, start + length),
                              end |-> start + length]
  BY DEF ReadTlv, first, start, length
<1>8. offset + 1 < Len(data) /\ (offset + h) + n = offset + Len(t)
  BY <1>1, <1>2, <1>3
<1>9. QED BY <1>4, <1>5, <1>6, <1>7, <1>8 DEF Element

-----------------------------------------------------------------------------
(* Walking a list of elements.                                             *)

Elements == [tag : Octet, content : Seq(Octet), end : Nat]

\* A round reads one element that ends further on, or none.
LEMMA ElementIs ==
  ASSUME NEW data \in Seq(Octet), NEW offset \in Nat
  PROVE  /\ offset + 1 >= Len(data) => Element(data, offset) = {}
         /\ offset + 1 < Len(data) =>
              \E e \in Elements : Element(data, offset) = {e} /\ e.end > offset
<1>1. Len(data) \in Nat
  BY OctetsOf
<1>2. CASE offset + 1 >= Len(data)
  BY <1>1, <1>2 DEF Element
<1>3. CASE offset + 1 < Len(data)
  <2>1. Element(data, offset) = {ReadTlv(data, offset)}
    BY <1>3 DEF Element
  <2>2. QED BY <1>1, <1>3, <2>1, ReadTlvType DEF Elements
<1>4. QED BY <1>1, <1>2, <1>3

\* One round of the while loop at offset, with what the later rounds find.
Round(data, tags, prefix, found, offset) ==
  UNION {IF Sought(e, tags, prefix) THEN {e} ELSE found[e.end] : e \in Element(data, offset)}

\* One round of the loop, by what it reads.
LEMMA RoundIs ==
  ASSUME NEW data, NEW tags, NEW prefix, NEW found, NEW offset
  PROVE  /\ Element(data, offset) = {} => Round(data, tags, prefix, found, offset) = {}
         /\ \A e : Element(data, offset) = {e} =>
              Round(data, tags, prefix, found, offset)
                = IF Sought(e, tags, prefix) THEN {e} ELSE found[e.end]
<1>1. Element(data, offset) = {} => Round(data, tags, prefix, found, offset) = {}
  BY DEF Round
<1>2. ASSUME NEW e, Element(data, offset) = {e}
      PROVE  Round(data, tags, prefix, found, offset)
               = IF Sought(e, tags, prefix) THEN {e} ELSE found[e.end]
  <2> DEFINE r(d) == IF Sought(d, tags, prefix) THEN {d} ELSE found[d.end]
  <2>1. Round(data, tags, prefix, found, offset) = UNION {r(d) : d \in {e}}
    BY <1>2 DEF Round
  <2> HIDE DEF r
  <2>2. UNION {r(d) : d \in {e}} = r(e)
    OBVIOUS
  <2>3. QED BY <2>1, <2>2 DEF r
<1>3. QED BY <1>1, <1>2

\* The loop ends, since every round starts behind the one before.
LEMMA LoopEnds ==
  ASSUME NEW data \in Seq(Octet), NEW tags, NEW prefix
  PROVE  \E found \in [Nat -> SUBSET Elements] :
           \A offset \in Nat : found[offset] = Round(data, tags, prefix, found, offset)
<1> DEFINE n == Len(data)
           Good(f, m) == \A offset \in Nat :
                           offset >= n - m => f[offset] = Round(data, tags, prefix, f, offset)
           T == {m \in 0..n : \E f \in [Nat -> SUBSET Elements] : Good(f, m)}
<1>1. n \in Nat
  BY OctetsOf
<1>2. 0 \in T
  <2> DEFINE f == [offset \in Nat |-> {}]
  <2>1. f \in [Nat -> SUBSET Elements]
    OBVIOUS
  <2>2. Good(f, 0)
    <3> SUFFICES ASSUME NEW offset \in Nat, offset >= n - 0
                 PROVE  f[offset] = Round(data, tags, prefix, f, offset)
      OBVIOUS
    <3>1. Element(data, offset) = {}
      BY <1>1, ElementIs
    <3>2. f[offset] = {}
      OBVIOUS
    <3> HIDE DEF f
    <3>3. QED BY <3>1, <3>2, RoundIs
  <2> HIDE DEF f, Good
  <2>3. 0 \in 0..n
    BY <1>1
  <2>4. QED BY <2>1, <2>2, <2>3
<1>3. ASSUME NEW m \in 1..n, m - 1 \in T
      PROVE  m \in T
  <2>1. PICK f \in [Nat -> SUBSET Elements] : Good(f, m - 1)
    BY <1>3
  <2> DEFINE at == n - m
             r == Round(data, tags, prefix, f, at)
             g == [f EXCEPT ![at] = r]
  <2>2. at \in Nat /\ m \in 0..n
    BY <1>1
  <2> HIDE DEF at
  <2>3. r \in SUBSET Elements
    <3>1. CASE Element(data, at) = {}
      BY <3>1, RoundIs
    <3>2. CASE Element(data, at) # {}
      <4>1. PICK e \in Elements : Element(data, at) = {e}
        BY <1>1, <2>2, <3>2, ElementIs
      <4>2. e.end \in Nat
        BY <4>1 DEF Elements
      <4>3. f[e.end] \in SUBSET Elements
        BY <4>2
      <4>4. r = IF Sought(e, tags, prefix) THEN {e} ELSE f[e.end]
        BY <4>1, RoundIs
      <4> HIDE DEF r
      <4>5. QED BY <4>1, <4>3, <4>4
    <3>3. QED BY <3>1, <3>2
  <2> HIDE DEF r
  <2>4. /\ g \in [Nat -> SUBSET Elements] /\ g[at] = r
        /\ \A offset \in Nat : offset # at => g[offset] = f[offset]
    BY <2>2, <2>3
  <2> HIDE DEF g
  <2>5. ASSUME NEW offset \in Nat, offset >= at
        PROVE  g[offset] = Round(data, tags, prefix, g, offset)
    <3>1. g[offset] = Round(data, tags, prefix, f, offset)
      <4>1. CASE offset = at
        BY <2>4, <4>1 DEF r
      <4>2. CASE offset # at
        <5>1. offset >= n - (m - 1)
          BY <1>1, <2>2, <2>5, <4>2 DEF at
        <5>2. QED BY <2>1, <2>4, <4>2, <5>1
      <4>3. QED BY <4>1, <4>2
    <3>2. CASE Element(data, offset) = {}
      BY <3>1, <3>2, RoundIs
    <3>3. CASE Element(data, offset) # {}
      <4>1. PICK e \in Elements : Element(data, offset) = {e} /\ e.end > offset
        BY <1>1, <3>3, ElementIs
      <4>2. e.end \in Nat /\ e.end # at
        BY <2>2, <2>5, <4>1 DEF Elements
      <4>3. g[e.end] = f[e.end]
        BY <2>4, <4>2
      <4>4. Round(data, tags, prefix, f, offset)
              = IF Sought(e, tags, prefix) THEN {e} ELSE f[e.end]
        BY <4>1, RoundIs
      <4>5. Round(data, tags, prefix, g, offset)
              = IF Sought(e, tags, prefix) THEN {e} ELSE g[e.end]
        BY <4>1, RoundIs
      <4>6. QED BY <3>1, <4>3, <4>4, <4>5
    <3>4. QED BY <3>2, <3>3
  <2>6. Good(g, m)
    BY <2>5 DEF at
  <2> HIDE DEF Good
  <2>7. QED BY <2>2, <2>4, <2>6
<1>4. n \in T
  <2>1. T \in SUBSET (0..n)
    OBVIOUS
  <2> HIDE DEF T, n
  <2>2. T = 0..n
    BY <1>1, <1>2, <1>3, <2>1, UpTo
  <2>3. QED BY <1>1, <2>2
<1>5. PICK f \in [Nat -> SUBSET Elements] : Good(f, n)
  BY <1>4
<1>6. \A offset \in Nat : f[offset] = Round(data, tags, prefix, f, offset)
  BY <1>1, <1>5
<1>7. QED BY <1>6

\* What the loop finds, by what it finds from each offset on.
LEMMA LoopFinds ==
  ASSUME NEW data \in Seq(Octet), NEW tags, NEW prefix
  PROVE  \E found :
           /\ First(data, tags, prefix) = found[0]
           /\ \A offset \in Nat : found[offset] = Round(data, tags, prefix, found, offset)
<1> DEFINE from == CHOOSE from : from = [offset \in Nat |->
             UNION {IF Sought(e, tags, prefix) THEN {e} ELSE from[e.end] :
                    e \in Element(data, offset)}]
<1>1. First(data, tags, prefix) = from[0]
  BY DEF First
<1>2. PICK found \in [Nat -> SUBSET Elements] :
        \A offset \in Nat : found[offset] = Round(data, tags, prefix, found, offset)
  BY LoopEnds
<1>3. found = [offset \in Nat |->
             UNION {IF Sought(e, tags, prefix) THEN {e} ELSE found[e.end] :
                    e \in Element(data, offset)}]
  BY <1>2 DEF Round
<1>4. from = [offset \in Nat |->
             UNION {IF Sought(e, tags, prefix) THEN {e} ELSE from[e.end] :
                    e \in Element(data, offset)}]
  BY <1>3, Zenon
<1> HIDE DEF from
<1>5. \A offset \in Nat : from[offset] = Round(data, tags, prefix, from, offset)
  BY <1>4, Zenon DEF Round
<1>6. QED BY <1>1, <1>5

\* A list of elements, one behind the other: the loop returns the first that
\* is sought.
Listed(data, e, end, n) ==
  /\ end \in [0..n -> Nat] /\ end[0] = 0 /\ end[n] = Len(data)
  /\ \A i \in 1..n : Element(data, end[i - 1]) = {e[i]} /\ e[i].end = end[i]

\* The loop passes over what is not sought and stops at the first that is.
LEMMA Walked ==
  ASSUME NEW data \in Seq(Octet), NEW tags, NEW prefix, NEW n \in Nat, NEW e, NEW end,
         Listed(data, e, end, n),
         NEW k \in 0..n, \A i \in 1..k : ~Sought(e[i], tags, prefix)
  PROVE  /\ k = n => First(data, tags, prefix) = {}
         /\ k < n => (Sought(e[k + 1], tags, prefix) => First(data, tags, prefix) = {e[k + 1]})
<1>1. PICK found :
        /\ First(data, tags, prefix) = found[0]
        /\ \A offset \in Nat : found[offset] = Round(data, tags, prefix, found, offset)
  BY LoopFinds
<1>2. /\ end[0] = 0 /\ end[n] = Len(data)
      /\ \A i \in 0..n : end[i] \in Nat
      /\ \A i \in 1..n : Element(data, end[i - 1]) = {e[i]} /\ e[i].end = end[i]
  BY DEF Listed
<1>3. ASSUME NEW i \in 1..n
      PROVE  found[end[i - 1]] = IF Sought(e[i], tags, prefix) THEN {e[i]} ELSE found[end[i]]
  <2>1. i - 1 \in 0..n /\ i \in 0..n
    OBVIOUS
  <2>2. end[i - 1] \in Nat
    BY <1>2, <2>1
  <2>3. found[end[i - 1]] = Round(data, tags, prefix, found, end[i - 1])
    BY <1>1, <2>2
  <2>4. Round(data, tags, prefix, found, end[i - 1])
          = IF Sought(e[i], tags, prefix) THEN {e[i]} ELSE found[e[i].end]
    <3>1. Element(data, end[i - 1]) = {e[i]}
      BY <1>2
    <3>2. PICK at : at = end[i - 1]
      OBVIOUS
    <3>3. PICK d : d = e[i]
      OBVIOUS
    <3>4. Element(data, at) = {d}
      BY <3>1, <3>2, <3>3
    <3>5. Round(data, tags, prefix, found, at)
          = IF Sought(d, tags, prefix) THEN {d} ELSE found[d.end]
      BY <3>4, RoundIs
    <3>6. QED BY <3>2, <3>3, <3>5
  <2>5. QED BY <1>2, <2>3, <2>4
<1> DEFINE T == {i \in 0..k : First(data, tags, prefix) = found[end[i]]}
<1>4. k \in T
  <2>1. 0 \in T
    BY <1>1, <1>2
  <2>2. ASSUME NEW i \in 1..k, i - 1 \in T
        PROVE  i \in T
    <3>1. i \in 1..n
      OBVIOUS
    <3>2. found[end[i - 1]] = found[end[i]]
      BY <1>3, <3>1
    <3>3. QED BY <2>2, <3>2
  <2>3. T \in SUBSET (0..k) /\ k \in Nat
    OBVIOUS
  <2> HIDE DEF T
  <2>4. T = 0..k
    BY <2>1, <2>2, <2>3, UpTo
  <2>5. QED BY <2>3, <2>4
<1>5. First(data, tags, prefix) = found[end[k]]
  BY <1>4
<1>6. ASSUME k = n
      PROVE  First(data, tags, prefix) = {}
  <2>1. Len(data) \in Nat
    OBVIOUS
  <2>2. Element(data, Len(data)) = {}
    BY <2>1, ElementIs
  <2>3. found[Len(data)] = Round(data, tags, prefix, found, Len(data))
    BY <1>1, <2>1
  <2>4. Round(data, tags, prefix, found, Len(data)) = {}
    BY <2>2, RoundIs
  <2>5. QED BY <1>2, <1>5, <1>6, <2>3, <2>4
<1>7. ASSUME k < n, Sought(e[k + 1], tags, prefix)
      PROVE  First(data, tags, prefix) = {e[k + 1]}
  <2>1. k + 1 \in 1..n /\ (k + 1) - 1 = k
    BY <1>7
  <2>2. found[end[k]] = {e[k + 1]}
    BY <1>3, <1>7, <2>1
  <2>3. QED BY <1>5, <2>2
<1>8. QED BY <1>6, <1>7

-----------------------------------------------------------------------------
(* Sequences written one behind the other.                                 *)

\* b"".join as the strings after each part.
LEMMA Flattened ==
  ASSUME NEW S, NEW parts \in Seq(Seq(S))
  PROVE  \E f :
           /\ Len(parts) = 0 => FlattenSeq(parts) = <<>>
           /\ Len(parts) > 0 => FlattenSeq(parts) = f[Len(parts)]
           /\ \A i \in 1..Len(parts) :
                f[i] \in Seq(S) /\ f[i] = IF i = 1 THEN parts[i] ELSE f[i - 1] \o parts[i]
<1> DEFINE n == Len(parts)
           Good(f, m) == \A i \in 1..m : f[i] = IF i = 1 THEN parts[i] ELSE f[i - 1] \o parts[i]
           T == {m \in 0..n : \E f \in [1..n -> Seq(S)] : Good(f, m)}
           flatten == CHOOSE f : f = [i \in 1..n |->
                                        IF i = 1 THEN parts[i] ELSE f[i - 1] \o parts[i]]
<1>1. n \in Nat /\ \A i \in 1..n : parts[i] \in Seq(S)
  OBVIOUS
<1>2. /\ n = 0 => FlattenSeq(parts) = <<>>
      /\ n > 0 => FlattenSeq(parts) = flatten[n]
  <2>1. CASE n = 0
    BY <2>1 DEF FlattenSeq
  <2>2. CASE n # 0
    BY <2>2, Zenon DEF FlattenSeq
  <2>3. QED BY <1>1, <2>1, <2>2
<1> HIDE DEF n, flatten
<1>3. 0 \in T
  <2>1. [i \in 1..n |-> <<>>] \in [1..n -> Seq(S)] /\ Good([i \in 1..n |-> <<>>], 0)
    OBVIOUS
  <2>2. 0 \in 0..n
    BY <1>1
  <2> HIDE DEF Good
  <2>3. QED BY <2>1, <2>2
<1>4. ASSUME NEW m \in 1..n, m - 1 \in T
      PROVE  m \in T
  <2>1. PICK f \in [1..n -> Seq(S)] : Good(f, m - 1)
    BY <1>4
  <2> DEFINE r == IF m = 1 THEN parts[m] ELSE f[m - 1] \o parts[m]
             g == [f EXCEPT ![m] = r]
  <2>2. r \in Seq(S)
    <3>1. CASE m = 1
      BY <1>1, <3>1
    <3>2. CASE m # 1
      <4>1. m - 1 \in 1..n
        BY <1>1, <3>2
      <4>2. f[m - 1] \in Seq(S) /\ parts[m] \in Seq(S)
        BY <1>1, <4>1
      <4>3. QED BY <3>2, <4>2
    <3>3. QED BY <3>1, <3>2
  <2> HIDE DEF r
  <2>3. g \in [1..n -> Seq(S)] /\ g[m] = r /\ \A i \in 1..n : i # m => g[i] = f[i]
    BY <2>2
  <2> HIDE DEF g
  <2>4. Good(g, m)
    <3> SUFFICES ASSUME NEW i \in 1..m
                 PROVE  g[i] = IF i = 1 THEN parts[i] ELSE g[i - 1] \o parts[i]
      OBVIOUS
    <3>1. i \in 1..n /\ (i # 1 => i - 1 \in 1..n /\ i - 1 # m)
      BY <1>1
    <3>2. i # 1 => g[i - 1] = f[i - 1]
      BY <2>3, <3>1
    <3>3. CASE i = m
      BY <2>3, <3>2, <3>3 DEF r
    <3>4. CASE i # m
      <4>1. i \in 1..m - 1
        BY <1>1, <3>4
      <4>2. g[i] = f[i] /\ f[i] = IF i = 1 THEN parts[i] ELSE f[i - 1] \o parts[i]
        BY <2>1, <2>3, <3>1, <3>4, <4>1
      <4>3. QED BY <3>2, <4>2
    <3>5. QED BY <3>3, <3>4
  <2> HIDE DEF Good
  <2>5. m \in 0..n
    BY <1>1
  <2>6. QED BY <2>3, <2>4, <2>5
<1>5. n \in T
  <2>1. T \in SUBSET (0..n)
    OBVIOUS
  <2> HIDE DEF T
  <2>2. T = 0..n
    BY <1>1, <1>3, <1>4, <2>1, UpTo
  <2>3. QED BY <1>1, <2>2
<1>6. PICK f \in [1..n -> Seq(S)] : Good(f, n)
  BY <1>5
<1>7. f = [i \in 1..n |-> IF i = 1 THEN parts[i] ELSE f[i - 1] \o parts[i]]
  BY <1>6
<1>8. flatten = [i \in 1..n |-> IF i = 1 THEN parts[i] ELSE flatten[i - 1] \o parts[i]]
  BY <1>7, Zenon DEF flatten
<1>9. \A i \in 1..n : flatten[i] = IF i = 1 THEN parts[i] ELSE flatten[i - 1] \o parts[i]
  BY <1>8, Zenon
<1> DEFINE U == {i \in 0..n : i = 0 \/ flatten[i] \in Seq(S)}
<1>10. ASSUME NEW i \in 1..n, i - 1 \in U
       PROVE  i \in U
  <2>1. parts[i] \in Seq(S) /\ i \in 0..n
    BY <1>1
  <2>2. CASE i = 1
    BY <1>9, <2>1, <2>2
  <2>3. CASE i # 1
    <3>1. flatten[i - 1] \in Seq(S)
      BY <1>10, <2>3
    <3>2. flatten[i] = flatten[i - 1] \o parts[i]
      BY <1>9, <2>3
    <3>3. flatten[i] \in Seq(S)
      BY <2>1, <3>1, <3>2
    <3>4. QED BY <2>1, <3>3
  <2>4. QED BY <2>2, <2>3
<1>11. \A i \in 1..n : flatten[i] \in Seq(S)
  <2>1. U \in SUBSET (0..n) /\ 0 \in U
    BY <1>1
  <2>2. 1..n \subseteq 0..n /\ 0 \notin 1..n
    BY <1>1
  <2> HIDE DEF U
  <2>3. U = 0..n
    BY <1>1, <1>10, <2>1, UpTo
  <2>4. QED BY <2>2, <2>3 DEF U
<1>12. QED BY <1>2, <1>9, <1>11 DEF n

\* What stands where in two sequences joined, of anything.
LEMMA Concatenated ==
  ASSUME NEW S, NEW a \in Seq(S), NEW b \in Seq(S), NEW c, c = a \o b
  PROVE  /\ c \in Seq(S) /\ Len(c) = Len(a) + Len(b) /\ Len(a) \in Nat /\ Len(b) \in Nat
         /\ \A i \in 1..Len(a) : c[i] = a[i]
         /\ \A i \in 1..Len(b) : c[Len(a) + i] = b[i]
OBVIOUS

\* What stands in a part stands in the whole.
LEMMA StandsInJoined ==
  ASSUME NEW S, NEW a \in Seq(S), NEW b \in Seq(S), NEW c, c = a \o b
  PROVE  /\ Stands(a, c, 0) /\ Stands(b, c, Len(a))
         /\ \A offset \in Nat, t \in Seq(S) : Stands(t, a, offset) => Stands(t, c, offset)
         /\ \A offset \in Nat, t \in Seq(S) : Stands(t, b, offset) => Stands(t, c, Len(a) + offset)
<1>1. /\ Len(c) = Len(a) + Len(b) /\ Len(a) \in Nat /\ Len(b) \in Nat
      /\ \A i \in 1..Len(a) : c[i] = a[i]
      /\ \A i \in 1..Len(b) : c[Len(a) + i] = b[i]
  BY Concatenated
<1>2. Stands(a, c, 0) /\ Stands(b, c, Len(a))
  BY <1>1 DEF Stands
<1>3. ASSUME NEW offset \in Nat, NEW t \in Seq(S), Stands(t, a, offset)
      PROVE  Stands(t, c, offset)
  <2>1. Len(t) \in Nat /\ offset + Len(t) <= Len(a) /\ \A i \in 1..Len(t) : a[offset + i] = t[i]
    BY <1>3 DEF Stands
  <2>2. \A i \in 1..Len(t) : offset + i \in 1..Len(a)
    BY <1>1, <2>1
  <2>3. QED BY <1>1, <2>1, <2>2 DEF Stands
<1>4. ASSUME NEW offset \in Nat, NEW t \in Seq(S), Stands(t, b, offset)
      PROVE  Stands(t, c, Len(a) + offset)
  <2>1. Len(t) \in Nat /\ offset + Len(t) <= Len(b) /\ \A i \in 1..Len(t) : b[offset + i] = t[i]
    BY <1>4 DEF Stands
  <2>2. \A i \in 1..Len(t) :
          offset + i \in 1..Len(b) /\ (Len(a) + offset) + i = Len(a) + (offset + i)
    BY <1>1, <2>1
  <2>3. QED BY <1>1, <2>1, <2>2 DEF Stands
<1>5. QED BY <1>2, <1>3, <1>4

\* The parts of b"".join stand one behind the other.
LEMMA FlatStands ==
  ASSUME NEW S, NEW parts \in Seq(Seq(S)), NEW data, data = FlattenSeq(parts)
  PROVE  /\ data \in Seq(S)
         /\ \E end \in [0..Len(parts) -> Nat] :
              /\ end[0] = 0 /\ end[Len(parts)] = Len(data)
              /\ \A i \in 1..Len(parts) :
                   end[i] = end[i - 1] + Len(parts[i]) /\ Stands(parts[i], data, end[i - 1])
<1> DEFINE n == Len(parts)
<1>1. n \in Nat /\ \A i \in 1..n : parts[i] \in Seq(S) /\ Len(parts[i]) \in Nat
  OBVIOUS
<1>2. PICK f :
        /\ n = 0 => FlattenSeq(parts) = <<>>
        /\ n > 0 => FlattenSeq(parts) = f[n]
        /\ \A i \in 1..n :
             f[i] \in Seq(S) /\ f[i] = IF i = 1 THEN parts[i] ELSE f[i - 1] \o parts[i]
  BY Flattened
<1> HIDE DEF n
<1> DEFINE end == [i \in 0..n |-> IF i = 0 THEN 0 ELSE Len(f[i])]
<1>3. data \in Seq(S)
  <2>1. CASE n = 0
    BY <1>2, <2>1
  <2>2. CASE n > 0
    BY <1>1, <1>2, <2>2
  <2>3. QED BY <1>1, <2>1, <2>2
<1>4. /\ end \in [0..n -> Nat] /\ end[0] = 0
      /\ \A i \in 1..n : end[i] = Len(f[i])
  <2>1. \A i \in 1..n : Len(f[i]) \in Nat
    BY <1>2
  <2>2. QED BY <1>1, <2>1
<1>5. end[n] = Len(data)
  BY <1>1, <1>2, <1>4
<1> HIDE DEF end
<1>6. ASSUME NEW i \in 1..n
      PROVE  /\ end[i] = end[i - 1] + Len(parts[i])
             /\ Stands(parts[i], f[i], end[i - 1])
             /\ \A j \in 1..i - 1 : /\ i - 1 \in 1..n
                                    /\ Stands(parts[j], f[i - 1], end[j - 1])
                                         => Stands(parts[j], f[i], end[j - 1])
  <2>1. CASE i = 1
    <3>1. f[i] = parts[i]
      BY <1>2, <2>1
    <3>2. Stands(parts[i], f[i], 0)
      BY <1>1, <3>1 DEF Stands
    <3>3. QED BY <1>1, <1>4, <2>1, <3>1, <3>2
  <2>2. CASE i # 1
    <3>1. i - 1 \in 1..n
      BY <1>1, <2>2
    <3>2. /\ f[i - 1] \in Seq(S) /\ f[i] = f[i - 1] \o parts[i] /\ parts[i] \in Seq(S)
          /\ end[i - 1] = Len(f[i - 1]) /\ end[i] = Len(f[i])
      BY <1>1, <1>2, <1>4, <2>2, <3>1
    <3>3. end[i] = end[i - 1] + Len(parts[i])
      BY <3>2, Concatenated
    <3>4. Stands(parts[i], f[i], end[i - 1])
      BY <3>2, StandsInJoined
    <3>5. ASSUME NEW j \in 1..i - 1, Stands(parts[j], f[i - 1], end[j - 1])
          PROVE  Stands(parts[j], f[i], end[j - 1])
      <4>1. j \in 1..n /\ j - 1 \in 0..n
        BY <1>1
      <4>2. parts[j] \in Seq(S) /\ end[j - 1] \in Nat
        BY <1>1, <1>4, <4>1
      <4>3. QED BY <3>2, <3>5, <4>2, StandsInJoined
    <3>6. QED BY <3>1, <3>3, <3>4, <3>5
  <2>3. QED BY <2>1, <2>2
<1>7. ASSUME NEW j \in 1..n
      PROVE  Stands(parts[j], data, end[j - 1])
  <2> DEFINE U == {i \in 0..n : i >= j => Stands(parts[j], f[i], end[j - 1])}
  <2>1. ASSUME NEW i \in 1..n, i - 1 \in U
        PROVE  i \in U
    <3>1. i \in 0..n /\ j \in Nat
      BY <1>1
    <3>2. CASE i < j
      BY <3>1, <3>2
    <3>3. CASE i = j
      BY <1>6, <3>1, <3>3
    <3>4. CASE i > j
      <4>1. j \in 1..i - 1 /\ i - 1 >= j
        BY <1>1, <3>1, <3>4
      <4>2. Stands(parts[j], f[i - 1], end[j - 1])
        BY <2>1, <4>1
      <4>3. QED BY <1>6, <3>1, <4>1, <4>2
    <3>5. QED BY <3>1, <3>2, <3>3, <3>4
  <2>2. U \in SUBSET (0..n) /\ 0 \in U /\ n >= j /\ n \in 0..n /\ n > 0
    BY <1>1
  <2> HIDE DEF U
  <2>3. U = 0..n
    BY <1>1, <2>1, <2>2, UpTo
  <2>4. Stands(parts[j], f[n], end[j - 1])
    BY <2>2, <2>3 DEF U
  <2>5. QED BY <1>2, <2>2, <2>4
<1>8. \A i \in 1..n : end[i] = end[i - 1] + Len(parts[i]) /\ Stands(parts[i], data, end[i - 1])
  BY <1>6, <1>7
<1>9. QED BY <1>3, <1>4, <1>5, <1>8 DEF n

-----------------------------------------------------------------------------
(* The value of a keyUsage extension.                                      *)

\* The content of the BIT STRING says of the bits that are asked for whether
\* they are set.
LEMMA BitStringIs ==
  ASSUME NEW bits \in SUBSET Bit
  PROVE  \E content \in Seq(Octet) :
           /\ Len(content) \in 1..3 /\ BitString(bits) = Tlv(3, content)
           /\ \A b \in Asked : BitSet(content, b) <=> b \in bits
<1> DEFINE signs == IF "digital_signature" \in bits THEN 128 ELSE 0
           certs == IF "key_cert_sign" \in bits THEN 4 ELSE 0
           first == signs + certs
           content == CASE "decipher_only" \in bits -> <<7, first, 128>>
                        [] bits = {} -> <<0>>
                        [] OTHER -> <<IF "key_cert_sign" \in bits THEN 2 ELSE 7, first>>
<1>1. BitString(bits) = Tlv(3, content)
  BY Zenon DEF BitString
<1>2. first \in Octet /\ signs \in {0, 128} /\ certs \in {0, 4}
  BY OctetIs
<1>3. /\ (first \div 128) % 2 = 1 <=> "digital_signature" \in bits
      /\ (first \div 4) % 2 = 1 <=> "key_cert_sign" \in bits
  OBVIOUS
<1>4. Asked = {"digital_signature", "key_cert_sign"}
      /\ Position["digital_signature"] = 0 /\ Position["key_cert_sign"] = 5
  BY DEF Asked, Position
<1>5. 2 ^ (7 - (0 % 8)) = 128 /\ 2 ^ (7 - (5 % 8)) = 4
  <2>1. 7 - (0 % 8) = 7 /\ 7 - (5 % 8) = 2
    OBVIOUS
  <2>2. 2 ^ 7 = 128 /\ 2 ^ 2 = 4
    OBVIOUS
  <2>3. QED BY <2>1, <2>2
<1>6. 0 \div 8 = 0 /\ 5 \div 8 = 0
  OBVIOUS
<1>7. ASSUME NEW c \in Seq(Octet), NEW b \in Asked
      PROVE  BitSet(c, b) <=> /\ 0 < Len(c) - 1
                              /\ (c[2] \div (IF b = "digital_signature" THEN 128 ELSE 4)) % 2 = 1
  <2>1. CASE b = "digital_signature"
    <3>1. Position[b] \div 8 = 0 /\ 2 ^ (7 - (Position[b] % 8)) = 128
      BY <1>4, <1>5, <1>6, <2>1
    <3>2. QED BY <2>1, <3>1 DEF BitSet
  <2>2. CASE b = "key_cert_sign"
    <3>1. Position[b] \div 8 = 0 /\ 2 ^ (7 - (Position[b] % 8)) = 4
      BY <1>4, <1>5, <1>6, <2>2
    <3>2. QED BY <2>2, <3>1 DEF BitSet
  <2>3. QED BY <1>4, <2>1, <2>2
<1> HIDE DEF first
<1>8. CASE "decipher_only" \in bits
  <2>1. content = <<7, first, 128>>
    BY <1>8
  <2>2. content \in Seq(Octet) /\ Len(content) = 3 /\ content[2] = first
    <3>1. 7 \in Octet /\ 128 \in Octet
      BY OctetIs
    <3>2. QED BY <1>2, <2>1, <3>1, ShortSequences
  <2> HIDE DEF content
  <2>3. \A b \in Asked : BitSet(content, b) <=> b \in bits
    BY <1>3, <1>4, <1>7, <2>2
  <2>4. QED BY <1>1, <2>2, <2>3
<1>9. CASE "decipher_only" \notin bits /\ bits # {}
  <2>1. content = <<IF "key_cert_sign" \in bits THEN 2 ELSE 7, first>>
    BY <1>9
  <2>2. content \in Seq(Octet) /\ Len(content) = 2 /\ content[2] = first
    <3>1. 2 \in Octet /\ 7 \in Octet
      BY OctetIs
    <3>2. (IF "key_cert_sign" \in bits THEN 2 ELSE 7) \in Octet
      BY <3>1
    <3>3. QED BY <1>2, <2>1, <3>2, ShortSequences
  <2> HIDE DEF content
  <2>3. \A b \in Asked : BitSet(content, b) <=> b \in bits
    BY <1>3, <1>4, <1>7, <2>2
  <2>4. QED BY <1>1, <2>2, <2>3
<1>10. CASE bits = {}
  <2>1. content = <<0>>
    BY <1>10
  <2>2. content \in Seq(Octet) /\ Len(content) = 1
    <3>1. 0 \in Octet
      BY OctetIs
    <3>2. QED BY <2>1, <3>1, ShortSequences
  <2> HIDE DEF content
  <2>3. \A b \in Asked : BitSet(content, b) <=> b \in bits
    BY <1>7, <1>10, <2>2
  <2>4. QED BY <1>1, <2>2, <2>3
<1>11. QED BY <1>8, <1>9, <1>10

\* What one length octet counts is within the limit.
LEMMA Short == \A n \in 0..255 : n < Limit
BY SMT DEF Limit

\* A truncated extnValue stands at the start of the whole one.
LEMMA ValueIs ==
  ASSUME NEW ext \in Extension, ext.lacks <= Len(WholeValue(ext))
  PROVE  /\ ExtensionValue(ext) \in Seq(Octet) /\ WholeValue(ext) \in Seq(Octet)
         /\ Len(ExtensionValue(ext)) = Len(WholeValue(ext)) - ext.lacks
         /\ Stands(ExtensionValue(ext), WholeValue(ext), 0)
<1> DEFINE w == WholeValue(ext)
           v == ExtensionValue(ext)
<1>1. w \in Seq(Octet)
  <2>1. CASE ext.oid = KeyUsageOid
    <3>1. PICK content \in Seq(Octet) :
            Len(content) \in 1..3 /\ BitString(ext.bits) = Tlv(3, content)
      BY BitStringIs DEF Extension
    <3>2. 3 \in Octet /\ Len(content) < Limit
      <4>1. 3 \in Octet
        BY OctetIs
      <4>2. Len(content) < Limit
        <5>1. Len(content) \in 1..3
          BY <3>1
        <5>2. Len(content) \in 0..255
          BY <5>1
        <5>3. QED BY <5>2, Short
      <4>3. QED BY <4>1, <4>2
    <3>3. BitString(ext.bits) \in Seq(Octet)
      BY <3>1, <3>2, TlvIs
    <3>4. QED BY <2>1, <3>3 DEF WholeValue
  <2>2. CASE ext.oid # KeyUsageOid
    BY <2>2 DEF WholeValue, Extension
  <2>3. QED BY <2>1, <2>2
<1>2. ext.lacks \in Nat /\ v = SubSeq(w, 1, Len(w) - ext.lacks)
  BY DEF Extension, ExtensionValue
<1>3. Len(w) \in Nat /\ Len(w) - ext.lacks \in 0..Len(w)
  BY <1>1, <1>2
<1> DEFINE m == Len(w) - ext.lacks
<1> HIDE DEF w
<1>4. SubSeq(w, 1, m) \in Seq(Octet) /\ Len(SubSeq(w, 1, m)) = m
      /\ \A i \in 1..m : SubSeq(w, 1, m)[i] = w[i]
  BY <1>1, <1>3
<1>5. Stands(v, w, 0)
  BY <1>2, <1>3, <1>4 DEF Stands
<1>6. QED BY <1>1, <1>2, <1>4, <1>5 DEF w

-----------------------------------------------------------------------------
(* What is written of a certificate, and how long it is.                   *)

\* What is inside something is shorter, whatever its length.
LEMMA TlvLonger ==
  ASSUME NEW tag \in Octet, NEW content \in Seq(Nat), NEW t, t = Tlv(tag, content)
  PROVE  t \in Seq(Nat) /\ Len(content) \in Nat /\ Len(content) < Len(t)
<1> DEFINE n == Len(content)
           l == LengthOctets(n)
<1>1. n \in Nat
  OBVIOUS
<1> HIDE DEF n
<1>2. l \in Seq(Nat) /\ Len(l) \in 1..3
  <2>1. CASE n < 128
    <3>1. l = <<n>>
      BY <2>1 DEF LengthOctets
    <3>2. QED BY <1>1, <3>1
  <2>2. CASE n >= 128 /\ n < 256
    <3>1. l = <<129, n>>
      BY <1>1, <2>2 DEF LengthOctets
    <3>2. QED BY <1>1, <3>1
  <2>3. CASE n >= 256
    <3>1. l = <<130, n \div 256, n % 256>>
      BY <1>1, <2>3 DEF LengthOctets
    <3>2. n \div 256 \in Nat /\ n % 256 \in Nat
      BY <1>1
    <3>3. QED BY <3>1, <3>2
  <2>4. QED BY <1>1, <2>1, <2>2, <2>3
<1>3. t = (<<tag>> \o l) \o content
  BY DEF Tlv, n
<1> HIDE DEF l
<1>4. <<tag>> \in Seq(Nat) /\ Len(<<tag>>) = 1
  <2>1. tag \in Nat
    BY OctetIs
  <2>2. QED BY <2>1
<1>5. <<tag>> \o l \in Seq(Nat) /\ Len(<<tag>> \o l) = 1 + Len(l)
  BY <1>2, <1>4, Concatenated
<1>6. t \in Seq(Nat) /\ Len(t) = 1 + Len(l) + n
  BY <1>1, <1>3, <1>5, Concatenated DEF n
<1>7. QED BY <1>1, <1>2, <1>6 DEF n

\* Octet strings are sequences of numbers.
LEMMA OctetsAreNumbers == Seq(Octet) \subseteq Seq(Nat)
<1> SUFFICES ASSUME NEW s \in Seq(Octet)
             PROVE  s \in Seq(Nat)
  OBVIOUS
<1>1. /\ s = [i \in 1..Len(s) |-> s[i]] /\ Len(s) \in Nat
      /\ \A i \in 1..Len(s) : s[i] \in Nat
  BY OctetsOf
<1>2. QED BY <1>1

Criticality(ext) == IF ext.critical THEN Tlv(1, <<255>>) ELSE <<>>
OidDer(ext) == Tlv(6, ext.oid)
ValueDer(ext) == Tlv(4, ExtensionValue(ext))
ExtensionContent(ext) == (OidDer(ext) \o Criticality(ext)) \o ValueDer(ext)

\* An encoded extension, and how much longer than its parts it is.
LEMMA ExtensionIs ==
  ASSUME NEW ext \in Extension, ext.lacks <= Len(WholeValue(ext)), NEW d, d = ExtensionDer(ext)
  PROVE  /\ d = Tlv(48, ExtensionContent(ext)) /\ d \in Seq(Nat)
         /\ ExtensionContent(ext) \in Seq(Nat) /\ Len(ExtensionContent(ext)) < Len(d)
         /\ Len(ext.oid) < Len(d) /\ Len(ExtensionValue(ext)) < Len(d)
         /\ Len(ExtensionContent(ext)) \in Nat /\ Len(ext.oid) \in Nat
         /\ Len(ExtensionValue(ext)) \in Nat /\ Len(d) \in Nat
<1> DEFINE a == OidDer(ext)
           b == Criticality(ext)
           v == ValueDer(ext)
<1>1. 6 \in Octet /\ 1 \in Octet /\ 4 \in Octet /\ 48 \in Octet /\ 255 \in Octet
  BY OctetIs
<1>2. ext.oid \in Seq(Nat) /\ ExtensionValue(ext) \in Seq(Nat)
  <2>1. ext.oid \in Seq(Octet)
    BY DEF Extension
  <2>2. ExtensionValue(ext) \in Seq(Octet)
    BY ValueIs
  <2>3. QED BY <2>1, <2>2, OctetsAreNumbers
<1>3. a \in Seq(Nat) /\ Len(ext.oid) < Len(a) /\ Len(ext.oid) \in Nat
  BY <1>1, <1>2, TlvLonger DEF OidDer
<1>4. v \in Seq(Nat) /\ Len(ExtensionValue(ext)) < Len(v) /\ Len(ExtensionValue(ext)) \in Nat
  BY <1>1, <1>2, TlvLonger DEF ValueDer
<1>5. b \in Seq(Nat)
  <2>1. <<255>> \in Seq(Nat)
    OBVIOUS
  <2>2. Tlv(1, <<255>>) \in Seq(Nat)
    BY <1>1, <2>1, TlvLonger
  <2>3. QED BY <2>2 DEF Criticality
<1>6. ExtensionContent(ext) = (a \o b) \o v
  BY DEF ExtensionContent
<1>7. d = Tlv(48, ExtensionContent(ext))
  BY DEF ExtensionDer, ExtensionContent, Criticality, OidDer, ValueDer
<1> HIDE DEF a, b, v
<1>8. a \o b \in Seq(Nat) /\ Len(a \o b) = Len(a) + Len(b) /\ Len(a) \in Nat /\ Len(b) \in Nat
  BY <1>3, <1>5, Concatenated
<1>9. /\ ExtensionContent(ext) \in Seq(Nat) /\ Len(v) \in Nat
      /\ Len(ExtensionContent(ext)) = Len(a) + Len(b) + Len(v)
  BY <1>4, <1>6, <1>8, Concatenated
<1>10. d \in Seq(Nat) /\ Len(ExtensionContent(ext)) < Len(d)
  BY <1>1, <1>7, <1>9, TlvLonger
<1>11. Len(d) \in Nat
  BY <1>10
<1>12. Len(ext.oid) < Len(d)
  BY <1>3, <1>8, <1>9, <1>10, <1>11
<1>13. Len(ExtensionValue(ext)) < Len(d)
  BY <1>4, <1>8, <1>9, <1>10, <1>11
<1>14. QED BY <1>3, <1>4, <1>7, <1>9, <1>10, <1>11, <1>12, <1>13

\* An extension whose length is written with two octets at most.
Written(ext) ==
  /\ ext \in Extension /\ ext.lacks <= Len(WholeValue(ext)) /\ Len(ExtensionDer(ext)) < Limit

\* The limit of two length octets is a number.
LEMMA LimitIs == Limit \in Nat
BY SMT DEF Limit

\* Where the OID, critical and the value stand in an extension.
LEMMA ExtensionParts ==
  ASSUME NEW ext, Written(ext)
  PROVE  LET a == OidDer(ext)
             b == Criticality(ext)
             v == ValueDer(ext)
             c == ExtensionContent(ext) IN
         /\ ext.oid \in Seq(Octet) /\ ExtensionValue(ext) \in Seq(Octet)
         /\ Len(ext.oid) < Limit /\ Len(ExtensionValue(ext)) < Limit /\ Len(c) < Limit
         /\ a \in Seq(Octet) /\ b \in Seq(Octet) /\ v \in Seq(Octet)
         /\ a \o b \in Seq(Octet) /\ c = (a \o b) \o v /\ c \in Seq(Octet)
         /\ Len(a \o b) = Len(a) + Len(b) /\ Len(c) = Len(a \o b) + Len(v)
         /\ ext.critical => Len(b) = 3
         /\ ~ext.critical => Len(b) = 0
<1> DEFINE a == OidDer(ext)
           b == Criticality(ext)
           v == ValueDer(ext)
           c == ExtensionContent(ext)
<1>1. 6 \in Octet /\ 1 \in Octet /\ 4 \in Octet /\ 255 \in Octet
  BY OctetIs
<1>2. ext \in Extension /\ ext.lacks <= Len(WholeValue(ext)) /\ Len(ExtensionDer(ext)) < Limit
  BY DEF Written
<1>3. ext.oid \in Seq(Octet) /\ ExtensionValue(ext) \in Seq(Octet) /\ ext.critical \in BOOLEAN
  BY <1>2, ValueIs DEF Extension
<1>4. /\ Len(ext.oid) \in Nat /\ Len(ext.oid) < Len(ExtensionDer(ext))
      /\ Len(c) \in Nat /\ Len(c) < Len(ExtensionDer(ext)) /\ Len(ExtensionDer(ext)) \in Nat
      /\ Len(ExtensionValue(ext)) \in Nat /\ Len(ExtensionValue(ext)) < Len(ExtensionDer(ext))
  BY <1>2, ExtensionIs
<1>5. Len(ext.oid) < Limit /\ Len(ExtensionValue(ext)) < Limit /\ Len(c) < Limit
  BY <1>2, <1>4, LimitIs
<1>6. a \in Seq(Octet) /\ v \in Seq(Octet)
  BY <1>1, <1>3, <1>5, TlvIs DEF OidDer, ValueDer
<1>7. /\ b \in Seq(Octet)
      /\ ext.critical => Len(b) = 3
      /\ ~ext.critical => Len(b) = 0
  <2>1. CASE ext.critical
    <3>1. <<255>> \in Seq(Octet) /\ Len(<<255>>) = 1
      BY <1>1, ShortSequences
    <3>2. Len(<<255>>) < Limit
      BY <3>1, Short
    <3>3. Tlv(1, <<255>>) \in Seq(Octet) /\ Len(Tlv(1, <<255>>)) = Heading(1) + 1
      <4>1. PICK content : content = <<255>>
        OBVIOUS
      <4>2. content \in Seq(Octet) /\ Len(content) = 1 /\ Len(content) < Limit
        BY <3>1, <3>2, <4>1
      <4>3. Tlv(1, content) \in Seq(Octet)
            /\ Len(Tlv(1, content)) = Heading(Len(content)) + Len(content)
        BY <1>1, <4>2, TlvIs
      <4>4. QED BY <4>1, <4>2, <4>3
    <3>4. b = Tlv(1, <<255>>)
      BY <2>1 DEF Criticality
    <3>5. QED BY <2>1, <3>3, <3>4 DEF Heading
  <2>2. CASE ~ext.critical
    BY <2>2 DEF Criticality
  <2>3. QED BY <2>1, <2>2
<1>8. a \o b \in Seq(Octet) /\ Len(a \o b) = Len(a) + Len(b)
  BY <1>6, <1>7, Joined
<1>9. c = (a \o b) \o v
  BY DEF ExtensionContent
<1> HIDE DEF a, b, v, c
<1>10. c \in Seq(Octet) /\ Len(c) = Len(a \o b) + Len(v)
  BY <1>6, <1>8, <1>9, Joined
<1> USE DEF a, b, v, c
<1>11. QED BY <1>3, <1>5, <1>6, <1>7, <1>8, <1>9, <1>10

\* The octets of the OID of keyUsage.
LEMMA OidDerIs ==
  /\ KeyUsageOid \in Seq(Octet) /\ Len(KeyUsageOid) = 3
  /\ KeyUsageOid[1] = 85 /\ KeyUsageOid[2] = 29 /\ KeyUsageOid[3] = 15
  /\ KeyUsageOidDer \in Seq(Octet) /\ Len(KeyUsageOidDer) = 5
  /\ KeyUsageOidDer[1] = 6 /\ KeyUsageOidDer[2] = 3 /\ KeyUsageOidDer[3] = 85
  /\ KeyUsageOidDer[4] = 29 /\ KeyUsageOidDer[5] = 15
<1>1. 85 \in Octet /\ 29 \in Octet /\ 15 \in Octet /\ 6 \in Octet /\ 3 \in Octet
  BY OctetIs
<1>2. KeyUsageOid \in Seq(Octet) /\ Len(KeyUsageOid) = 3
      /\ KeyUsageOid[1] = 85 /\ KeyUsageOid[2] = 29 /\ KeyUsageOid[3] = 15
  <2>1. PICK a, b, c : a = 85 /\ b = 29 /\ c = 15
    OBVIOUS
  <2>2. KeyUsageOid = <<a, b, c>>
    BY <2>1 DEF KeyUsageOid
  <2>3. a \in Octet /\ b \in Octet /\ c \in Octet
    BY <1>1, <2>1
  <2>4. /\ <<a, b, c>> \in Seq(Octet) /\ Len(<<a, b, c>>) = 3
        /\ <<a, b, c>>[1] = a /\ <<a, b, c>>[2] = b /\ <<a, b, c>>[3] = c
    BY <2>3, ShortSequences
  <2>5. QED BY <2>1, <2>2, <2>4
<1>3. <<6, 3>> \in Seq(Octet) /\ Len(<<6, 3>>) = 2 /\ <<6, 3>>[1] = 6 /\ <<6, 3>>[2] = 3
  BY <1>1, ShortSequences
<1>4. /\ KeyUsageOidDer \in Seq(Octet) /\ Len(KeyUsageOidDer) = 5
      /\ \A i \in 1..2 : KeyUsageOidDer[i] = <<6, 3>>[i]
      /\ \A i \in 1..3 : KeyUsageOidDer[2 + i] = KeyUsageOid[i]
  <2>1. PICK a : a = <<6, 3>>
    OBVIOUS
  <2>2. a \in Seq(Octet) /\ Len(a) = 2
    BY <1>3, <2>1
  <2>3. KeyUsageOidDer = a \o KeyUsageOid
    BY <2>1 DEF KeyUsageOidDer
  <2>4. PICK b : b = KeyUsageOid
    OBVIOUS
  <2>5. b \in Seq(Octet) /\ Len(b) = 3
    BY <1>2, <2>4
  <2>6. /\ a \o b \in Seq(Octet) /\ Len(a \o b) = 5
        /\ \A i \in 1..2 : (a \o b)[i] = a[i]
        /\ \A i \in 1..3 : (a \o b)[2 + i] = b[i]
    BY <2>2, <2>5, Joined
  <2>7. QED BY <2>1, <2>3, <2>4, <2>6
<1>5. QED BY <1>2, <1>3, <1>4

\* startswith, octet by octet.
LEMMA PrefixIs ==
  ASSUME NEW s \in Seq(Octet), NEW t \in Seq(Octet)
  PROVE  IsPrefix(s, t) <=> Len(s) <= Len(t) /\ \A i \in 1..Len(s) : s[i] = t[i]
<1>1. Len(s) \in Nat /\ Len(t) \in Nat
  OBVIOUS
<1>2. ASSUME Len(s) <= Len(t)
      PROVE  SubSeq(s, 1, Len(s)) = SubSeq(t, 1, Len(s)) <=> \A i \in 1..Len(s) : s[i] = t[i]
  <2>1. /\ SubSeq(s, 1, Len(s)) \in Seq(Octet) /\ Len(SubSeq(s, 1, Len(s))) = Len(s)
        /\ \A i \in 1..Len(s) : SubSeq(s, 1, Len(s))[i] = s[i]
    BY <1>1
  <2>2. /\ SubSeq(t, 1, Len(s)) \in Seq(Octet) /\ Len(SubSeq(t, 1, Len(s))) = Len(s)
        /\ \A i \in 1..Len(s) : SubSeq(t, 1, Len(s))[i] = t[i]
    BY <1>1, <1>2
  <2> DEFINE p == SubSeq(s, 1, Len(s))
             q == SubSeq(t, 1, Len(s))
  <2> HIDE DEF p, q
  <2>3. p = q => \A i \in 1..Len(s) : s[i] = t[i]
    BY <2>1, <2>2 DEF p, q
  <2>4. (\A i \in 1..Len(s) : s[i] = t[i]) => p = q
    <3>1. /\ p \in Seq(Octet) /\ q \in Seq(Octet) /\ Len(p) = Len(s) /\ Len(q) = Len(s)
          /\ \A i \in 1..Len(s) : p[i] = s[i] /\ q[i] = t[i]
      BY <2>1, <2>2 DEF p, q
    <3>2. QED BY <3>1, SameSequence
  <2>5. QED BY <2>3, <2>4 DEF p, q
<1>3. QED BY <1>1, <1>2 DEF IsPrefix

\* The octets of its OID are those of an extension for keyUsage, and of no other.
LEMMA OidTells ==
  ASSUME NEW ext, Written(ext)
  PROVE  IsPrefix(KeyUsageOidDer, ExtensionContent(ext)) <=> ext.oid = KeyUsageOid
<1> DEFINE oid == ext.oid
           n == Len(oid)
           a == OidDer(ext)
           b == Criticality(ext)
           v == ValueDer(ext)
           c == ExtensionContent(ext)
<1>1. /\ oid \in Seq(Octet) /\ n < Limit /\ a \in Seq(Octet) /\ b \in Seq(Octet)
      /\ v \in Seq(Octet) /\ c \in Seq(Octet) /\ a \o b \in Seq(Octet) /\ c = (a \o b) \o v
      /\ Len(a \o b) = Len(a) + Len(b) /\ Len(c) = Len(a \o b) + Len(v)
  BY ExtensionParts
<1>2. /\ Len(a) = Heading(n) + n /\ a[1] = 6 /\ Announces(a, n)
      /\ \A i \in 1..n : a[Heading(n) + i] = oid[i]
  <2>1. 6 \in Octet /\ a = Tlv(6, oid)
    BY OctetIs DEF OidDer
  <2> HIDE DEF a, oid
  <2>2. QED BY <1>1, <2>1, TlvIs
<1> HIDE DEF a, b, v, c, oid
<1>3. n \in Nat /\ Len(a) \in Nat /\ Len(b) \in Nat /\ Len(v) \in Nat
  BY <1>1
<1> HIDE DEF n
<1>4. Len(a) <= Len(c) /\ \A i \in 1..Len(a) : c[i] = a[i]
  <2>1. \A i \in 1..Len(a) : (a \o b)[i] = a[i]
    BY <1>1, Joined
  <2>2. \A i \in 1..Len(a \o b) : c[i] = (a \o b)[i]
    BY <1>1, Joined
  <2>3. QED BY <1>1, <1>3, <2>1, <2>2
<1>5. IsPrefix(KeyUsageOidDer, c) <=> 5 <= Len(c) /\ \A i \in 1..5 : KeyUsageOidDer[i] = c[i]
  <2>1. PICK k : k = KeyUsageOidDer
    OBVIOUS
  <2>2. k \in Seq(Octet) /\ Len(k) = 5
    BY <2>1, OidDerIs
  <2>3. IsPrefix(k, c) <=> Len(k) <= Len(c) /\ \A i \in 1..Len(k) : k[i] = c[i]
    BY <1>1, <2>2, PrefixIs
  <2>4. QED BY <2>1, <2>2, <2>3
<1>6. ASSUME oid = KeyUsageOid
      PROVE  IsPrefix(KeyUsageOidDer, c)
  <2>1. n = 3
    BY <1>6, OidDerIs DEF n
  <2>2. Heading(n) = 2 /\ a[2] = 3
    BY <1>2, <2>1 DEF Heading, Announces
  <2>3. a[2 + 1] = 85 /\ a[2 + 2] = 29 /\ a[2 + 3] = 15 /\ Len(a) = 5
    BY <1>2, <1>6, <2>1, <2>2, OidDerIs
  <2>4. c[1] = 6 /\ c[2] = 3 /\ c[3] = 85 /\ c[4] = 29 /\ c[5] = 15
    <3>1. c[1] = a[1] /\ c[2] = a[2] /\ c[3] = a[3] /\ c[4] = a[4] /\ c[5] = a[5]
      BY <1>4, <2>3
    <3>2. a[3] = 85 /\ a[4] = 29 /\ a[5] = 15
      BY <2>3
    <3>3. QED BY <1>2, <2>2, <3>1, <3>2
  <2>5. \A i \in 1..5 : KeyUsageOidDer[i] = c[i]
    <3>1. \A i \in 1..5 : i \in {1, 2, 3, 4, 5}
      OBVIOUS
    <3>2. QED BY <2>4, <3>1, OidDerIs
  <2>6. QED BY <1>3, <1>4, <1>5, <2>3, <2>5
<1>7. ASSUME IsPrefix(KeyUsageOidDer, c)
      PROVE  oid = KeyUsageOid
  <2>1. c[2] = 3 /\ c[3] = 85 /\ c[4] = 29 /\ c[5] = 15
    BY <1>5, <1>7, OidDerIs
  <2>2. Heading(n) \in 2..4
    BY <1>3 DEF Heading
  <2>3. a[2] = 3
    BY <1>2, <1>3, <1>4, <2>1, <2>2
  <2>4. n = 3 /\ Heading(n) = 2
    BY <1>2, <1>3, <2>3 DEF Announces, Heading
  <2>5. a[2 + 1] = 85 /\ a[2 + 2] = 29 /\ a[2 + 3] = 15
    BY <1>2, <1>4, <2>1, <2>4
  <2>6. Len(oid) = 3 /\ oid[1] = 85 /\ oid[2] = 29 /\ oid[3] = 15
    BY <1>2, <2>4, <2>5 DEF n
  <2>7. \A i \in 1..Len(oid) : oid[i] = KeyUsageOid[i]
    BY <2>6, OidDerIs
  <2>8. PICK k : k = KeyUsageOid
    OBVIOUS
  <2>9. k \in Seq(Octet) /\ Len(k) = Len(oid) /\ \A i \in 1..Len(oid) : oid[i] = k[i]
    BY <2>6, <2>7, <2>8, OidDerIs
  <2>10. QED BY <1>1, <2>8, <2>9, SameSequence
<1>8. QED BY <1>6, <1>7 DEF c, oid

\* The value is found behind the OID, with critical written or not.
LEMMA ValueRead ==
  ASSUME NEW ext, Written(ext), ext.oid = KeyUsageOid,
         NEW e, e.content = ExtensionContent(ext)
  PROVE  Value(e) = {[tag |-> 4, content |-> ExtensionValue(ext),
                      end |-> Len(ExtensionContent(ext))]}
<1> DEFINE a == OidDer(ext)
           b == Criticality(ext)
           v == ValueDer(ext)
           c == ExtensionContent(ext)
           value == [tag |-> 4, content |-> ExtensionValue(ext), end |-> Len(c)]
           r(d) == IF d.tag = 1 THEN Element(c, d.end) ELSE {d}
<1>1. /\ ext.oid \in Seq(Octet) /\ ExtensionValue(ext) \in Seq(Octet)
      /\ Len(ext.oid) < Limit /\ Len(ExtensionValue(ext)) < Limit
      /\ a \in Seq(Octet) /\ b \in Seq(Octet) /\ v \in Seq(Octet) /\ c \in Seq(Octet)
      /\ a \o b \in Seq(Octet) /\ c = (a \o b) \o v
      /\ Len(a \o b) = Len(a) + Len(b) /\ Len(c) = Len(a \o b) + Len(v)
      /\ ext.critical => Len(b) = 3
      /\ ~ext.critical => Len(b) = 0
  BY ExtensionParts
<1>2. 6 \in Octet /\ 1 \in Octet /\ 4 \in Octet /\ 255 \in Octet
  BY OctetIs
<1>3. Len(a) = 5
  <2>1. Len(ext.oid) = 3
    BY OidDerIs
  <2>2. Len(a) = Heading(Len(ext.oid)) + Len(ext.oid)
    BY <1>1, <1>2, TlvIs DEF OidDer
  <2>3. QED BY <2>1, <2>2 DEF Heading
<1>4. Value(e) = UNION {r(d) : d \in Element(c, 5)}
  <2>1. Len(KeyUsageOidDer) = 5
    BY OidDerIs
  <2>2. QED BY <2>1 DEF Value
<1>5. v = Tlv(4, ExtensionValue(ext))
  BY DEF ValueDer
<1> HIDE DEF a, b, v, c
<1>6. Stands(v, c, Len(a \o b)) /\ Len(a \o b) \in Nat /\ Len(v) \in Nat
  <2>1. PICK ab : ab = a \o b
    OBVIOUS
  <2>2. ab \in Seq(Octet) /\ c = ab \o v
    BY <1>1, <2>1
  <2>3. Stands(v, c, Len(ab))
    BY <1>1, <2>2, StandsInJoined
  <2>4. QED BY <1>1, <2>1, <2>2, <2>3
<1>7. Element(c, Len(a \o b)) = {value}
  <2>1. Element(c, Len(a \o b)) = {[tag |-> 4, content |-> ExtensionValue(ext),
                                    end |-> Len(a \o b) + Len(v)]}
    <3>1. PICK at, tag : at = Len(a \o b) /\ tag = 4
      OBVIOUS
    <3>2. v = Tlv(tag, ExtensionValue(ext)) /\ Stands(v, c, at) /\ tag \in Octet /\ at \in Nat
      BY <1>2, <1>5, <1>6, <3>1
    <3>3. PICK content : content = ExtensionValue(ext)
      OBVIOUS
    <3>4. /\ content \in Seq(Octet) /\ Len(content) < Limit
          /\ v = Tlv(tag, content) /\ c \in Seq(Octet)
      BY <1>1, <3>2, <3>3
    <3>5. Element(c, at) = {[tag |-> tag, content |-> content, end |-> at + Len(v)]}
      BY <3>2, <3>4, ReadsWhatWasWritten, SMTT(30)
    <3>6. QED BY <3>1, <3>3, <3>5
  <2>2. QED BY <1>1, <2>1
<1>8. r(value) = {value}
  <2>1. value.tag = 4
    OBVIOUS
  <2> HIDE DEF value
  <2>2. QED BY <2>1
<1> HIDE DEF value, r
<1>9. CASE ~ext.critical
  <2>1. Element(c, 5) = {value}
    BY <1>1, <1>3, <1>7, <1>9
  <2>2. UNION {r(d) : d \in {value}} = r(value)
    OBVIOUS
  <2>3. QED BY <1>4, <1>8, <2>1, <2>2 DEF value, c
<1>10. CASE ext.critical
  <2> DEFINE flag == [tag |-> 1, content |-> <<255>>, end |-> 8]
  <2>1. Element(c, 5) = {flag}
    <3>1. PICK content : content = <<255>>
      OBVIOUS
    <3>2. content \in Seq(Octet) /\ Len(content) < Limit
      <4>1. <<255>> \in Seq(Octet) /\ Len(<<255>>) = 1
        BY <1>2, ShortSequences
      <4>2. Len(<<255>>) < Limit
        BY <4>1, Short
      <4>3. QED BY <3>1, <4>1, <4>2
    <3>3. b = Tlv(1, content)
      BY <1>10, <3>1 DEF b, Criticality
    <3>4. Stands(b, c, 5)
      <4>1. Stands(b, a \o b, Len(a))
        BY <1>1, StandsInJoined
      <4>2. PICK ab : ab = a \o b
        OBVIOUS
      <4>3. Stands(b, ab, 5) /\ ab \in Seq(Octet) /\ c = ab \o v
        BY <1>1, <1>3, <4>1, <4>2
      <4>4. QED BY <1>1, <4>3, StandsInJoined
    <3>5. Element(c, 5) = {[tag |-> 1, content |-> content, end |-> 5 + Len(b)]}
      <4>1. PICK at, tag : at = 5 /\ tag = 1
        OBVIOUS
      <4>2. b = Tlv(tag, content) /\ Stands(b, c, at) /\ tag \in Octet /\ at \in Nat
        BY <1>2, <3>3, <3>4, <4>1
      <4>3. Element(c, at) = {[tag |-> tag, content |-> content, end |-> at + Len(b)]}
        <5>1. PICK t : t = b
          OBVIOUS
        <5>2. c \in Seq(Octet) /\ t = Tlv(tag, content) /\ Stands(t, c, at)
          BY <1>1, <4>2, <5>1
        <5>3. Element(c, at) = {[tag |-> tag, content |-> content, end |-> at + Len(t)]}
          BY <3>2, <4>2, <5>2, ReadsWhatWasWritten, SMTT(30)
        <5>4. QED BY <5>1, <5>3
      <4>4. QED BY <4>1, <4>3
    <3>6. 5 + Len(b) = 8
      <4>1. Len(b) = 3
        BY <1>1, <1>10, Zenon
      <4>2. QED BY <4>1
    <3>7. QED BY <3>1, <3>5, <3>6
  <2>2. r(flag) = {value}
    <3>1. flag.tag = 1 /\ flag.end = 8
      OBVIOUS
    <3>2. Len(a \o b) = 8
      <4>1. Len(b) = 3
        BY <1>1, <1>10, Zenon
      <4>2. QED BY <1>1, <1>3, <4>1
    <3> HIDE DEF flag
    <3>3. QED BY <1>7, <3>1, <3>2 DEF r
  <2> HIDE DEF flag
  <2>3. UNION {r(d) : d \in {flag}} = r(flag)
    OBVIOUS
  <2>4. QED BY <1>4, <2>1, <2>2, <2>3 DEF value, c
<1>11. QED BY <1>9, <1>10

\* A bit set in the octets of a prefix is set in the whole.
LEMMA BitSetAhead ==
  ASSUME NEW s \in Seq(Octet), NEW t \in Seq(Octet), Len(s) <= Len(t),
         \A i \in 1..Len(s) : s[i] = t[i], NEW b \in Asked, BitSet(s, b)
  PROVE  BitSet(t, b)
<1> DEFINE octet == Position[b] \div 8
<1>1. octet \in Nat
  BY DEF Position, Asked
<1>2. Len(s) \in Nat /\ Len(t) \in Nat
  OBVIOUS
<1>3. octet < Len(s) - 1 /\ (s[octet + 2] \div (2 ^ (7 - (Position[b] % 8)))) % 2 = 1
  BY DEF BitSet
<1> HIDE DEF octet
<1>4. octet + 2 \in 1..Len(s)
  BY <1>1, <1>2, <1>3
<1>5. s[octet + 2] = t[octet + 2]
  BY <1>4
<1>6. octet < Len(t) - 1 /\ (t[octet + 2] \div (2 ^ (7 - (Position[b] % 8)))) % 2 = 1
  BY <1>1, <1>2, <1>3, <1>5
<1>7. QED BY <1>6 DEF BitSet, octet

\* What is read of a keyUsage that is cut short was asserted; nothing is
\* missed of one that is whole.
LEMMA BitsRead ==
  ASSUME NEW ext, Written(ext), ext.oid = KeyUsageOid, NEW b \in Asked
  PROVE  /\ \A s \in Element(ExtensionValue(ext), 0) : BitSet(s.content, b) => b \in ext.bits
         /\ ext.lacks = 0 /\ b \in ext.bits =>
              \E s \in Element(ExtensionValue(ext), 0) : BitSet(s.content, b)
<1> DEFINE w == WholeValue(ext)
           v == ExtensionValue(ext)
<1>1. ext.bits \in SUBSET Bit /\ ext.lacks \in Nat /\ ext \in Extension
      /\ ext.lacks <= Len(WholeValue(ext))
  BY DEF Written, Extension
<1>2. PICK bs \in Seq(Octet) :
        /\ Len(bs) \in 1..3 /\ BitString(ext.bits) = Tlv(3, bs)
        /\ \A bit \in Asked : BitSet(bs, bit) <=> bit \in ext.bits
  BY <1>1, BitStringIs
<1>3. w = Tlv(3, bs)
  BY <1>2 DEF WholeValue
<1>4. /\ v \in Seq(Octet) /\ w \in Seq(Octet) /\ Len(v) = Len(w) - ext.lacks
      /\ Len(v) <= Len(w) /\ \A i \in 1..Len(v) : v[i] = w[i]
  <2>1. v \in Seq(Octet) /\ w \in Seq(Octet) /\ Len(v) = Len(w) - ext.lacks
    BY <1>1, ValueIs
  <2>2. Stands(v, w, 0)
    BY <1>1, ValueIs
  <2> HIDE DEF v, w
  <2>3. \A i \in 1..Len(v) : v[0 + i] = w[0 + i] /\ 0 + i = i
    BY <2>1, <2>2 DEF Stands
  <2>4. QED BY <1>1, <2>1, <2>3
<1> HIDE DEF v, w
<1>5. Len(bs) < Limit /\ 3 \in Octet
  <2>1. Len(bs) \in 0..255
    <3>1. Len(bs) \in 1..3
      BY <1>2
    <3>2. QED BY <3>1
  <2>2. Len(bs) < Limit
    BY <2>1, Short
  <2>3. 3 \in Octet
    BY OctetIs
  <2>4. QED BY <2>2, <2>3
<1>6. /\ Len(w) = 2 + Len(bs) /\ w[2] = Len(bs)
      /\ \A i \in 1..Len(bs) : w[2 + i] = bs[i]
  <2>1. /\ Len(w) = Heading(Len(bs)) + Len(bs) /\ Announces(w, Len(bs))
        /\ \A i \in 1..Len(bs) : w[Heading(Len(bs)) + i] = bs[i]
    BY <1>2, <1>3, <1>5, TlvIs
  <2>2. Heading(Len(bs)) = 2 /\ Len(bs) < 128
    <3>1. Len(bs) \in 1..3
      BY <1>2
    <3>2. \A n \in 1..3 : Heading(n) = 2 /\ n < 128
      BY DEF Heading
    <3>3. QED BY <3>1, <3>2, Zenon
  <2>3. QED BY <2>1, <2>2 DEF Announces
<1>7. ASSUME NEW s \in Element(v, 0), BitSet(s.content, b)
      PROVE  b \in ext.bits
  <2>1. Len(v) \in Nat /\ 0 + 1 < Len(v) /\ s = ReadTlv(v, 0)
    BY <1>4, <1>7 DEF Element
  <2>2. v[2] = Len(bs)
    BY <1>4, <1>6, <2>1
  <2>3. s.content = Slice(v, 2, 2 + Len(bs))
    <3>1. v[0 + 2] = Len(bs) /\ ~(v[0 + 2] >= 128)
      <4>1. Len(bs) \in 1..3
        BY <1>2
      <4>2. Len(bs) < 128 /\ ~(Len(bs) >= 128)
        <5>1. \A n \in 1..3 : n < 128 /\ ~(n >= 128)
          OBVIOUS
        <5>2. QED BY <4>1, <5>1, Zenon
      <4>3. v[0 + 2] = Len(bs)
        BY <2>2
      <4>4. QED BY <4>2, <4>3
    <3>2. ReadTlv(v, 0).content = Slice(v, 0 + 2 + 0, 0 + 2 + 0 + v[0 + 2])
      BY <3>1, Zenon DEF ReadTlv
    <3>3. QED BY <1>2, <2>1, <3>1, <3>2
  <2>4. 2 + Len(bs) \in Nat /\ Len(bs) \in Nat
    BY <1>2
  <2>5. LET c == Slice(v, 2, 2 + Len(bs)) IN
        /\ c \in Seq(Octet)
        /\ 2 + Len(bs) <= Len(v) =>
             /\ Len(c) = IF 2 < 2 + Len(bs) THEN 2 + Len(bs) - 2 ELSE 0
             /\ \A i \in 1..2 + Len(bs) - 2 : c[i] = v[2 + i]
        /\ Len(v) < 2 + Len(bs) =>
             /\ Len(c) = IF 2 < Len(v) THEN Len(v) - 2 ELSE 0
             /\ \A i \in 1..Len(v) - 2 : c[i] = v[2 + i]
    <3>1. PICK from, to : from = 2 /\ to = 2 + Len(bs)
      OBVIOUS
    <3>2. from \in Nat /\ to \in Nat
      BY <2>4, <3>1
    <3>3. LET c == Slice(v, from, to) IN
          /\ c \in Seq(Octet)
          /\ to <= Len(v) => /\ Len(c) = IF from < to THEN to - from ELSE 0
                             /\ \A i \in 1..to - from : c[i] = v[from + i]
          /\ Len(v) < to => /\ Len(c) = IF from < Len(v) THEN Len(v) - from ELSE 0
                            /\ \A i \in 1..Len(v) - from : c[i] = v[from + i]
      BY <1>4, <3>2, SliceIs
    <3>4. QED BY <3>1, <3>3
  <2> DEFINE c == Slice(v, 2, 2 + Len(bs))
  <2> HIDE DEF c
  <2>6. /\ c \in Seq(Octet) /\ Len(c) <= Len(bs) /\ Len(c) <= Len(v) - 2
        /\ \A i \in 1..Len(c) : c[i] = v[2 + i]
    BY <1>2, <2>1, <2>4, <2>5 DEF c
  <2>7. \A i \in 1..Len(c) : c[i] = bs[i]
    <3> SUFFICES ASSUME NEW i \in 1..Len(c)
                 PROVE  c[i] = bs[i]
      OBVIOUS
    <3>1. 2 + i \in 1..Len(v) /\ i \in 1..Len(bs)
      BY <2>1, <2>4, <2>6
    <3>2. QED BY <1>4, <1>6, <2>6, <3>1
  <2>8. BitSet(c, b)
    BY <1>7, <2>3 DEF c
  <2>9. BitSet(bs, b)
    BY <2>6, <2>7, <2>8, BitSetAhead
  <2>10. QED BY <1>2, <2>9
<1>8. ASSUME ext.lacks = 0, b \in ext.bits
      PROVE  \E s \in Element(v, 0) : BitSet(s.content, b)
  <2>1. v = w
    BY <1>4, <1>8, SameSequence
  <2>2. Stands(w, v, 0)
    BY <1>4, <2>1 DEF Stands
  <2>3. Element(v, 0) = {[tag |-> 3, content |-> bs, end |-> 0 + Len(w)]}
    BY <1>2, <1>3, <1>4, <1>5, <2>2, ReadsWhatWasWritten, SMTT(30)
  <2>4. BitSet(bs, b)
    BY <1>2, <1>8
  <2>5. PICK s : s = [tag |-> 3, content |-> bs, end |-> 0 + Len(w)]
    OBVIOUS
  <2>6. s \in Element(v, 0) /\ s.content = bs
    BY <2>3, <2>5
  <2>7. BitSet(s.content, b)
    BY <2>4, <2>6
  <2>8. QED BY <2>6, <2>7
<1>9. QED BY <1>7, <1>8 DEF v

-----------------------------------------------------------------------------
(* The whole certificate.                                                  *)

ExtensionDers(cert) == [i \in DOMAIN cert.extensions |-> ExtensionDer(cert.extensions[i])]
ExtensionList(cert) == FlattenSeq(ExtensionDers(cert))
ListDer(cert) == Tlv(48, ExtensionList(cert))
SerialDer(cert) == Tlv(2, cert.serial)
NamesDer(cert) == Tlv(48, cert.names)
ExtensionsDer(cert) == IF cert.extensions = <<>> THEN <<>> ELSE Tlv(163, ListDer(cert))
Fields(cert) == (SerialDer(cert) \o NamesDer(cert)) \o ExtensionsDer(cert)

\* The TBSCertificate as one element.
LEMMA TbsIs == \A cert : TbsDer(cert) = Tlv(48, Fields(cert))
BY DEF TbsDer, Fields, ExtensionsDer, ListDer, ExtensionList, ExtensionDers, SerialDer, NamesDer

\* What a well-formed certificate consists of.
LEMMA CertificateIs ==
  ASSUME NEW cert \in Certificate, WellFormed(cert)
  PROVE  /\ cert.serial \in Seq(Octet) /\ cert.names \in Seq(Octet)
         /\ cert.extensions \in Seq(Extension)
         /\ DOMAIN cert.extensions = 1..Len(cert.extensions) /\ Len(cert.extensions) \in Nat
         /\ \A i \in 1..Len(cert.extensions) :
              /\ cert.extensions[i] \in Extension
              /\ cert.extensions[i].lacks <= Len(WholeValue(cert.extensions[i]))
         /\ cert.extensions = <<>> <=> Len(cert.extensions) = 0
<1>1. /\ cert.serial \in Seq(Octet) /\ cert.names \in Seq(Octet)
      /\ cert.extensions \in Seq(Extension)
  BY DEF Certificate
<1>2. /\ DOMAIN cert.extensions = 1..Len(cert.extensions) /\ Len(cert.extensions) \in Nat
      /\ \A i \in 1..Len(cert.extensions) : cert.extensions[i] \in Extension
      /\ cert.extensions = <<>> <=> Len(cert.extensions) = 0
  BY <1>1
<1>3. \A i \in DOMAIN cert.extensions :
        cert.extensions[i].lacks <= Len(WholeValue(cert.extensions[i]))
  BY DEF WellFormed
<1>4. QED BY <1>1, <1>2, <1>3

\* Every length is written with two octets at most.
LEMMA Sizes ==
  ASSUME NEW cert \in Certificate, WellFormed(cert)
  PROVE  /\ Len(cert.serial) < Limit /\ Len(cert.names) < Limit /\ Len(Fields(cert)) < Limit
         /\ cert.extensions # <<>> =>
              /\ Len(ListDer(cert)) < Limit /\ Len(ExtensionList(cert)) < Limit
              /\ \A i \in 1..Len(cert.extensions) : Written(cert.extensions[i])
<1> DEFINE exts == cert.extensions
           n == Len(cert.extensions)
           ders == ExtensionDers(cert)
           list == ExtensionList(cert)
           s == SerialDer(cert)
           m == NamesDer(cert)
           x == ExtensionsDer(cert)
           f == Fields(cert)
<1>1. 2 \in Octet /\ 48 \in Octet /\ 163 \in Octet
  BY OctetIs
<1>2. /\ cert.serial \in Seq(Nat) /\ cert.names \in Seq(Nat) /\ DOMAIN exts = 1..n /\ n \in Nat
      /\ \A i \in 1..n : exts[i] \in Extension /\ exts[i].lacks <= Len(WholeValue(exts[i]))
  BY CertificateIs, OctetsAreNumbers
<1>3. ders \in Seq(Seq(Nat)) /\ Len(ders) = n /\ \A i \in 1..n : ders[i] = ExtensionDer(exts[i])
  <2>1. \A i \in 1..n : ExtensionDer(exts[i]) \in Seq(Nat)
    BY <1>2, ExtensionIs
  <2>2. ders = [i \in 1..n |-> ExtensionDer(exts[i])]
    BY <1>2 DEF ExtensionDers
  <2> HIDE DEF exts, n, ders
  <2>3. QED BY <1>2, <2>1, <2>2
<1>4. list \in Seq(Nat) /\ \A i \in 1..n : Len(ExtensionDer(exts[i])) <= Len(list)
  <2>1. list = FlattenSeq(ders)
    BY DEF ExtensionList
  <2> HIDE DEF ders, list, n, exts
  <2>2. PICK end \in [0..Len(ders) -> Nat] :
               /\ end[0] = 0 /\ end[Len(ders)] = Len(list)
               /\ \A i \in 1..Len(ders) :
                    end[i] = end[i - 1] + Len(ders[i]) /\ Stands(ders[i], list, end[i - 1])
    BY <1>3, <2>1, FlatStands
  <2>3. list \in Seq(Nat)
    BY <1>3, <2>1, FlatStands
  <2>4. ASSUME NEW i \in 1..n
        PROVE  Len(ExtensionDer(exts[i])) <= Len(list)
    <3>1. i - 1 \in 0..Len(ders) /\ i \in 1..Len(ders)
      BY <1>2, <1>3
    <3>2. end[i - 1] \in Nat /\ ders[i] \in Seq(Nat) /\ Stands(ders[i], list, end[i - 1])
      <4>1. end[i - 1] \in Nat
        BY <3>1
      <4>2. ders[i] \in Seq(Nat)
        BY <1>3, <3>1
      <4>3. Stands(ders[i], list, end[i - 1])
        BY <2>2, <3>1
      <4>4. QED BY <4>1, <4>2, <4>3
    <3>3. end[i - 1] + Len(ders[i]) <= Len(list) /\ Len(ders[i]) \in Nat /\ Len(list) \in Nat
      BY <2>3, <3>2 DEF Stands
    <3>4. Len(ders[i]) <= Len(list)
      BY <3>2, <3>3
    <3>5. QED BY <1>3, <3>4
  <2>5. QED BY <2>3, <2>4
<1>5. /\ ListDer(cert) \in Seq(Nat) /\ Len(list) < Len(ListDer(cert)) /\ Len(list) \in Nat
  BY <1>1, <1>4, TlvLonger DEF ListDer
<1>6. /\ Tlv(163, ListDer(cert)) \in Seq(Nat) /\ Len(ListDer(cert)) \in Nat
      /\ Len(ListDer(cert)) < Len(Tlv(163, ListDer(cert)))
  BY <1>1, <1>5, TlvLonger
<1>7. /\ x \in Seq(Nat) /\ Len(x) \in Nat
      /\ exts # <<>> => Len(ListDer(cert)) < Len(x)
  <2>1. CASE exts = <<>>
    BY <2>1 DEF ExtensionsDer
  <2>2. CASE exts # <<>>
    BY <1>6, <2>2 DEF ExtensionsDer
  <2>3. QED BY <2>1, <2>2
<1>8. s \in Seq(Nat) /\ Len(cert.serial) < Len(s) /\ Len(cert.serial) \in Nat
  BY <1>1, <1>2, TlvLonger DEF SerialDer
<1>9. m \in Seq(Nat) /\ Len(cert.names) < Len(m) /\ Len(cert.names) \in Nat
  BY <1>1, <1>2, TlvLonger DEF NamesDer
<1>10. f = (s \o m) \o x
  BY DEF Fields
<1> HIDE DEF s, m, x, f, list, exts, n, ders
<1>11. s \o m \in Seq(Nat) /\ Len(s \o m) = Len(s) + Len(m) /\ Len(s) \in Nat /\ Len(m) \in Nat
  BY <1>8, <1>9, Concatenated
<1>12. f \in Seq(Nat) /\ Len(f) = Len(s \o m) + Len(x)
  BY <1>7, <1>10, <1>11, Concatenated
<1>13. Len(f) < Len(TbsDer(cert)) /\ Len(f) \in Nat /\ Len(TbsDer(cert)) \in Nat
  <2>1. TbsDer(cert) = Tlv(48, f)
    BY TbsIs DEF f
  <2>2. TbsDer(cert) \in Seq(Nat) /\ Len(f) < Len(TbsDer(cert)) /\ Len(f) \in Nat
    BY <1>1, <1>12, <2>1, TlvLonger
  <2>3. QED BY <2>2
<1>14. Len(TbsDer(cert)) < Limit
  BY DEF WellFormed
<1>15. Len(f) < Limit /\ Len(cert.serial) < Limit /\ Len(cert.names) < Limit
  <2>1. Len(f) < Limit
    BY <1>13, <1>14, LimitIs
  <2>2. Len(x) \in Nat
    BY <1>7
  <2>3. Len(cert.serial) < Len(f)
    BY <1>8, <1>11, <1>12, <2>2
  <2>4. Len(cert.names) < Len(f)
    BY <1>9, <1>11, <1>12, <2>2
  <2>5. QED BY <1>8, <1>9, <1>13, <2>1, <2>3, <2>4, LimitIs
<1>16. ASSUME exts # <<>>
       PROVE  /\ Len(ListDer(cert)) < Limit /\ Len(list) < Limit
              /\ \A i \in 1..n : Written(exts[i])
  <2>1. Len(ListDer(cert)) < Len(x)
    BY <1>7, <1>16
  <2>2. Len(ListDer(cert)) < Limit /\ Len(list) < Limit
    <3>1. Len(x) \in Nat
      BY <1>7
    <3>2. Len(ListDer(cert)) < Len(f)
      BY <1>6, <1>11, <1>12, <2>1, <3>1
    <3>3. QED BY <1>5, <1>6, <1>13, <1>15, <3>2, LimitIs
  <2>3. ASSUME NEW i \in 1..n
        PROVE  Written(exts[i])
    <3>1. Len(ExtensionDer(exts[i])) \in Nat
      BY <1>2, ExtensionIs
    <3>2. Len(ExtensionDer(exts[i])) < Limit
      BY <1>4, <1>5, <2>2, <3>1, LimitIs
    <3>3. QED BY <1>2, <3>2 DEF Written
  <2>4. QED BY <2>2, <2>3
<1>17. QED BY <1>15, <1>16 DEF f, list, exts, n

\* Where the fields stand in the TBSCertificate.
LEMMA TbsParts ==
  ASSUME NEW cert \in Certificate, WellFormed(cert)
  PROVE  /\ SerialDer(cert) \in Seq(Octet) /\ NamesDer(cert) \in Seq(Octet)
         /\ ExtensionsDer(cert) \in Seq(Octet) /\ Fields(cert) \in Seq(Octet)
         /\ TbsDer(cert) \in Seq(Octet)
         /\ cert.extensions # <<>> =>
              /\ ExtensionList(cert) \in Seq(Octet) /\ ListDer(cert) \in Seq(Octet)
              /\ ExtensionDers(cert) \in Seq(Seq(Octet))
              /\ Len(ExtensionDers(cert)) = Len(cert.extensions)
<1> DEFINE exts == cert.extensions
           n == Len(cert.extensions)
           ders == ExtensionDers(cert)
<1>1. 2 \in Octet /\ 48 \in Octet /\ 163 \in Octet
  BY OctetIs
<1>2. /\ Len(cert.serial) < Limit /\ Len(cert.names) < Limit /\ Len(Fields(cert)) < Limit
      /\ exts # <<>> =>
           /\ Len(ListDer(cert)) < Limit /\ Len(ExtensionList(cert)) < Limit
           /\ \A i \in 1..n : Written(exts[i])
  BY Sizes
<1>3. cert.serial \in Seq(Octet) /\ cert.names \in Seq(Octet) /\ DOMAIN exts = 1..n /\ n \in Nat
  BY CertificateIs
<1>4. SerialDer(cert) \in Seq(Octet) /\ NamesDer(cert) \in Seq(Octet)
  BY <1>1, <1>2, <1>3, TlvIs DEF SerialDer, NamesDer
<1>5. ASSUME exts # <<>>
      PROVE  /\ ExtensionList(cert) \in Seq(Octet) /\ ListDer(cert) \in Seq(Octet)
             /\ ders \in Seq(Seq(Octet)) /\ Len(ders) = n
             /\ Tlv(163, ListDer(cert)) \in Seq(Octet)
  <2>1. ASSUME NEW i \in 1..n
        PROVE  ExtensionDer(exts[i]) \in Seq(Octet)
    <3>1. PICK ext : ext = exts[i]
      OBVIOUS
    <3>2. Written(ext)
      BY <1>2, <1>5, <3>1
    <3>3. ExtensionContent(ext) \in Seq(Octet) /\ Len(ExtensionContent(ext)) < Limit
      BY <3>2, ExtensionParts
    <3>4. ExtensionDer(ext) = Tlv(48, ExtensionContent(ext))
      BY <3>2, ExtensionIs DEF Written
    <3>5. ExtensionDer(ext) \in Seq(Octet)
      BY <1>1, <3>3, <3>4, TlvIs
    <3>6. QED BY <3>1, <3>5
  <2>2. ders = [i \in 1..n |-> ExtensionDer(exts[i])]
    BY <1>3 DEF ExtensionDers
  <2> HIDE DEF exts, n, ders
  <2>3. ders \in Seq(Seq(Octet)) /\ Len(ders) = n
    BY <1>3, <2>1, <2>2
  <2>4. ExtensionList(cert) \in Seq(Octet)
    BY <2>3, FlatStands DEF ExtensionList, ders
  <2>5. ListDer(cert) \in Seq(Octet)
    BY <1>1, <1>2, <1>5, <2>4, TlvIs DEF ListDer
  <2>6. Tlv(163, ListDer(cert)) \in Seq(Octet)
    BY <1>1, <1>2, <1>5, <2>5, TlvIs
  <2>7. QED BY <2>3, <2>4, <2>5, <2>6
<1>6. ExtensionsDer(cert) \in Seq(Octet)
  <2>1. CASE exts = <<>>
    BY <2>1 DEF ExtensionsDer
  <2>2. CASE exts # <<>>
    BY <1>5, <2>2 DEF ExtensionsDer
  <2>3. QED BY <2>1, <2>2
<1>7. Fields(cert) \in Seq(Octet)
  <2>1. SerialDer(cert) \o NamesDer(cert) \in Seq(Octet)
    BY <1>4, Joined
  <2>2. QED BY <1>6, <2>1, Joined DEF Fields
<1>8. TbsDer(cert) \in Seq(Octet)
  BY <1>1, <1>2, <1>7, TbsIs, TlvIs
<1>9. QED BY <1>4, <1>5, <1>6, <1>7, <1>8

\* The first _read_tlv of _key_usage_from_tbs returns all the fields.
LEMMA TbsRead ==
  ASSUME NEW cert \in Certificate, WellFormed(cert)
  PROVE  Element(TbsDer(cert), 0)
           = {[tag |-> 48, content |-> Fields(cert), end |-> Len(TbsDer(cert))]}
<1>1. PICK tag, at, f, t :
        tag = 48 /\ at = 0 /\ f = Fields(cert) /\ t = TbsDer(cert)
  OBVIOUS
<1>2. /\ tag \in Octet /\ at \in Nat /\ f \in Seq(Octet) /\ Len(f) < Limit /\ t \in Seq(Octet)
      /\ t = Tlv(tag, f)
  <2>1. tag \in Octet /\ at \in Nat
    BY <1>1, OctetIs
  <2>2. f \in Seq(Octet) /\ t \in Seq(Octet)
    BY <1>1, TbsParts
  <2>3. Len(f) < Limit
    BY <1>1, Sizes
  <2>4. t = Tlv(tag, f)
    BY <1>1, TbsIs
  <2>5. QED BY <2>1, <2>2, <2>3, <2>4
<1>3. Len(t) \in Nat /\ at = 0
  BY <1>1, <1>2
<1>4. Stands(t, t, at)
  BY <1>3 DEF Stands
<1>5. Element(t, at) = {[tag |-> tag, content |-> f, end |-> at + Len(t)]}
  BY <1>2, <1>4, ReadsWhatWasWritten, SMTT(30)
<1>6. at + Len(t) = Len(t)
  BY <1>3
<1>7. QED BY <1>1, <1>5, <1>6

\* The block of extensions is found behind the other fields.
LEMMA ExtensionsRead ==
  ASSUME NEW cert \in Certificate, WellFormed(cert)
  PROVE  Extensions(TbsDer(cert))
           = IF cert.extensions = <<>> THEN {}
             ELSE {[tag |-> 163, content |-> ListDer(cert), end |-> Len(Fields(cert))]}
<1> DEFINE s == SerialDer(cert)
           m == NamesDer(cert)
           x == ExtensionsDer(cert)
           f == Fields(cert)
           block == [tag |-> 163, content |-> ListDer(cert), end |-> Len(f)]
           first == [tag |-> 2, content |-> cert.serial, end |-> Len(s)]
           second == [tag |-> 48, content |-> cert.names, end |-> Len(s) + Len(m)]
<1>1. Extensions(TbsDer(cert)) = First(f, {163}, <<>>)
  <2> DEFINE r(fields) == First(fields.content, {163}, <<>>)
  <2>1. PICK fields : fields = [tag |-> 48, content |-> f, end |-> Len(TbsDer(cert))]
    OBVIOUS
  <2>2. Element(TbsDer(cert), 0) = {fields} /\ fields.content = f
    BY <2>1, TbsRead
  <2>3. Extensions(TbsDer(cert)) = UNION {r(d) : d \in {fields}}
    BY <2>2 DEF Extensions
  <2>4. r(fields) = First(f, {163}, <<>>)
    BY <2>2
  <2> HIDE DEF r
  <2>5. UNION {r(d) : d \in {fields}} = r(fields)
    OBVIOUS
  <2>6. QED BY <2>3, <2>4, <2>5
<1>2. /\ s \in Seq(Octet) /\ m \in Seq(Octet) /\ x \in Seq(Octet) /\ f \in Seq(Octet)
      /\ f = (s \o m) \o x /\ s \o m \in Seq(Octet) /\ Len(s \o m) = Len(s) + Len(m)
      /\ Len(f) = Len(s \o m) + Len(x)
      /\ Len(s) \in Nat /\ Len(m) \in Nat /\ Len(x) \in Nat /\ Len(f) \in Nat
  <2>1. s \in Seq(Octet) /\ m \in Seq(Octet) /\ x \in Seq(Octet) /\ f \in Seq(Octet)
    BY TbsParts
  <2>2. f = (s \o m) \o x
    BY DEF Fields
  <2> HIDE DEF s, m, x, f
  <2>3. s \o m \in Seq(Octet) /\ Len(s \o m) = Len(s) + Len(m)
    BY <2>1, Joined
  <2>4. Len(f) = Len(s \o m) + Len(x)
    BY <2>1, <2>2, <2>3, Joined
  <2>5. QED BY <2>1, <2>2, <2>3, <2>4
<1>3. /\ cert.serial \in Seq(Octet) /\ cert.names \in Seq(Octet)
      /\ Len(cert.serial) < Limit /\ Len(cert.names) < Limit
  BY CertificateIs, Sizes
<1>4. s = Tlv(2, cert.serial) /\ m = Tlv(48, cert.names)
  BY DEF SerialDer, NamesDer
<1>5. cert.extensions # <<>> => x = Tlv(163, ListDer(cert)) /\ ListDer(cert) \in Seq(Octet)
                                /\ Len(ListDer(cert)) < Limit
  BY TbsParts, Sizes DEF ExtensionsDer
<1>6. cert.extensions = <<>> => Len(x) = 0
  BY DEF ExtensionsDer
<1> HIDE DEF s, m, x, f
<1>7. Stands(s, f, 0) /\ Stands(m, f, Len(s)) /\ Stands(x, f, Len(s \o m))
  <2>1. PICK sm : sm = s \o m
    OBVIOUS
  <2>2. sm \in Seq(Octet) /\ f = sm \o x /\ Len(sm) = Len(s) + Len(m)
    BY <1>2, <2>1
  <2>3. Stands(s, sm, 0) /\ Stands(m, sm, Len(s))
    BY <1>2, <2>1, StandsInJoined
  <2>4. Stands(x, f, Len(sm))
    BY <1>2, <2>2, StandsInJoined
  <2>5. PICK at : at = 0
    OBVIOUS
  <2>6. Stands(s, f, at)
    BY <1>2, <2>2, <2>3, <2>5, StandsInJoined
  <2>7. Stands(m, f, Len(s))
    BY <1>2, <2>2, <2>3, StandsInJoined
  <2>8. QED BY <2>1, <2>4, <2>5, <2>6, <2>7
<1>8. Element(f, 0) = {first}
  <2>1. PICK tag, at : tag = 2 /\ at = 0 /\ tag \in Octet /\ at \in Nat
    BY OctetIs
  <2>2. PICK content : content = cert.serial
    OBVIOUS
  <2>3. /\ content \in Seq(Octet) /\ Len(content) < Limit /\ s = Tlv(tag, content)
        /\ Stands(s, f, at) /\ f \in Seq(Octet)
    BY <1>2, <1>3, <1>4, <1>7, <2>1, <2>2
  <2>4. Element(f, at) = {[tag |-> tag, content |-> content, end |-> at + Len(s)]}
    BY <2>1, <2>3, ReadsWhatWasWritten, SMTT(30)
  <2>5. at + Len(s) = Len(s)
    BY <1>2, <2>1
  <2>6. QED BY <2>1, <2>2, <2>4, <2>5
<1>9. Element(f, Len(s)) = {second}
  <2>1. PICK tag \in Octet, at \in Nat : tag = 48 /\ at = Len(s)
    <3>1. 48 \in Octet /\ Len(s) \in Nat
      <4>1. 48 \in Octet
        BY OctetIs
      <4>2. QED BY <1>2, <4>1
    <3>2. QED BY <3>1, Zenon
  <2>2. PICK content : content = cert.names
    OBVIOUS
  <2>3. /\ content \in Seq(Octet) /\ Len(content) < Limit /\ m = Tlv(tag, content)
        /\ Stands(m, f, at) /\ f \in Seq(Octet)
    BY <1>2, <1>3, <1>4, <1>7, <2>1, <2>2
  <2>4. PICK t : t = m
    OBVIOUS
  <2>5. t = Tlv(tag, content) /\ Stands(t, f, at)
    BY <2>3, <2>4
  <2>6. Element(f, at) = {[tag |-> tag, content |-> content, end |-> at + Len(t)]}
    BY <2>3, <2>5, ReadsWhatWasWritten, SMTT(30)
  <2>7. QED BY <2>1, <2>2, <2>4, <2>6
<1> DEFINE tags == {163}
           prefix == <<>>
<1> HIDE DEF tags, prefix
<1>10. PICK found :
         /\ First(f, tags, prefix) = found[0]
         /\ \A offset \in Nat : found[offset] = Round(f, tags, prefix, found, offset)
  <2>1. f \in Seq(Octet)
    BY <1>2
  <2>2. QED BY <2>1, LoopFinds, Zenon
<1>11. found[0] = found[Len(s) + Len(m)]
  <2>1. PICK d : d = first
    OBVIOUS
  <2>2. d.tag = 2 /\ d.end = Len(s) /\ Element(f, 0) = {d}
    BY <1>8, <2>1
  <2>3. ~Sought(d, tags, prefix)
    BY <2>2 DEF Sought, tags
  <2>4. found[0] = found[Len(s)]
    BY <1>10, <2>2, <2>3, RoundIs
  <2>5. PICK e : e = second
    OBVIOUS
  <2>6. e.tag = 48 /\ e.end = Len(s) + Len(m) /\ Element(f, Len(s)) = {e}
    BY <1>9, <2>5
  <2>7. ~Sought(e, tags, prefix)
    BY <2>6 DEF Sought, tags
  <2>8. found[Len(s)] = found[Len(s) + Len(m)]
    BY <1>2, <1>10, <2>6, <2>7, RoundIs
  <2>9. QED BY <2>4, <2>8
<1>12. PICK at \in Nat : at = Len(s) + Len(m) /\ at = Len(s \o m)
  BY <1>2
<1>13. CASE cert.extensions = <<>>
  <2>1. Len(f) = at
    <3>1. Len(x) = 0
      BY <1>6, <1>13, Zenon
    <3>2. QED BY <1>2, <1>12, <3>1
  <2>2. Element(f, at) = {}
    <3>1. f \in Seq(Octet) /\ at + 1 >= Len(f)
      BY <1>2, <2>1
    <3>2. QED BY <3>1, ElementIs
  <2>3. found[at] = {}
    BY <1>10, <1>12, <2>2, RoundIs
  <2>4. Extensions(TbsDer(cert)) = First(f, tags, prefix)
    BY <1>1 DEF tags, prefix
  <2>5. Extensions(TbsDer(cert)) = {}
    BY <1>10, <1>11, <1>12, <2>3, <2>4
  <2>6. QED BY <1>13, <2>5
<1>14. CASE cert.extensions # <<>>
  <2>1. Element(f, at) = {block}
    <3>1. PICK tag : tag = 163 /\ tag \in Octet
      BY OctetIs
    <3>2. PICK content : content = ListDer(cert)
      OBVIOUS
    <3>3. /\ content \in Seq(Octet) /\ Len(content) < Limit /\ x = Tlv(tag, content)
          /\ Stands(x, f, at) /\ f \in Seq(Octet)
      BY <1>2, <1>5, <1>7, <1>12, <1>14, <3>1, <3>2
    <3>4. Element(f, at) = {[tag |-> tag, content |-> content, end |-> at + Len(x)]}
      BY <1>12, <3>1, <3>3, ReadsWhatWasWritten, SMTT(30)
    <3>5. at + Len(x) = Len(f)
      BY <1>2, <1>12
    <3>6. QED BY <3>1, <3>2, <3>4, <3>5
  <2>2. PICK d : d = block
    OBVIOUS
  <2>3. d.tag = 163 /\ d.content = ListDer(cert) /\ ListDer(cert) \in Seq(Octet)
    BY <1>5, <1>14, <2>2
  <2>4. Sought(d, tags, prefix)
    <3>1. prefix \in Seq(Octet) /\ Len(prefix) = 0
      BY DEF prefix
    <3>2. PICK t \in Seq(Octet) : t = d.content
      BY <2>3
    <3>3. Len(t) \in Nat
      OBVIOUS
    <3>4. Len(prefix) <= Len(t) /\ \A i \in 1..Len(prefix) : prefix[i] = t[i]
      BY <3>1, <3>3
    <3>5. IsPrefix(prefix, t)
      BY <3>1, <3>4, PrefixIs
    <3>6. d.tag \in tags
      BY <2>3 DEF tags
    <3>7. QED BY <3>2, <3>5, <3>6 DEF Sought
  <2>5. found[at] = {d}
    <3>1. Element(f, at) = {d}
      BY <2>1, <2>2
    <3>2. Round(f, tags, prefix, found, at) = {d}
      BY <2>4, <3>1, RoundIs
    <3>3. QED BY <1>10, <3>2
  <2>6. Extensions(TbsDer(cert)) = First(f, tags, prefix)
    BY <1>1 DEF tags, prefix
  <2>7. Extensions(TbsDer(cert)) = {d}
    BY <1>10, <1>11, <1>12, <2>5, <2>6
  <2>8. QED BY <1>14, <2>2, <2>7 DEF f
<1>15. QED BY <1>13, <1>14

\* Each extension is found in the list, where the one before it ends.
LEMMA ListIsWalked ==
  ASSUME NEW cert \in Certificate, WellFormed(cert), cert.extensions # <<>>
  PROVE  \E e, end :
           /\ Listed(ExtensionList(cert), e, end, Len(cert.extensions))
           /\ \A i \in 1..Len(cert.extensions) :
                e[i].content = ExtensionContent(cert.extensions[i]) /\ e[i].tag = 48
<1> DEFINE exts == cert.extensions
           n == Len(cert.extensions)
           ders == ExtensionDers(cert)
           list == ExtensionList(cert)
<1>1. list \in Seq(Octet) /\ ders \in Seq(Seq(Octet)) /\ Len(ders) = n
  BY TbsParts
<1>2. DOMAIN exts = 1..n /\ n \in Nat /\ \A i \in 1..n : Written(exts[i])
  BY CertificateIs, Sizes
<1>3. list = FlattenSeq(ders) /\ \A i \in 1..n : ders[i] = ExtensionDer(exts[i])
  BY <1>2 DEF ExtensionList, ExtensionDers
<1> HIDE DEF exts, n, ders, list
<1>4. PICK end \in [0..Len(ders) -> Nat] :
             /\ end[0] = 0 /\ end[Len(ders)] = Len(list)
             /\ \A i \in 1..Len(ders) :
                  end[i] = end[i - 1] + Len(ders[i]) /\ Stands(ders[i], list, end[i - 1])
  BY <1>1, <1>3, FlatStands
<1> DEFINE e == [i \in 1..n |-> [tag |-> 48, content |-> ExtensionContent(exts[i]), end |-> end[i]]]
<1>5. ASSUME NEW i \in 1..n
      PROVE  Element(list, end[i - 1]) = {e[i]} /\ e[i].end = end[i]
             /\ e[i].content = ExtensionContent(exts[i]) /\ e[i].tag = 48
  <2>1. PICK ext, at, der, c, tag :
          /\ ext = exts[i] /\ at = end[i - 1] /\ der = ders[i] /\ c = ExtensionContent(ext)
          /\ tag = 48
    OBVIOUS
  <2>2. Written(ext)
    BY <1>2, <2>1
  <2>3. c \in Seq(Octet) /\ Len(c) < Limit
    BY <2>1, <2>2, ExtensionParts
  <2>4. der = Tlv(tag, c)
    BY <1>3, <2>1, <2>2, ExtensionIs DEF Written
  <2>5. tag \in Octet
    BY <2>1, OctetIs
  <2>6. i \in 1..Len(ders) /\ i - 1 \in 0..Len(ders)
    BY <1>1, <1>2
  <2>7. at \in Nat
    BY <2>1, <2>6
  <2>8. Stands(der, list, at) /\ end[i] = at + Len(der)
    BY <1>4, <2>1, <2>6
  <2>9. Element(list, at) = {[tag |-> tag, content |-> c, end |-> at + Len(der)]}
    <3>1. list \in Seq(Octet) /\ Stands(der, list, at)
      BY <1>1, <2>8
    <3>2. QED BY <2>3, <2>4, <2>5, <2>7, <3>1, ReadsWhatWasWritten, SMTT(30)
  <2>10. e[i] = [tag |-> tag, content |-> c, end |-> at + Len(der)]
    BY <2>1, <2>8
  <2> HIDE DEF e
  <2>11. QED BY <2>1, <2>8, <2>9, <2>10
<1>6. Listed(list, e, end, n)
  <2> HIDE DEF e
  <2>1. end \in [0..n -> Nat] /\ end[0] = 0 /\ end[n] = Len(list)
    BY <1>1, <1>4
  <2>2. QED BY <1>5, <2>1 DEF Listed
<1> HIDE DEF e
<1>7. QED BY <1>5, <1>6 DEF exts, n, list

\* What of the list the extension for keyUsage is.
LEMMA KeyUsageFound ==
  ASSUME NEW cert \in Certificate, WellFormed(cert), cert.extensions # <<>>,
         NEW block, block.content = ListDer(cert)
  PROVE  /\ \A i \in DOMAIN cert.extensions :
              cert.extensions[i].oid = KeyUsageOid =>
                \E d : KeyUsageExtension(block) = {d}
                       /\ d.content = ExtensionContent(cert.extensions[i])
         /\ (\A i \in DOMAIN cert.extensions : cert.extensions[i].oid # KeyUsageOid)
              => KeyUsageExtension(block) = {}
<1> DEFINE exts == cert.extensions
           n == Len(cert.extensions)
           list == ExtensionList(cert)
           listDer == ListDer(cert)
           tags == 0..255
           prefix == KeyUsageOidDer
<1>1. /\ list \in Seq(Octet) /\ listDer \in Seq(Octet) /\ Len(list) < Limit
      /\ listDer = Tlv(48, list)
  BY TbsParts, Sizes DEF ListDer
<1>2. DOMAIN exts = 1..n /\ n \in Nat /\ \A i \in 1..n : Written(exts[i])
  BY CertificateIs, Sizes
<1>3. \A i, j \in 1..n : exts[i].oid = KeyUsageOid /\ exts[j].oid = KeyUsageOid => i = j
  BY <1>2 DEF WellFormed
<1>4. KeyUsageExtension(block) = First(list, tags, prefix)
  <2> DEFINE r(d) == First(d.content, tags, prefix)
  <2>1. PICK tag, at : tag = 48 /\ at = 0
    OBVIOUS
  <2>2. tag \in Octet /\ at \in Nat
    BY <2>1, OctetIs
  <2>3. Len(listDer) \in Nat
    BY <1>1
  <2>4. Stands(listDer, listDer, at) /\ listDer = Tlv(tag, list)
    BY <1>1, <2>1, <2>3 DEF Stands
  <2>5. Element(listDer, at) = {[tag |-> tag, content |-> list, end |-> at + Len(listDer)]}
    <3>1. PICK t : t = listDer
      OBVIOUS
    <3>2. t \in Seq(Octet) /\ Stands(t, t, at) /\ t = Tlv(tag, list)
      BY <1>1, <2>4, <3>1
    <3>3. list \in Seq(Octet) /\ Len(list) < Limit
      BY <1>1
    <3>4. Element(t, at) = {[tag |-> tag, content |-> list, end |-> at + Len(t)]}
      BY <2>2, <3>2, <3>3, ReadsWhatWasWritten, SMTT(30)
    <3>5. QED BY <3>1, <3>4
  <2>6. PICK d : d = [tag |-> tag, content |-> list, end |-> at + Len(listDer)]
    OBVIOUS
  <2>7. Element(block.content, 0) = {d} /\ d.content = list
    BY <2>1, <2>5, <2>6
  <2>8. KeyUsageExtension(block) = UNION {r(x) : x \in {d}}
    BY <2>7 DEF KeyUsageExtension
  <2>9. r(d) = First(list, tags, prefix)
    BY <2>7
  <2> HIDE DEF r
  <2>10. UNION {r(x) : x \in {d}} = r(d)
    OBVIOUS
  <2>11. QED BY <2>8, <2>9, <2>10
<1>5. PICK e, end :
        /\ Listed(list, e, end, n)
        /\ \A i \in 1..n : e[i].content = ExtensionContent(exts[i]) /\ e[i].tag = 48
  BY ListIsWalked
<1> HIDE DEF exts, n, list, listDer
<1>6. ASSUME NEW i \in 1..n
      PROVE  Sought(e[i], tags, prefix) <=> exts[i].oid = KeyUsageOid
  <2>1. PICK ext, d : ext = exts[i] /\ d = e[i]
    OBVIOUS
  <2>2. Written(ext) /\ d.content = ExtensionContent(ext) /\ d.tag = 48
    BY <1>2, <1>5, <2>1
  <2>3. d.tag \in tags
    BY <2>2
  <2> HIDE DEF tags
  <2>4. Sought(d, tags, prefix) <=> IsPrefix(KeyUsageOidDer, ExtensionContent(ext))
    BY <2>2, <2>3, Zenon DEF Sought
  <2>5. Sought(d, tags, prefix) <=> ext.oid = KeyUsageOid
    BY <2>2, <2>4, OidTells, Zenon
  <2>6. QED BY <2>1, <2>5
<1> HIDE DEF tags, prefix
<1>7. ASSUME NEW i \in 1..n, exts[i].oid = KeyUsageOid
      PROVE  First(list, tags, prefix) = {e[i]}
  <2>1. PICK k : k = i - 1
    OBVIOUS
  <2>2. k \in 0..n /\ k < n /\ k + 1 = i /\ \A j \in 1..k : j \in 1..n /\ j # i
    BY <1>2, <2>1
  <2>3. \A j \in 1..k : ~Sought(e[j], tags, prefix)
    BY <1>3, <1>6, <1>7, <2>2
  <2>4. Sought(e[k + 1], tags, prefix)
    BY <1>6, <1>7, <2>2
  <2>5. First(list, tags, prefix) = {e[k + 1]}
    BY <1>1, <1>2, <1>5, <2>2, <2>3, <2>4, Walked
  <2>6. QED BY <2>2, <2>5
<1>8. ASSUME \A i \in 1..n : exts[i].oid # KeyUsageOid
      PROVE  First(list, tags, prefix) = {}
  <2>1. PICK k : k = n
    OBVIOUS
  <2>2. k \in 0..n /\ k = n
    BY <1>2, <2>1
  <2>3. \A j \in 1..k : ~Sought(e[j], tags, prefix)
    BY <1>6, <1>8, <2>2
  <2>4. QED BY <1>1, <1>2, <1>5, <2>2, <2>3, Walked
<1>9. QED BY <1>2, <1>4, <1>5, <1>7, <1>8 DEF exts, n

\* The walk reads what the extension for keyUsage says, and no octets of
\* anything else.
LEMMA WalkIs ==
  ASSUME NEW cert \in Certificate, WellFormed(cert), NEW b \in Asked
  PROVE  KeyUsageFromTbs(TbsDer(cert), b)
           <=> \E i \in DOMAIN cert.extensions :
                 /\ cert.extensions[i].oid = KeyUsageOid
                 /\ \E s \in Element(ExtensionValue(cert.extensions[i]), 0) : BitSet(s.content, b)
<1> DEFINE exts == cert.extensions
<1>1. DOMAIN exts = 1..Len(exts) /\ (exts = <<>> <=> Len(exts) = 0)
      /\ (exts # <<>> => \A i \in DOMAIN exts : Written(exts[i]))
  BY CertificateIs, Sizes
<1>2. CASE exts = <<>>
  <2>1. Extensions(TbsDer(cert)) = {}
    BY <1>2, ExtensionsRead
  <2>2. DOMAIN exts = {}
    BY <1>2
  <2>3. QED BY <2>1, <2>2, Zenon DEF KeyUsageFromTbs
<1>3. CASE exts # <<>>
  <2>1. PICK block : block = [tag |-> 163, content |-> ListDer(cert), end |-> Len(Fields(cert))]
    OBVIOUS
  <2>2. Extensions(TbsDer(cert)) = {block} /\ block.content = ListDer(cert)
    BY <1>3, <2>1, ExtensionsRead
  <2>3. KeyUsageFromTbs(TbsDer(cert), b)
          <=> \E extension \in KeyUsageExtension(block) :
                \E value \in Value(extension) :
                  \E s \in Element(value.content, 0) : BitSet(s.content, b)
    BY <2>2, Zenon DEF KeyUsageFromTbs
  <2>4. CASE \A i \in DOMAIN exts : exts[i].oid # KeyUsageOid
    <3>1. KeyUsageExtension(block) = {}
      BY <1>3, <2>2, <2>4, KeyUsageFound
    <3>2. QED BY <2>3, <2>4, <3>1, Zenon
  <2>5. ASSUME NEW i \in DOMAIN exts, exts[i].oid = KeyUsageOid
        PROVE  KeyUsageFromTbs(TbsDer(cert), b)
                 <=> \E s \in Element(ExtensionValue(exts[i]), 0) : BitSet(s.content, b)
    <3>1. PICK d : KeyUsageExtension(block) = {d} /\ d.content = ExtensionContent(exts[i])
      BY <1>3, <2>2, <2>5, KeyUsageFound
    <3>2. PICK ext : ext = exts[i]
      OBVIOUS
    <3>3. Written(ext) /\ ext.oid = KeyUsageOid /\ d.content = ExtensionContent(ext)
      BY <1>1, <1>3, <2>5, <3>1, <3>2
    <3>4. PICK v : v = [tag |-> 4, content |-> ExtensionValue(ext),
                        end |-> Len(ExtensionContent(ext))]
      OBVIOUS
    <3>5. Value(d) = {v} /\ v.content = ExtensionValue(ext)
      BY <3>3, <3>4, ValueRead
    <3>6. QED BY <2>3, <3>1, <3>2, <3>5, Zenon
  <2>6. ASSUME NEW i \in DOMAIN exts, NEW j \in DOMAIN exts,
               exts[i].oid = KeyUsageOid, exts[j].oid = KeyUsageOid
        PROVE  i = j
    BY <2>6 DEF WellFormed
  <2>7. QED BY <2>4, <2>5, <2>6, Zenon
<1>4. QED BY <1>2, <1>3

(***************************************************************************)
(* What is read of any certificate is what its issuer asserted, and        *)
(* nothing of a whole keyUsage is missed (trustlist.py:146-201).           *)
(***************************************************************************)
THEOREM WalkReads ==
  ASSUME NEW cert \in Certificate, WellFormed(cert), NEW b \in Asked
  PROVE  /\ KeyUsageFromTbs(TbsDer(cert), b) => Asserts(cert, b)
         /\ Whole(cert) /\ Asserts(cert, b) => KeyUsageFromTbs(TbsDer(cert), b)
<1> DEFINE exts == cert.extensions
<1>1. \A i \in DOMAIN exts : Written(exts[i])
  <2>1. exts = <<>> => DOMAIN exts = {}
    OBVIOUS
  <2>2. exts # <<>> => \A i \in DOMAIN exts : Written(exts[i])
    BY CertificateIs, Sizes
  <2>3. QED BY <2>1, <2>2
<1>2. ASSUME NEW i \in DOMAIN exts, exts[i].oid = KeyUsageOid
      PROVE  /\ \A s \in Element(ExtensionValue(exts[i]), 0) :
                  BitSet(s.content, b) => b \in exts[i].bits
             /\ exts[i].lacks = 0 /\ b \in exts[i].bits =>
                  \E s \in Element(ExtensionValue(exts[i]), 0) : BitSet(s.content, b)
  <2>1. PICK ext : ext = exts[i]
    OBVIOUS
  <2>2. Written(ext) /\ ext.oid = KeyUsageOid
    BY <1>1, <1>2, <2>1
  <2>3. /\ \A s \in Element(ExtensionValue(ext), 0) : BitSet(s.content, b) => b \in ext.bits
        /\ ext.lacks = 0 /\ b \in ext.bits =>
             \E s \in Element(ExtensionValue(ext), 0) : BitSet(s.content, b)
    BY <2>2, BitsRead, Zenon
  <2>4. QED BY <2>1, <2>3, Zenon
<1>3. KeyUsageFromTbs(TbsDer(cert), b) => Asserts(cert, b)
  BY <1>2, WalkIs, Zenon DEF Asserts
<1>4. Whole(cert) /\ Asserts(cert, b) => KeyUsageFromTbs(TbsDer(cert), b)
  BY <1>2, WalkIs, Zenon DEF Asserts, Whole
<1>5. QED BY <1>3, <1>4

-----------------------------------------------------------------------------
(* The calls.                                                              *)

\* What is asked does not change, and the answer is that of the function.
AnswerOf ==
  CASE call.fn = "validate_origin" -> ValidOrigin(call.origin)
    [] call.fn = "b64url_decode" -> B64urlDecode(Text)
    [] OTHER -> KeyUsagePermits(call.cert, call.bit, call.legible)

DataCall ==
  call.fn = "b64url_decode" => call.data \in Data /\ call.pads \in 0..MaxPads

CertificateCall ==
  call.fn = "key_usage_permits" =>
    /\ call.cert \in Certificates /\ call.bit \in Asked /\ call.legible \in BOOLEAN

Inv == DataCall /\ CertificateCall /\ (returned => answer = AnswerOf)

\* What is called and what is answered keeps its type.
LEMMA InvHolds == Spec => []Inv
<1>1. Init => Inv
  BY DEF Init, Inv, DataCall, CertificateCall
<1>2. Inv /\ [Return]_vars => Inv'
  BY DEF Inv, DataCall, CertificateCall, AnswerOf, Return, Text, vars
<1>3. QED BY <1>1, <1>2, PTL DEF Spec

(***************************************************************************)
(* No origin a browser can assert is refused (config.py:53-60).            *)
(***************************************************************************)
THEOREM BrowserOriginsPass == Spec => []BareIsAccepted
<1>1. Inv => BareIsAccepted
  BY DEF Inv, AnswerOf, BareIsAccepted, Answered, Bare, ValidOrigin, Truthy
<1>2. QED BY <1>1, InvHolds, PTL

(***************************************************************************)
(* What was encoded is what is decoded, for byte strings of any length and *)
(* any number of pads (encoding.py:18-28).                                 *)
(***************************************************************************)
THEOREM NothingLostInText == Spec => []PaddingIsOptional
<1>1. Inv => PaddingIsOptional
  <2> SUFFICES ASSUME Inv, Answered("b64url_decode")
               PROVE  answer = [raised |-> FALSE, bytes |-> call.data]
    BY DEF PaddingIsOptional
  <2>1. call.data \in Seq(Octet) /\ call.pads \in Nat
    BY PureAssumption DEF Inv, DataCall, Answered
  <2>2. answer = B64urlDecode(B64urlEncode(call.data) \o Pads(call.pads))
    BY DEF Inv, AnswerOf, Answered, Text
  <2>3. QED BY <2>1, <2>2, RoundTrip
<1>2. QED BY <1>1, InvHolds, PTL

\* What is asked of a certificate, and what is answered.
LEMMA AskedOfCertificate ==
  ASSUME Inv, Answered("key_usage_permits")
  PROVE  /\ call.cert \in Certificate /\ WellFormed(call.cert) /\ call.bit \in Asked
         /\ answer = IF call.legible THEN Asserts(call.cert, call.bit)
                     ELSE KeyUsageFromTbs(TbsDer(call.cert), call.bit)
<1>1. call.fn = "key_usage_permits" /\ returned
  BY DEF Answered
<1>2. call.cert \in Certificates /\ call.bit \in Asked
  BY <1>1 DEF Inv, CertificateCall
<1>3. call.cert \in Certificate /\ WellFormed(call.cert)
  BY <1>2, PureAssumption
<1>4. answer = KeyUsagePermits(call.cert, call.bit, call.legible)
  BY <1>1 DEF Inv, AnswerOf
<1>5. QED BY <1>2, <1>3, <1>4, Zenon DEF KeyUsagePermits

(***************************************************************************)
(* Of a certificate whose keyUsage is all there, the fallback answers what *)
(* the library would have answered, whatever stands around it and however  *)
(* long it is (trustlist.py:100-201).                                      *)
(***************************************************************************)
THEOREM FallbackIsFaithful == Spec => []FallbackAgrees
<1>1. Inv => FallbackAgrees
  <2> SUFFICES ASSUME Inv, Answered("key_usage_permits"), Whole(call.cert)
               PROVE  answer <=> Asserts(call.cert, call.bit)
    BY DEF FallbackAgrees
  <2>1. PICK cert, bit : cert = call.cert /\ bit = call.bit
    OBVIOUS
  <2>2. /\ cert \in Certificate /\ WellFormed(cert) /\ bit \in Asked /\ Whole(cert)
        /\ answer = IF call.legible THEN Asserts(cert, bit) ELSE KeyUsageFromTbs(TbsDer(cert), bit)
    BY <2>1, AskedOfCertificate, Zenon
  <2>3. KeyUsageFromTbs(TbsDer(cert), bit) <=> Asserts(cert, bit)
    BY <2>2, WalkReads, Zenon
  <2>4. QED BY <2>1, <2>2, <2>3, Zenon
<1>2. QED BY <1>1, InvHolds, PTL

(***************************************************************************)
(* Only a bit its issuer set is ever found to be set, however much of the  *)
(* keyUsage is missing (trustlist.py:54-56, 185-189).                      *)
(***************************************************************************)
THEOREM NoBitInvented == Spec => []NothingInvented
<1>1. Inv => NothingInvented
  <2> SUFFICES ASSUME Inv, Answered("key_usage_permits"), answer
               PROVE  Asserts(call.cert, call.bit)
    BY DEF NothingInvented
  <2>1. PICK cert, bit : cert = call.cert /\ bit = call.bit
    OBVIOUS
  <2>2. /\ cert \in Certificate /\ WellFormed(cert) /\ bit \in Asked
        /\ answer = IF call.legible THEN Asserts(cert, bit) ELSE KeyUsageFromTbs(TbsDer(cert), bit)
    BY <2>1, AskedOfCertificate, Zenon
  <2>3. KeyUsageFromTbs(TbsDer(cert), bit) => Asserts(cert, bit)
    BY <2>2, WalkReads, Zenon
  <2>4. QED BY <2>1, <2>2, <2>3, Zenon
<1>2. QED BY <1>1, InvHolds, PTL

=============================================================================
