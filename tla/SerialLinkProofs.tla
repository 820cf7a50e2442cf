-------------------------- MODULE SerialLinkProofs --------------------------
(***************************************************************************)
(* Proofs about SerialLink, for any payloads, strengths, places where a    *)
(* line may be interrupted, number of threads and sizes of the buffers.    *)
(***************************************************************************)
EXTENDS SerialLink, FrameProofs, FiniteSetTheorems, WellFoundedInduction

-----------------------------------------------------------------------------
(* Every set of naturals that is not empty has a least element: induction  *)
(* where it is needed.                                                     *)
LEMMA LeastOf ==
  ASSUME NEW S \in SUBSET Nat, S # {}
  PROVE  \E m \in S : \A k \in S : m <= k
<1>1. IsWellFoundedOn(OpToRel(<, Nat), Nat)
  BY NatLessThanWellFounded
<1>2. PICK m \in S : \A k \in S : ~(<<k, m>> \in OpToRel(<, Nat))
  BY <1>1, WFMin
<1>3. \A k \in S : ~(k < m)
  BY <1>2 DEF OpToRel
<1>. QED  BY <1>3

LEMMA MinOf ==
  ASSUME NEW S \in SUBSET Nat, S # {}
  PROVE  Min(S) \in S /\ \A k \in S : Min(S) <= k
<1>1. \E m \in S : \A k \in S : m <= k
  BY LeastOf
<1>. QED  BY <1>1 DEF Min

-----------------------------------------------------------------------------
(* Characters.                                                             *)
Digits16 == {"0", "1", "2", "3", "4", "5", "6", "7", "8", "9", "a", "b", "c", "d", "e", "f"}
Digits22 == Digits16 \cup {"A", "B", "C", "D", "E", "F"}

LEMMA HexValues ==
  /\ DOMAIN Hex = 1 .. 16
  /\ Hex[1] = "0" /\ Hex[2] = "1" /\ Hex[3] = "2" /\ Hex[4] = "3"
  /\ Hex[5] = "4" /\ Hex[6] = "5" /\ Hex[7] = "6" /\ Hex[8] = "7"
  /\ Hex[9] = "8" /\ Hex[10] = "9" /\ Hex[11] = "a" /\ Hex[12] = "b"
  /\ Hex[13] = "c" /\ Hex[14] = "d" /\ Hex[15] = "e" /\ Hex[16] = "f"
BY DEF Hex

LEMMA UpperHexValues ==
  /\ DOMAIN UpperHex = 1 .. 16
  /\ UpperHex[1] = "0" /\ UpperHex[2] = "1" /\ UpperHex[3] = "2" /\ UpperHex[4] = "3"
  /\ UpperHex[5] = "4" /\ UpperHex[6] = "5" /\ UpperHex[7] = "6" /\ UpperHex[8] = "7"
  /\ UpperHex[9] = "8" /\ UpperHex[10] = "9" /\ UpperHex[11] = "A" /\ UpperHex[12] = "B"
  /\ UpperHex[13] = "C" /\ UpperHex[14] = "D" /\ UpperHex[15] = "E" /\ UpperHex[16] = "F"
BY DEF UpperHex

(* Both tables list their digits in the order of their values, and a digit *)
(* of one that the other has too is at the same place.                     *)
LEMMA SameDigits ==
  ASSUME NEW n \in 1 .. 16
  PROVE  /\ Hex[n] \in Digits16 /\ UpperHex[n] \in Digits22
         /\ \A m \in 1 .. 16 : (Hex[m] = Hex[n] \/ UpperHex[m] = Hex[n]) => m = n
<1>1. \A m \in 1 .. 16 :
        \/ m = 1 \/ m = 2 \/ m = 3 \/ m = 4 \/ m = 5 \/ m = 6 \/ m = 7 \/ m = 8 \/ m = 9 \/ m = 10
        \/ m = 11 \/ m = 12 \/ m = 13 \/ m = 14 \/ m = 15 \/ m = 16
  OBVIOUS
<1>2. Hex[n] \in Digits16
  BY <1>1, HexValues DEF Digits16
<1>3. UpperHex[n] \in Digits22
  BY <1>1, UpperHexValues DEF Digits22, Digits16
<1>4. ASSUME NEW m \in 1 .. 16, Hex[m] = Hex[n]
      PROVE  m = n
  BY <1>1, <1>4, HexValues
<1>5. ASSUME NEW m \in 1 .. 16, UpperHex[m] = Hex[n]
      PROVE  m = n
  BY <1>1, <1>5, HexValues, UpperHexValues
<1>. QED  BY <1>2, <1>3, <1>4, <1>5

LEMMA CharSet == Char = Digits16 \cup {"R", "T", "X", "-", Space, Newline}
<1>1. \A m \in 1 .. 16 :
        \/ m = 1 \/ m = 2 \/ m = 3 \/ m = 4 \/ m = 5 \/ m = 6 \/ m = 7 \/ m = 8 \/ m = 9 \/ m = 10
        \/ m = 11 \/ m = 12 \/ m = 13 \/ m = 14 \/ m = 15 \/ m = 16
  OBVIOUS
<1>2. ASSUME NEW c \in Digits16
      PROVE  \E m \in 1 .. 16 : Hex[m] = c
  <2>1. \/ c = Hex[1] \/ c = Hex[2] \/ c = Hex[3] \/ c = Hex[4] \/ c = Hex[5] \/ c = Hex[6]
        \/ c = Hex[7] \/ c = Hex[8] \/ c = Hex[9] \/ c = Hex[10] \/ c = Hex[11] \/ c = Hex[12]
        \/ c = Hex[13] \/ c = Hex[14] \/ c = Hex[15] \/ c = Hex[16]
    BY HexValues DEF Digits16
  <2>. QED  BY <2>1
<1>3. ToSet(Hex) = Digits16
  BY <1>2, HexValues, SameDigits DEF ToSet
<1>. QED  BY <1>3 DEF Char

(* The blanks are no others.                                               *)
LEMMA Blanks ==
  /\ ~(Space \in Digits22 \cup {"R", "T", "X", "-", Newline})
  /\ ~(Newline \in Digits22 \cup {"R", "T", "X", "-"})
BY Zenon DEF Space, Newline, Digits22, Digits16

LEMMA Unlike ==
  /\ Space \notin {"R", "T", "X", "-"} /\ Newline \notin {"R", "T", "X", "-"} /\ Space # Newline
  /\ {"R", "T", "X", "-", Space, Newline} \cap Digits22 = {}
<1>1. \A c \in {"R", "T", "X", "-"} : c \notin Digits22
  BY DEF Digits22, Digits16
<1>. QED  BY <1>1, Blanks

LEMMA HexDigits == \A c : IsHex(c) => c \in Digits22
BY HexValues, UpperHexValues, SameDigits DEF IsHex, ToSet, Digits22

(* A nibble is read back from its digit.                                   *)
LEMMA NibbleBack ==
  ASSUME NEW n \in 0 .. 15
  PROVE  /\ IsHex(Hex[n + 1]) /\ hex_nibble(Hex[n + 1]) = n
         /\ Hex[n + 1] \in Digits16
<1>1. n + 1 \in 1 .. 16
  OBVIOUS
<1>2. IsHex(Hex[n + 1]) /\ Hex[n + 1] \in Digits16
  BY <1>1, HexValues, SameDigits DEF IsHex, ToSet
<1>3. ASSUME NEW m \in 0 .. 15, Hex[n + 1] \in {Hex[m + 1], UpperHex[m + 1]}
      PROVE  m = n
  <2>1. m + 1 \in 1 .. 16
    OBVIOUS
  <2>2. m + 1 = n + 1
    BY <1>1, <1>3, <2>1, SameDigits
  <2>. QED  BY <2>2
<1>4. hex_nibble(Hex[n + 1]) = n
  BY <1>3 DEF hex_nibble
<1>. QED  BY <1>2, <1>4

-----------------------------------------------------------------------------
(* Hexadecimal text.                                                       *)
Bytes == 0 .. 255

LEMMA Nibbles ==
  ASSUME NEW b \in Bytes
  PROVE  b \div 16 \in 0 .. 15 /\ b % 16 \in 0 .. 15 /\ 16 * (b \div 16) + (b % 16) = b
BY DEF Bytes

LEMMA HexText ==
  ASSUME NEW d \in Seq(Bytes)
  PROVE  /\ hex_encode(d) \in Seq(Char) /\ Len(hex_encode(d)) = 2 * Len(d)
         /\ \A i \in 1 .. 2 * Len(d) : hex_encode(d)[i] \in Digits16 /\ IsHex(hex_encode(d)[i])
         /\ \A k \in 1 .. Len(d) :
              /\ hex_encode(d)[2 * k - 1] = Hex[d[k] \div 16 + 1]
              /\ hex_encode(d)[2 * k] = Hex[(d[k] % 16) + 1]
<1>. DEFINE n == Len(d)
            at(i) == d[(i + 1) \div 2]
            nibble(i) == IF i % 2 = 1 THEN at(i) \div 16 ELSE at(i) % 16
<1>1. n \in Nat /\ \A k \in 1 .. n : d[k] \in 0 .. 255
  BY ElementOfSeq DEF Bytes
<1>2. ASSUME NEW i \in 1 .. 2 * n
      PROVE  at(i) \in 0 .. 255 /\ nibble(i) \in 0 .. 15
  <2>1. (i + 1) \div 2 \in 1 .. n
    BY <1>1
  <2>2. at(i) \in 0 .. 255
    BY <1>1, <2>1
  <2>3. at(i) \div 16 \in 0 .. 15 /\ at(i) % 16 \in 0 .. 15
    BY <2>2, Nibbles DEF Bytes
  <2>. QED  BY <2>2, <2>3
<1>3. hex_encode(d) = [i \in 1 .. 2 * n |-> Hex[1 + nibble(i)]]
  BY DEF hex_encode
<1>4. ASSUME NEW i \in 1 .. 2 * n
      PROVE  hex_encode(d)[i] = Hex[nibble(i) + 1]
  <2>1. hex_encode(d)[i] = Hex[1 + nibble(i)]
    BY <1>3
  <2>2. \A k \in 0 .. 15 : 1 + k = k + 1
    OBVIOUS
  <2>. QED  BY <2>1, <2>2, <1>2
<1>5. ASSUME NEW i \in 1 .. 2 * n
      PROVE  hex_encode(d)[i] \in Digits16 /\ IsHex(hex_encode(d)[i])
  BY <1>2, <1>4, NibbleBack
<1>6. \A c \in Digits16 : c \in Char
  BY CharSet
<1>7. hex_encode(d) \in Seq(Char) /\ Len(hex_encode(d)) = 2 * n
  <2>1. hex_encode(d) \in [1 .. 2 * n -> Char]
    BY <1>3, <1>5, <1>6
  <2>. QED  BY ONLY <2>1, <1>1
<1>8. ASSUME NEW k \in 1 .. n
      PROVE  /\ hex_encode(d)[2 * k - 1] = Hex[d[k] \div 16 + 1]
             /\ hex_encode(d)[2 * k] = Hex[(d[k] % 16) + 1]
  <2>1. /\ 2 * k - 1 \in 1 .. 2 * n /\ 2 * k \in 1 .. 2 * n
        /\ (2 * k - 1) % 2 = 1 /\ (2 * k) % 2 = 0
        /\ ((2 * k - 1) + 1) \div 2 = k /\ (2 * k + 1) \div 2 = k
    BY <1>1
  <2>. QED  BY <1>4, <2>1
<1>. QED  BY <1>5, <1>7, <1>8

(* Text that has the digits of d is read as d.                             *)
LEMMA FromHexBack ==
  ASSUME NEW d \in Seq(Bytes)
  PROVE  FromHex(hex_encode(d)) = d
<1>. DEFINE h == hex_encode(d)
<1>1. /\ h \in Seq(Char) /\ Len(h) = 2 * Len(d) /\ Len(d) \in Nat
      /\ DOMAIN h = 1 .. 2 * Len(d)
      /\ \A i \in 1 .. 2 * Len(d) : IsHex(h[i])
      /\ \A k \in 1 .. Len(d) : h[2 * k - 1] = Hex[d[k] \div 16 + 1] /\ h[2 * k] = Hex[(d[k] % 16) + 1]
  BY HexText, LenProperties
<1>. HIDE DEF h
<1>2. Len(h) % 2 = 0 /\ Len(h) \div 2 = Len(d)
  BY <1>1
<1>3. FromHex(h) = [i \in 1 .. Len(d) |-> 16 * hex_nibble(h[2 * i - 1]) + hex_nibble(h[2 * i])]
  BY <1>1, <1>2 DEF FromHex
<1>4. ASSUME NEW k \in 1 .. Len(d)
      PROVE  16 * hex_nibble(h[2 * k - 1]) + hex_nibble(h[2 * k]) = d[k]
  <2>1. d[k] \in 0 .. 255
    BY ElementOfSeq DEF Bytes
  <2>2. d[k] \div 16 \in 0 .. 15 /\ d[k] % 16 \in 0 .. 15 /\ 16 * (d[k] \div 16) + (d[k] % 16) = d[k]
    BY ONLY <2>1, Nibbles DEF Bytes
  <2>3. hex_nibble(h[2 * k - 1]) = d[k] \div 16 /\ hex_nibble(h[2 * k]) = d[k] % 16
    BY <1>1, <2>2, NibbleBack
  <2>. QED  BY <2>2, <2>3
<1>5. d = [k \in 1 .. Len(d) |-> d[k]]
  BY LenProperties
<1>6. FromHex(h) = [k \in 1 .. Len(d) |-> d[k]]
  BY <1>3, <1>4
<1>. QED  BY <1>5, <1>6 DEF h

-----------------------------------------------------------------------------
(* Concatenations and pieces, by their elements.                           *)
LEMMA Cat ==
  ASSUME NEW S, NEW s \in Seq(S), NEW t \in Seq(S)
  PROVE  /\ s \o t \in Seq(S) /\ Len(s \o t) = Len(s) + Len(t)
         /\ \A i \in 1 .. Len(s) : (s \o t)[i] = s[i]
         /\ \A i \in 1 .. Len(t) : (s \o t)[Len(s) + i] = t[i]
<1>1. Len(s) \in Nat /\ Len(t) \in Nat
  BY LenProperties
<1>2. /\ s \o t \in Seq(S) /\ Len(s \o t) = Len(s) + Len(t)
      /\ \A i \in 1 .. Len(s) + Len(t) : (s \o t)[i] = IF i <= Len(s) THEN s[i] ELSE t[i - Len(s)]
  BY ConcatProperties
<1>3. ASSUME NEW i \in 1 .. Len(s)
      PROVE  (s \o t)[i] = s[i]
  BY <1>1, <1>2
<1>4. ASSUME NEW i \in 1 .. Len(t)
      PROVE  (s \o t)[Len(s) + i] = t[i]
  <2>1. Len(s) + i \in 1 .. Len(s) + Len(t) /\ ~(Len(s) + i <= Len(s)) /\ (Len(s) + i) - Len(s) = i
    BY <1>1
  <2>. QED  BY <1>2, <2>1
<1>. QED  BY <1>2, <1>3, <1>4

LEMMA CatChars ==
  ASSUME NEW s \in Seq(Char), NEW t \in Seq(Char)
  PROVE  /\ s \o t \in Seq(Char) /\ Len(s \o t) = Len(s) + Len(t)
         /\ \A i \in 1 .. Len(s) : (s \o t)[i] = s[i]
         /\ \A i \in 1 .. Len(t) : (s \o t)[Len(s) + i] = t[i]
BY Cat

LEMMA Part ==
  ASSUME NEW S, NEW s \in Seq(S), NEW m \in 1 .. Len(s) + 1, NEW n \in m - 1 .. Len(s)
  PROVE  /\ SubSeq(s, m, n) \in Seq(S) /\ Len(SubSeq(s, m, n)) = (n + 1) - m
         /\ \A i \in 1 .. (n + 1) - m : SubSeq(s, m, n)[i] = s[(m - 1) + i]
<1>1. Len(s) \in Nat
  BY LenProperties
<1>2. m \in Int /\ n \in Int /\ m - 1 <= n
  BY <1>1
<1>3. ASSUME NEW i \in m .. n
      PROVE  s[i] \in S
  <2>1. i \in 1 .. Len(s)
    BY <1>1
  <2>. QED  BY <2>1, ElementOfSeq
<1>4. /\ SubSeq(s, m, n) \in Seq(S)
      /\ Len(SubSeq(s, m, n)) = IF m <= n THEN n - m + 1 ELSE 0
      /\ \A i \in 1 .. n - m + 1 : SubSeq(s, m, n)[i] = s[m + i - 1]
  BY <1>2, <1>3, SubSeqProperties
<1>5. (IF m <= n THEN n - m + 1 ELSE 0) = (n + 1) - m /\ n - m + 1 = (n + 1) - m
  BY ONLY <1>2
<1>6. \A i \in Int : m + i - 1 = (m - 1) + i
  BY ONLY <1>2
<1>. QED  BY <1>4, <1>5, <1>6

LEMMA SameSeq ==
  ASSUME NEW S, NEW s \in Seq(S), NEW t \in Seq(S), Len(s) = Len(t),
         \A i \in 1 .. Len(s) : s[i] = t[i]
  PROVE  s = t
BY SeqEqual

LEMMA EmptyLen ==
  ASSUME NEW S, NEW s \in Seq(S)
  PROVE  s = <<>> <=> Len(s) = 0
BY EmptySeq

-----------------------------------------------------------------------------
(* What is where in the lines.                                             *)
LEMMA TxLine ==
  ASSUME NEW p \in Seq(Bytes)
  PROVE  /\ encode_tx_line(p) \in Seq(Char) /\ Len(encode_tx_line(p)) = 2 * Len(p) + 4
         /\ encode_tx_line(p)[1] = "T" /\ encode_tx_line(p)[2] = "X" /\ encode_tx_line(p)[3] = Space
         /\ \A i \in 1 .. 2 * Len(p) :
              encode_tx_line(p)[3 + i] = hex_encode(p)[i] /\ encode_tx_line(p)[3 + i] \in Digits16
         /\ encode_tx_line(p)[2 * Len(p) + 4] = Newline
<1>. DEFINE a == <<"T", "X", Space>>  h == hex_encode(p)  z == <<Newline>>  u == a \o h  n == 2 * Len(p)
<1>1. a \in Seq(Char) /\ Len(a) = 3 /\ a[1] = "T" /\ a[2] = "X" /\ a[3] = Space
  BY CharSet
<1>2. z \in Seq(Char) /\ Len(z) = 1 /\ z[1] = Newline
  BY CharSet
<1>3. h \in Seq(Char) /\ Len(h) = n /\ n \in Nat /\ \A i \in 1 .. n : h[i] \in Digits16
  BY HexText, LenProperties
<1>4. encode_tx_line(p) = u \o z
  BY DEF encode_tx_line
<1>. HIDE DEF a, h, z, n
<1>5. /\ u \in Seq(Char) /\ Len(u) = 3 + n
      /\ \A i \in 1 .. 3 : u[i] = a[i]
      /\ \A i \in 1 .. n : u[3 + i] = h[i]
  <2>1. a \in Seq(Char) /\ h \in Seq(Char)
    BY <1>1, <1>3
  <2>2. /\ u \in Seq(Char) /\ Len(u) = Len(a) + Len(h)
        /\ \A i \in 1 .. Len(a) : u[i] = a[i]
        /\ \A i \in 1 .. Len(h) : u[Len(a) + i] = h[i]
    BY ONLY <2>1, CatChars
  <2>. QED  BY <2>2, <1>1, <1>3
<1>. HIDE DEF u
<1>6. /\ u \o z \in Seq(Char) /\ Len(u \o z) = (3 + n) + 1
      /\ \A i \in 1 .. 3 + n : (u \o z)[i] = u[i]
      /\ \A i \in 1 .. 1 : (u \o z)[(3 + n) + i] = z[i]
  <2>1. u \in Seq(Char) /\ z \in Seq(Char)
    BY <1>2, <1>5
  <2>2. /\ u \o z \in Seq(Char) /\ Len(u \o z) = Len(u) + Len(z)
        /\ \A i \in 1 .. Len(u) : (u \o z)[i] = u[i]
        /\ \A i \in 1 .. Len(z) : (u \o z)[Len(u) + i] = z[i]
    BY ONLY <2>1, CatChars
  <2>. QED  BY <2>2, <1>2, <1>5
<1>. DEFINE L == u \o z
<1>. HIDE DEF L
<1>7. /\ L \in Seq(Char) /\ Len(L) = n + 4
      /\ L[1] = "T" /\ L[2] = "X" /\ L[3] = Space /\ L[n + 4] = Newline
  <2>1. 1 \in 1 .. 3 + n /\ 2 \in 1 .. 3 + n /\ 3 \in 1 .. 3 + n /\ (3 + n) + 1 = n + 4
    BY <1>3
  <2>. QED  BY <2>1, <1>1, <1>2, <1>5, <1>6 DEF L
<1>8. ASSUME NEW i \in 1 .. n
      PROVE  L[3 + i] = h[i]
  <2>1. 3 + i \in 1 .. 3 + n
    BY <1>3
  <2>. QED  BY <2>1, <1>5, <1>6 DEF L
<1>. QED  BY <1>3, <1>4, <1>7, <1>8 DEF L, n, h

(* A line for the dongle has one newline, its last character, and one T,   *)
(* its first.                                                              *)
LEMMA TxMarks ==
  ASSUME NEW p \in Seq(Bytes), NEW i \in 1 .. Len(encode_tx_line(p))
  PROVE  /\ encode_tx_line(p)[i] = Newline <=> i = Len(encode_tx_line(p))
         /\ encode_tx_line(p)[i] = "T" <=> i = 1
<1>. DEFINE L == encode_tx_line(p)  n == 2 * Len(p)
<1>1. /\ n \in Nat /\ Len(L) = n + 4
      /\ L[1] = "T" /\ L[2] = "X" /\ L[3] = Space /\ L[n + 4] = Newline
      /\ \A k \in 1 .. n : L[3 + k] \in Digits16
  BY TxLine, LenProperties
<1>. HIDE DEF L, n
<1>2. i = 1 \/ i = 2 \/ i = 3 \/ i \in 4 .. n + 3 \/ i = n + 4
  BY <1>1 DEF L
<1>3. CASE i \in 4 .. n + 3
  <2>1. i - 3 \in 1 .. n /\ 3 + (i - 3) = i /\ i # 1 /\ i # n + 4
    BY <1>1, <1>3
  <2>2. L[i] \in Digits16
    BY <1>1, <2>1
  <2>. QED  BY <1>1, <2>1, <2>2, Unlike DEF Digits22, L
<1>. QED  BY <1>1, <1>2, <1>3, Unlike DEF L

(* What the radio was given is read back from its line.                    *)
LEMMA ParseBack ==
  ASSUME NEW p \in Seq(Bytes), Len(p) <= PROTOCOL_FRAME_MAX_LEN
  PROVE  parse_tx_line(SubSeq(encode_tx_line(p), 1, Len(encode_tx_line(p)) - 1)) = p
<1>. DEFINE L == encode_tx_line(p)  n == 2 * Len(p)  x == SubSeq(L, 1, Len(L) - 1)
            a == SubSeq(x, 1, 3)  h == SubSeq(x, 4, Len(x))
<1>1. /\ n \in Nat /\ L \in Seq(Char) /\ Len(L) = n + 4 /\ Len(p) \in Nat
      /\ L[1] = "T" /\ L[2] = "X" /\ L[3] = Space
      /\ \A k \in 1 .. n : L[3 + k] = hex_encode(p)[k]
  BY TxLine, LenProperties
<1>2. /\ hex_encode(p) \in Seq(Char) /\ Len(hex_encode(p)) = n
  BY HexText
<1>. HIDE DEF L
<1>3. /\ x \in Seq(Char) /\ Len(x) = n + 3 /\ \A i \in 1 .. n + 3 : x[i] = L[i]
  <2>. HIDE DEF n
  <2>1. 1 \in 1 .. Len(L) + 1 /\ Len(L) - 1 \in 1 - 1 .. Len(L) /\ ((Len(L) - 1) + 1) - 1 = n + 3
        /\ \A i \in 1 .. n + 3 : (1 - 1) + i = i
    BY ONLY <1>1
  <2>. QED  BY <1>1, <2>1, Part
<1>. HIDE DEF x, n
<1>4. a \in Seq(Char) /\ Len(a) = 3 /\ a[1] = "T" /\ a[2] = "X" /\ a[3] = Space
  <2>1. /\ 1 \in 1 .. Len(x) + 1 /\ 3 \in 1 - 1 .. Len(x) /\ (3 + 1) - 1 = 3
        /\ \A i \in 1 .. 3 : (1 - 1) + i = i /\ i \in 1 .. n + 3
    BY ONLY <1>1, <1>3
  <2>2. a \in Seq(Char) /\ Len(a) = 3 /\ \A i \in 1 .. 3 : a[i] = x[i]
    BY <1>3, <2>1, Part
  <2>. QED  BY <1>1, <1>3, <2>1, <2>2
<1>5. h \in Seq(Char) /\ Len(h) = n /\ \A i \in 1 .. n : h[i] = L[3 + i]
  <2>1. /\ 4 \in 1 .. Len(x) + 1 /\ Len(x) \in 4 - 1 .. Len(x) /\ (Len(x) + 1) - 4 = n
        /\ \A i \in 1 .. n : (4 - 1) + i = 3 + i /\ 3 + i \in 1 .. n + 3
    BY ONLY <1>1, <1>3
  <2>2. h \in Seq(Char) /\ Len(h) = n /\ \A i \in 1 .. n : h[i] = x[3 + i]
    BY <1>3, <2>1, Part
  <2>. QED  BY <1>3, <2>1, <2>2
<1>6. h = hex_encode(p)
  <2>1. \A i \in 1 .. n : h[i] = hex_encode(p)[i]
    BY <1>1, <1>5
  <2>. QED  BY <1>2, <1>5, <2>1, SameSeq
<1>7. a = <<"T", "X", Space>>
  <2>. HIDE DEF a
  <2>. QED  BY <1>4
<1>. HIDE DEF h
<1>8. FromHex(h) = p
  BY <1>6, FromHexBack
<1>9. hex_decode(h) = p
  <2>1. Len(h) \div 2 = Len(p)
    BY <1>1, <1>5 DEF n
  <2>. QED  BY <1>8, <2>1 DEF hex_decode, PROTOCOL_FRAME_MAX_LEN, FRAME_LEN, DATA
<1>10. ~(Len(x) < 4) \/ p = <<>>
  <2>1. Len(x) < 4 => Len(p) = 0
    BY <1>1, <1>3 DEF n
  <2>. QED  BY <2>1, EmptyLen
<1>. QED  BY <1>7, <1>9, <1>10 DEF parse_tx_line, x, L, h, a

(* A line with a T behind its first character is not a frame: the hub      *)
(* began another line in it. Nor is one that does not begin with T.        *)
Doomed(x) == \E j \in 2 .. Len(x) : x[j] = "T"

LEMMA DoomedParse ==
  ASSUME NEW x \in Seq(Char), Doomed(x)
  PROVE  parse_tx_line(x) = <<>>
<1>1. SUFFICES ASSUME ~(Len(x) < 4), SubSeq(x, 1, 3) = <<"T", "X", Space>>
               PROVE  hex_decode(SubSeq(x, 4, Len(x))) = <<>>
  BY DEF parse_tx_line
<1>. DEFINE h == SubSeq(x, 4, Len(x))  a == SubSeq(x, 1, 3)
<1>2. Len(x) \in Nat
  BY LenProperties
<1>3. x[2] = "X" /\ x[3] = Space
  <2>1. /\ 1 \in 1 .. Len(x) + 1 /\ 3 \in 1 - 1 .. Len(x) /\ (3 + 1) - 1 = 3
        /\ \A i \in 1 .. 3 : (1 - 1) + i = i
    BY ONLY <1>1, <1>2
  <2>2. \A i \in 1 .. 3 : a[i] = x[i]
    BY <2>1, Part
  <2>3. a[2] = x[2] /\ a[3] = x[3]
    BY <2>2
  <2>4. a = <<"T", "X", Space>>
    BY <1>1
  <2>. HIDE DEF a
  <2>. QED  BY <2>3, <2>4
<1>4. PICK j \in 2 .. Len(x) : x[j] = "T"
  BY DEF Doomed
<1>5. j \in 4 .. Len(x)
  <2>1. j # 2 /\ j # 3
    BY <1>3, <1>4, Unlike
  <2>. QED  BY <1>2, <2>1
<1>6. /\ h \in Seq(Char) /\ Len(h) = Len(x) - 3 /\ \A i \in 1 .. Len(x) - 3 : h[i] = x[3 + i]
  <2>1. /\ 4 \in 1 .. Len(x) + 1 /\ Len(x) \in 4 - 1 .. Len(x) /\ (Len(x) + 1) - 4 = Len(x) - 3
        /\ \A i \in 1 .. Len(x) - 3 : (4 - 1) + i = 3 + i
    BY ONLY <1>1, <1>2
  <2>. QED  BY <2>1, Part
<1>. HIDE DEF h
<1>7. j - 3 \in DOMAIN h /\ ~IsHex(h[j - 3])
  <2>1. j - 3 \in 1 .. Len(x) - 3 /\ 3 + (j - 3) = j
    BY <1>2, <1>5
  <2>2. h[j - 3] = "T" /\ j - 3 \in DOMAIN h
    BY <1>4, <1>6, <2>1, LenProperties
  <2>3. ~("T" \in Digits22)
    BY DEF Digits22, Digits16
  <2>. QED  BY <2>2, <2>3, HexDigits
<1>8. FromHex(h) = <<>>
  BY <1>7 DEF FromHex
<1>. QED  BY <1>8 DEF hex_decode, h

LEMMA HeadlessParse ==
  ASSUME NEW x \in Seq(Char), x = <<>> \/ x[1] # "T"
  PROVE  parse_tx_line(x) = <<>>
<1>1. SUFFICES ASSUME ~(Len(x) < 4), SubSeq(x, 1, 3) = <<"T", "X", Space>>
               PROVE  FALSE
  BY DEF parse_tx_line
<1>. DEFINE a == SubSeq(x, 1, 3)
<1>2. Len(x) \in Nat /\ x # <<>>
  BY <1>1, LenProperties, EmptyLen
<1>3. /\ 1 \in 1 .. Len(x) + 1 /\ 3 \in 1 - 1 .. Len(x) /\ (3 + 1) - 1 = 3 /\ 1 \in 1 .. 3
      /\ (1 - 1) + 1 = 1
  BY ONLY <1>1, <1>2
<1>4. a[1] = x[1]
  BY <1>3, Part
<1>5. a = <<"T", "X", Space>>
  BY <1>1
<1>. HIDE DEF a
<1>. QED  BY <1>2, <1>4, <1>5

(* A report has its frame between two spaces and the strength behind it.   *)
RssiChar == {"-", "0", "1", "2", "3", "4", "5", "6", "7", "8", "9"}

LEMMA RssiChars == \A c \in RssiChar : c \in Char /\ c # "R" /\ c # Space /\ c # Newline
<1>1. \A c \in RssiChar : c = "-" \/ c \in Digits16
  BY DEF RssiChar, Digits16
<1>. QED  BY <1>1, CharSet, Unlike DEF Digits22

LEMMA RxLine ==
  ASSUME NEW d \in Seq(Bytes), NEW r \in Seq(RssiChar)
  PROVE  /\ rx_line(d, r) \in Seq(Char) /\ Len(rx_line(d, r)) = 2 * Len(d) + Len(r) + 5
         /\ rx_line(d, r)[1] = "R" /\ rx_line(d, r)[2] = "X" /\ rx_line(d, r)[3] = Space
         /\ \A i \in 1 .. 2 * Len(d) :
              rx_line(d, r)[3 + i] = hex_encode(d)[i] /\ rx_line(d, r)[3 + i] \in Digits16
         /\ rx_line(d, r)[2 * Len(d) + 4] = Space
         /\ \A i \in 1 .. Len(r) : rx_line(d, r)[(2 * Len(d) + 4) + i] = r[i]
         /\ rx_line(d, r)[2 * Len(d) + Len(r) + 5] = Newline
<1>. DEFINE a == <<"R", "X", Space>>  h == hex_encode(d)  y == <<Space>>  z == <<Newline>>
            u == a \o h  v == u \o y  w == v \o r  n == 2 * Len(d)  k == Len(r)  M == w \o z
<1>1. a \in Seq(Char) /\ Len(a) = 3 /\ a[1] = "R" /\ a[2] = "X" /\ a[3] = Space
  BY CharSet
<1>2. z \in Seq(Char) /\ Len(z) = 1 /\ z[1] = Newline /\ y \in Seq(Char) /\ Len(y) = 1 /\ y[1] = Space
  BY CharSet
<1>3. h \in Seq(Char) /\ Len(h) = n /\ n \in Nat /\ \A i \in 1 .. n : h[i] \in Digits16
  BY HexText, LenProperties
<1>4. rx_line(d, r) = M
  BY DEF rx_line
<1>5. r \in Seq(Char) /\ k \in Nat
  BY RssiChars, SeqMonotonic, LenProperties
<1>. HIDE DEF a, h, y, z, n
<1>6. /\ u \in Seq(Char) /\ Len(u) = 3 + n
      /\ \A i \in 1 .. 3 : u[i] = a[i]
      /\ \A i \in 1 .. n : u[3 + i] = h[i]
  <2>1. a \in Seq(Char) /\ h \in Seq(Char)
    BY <1>1, <1>3
  <2>2. /\ u \in Seq(Char) /\ Len(u) = Len(a) + Len(h)
        /\ \A i \in 1 .. Len(a) : u[i] = a[i]
        /\ \A i \in 1 .. Len(h) : u[Len(a) + i] = h[i]
    BY ONLY <2>1, CatChars
  <2>. QED  BY <2>2, <1>1, <1>3
<1>. HIDE DEF u
<1>7. /\ v \in Seq(Char) /\ Len(v) = n + 4
      /\ \A i \in 1 .. n + 3 : v[i] = u[i]
      /\ v[n + 4] = Space
  <2>1. u \in Seq(Char) /\ y \in Seq(Char)
    BY <1>2, <1>6
  <2>2. /\ v \in Seq(Char) /\ Len(v) = Len(u) + Len(y)
        /\ \A i \in 1 .. Len(u) : v[i] = u[i]
        /\ \A i \in 1 .. Len(y) : v[Len(u) + i] = y[i]
    BY ONLY <2>1, CatChars
  <2>3. Len(u) = n + 3 /\ Len(u) + Len(y) = n + 4 /\ Len(u) + 1 = n + 4 /\ 1 \in 1 .. Len(y)
    BY ONLY <1>2, <1>3, <1>6
  <2>. QED  BY <2>2, <2>3, <1>2
<1>. HIDE DEF v, k
<1>8. /\ w \in Seq(Char) /\ Len(w) = (n + 4) + k
      /\ \A i \in 1 .. n + 4 : w[i] = v[i]
      /\ \A i \in 1 .. k : w[(n + 4) + i] = r[i]
  <2>1. v \in Seq(Char) /\ r \in Seq(Char)
    BY <1>5, <1>7
  <2>2. /\ w \in Seq(Char) /\ Len(w) = Len(v) + Len(r)
        /\ \A i \in 1 .. Len(v) : w[i] = v[i]
        /\ \A i \in 1 .. Len(r) : w[Len(v) + i] = r[i]
    BY ONLY <2>1, CatChars
  <2>. QED  BY <2>2, <1>7 DEF k
<1>. HIDE DEF w
<1>9. /\ M \in Seq(Char) /\ Len(M) = (n + k) + 5
      /\ \A i \in 1 .. (n + 4) + k : M[i] = w[i]
      /\ M[(n + k) + 5] = Newline
  <2>1. w \in Seq(Char) /\ z \in Seq(Char)
    BY <1>2, <1>8
  <2>2. /\ M \in Seq(Char) /\ Len(M) = Len(w) + Len(z)
        /\ \A i \in 1 .. Len(w) : M[i] = w[i]
        /\ \A i \in 1 .. Len(z) : M[Len(w) + i] = z[i]
    BY ONLY <2>1, CatChars
  <2>3. Len(w) + Len(z) = (n + k) + 5 /\ Len(w) + 1 = (n + k) + 5 /\ 1 \in 1 .. Len(z)
    BY ONLY <1>2, <1>3, <1>5, <1>8
  <2>. QED  BY <2>2, <2>3, <1>2, <1>8
<1>. HIDE DEF M
<1>10. /\ 1 \in 1 .. n + 3 /\ 2 \in 1 .. n + 3 /\ 3 \in 1 .. n + 3 /\ 1 \in 1 .. 3 /\ 2 \in 1 .. 3 /\ 3 \in 1 .. 3
       /\ \A i \in 1 .. n + 3 : i \in 1 .. n + 4 /\ i \in 1 .. (n + 4) + k
       /\ n + 4 \in 1 .. n + 4 /\ n + 4 \in 1 .. (n + 4) + k
       /\ \A i \in 1 .. n : 3 + i \in 1 .. n + 3
       /\ \A i \in 1 .. k : (n + 4) + i \in 1 .. (n + 4) + k
  BY ONLY <1>3, <1>5
<1>11. \A i \in 1 .. n + 3 : M[i] = u[i]
  BY ONLY <1>7, <1>8, <1>9, <1>10
<1>12. M[1] = "R" /\ M[2] = "X" /\ M[3] = Space
  BY ONLY <1>1, <1>6, <1>10, <1>11
<1>13. \A i \in 1 .. n : M[3 + i] = h[i] /\ M[3 + i] \in Digits16
  BY ONLY <1>3, <1>6, <1>10, <1>11
<1>14. M[n + 4] = Space
  BY ONLY <1>7, <1>8, <1>9, <1>10
<1>15. \A i \in 1 .. k : M[(n + 4) + i] = r[i]
  BY ONLY <1>8, <1>9, <1>10
<1>. QED  BY <1>4, <1>9, <1>12, <1>13, <1>14, <1>15 DEF n, h, k

LEMMA RxMarks ==
  ASSUME NEW d \in Seq(Bytes), NEW r \in Seq(RssiChar), NEW i \in 1 .. Len(rx_line(d, r))
  PROVE  /\ rx_line(d, r)[i] = "R" <=> i = 1
         /\ Blank(rx_line(d, r)[i]) <=> i \in {3, 2 * Len(d) + 4, Len(rx_line(d, r))}
<1>. DEFINE M == rx_line(d, r)  n == 2 * Len(d)  k == Len(r)
<1>1. /\ n \in Nat /\ k \in Nat /\ Len(M) = n + k + 5
      /\ M[1] = "R" /\ M[2] = "X" /\ M[3] = Space
      /\ \A j \in 1 .. n : M[3 + j] \in Digits16
      /\ M[n + 4] = Space
      /\ \A j \in 1 .. k : M[(n + 4) + j] = r[j]
      /\ M[n + k + 5] = Newline
  BY RxLine, LenProperties
<1>2. \A j \in 1 .. k : r[j] \in RssiChar
  BY ElementOfSeq
<1>3. i \in 1 .. Len(M)
  OBVIOUS
<1>. HIDE DEF M, n, k
<1>4. i = 1 \/ i = 2 \/ i = 3 \/ i \in 4 .. n + 3 \/ i = n + 4 \/ i \in n + 5 .. n + k + 4 \/ i = n + k + 5
  BY ONLY <1>1, <1>3
<1>5. CASE i \in 4 .. n + 3
  <2>1. i - 3 \in 1 .. n /\ 3 + (i - 3) = i /\ i # 1 /\ i # 3 /\ i # n + 4 /\ i # n + k + 5
    BY ONLY <1>1, <1>5
  <2>2. M[i] \in Digits16
    BY ONLY <1>1, <2>1
  <2>3. M[i] # "R" /\ ~Blank(M[i])
    BY ONLY <2>2, Unlike DEF Digits22, Blank
  <2>. QED  BY <1>1, <2>1, <2>3 DEF M, n
<1>6. CASE i \in n + 5 .. n + k + 4
  <2>1. /\ i - (n + 4) \in 1 .. k /\ (n + 4) + (i - (n + 4)) = i /\ i # 1 /\ i # 3 /\ i # n + 4
        /\ i # n + k + 5
    BY ONLY <1>1, <1>6
  <2>2. M[i] \in RssiChar
    BY ONLY <1>1, <1>2, <2>1
  <2>3. M[i] # "R" /\ ~Blank(M[i])
    BY ONLY <2>2, RssiChars DEF Blank
  <2>. QED  BY <1>1, <2>1, <2>3 DEF M, n
<1>7. CASE i \in {1, 2, 3, n + 4, n + k + 5}
  <2>1. /\ 1 # 3 /\ 1 # n + 4 /\ 1 # n + k + 5 /\ 2 # 3 /\ 2 # n + 4 /\ 2 # n + k + 5
    BY ONLY <1>1
  <2>2. /\ (M[1] = "R" /\ ~Blank(M[1])) /\ (M[2] # "R" /\ ~Blank(M[2]))
        /\ (M[3] # "R" /\ Blank(M[3])) /\ (M[n + 4] # "R" /\ Blank(M[n + 4]))
        /\ (M[n + k + 5] # "R" /\ Blank(M[n + k + 5]))
    BY ONLY <1>1, Unlike DEF Blank
  <2>. QED  BY <1>1, <1>7, <2>1, <2>2 DEF M, n
<1>. QED  BY <1>4, <1>5, <1>6, <1>7

-----------------------------------------------------------------------------
(* Words.                                                                  *)
LEMMA WordEnd ==
  ASSUME NEW line \in Seq(Char), NEW s \in 1 .. Len(line)
  PROVE  \E e \in s .. Len(line) :
           /\ Word(line, s) = SubSeq(line, s, e)
           /\ e = Len(line) \/ Blank(line[e + 1])
           /\ \A j \in s .. e - 1 : ~Blank(line[j + 1])
<1>. DEFINE E == {j \in s .. Len(line) : j = Len(line) \/ Blank(line[j + 1])}
<1>1. Len(line) \in Nat
  BY LenProperties
<1>2. E \in SUBSET Nat /\ Len(line) \in E
  BY <1>1
<1>3. Min(E) \in E /\ \A k \in E : Min(E) <= k
  BY <1>2, MinOf
<1>4. ASSUME NEW j \in s .. Min(E) - 1
      PROVE  ~Blank(line[j + 1])
  <2>1. ~(Min(E) <= j) /\ j \in s .. Len(line)
    BY <1>1, <1>3
  <2>2. j \notin E
    BY <1>3, <2>1
  <2>. QED  BY <2>1, <2>2
<1>. QED  BY <1>3, <1>4 DEF Word

LEMMA InWord ==
  ASSUME NEW line \in Seq(Char), NEW g \in 1 .. Len(line), ~Blank(line[g])
  PROVE  \E s \in Starts(line), e \in g .. Len(line) : s <= g /\ Word(line, s) = SubSeq(line, s, e)
<1>. DEFINE B == {s \in 1 .. g : \A k \in s .. g : ~Blank(line[k])}
<1>1. Len(line) \in Nat /\ DOMAIN line = 1 .. Len(line)
  BY LenProperties
<1>2. B \in SUBSET Nat /\ g \in B
  <2>1. g .. g = {g}
    BY <1>1
  <2>. QED  BY <1>1, <2>1
<1>3. PICK s \in B : \A k \in B : s <= k
  BY <1>2, LeastOf
<1>4. s \in Starts(line)
  <2>1. s \in DOMAIN line /\ ~Blank(line[s]) /\ s \in 1 .. g
    BY <1>1, <1>3
  <2>2. ASSUME s # 1, ~Blank(line[s - 1])
        PROVE  FALSE
    <3>1. s - 1 \in 1 .. g /\ ~(s <= s - 1)
      BY <1>1, <2>1, <2>2
    <3>2. ASSUME NEW k \in (s - 1) .. g
          PROVE  ~Blank(line[k])
      <4>1. k = s - 1 \/ k \in s .. g
        BY <1>1, <2>1
      <4>. QED  BY <1>3, <2>2, <4>1
    <3>3. s - 1 \in B
      BY <3>1, <3>2
    <3>. QED  BY <1>3, <3>1, <3>3
  <2>. QED  BY <2>1, <2>2 DEF Starts
<1>5. s \in 1 .. Len(line) /\ s <= g
  BY <1>1, <1>3
<1>6. PICK e \in s .. Len(line) :
        /\ Word(line, s) = SubSeq(line, s, e)
        /\ e = Len(line) \/ Blank(line[e + 1])
  BY <1>5, WordEnd
<1>7. e \in g .. Len(line)
  <2>1. CASE e < g
    <3>1. e # Len(line) /\ e + 1 \in s .. g
      <4>1. Len(line) \in Nat /\ g \in 1 .. Len(line) /\ s \in 1 .. Len(line) /\ e \in s .. Len(line) /\ e < g
        BY <1>1, <1>5, <2>1
      <4>. QED  BY ONLY <4>1
    <3>. QED  BY <1>3, <1>6, <3>1
  <2>. QED  BY <1>1, <1>5, <2>1
<1>. QED  BY <1>4, <1>5, <1>6, <1>7

LEMMA ThreeOf ==
  ASSUME NEW S \in SUBSET Nat, IsFiniteSet(S), Cardinality(S) = 3
  PROVE  \E a, b, c \in S : a < b /\ b < c /\ S = {a, b, c}
<1>1. S # {}
  BY FS_EmptySet
<1>2. PICK a \in S : \A k \in S : a <= k
  BY <1>1, LeastOf
<1>3. IsFiniteSet(S \ {a}) /\ Cardinality(S \ {a}) = 2
  BY <1>2, FS_RemoveElement
<1>4. S \ {a} \in SUBSET Nat /\ S \ {a} # {}
  BY <1>3, FS_EmptySet
<1>5. PICK b \in S \ {a} : \A k \in S \ {a} : b <= k
  BY <1>4, LeastOf
<1>. DEFINE T == (S \ {a}) \ {b}
<1>6. IsFiniteSet(T) /\ Cardinality(T) = 1
  BY <1>3, <1>5, FS_RemoveElement
<1>7. PICK c : T = {c}
  BY <1>6, FS_Singleton
<1>8. c \in S /\ c # a /\ c # b /\ S = {a, b, c}
  BY <1>2, <1>5, <1>7
<1>9. a \in Nat /\ b \in Nat /\ c \in Nat /\ a <= b /\ b <= c /\ a # b
  BY <1>2, <1>5, <1>8
<1>. QED  BY <1>2, <1>5, <1>8, <1>9

(* The words of a line of three.                                           *)
WordsAt(line, a, b, c) ==
  /\ a < b /\ b < c /\ Starts(line) = {a, b, c}
  /\ Words(line)[1] = Word(line, a)
  /\ Words(line)[2] = Word(line, b)
  /\ Words(line)[3] = Word(line, c)

LEMMA ThreeWords ==
  ASSUME NEW line \in Seq(Char), Len(Words(line)) = 3
  PROVE  \E a, b, c \in 1 .. Len(line) : WordsAt(line, a, b, c)
<1>. DEFINE S == Starts(line)
            upto(i) == Cardinality({j \in S : j <= i})
            start(k) == CHOOSE i \in S : upto(i) = k
<1>1. Len(line) \in Nat /\ DOMAIN line = 1 .. Len(line)
  BY LenProperties
<1>2. S \in SUBSET (1 .. Len(line)) /\ S \in SUBSET Nat
  BY <1>1 DEF Starts
<1>3. IsFiniteSet(S) /\ Cardinality(S) \in Nat
  <2>1. IsFiniteSet(1 .. Len(line))
    BY <1>1, FS_Interval
  <2>. QED  BY <1>2, <2>1, FS_Subset, FS_CardinalityType
<1>4. Words(line) = [k \in 1 .. Cardinality(S) |-> Word(line, start(k))]
  BY DEF Words
<1>5. Cardinality(S) = 3
  <2>. DEFINE N == Cardinality(S)  W == Words(line)
  <2>. HIDE DEF N, S
  <2>1. N \in Nat /\ W = [k \in 1 .. N |-> Word(line, start(k))]
    BY <1>3, <1>4 DEF N
  <2>. HIDE DEF start
  <2>2. Len(W) = N
    BY ONLY <2>1
  <2>. QED  BY <2>2 DEF N
<1>6. PICK a \in S, b \in S, c \in S : a < b /\ b < c /\ S = {a, b, c}
  BY <1>2, <1>3, <1>5, ThreeOf
<1>. HIDE DEF S
<1>7. a \in Nat /\ b \in Nat /\ c \in Nat
  BY <1>2
<1>. DEFINE T == {j \in S : j <= a}  U == {j \in S : j <= b}  V == {j \in S : j <= c}
<1>8. T = {a} /\ U = {a, b} /\ V = {a, b, c} /\ a # b /\ a # c /\ b # c
  BY <1>6, <1>7
<1>9. upto(a) = 1 /\ upto(b) = 2 /\ upto(c) = 3
  <2>. HIDE DEF T, U, V
  <2>1. IsFiniteSet(T) /\ Cardinality(T) = 1
    BY ONLY <1>8, FS_Singleton
  <2>2. b \notin T /\ U = T \cup {b} /\ c \notin U /\ V = U \cup {c}
    BY ONLY <1>8
  <2>3. IsFiniteSet(T \cup {b}) /\ Cardinality(T \cup {b}) = 1 + 1
    BY ONLY <2>1, <2>2, FS_AddElement
  <2>4. IsFiniteSet(U) /\ Cardinality(U) = 2
    BY ONLY <2>2, <2>3
  <2>5. Cardinality(U \cup {c}) = 2 + 1
    BY ONLY <2>2, <2>4, FS_AddElement
  <2>6. Cardinality(T) = 1 /\ Cardinality(U) = 2 /\ Cardinality(V) = 3
    BY ONLY <2>1, <2>2, <2>4, <2>5
  <2>. QED  BY <2>6 DEF T, U, V
<1>. HIDE DEF upto
<1>10. start(1) = a /\ start(2) = b /\ start(3) = c
  BY <1>6, <1>9
<1>. HIDE DEF start
<1>11. /\ Words(line)[1] = Word(line, a) /\ Words(line)[2] = Word(line, b)
       /\ Words(line)[3] = Word(line, c)
  <2>1. 1 \in 1 .. Cardinality(S) /\ 2 \in 1 .. Cardinality(S) /\ 3 \in 1 .. Cardinality(S)
    BY <1>5
  <2>. QED  BY <1>4, <1>10, <2>1
<1>12. WordsAt(line, a, b, c)
  BY <1>6, <1>11 DEF WordsAt, S
<1>. QED  BY <1>2, <1>12

-----------------------------------------------------------------------------
(* What the hub takes for a frame. No word after the first can hold an R.  *)
LEMMA DecodedParts ==
  ASSUME NEW line, decode_rx_line(line) # NoFrame
  PROVE  /\ Len(Words(line)) = 3 /\ Words(line)[1] = <<"R", "X">> /\ IsInt(Words(line)[3])
         /\ decode_rx_line(line) = HubDecode(FromHex(Words(line)[2]))
         /\ FromHex(Words(line)[2]) # <<>>
<1>1. /\ Len(Words(line)) = 3 /\ Words(line)[1] = <<"R", "X">> /\ IsInt(Words(line)[3])
      /\ decode_rx_line(line) = HubDecode(FromHex(Words(line)[2]))
  BY DEF decode_rx_line
<1>2. HubDecode(<<>>) = NoFrame
  <2>1. decode_frame_type(<<>>) = 0
    BY DEF decode_frame_type
  <2>2. ~(0 \in DOMAIN Slices)
    BY SliceTable
  <2>. QED  BY <2>1, <2>2 DEF HubDecode
<1>. QED  BY <1>1, <1>2

LEMMA HexWord ==
  ASSUME NEW w, FromHex(w) # <<>>
  PROVE  \A i \in DOMAIN w : w[i] # "R"
<1>1. \A i \in DOMAIN w : IsHex(w[i])
  BY DEF FromHex
<1>2. ~("R" \in Digits22)
  BY Unlike
<1>. QED  BY <1>1, <1>2, HexDigits

LEMMA IntWord ==
  ASSUME NEW w \in Seq(Char), IsInt(w), NEW i \in 1 .. Len(w)
  PROVE  w[i] # "R"
<1>. DEFINE digits == IF w[1] = "-" THEN Tail(w) ELSE w
<1>1. Len(w) \in Nat /\ w # <<>>
  BY LenProperties, EmptyLen
<1>2. \A k \in DOMAIN digits : digits[k] \in {Hex[m] : m \in 1 .. 10}
  BY DEF IsInt, ToSet
<1>3. ~("R" \in {Hex[m] : m \in 1 .. 10})
  <2>1. \A m \in 1 .. 10 : m \in 1 .. 16
    OBVIOUS
  <2>2. \A m \in 1 .. 10 : Hex[m] \in Digits16
    BY <2>1, SameDigits
  <2>. QED  BY <2>2, Unlike DEF Digits22
<1>4. CASE w[1] = "-"
  <2>1. Len(Tail(w)) = Len(w) - 1 /\ \A k \in 1 .. Len(Tail(w)) : Tail(w)[k] = w[k + 1]
    BY <1>1, HeadTailProperties
  <2>2. Tail(w) \in Seq(Char)
    BY <1>1, HeadTailProperties
  <2>3. DOMAIN Tail(w) = 1 .. Len(w) - 1
    BY <2>1, <2>2, LenProperties
  <2>4. CASE i # 1
    <3>1. i - 1 \in 1 .. Len(w) - 1 /\ (i - 1) + 1 = i
      BY <1>1, <2>4
    <3>2. digits = Tail(w) /\ i - 1 \in DOMAIN Tail(w) /\ i - 1 \in 1 .. Len(Tail(w))
      BY <1>4, <2>1, <2>3, <3>1
    <3>. HIDE DEF digits
    <3>3. digits[i - 1] = w[i]
      BY <2>1, <3>1, <3>2
    <3>4. digits[i - 1] \in {Hex[m] : m \in 1 .. 10}
      BY <1>2, <3>2
    <3>. QED  BY ONLY <1>3, <3>3, <3>4
  <2>. QED  BY <1>4, <2>4
<1>5. CASE w[1] # "-"
  <2>1. i \in DOMAIN w
    BY LenProperties
  <2>. QED  BY <1>2, <1>3, <1>5, <2>1
<1>. QED  BY <1>4, <1>5

-----------------------------------------------------------------------------
(* Where the characters on their way to the hub come from: for each, where *)
(* its report began (perhaps before the first of them), which payload and  *)
(* strength it carries, and for those that begin one, its place in the     *)
(* queue of reports. What follows another report's piece has its beginning *)
(* there.                                                                  *)
Item == [data : Seq(Bytes), rssi : Rssi]
LineOf(item) == rx_line(item.data, item.rssi)
ReportOf(item) == [frame |-> BoardDecode(item.data), rssi |-> item.rssi]

Traced(u, q, from, of, nr) ==
  /\ from \in [1 .. Len(u) -> Int]
  /\ of \in [1 .. Len(u) -> Item]
  /\ nr \in [1 .. Len(u) -> Nat]
  /\ \A i \in 1 .. Len(u) :
       /\ from[i] <= i /\ (i - from[i]) + 1 \in 1 .. Len(LineOf(of[i]))
       /\ u[i] = LineOf(of[i])[(i - from[i]) + 1]
       /\ from[i] = i => nr[i] \in 1 .. Len(q) /\ q[nr[i]] = ReportOf(of[i])
  /\ \A i, j \in 1 .. Len(u) : i < j =>
       \/ from[j] = from[i] /\ of[j] = of[i]
       \/ from[j] \in i + 1 .. j /\ from[from[j]] = from[j]
  /\ \A i, j \in 1 .. Len(u) : i < j /\ from[i] = i /\ from[j] = j => nr[i] < nr[j]

LEMMA ItemLine ==
  ASSUME NEW x \in Item
  PROVE  /\ x.data \in Seq(Bytes) /\ x.rssi \in Seq(RssiChar) /\ LineOf(x) = rx_line(x.data, x.rssi)
         /\ Len(x.data) \in Nat /\ Len(x.rssi) \in Nat
         /\ LineOf(x) \in Seq(Char) /\ Len(LineOf(x)) = 2 * Len(x.data) + Len(x.rssi) + 5
<1>1. x.data \in Seq(Bytes) /\ x.rssi \in Rssi
  BY DEF Item
<1>2. x.rssi \in Seq(RssiChar)
  BY <1>1, SerialAssumption DEF RssiChar
<1>. QED  BY <1>1, <1>2, RxLine, LenProperties DEF LineOf

(* An R in the stream begins a report.                                     *)
LEMMA OneBegins ==
  ASSUME NEW u, NEW q, NEW from, NEW of, NEW nr, Traced(u, q, from, of, nr),
         NEW i \in 1 .. Len(u), Len(u) \in Nat
  PROVE  u[i] = "R" <=> from[i] = i
<1>. DEFINE k == (i - from[i]) + 1
<1>1. k \in 1 .. Len(LineOf(of[i])) /\ u[i] = LineOf(of[i])[k] /\ from[i] \in Int /\ of[i] \in Item
  BY DEF Traced
<1>2. u[i] = "R" <=> k = 1
  <2>. DEFINE d == of[i].data  r == of[i].rssi
  <2>1. d \in Seq(Bytes) /\ r \in Seq(RssiChar) /\ LineOf(of[i]) = rx_line(d, r)
    BY <1>1, ItemLine
  <2>. HIDE DEF k, d, r
  <2>2. rx_line(d, r)[k] = "R" <=> k = 1
    BY <1>1, <2>1, RxMarks
  <2>. QED  BY <1>1, <2>1, <2>2
<1>. QED  BY <1>1, <1>2

(* What is between the first word and the end of such a line is all of one *)
(* report, from its beginning on.                                          *)
Continues(line, a, x) ==
  \A i \in a .. Len(line) : /\ (i - a) + 1 \in 1 .. Len(LineOf(x))
                            /\ line[i] = LineOf(x)[(i - a) + 1]

LEMMA OneReport ==
  ASSUME NEW u \in Seq(Char), NEW q, NEW from, NEW of, NEW nr, Traced(u, q, from, of, nr),
         NEW n \in 1 .. Len(u), decode_rx_line(SubSeq(u, 1, n)) # NoFrame,
         NEW a \in 1 .. n, NEW b \in 1 .. n, NEW c \in 1 .. n, WordsAt(SubSeq(u, 1, n), a, b, c)
  PROVE  from[a] = a /\ Continues(SubSeq(u, 1, n), a, of[a])
<1>. DEFINE line == SubSeq(u, 1, n)
<1>. line = SubSeq(u, 1, n) /\ decode_rx_line(line) # NoFrame /\ WordsAt(line, a, b, c)
  OBVIOUS
<1>. HIDE DEF line
<1>.  /\ Starts(line) = {a, b, c} /\ Words(line)[1] = Word(line, a)
      /\ Words(line)[2] = Word(line, b) /\ Words(line)[3] = Word(line, c)
  BY DEF WordsAt
<1>1. /\ line \in Seq(Char) /\ Len(line) = n /\ n \in Nat /\ Len(u) \in Nat
      /\ \A i \in 1 .. n : line[i] = u[i] /\ i \in 1 .. Len(u)
  <2>1. /\ Len(u) \in Nat /\ n \in Nat /\ 1 \in 1 .. Len(u) + 1 /\ n \in 1 - 1 .. Len(u)
        /\ (n + 1) - 1 = n /\ \A i \in 1 .. n : (1 - 1) + i = i /\ i \in 1 .. Len(u)
    BY LenProperties
  <2>. QED  BY <2>1, Part
<1>2. PICK e \in a .. Len(line) : Word(line, a) = SubSeq(line, a, e)
  <2>1. line \in Seq(Char) /\ a \in 1 .. Len(line)
    BY <1>1
  <2>. QED  BY ONLY <2>1, WordEnd
<1>3. e = a + 1 /\ line[a] = "R" /\ line[a + 1] = "X"
  <2>. DEFINE w == SubSeq(line, a, e)
  <2>1. a \in 1 .. Len(line) + 1 /\ e \in a - 1 .. Len(line) /\ a \in Nat /\ e \in Nat
    BY <1>1, <1>2
  <2>2. w \in Seq(Char) /\ Len(w) = (e + 1) - a /\ \A i \in 1 .. (e + 1) - a : w[i] = line[(a - 1) + i]
    BY <1>1, <2>1, Part
  <2>3. w = <<"R", "X">>
    BY <1>2, DecodedParts
  <2>. HIDE DEF w
  <2>4. Len(w) = 2 /\ w[1] = "R" /\ w[2] = "X"
    BY <2>3
  <2>5. e = a + 1 /\ (a - 1) + 1 = a /\ (a - 1) + 2 = a + 1 /\ 1 \in 1 .. (e + 1) - a /\ 2 \in 1 .. (e + 1) - a
    <3>1. (e + 1) - a = 2 /\ a \in Nat /\ e \in Nat
      BY <2>1, <2>2, <2>4
    <3>. QED  BY ONLY <3>1
  <2>. QED  BY <2>2, <2>4, <2>5
<1>4. from[a] = a
  <2>1. a \in 1 .. Len(u) /\ u[a] = "R"
    BY <1>1, <1>3
  <2>. QED  BY <1>1, <2>1, OneBegins
<1>5. ASSUME NEW g \in 1 .. n, a < g
      PROVE  line[g] # "R"
  <2>1. SUFFICES ASSUME line[g] = "R"
                 PROVE  FALSE
    OBVIOUS
  <2>2. ~Blank(line[g]) /\ g \in 1 .. Len(line)
    BY <1>1, <2>1, Unlike DEF Blank
  <2>3. PICK s \in Starts(line), z \in g .. Len(line) : s <= g /\ Word(line, s) = SubSeq(line, s, z)
    BY <1>1, <2>2, InWord
  <2>. DEFINE w == SubSeq(line, s, z)  k == (g + 1) - s
  <2>4. /\ s \in 1 .. n /\ s \in 1 .. Len(line) + 1 /\ z \in s - 1 .. Len(line)
        /\ k \in 1 .. (z + 1) - s /\ (s - 1) + k = g /\ s \in Nat /\ z \in Nat
    <3>1. Len(line) = n /\ n \in Nat /\ g \in 1 .. n /\ s \in 1 .. n /\ z \in g .. n /\ s <= g
      BY <1>1, <2>3
    <3>. QED  BY ONLY <3>1
  <2>5. w \in Seq(Char) /\ Len(w) = (z + 1) - s /\ \A i \in 1 .. (z + 1) - s : w[i] = line[(s - 1) + i]
    BY <1>1, <2>4, Part
  <2>6. w[k] = "R" /\ k \in DOMAIN w /\ k \in 1 .. Len(w)
    BY <2>1, <2>4, <2>5, LenProperties
  <2>7. CASE s = a
    <3>1. w = <<"R", "X">>
      BY <2>3, <2>7, DecodedParts
    <3>. HIDE DEF w
    <3>2. Len(w) = 2 /\ w[2] = "X"
      BY <3>1
    <3>3. k = 2
      <4>1. /\ k \in 1 .. (z + 1) - s /\ (s - 1) + k = g /\ s \in Nat /\ z \in Nat
            /\ (z + 1) - s = 2 /\ a < g /\ s = a /\ g \in Nat
        <5>1. (z + 1) - s = 2
          BY <2>5, <3>2
        <5>2. a < g /\ g \in Nat
          BY <1>1, <1>5
        <5>. QED  BY ONLY <2>4, <2>7, <5>1, <5>2
      <4>. QED  BY ONLY <4>1
    <3>. QED  BY <2>6, <3>2, <3>3
  <2>8. CASE s = b
    <3>1. w = Words(line)[2]
      BY <2>3, <2>8
    <3>. HIDE DEF w, k
    <3>. QED  BY <2>6, <3>1, DecodedParts, HexWord
  <2>9. CASE s = c
    <3>1. w = Words(line)[3]
      BY <2>3, <2>9
    <3>. HIDE DEF w, k
    <3>2. IsInt(w)
      BY <3>1, DecodedParts
    <3>. QED  BY <2>5, <2>6, <3>2, IntWord
  <2>. QED  BY <2>3, <2>7, <2>8, <2>9
<1>6. ASSUME NEW i \in a .. n
      PROVE  from[i] = a /\ of[i] = of[a]
  <2>1. a \in 1 .. Len(u) /\ i \in 1 .. Len(u) /\ i \in 1 .. n /\ a \in Nat /\ i \in Nat
    BY <1>1
  <2>2. CASE i = a
    BY <1>4, <2>2
  <2>3. CASE a < i /\ ~(from[i] = from[a] /\ of[i] = of[a])
    <3>. DEFINE g == from[i]
    <3>1. g \in a + 1 .. i /\ from[g] = g
      BY <2>1, <2>3 DEF Traced
    <3>2. g \in 1 .. n /\ a < g /\ g \in 1 .. Len(u)
      BY <1>1, <2>1, <3>1
    <3>3. u[g] = "R"
      BY <1>1, <3>1, <3>2, OneBegins
    <3>4. line[g] = "R"
      BY <1>1, <3>2, <3>3
    <3>. QED  BY <1>5, <3>2, <3>4
  <2>. QED  BY <1>4, <2>1, <2>2, <2>3
<1>7. ASSUME NEW i \in a .. n
      PROVE  (i - a) + 1 \in 1 .. Len(LineOf(of[a])) /\ line[i] = LineOf(of[a])[(i - a) + 1]
  <2>1. i \in 1 .. Len(u) /\ i \in 1 .. n
    BY <1>1
  <2>2. (i - from[i]) + 1 \in 1 .. Len(LineOf(of[i])) /\ u[i] = LineOf(of[i])[(i - from[i]) + 1]
    BY <2>1 DEF Traced
  <2>. QED  BY <1>1, <1>6, <2>1, <2>2
<1>8. Continues(line, a, of[a])
  BY <1>1, <1>7 DEF Continues
<1>. QED  BY <1>4, <1>8 DEF line

(* A line the hub takes for a frame has that report's payload, and its     *)
(* strength or the beginning of it.                                        *)
LEMMA HeardParts ==
  ASSUME NEW line \in Seq(Char), NEW x \in Item, decode_rx_line(line) # NoFrame,
         NEW a \in 1 .. Len(line), NEW b \in 1 .. Len(line), NEW c \in 1 .. Len(line),
         WordsAt(line, a, b, c), Continues(line, a, x)
  PROVE  /\ FromHex(Words(line)[2]) = x.data
         /\ IsPrefix(Words(line)[3], x.rssi)
<1>.  /\ a < b /\ b < c /\ Starts(line) = {a, b, c}
      /\ Words(line)[2] = Word(line, b) /\ Words(line)[3] = Word(line, c)
  BY DEF WordsAt
<1>.  \A i \in a .. Len(line) : /\ (i - a) + 1 \in 1 .. Len(LineOf(x))
                                /\ line[i] = LineOf(x)[(i - a) + 1]
  BY DEF Continues
<1>. DEFINE M == LineOf(x)  d == 2 * Len(x.data)  k == Len(x.rssi)  n == Len(line)
<1>. DEFINE data == x.data  rssi == x.rssi
<1>1. /\ data \in Seq(Bytes) /\ rssi \in Seq(RssiChar) /\ M = rx_line(data, rssi)
      /\ Len(data) \in Nat /\ k \in Nat /\ d \in Nat /\ Len(M) = (d + k) + 5
  <2>1. /\ data \in Seq(Bytes) /\ rssi \in Seq(RssiChar) /\ M = rx_line(data, rssi)
        /\ Len(data) \in Nat /\ k \in Nat /\ Len(M) = d + k + 5
    BY ItemLine
  <2>2. d \in Nat
    BY <2>1
  <2>. HIDE DEF d, k, M
  <2>3. d + k + 5 = (d + k) + 5
    BY ONLY <2>1, <2>2
  <2>. QED  BY <2>1, <2>2, <2>3
<1>0. n \in Nat /\ a \in Nat /\ b \in Nat /\ c \in Nat /\ 1 <= a /\ c <= n /\ a < b /\ b < c
  <2>1. n \in Nat /\ a \in 1 .. n /\ b \in 1 .. n /\ c \in 1 .. n /\ a < b /\ b < c
    BY LenProperties
  <2>. HIDE DEF n
  <2>. QED  BY ONLY <2>1
<1>. HIDE DEF M, data, rssi
<1>2. /\ \A i \in 1 .. d : M[3 + i] = hex_encode(data)[i]
      /\ \A i \in 1 .. k : M[(d + 4) + i] = rssi[i]
  BY ONLY <1>1, RxLine DEF d, k, data, rssi
<1>3. \A i \in 1 .. Len(M) : Blank(M[i]) <=> i \in {3, d + 4, Len(M)}
  BY ONLY <1>1, RxMarks DEF d, data
<1>4. \A i \in a .. n : (i - a) + 1 \in 1 .. Len(M) /\ line[i] = M[(i - a) + 1]
  BY DEF M
<1>. HIDE DEF M, d, k, n
<1>5. ASSUME NEW s \in {b, c}
      PROVE  s = a + 3 \/ s = a + d + 4
  <2>1. s \in Starts(line) /\ s # 1 /\ s \in a .. n /\ s - 1 \in a .. n
    <3>1. s = b \/ s = c
      OBVIOUS
    <3>2. s \in Starts(line)
      OBVIOUS
    <3>3. s \in Nat /\ a < s /\ s <= n
      BY ONLY <1>0, <3>1
    <3>4. s # 1 /\ s \in a .. n /\ s - 1 \in a .. n
      BY ONLY <1>0, <3>3
    <3>. QED  BY <3>2, <3>4
  <2>2. Blank(line[s - 1])
    BY <2>1 DEF Starts
  <2>. DEFINE m == s - a
  <2>3. (s - 1 - a) + 1 = m /\ m \in 1 .. Len(M) /\ m + 1 \in 1 .. Len(M) /\ (s - a) + 1 = m + 1
    <3>1. ((s - 1) - a) + 1 \in 1 .. Len(M) /\ (s - a) + 1 \in 1 .. Len(M)
      BY <1>4, <2>1
    <3>. QED  BY <1>0, <1>1, <2>1, <3>1
  <2>4. Blank(M[m])
    BY <1>4, <2>1, <2>2, <2>3
  <2>5. m \in {3, d + 4, Len(M)} /\ m # Len(M)
    BY <1>0, <1>1, <1>3, <2>3, <2>4
  <2>. QED  BY <1>0, <1>1, <2>1, <2>5
<1>6. b = a + 3 /\ c = a + d + 4
  BY <1>0, <1>1, <1>5
<1>7. PICK e \in b .. n :
        /\ Word(line, b) = SubSeq(line, b, e)
        /\ e = n \/ Blank(line[e + 1])
        /\ \A j \in b .. e - 1 : ~Blank(line[j + 1])
  BY WordEnd DEF n
<1>8. ~Blank(line[b]) /\ ~Blank(line[c])
  BY DEF Starts
<1>9. 1 <= d
  <2>1. CASE d = 0
    <3>1. (b - a) + 1 = 4 /\ b \in a .. n /\ d + 4 = 4 /\ 4 \in 1 .. Len(M)
      BY <1>0, <1>1, <1>6, <2>1
    <3>2. Blank(M[4])
      BY <1>3, <3>1
    <3>3. line[b] = M[4]
      BY <1>4, <3>1
    <3>. QED  BY <1>8, <3>2, <3>3
  <2>. QED  BY <1>0, <1>1, <2>1
<1>10. e = a + d + 2
  <2>1. e \in Nat /\ b <= e /\ e <= n
    BY <1>0, <1>1, <1>7
  <2>2. CASE e > a + d + 2
    <3>. DEFINE j == a + d + 2
    <3>1. /\ j \in b .. e - 1 /\ j + 1 \in a .. n /\ ((j + 1) - a) + 1 = d + 4 /\ d + 4 \in 1 .. Len(M)
      <4>1. /\ n \in Nat /\ a \in Nat /\ b = a + 3 /\ c = a + d + 4 /\ 1 <= d /\ d \in Nat /\ c <= n
            /\ e \in Nat /\ e <= n /\ e > a + d + 2 /\ k \in Nat /\ Len(M) = (d + k) + 5
        BY <1>0, <1>1, <1>6, <1>9, <2>1, <2>2
      <4>. QED  BY ONLY <4>1
    <3>2. line[j + 1] = M[d + 4]
      BY <1>4, <3>1
    <3>3. Blank(M[d + 4])
      BY <1>3, <3>1
    <3>. QED  BY <1>7, <3>1, <3>2, <3>3
  <2>3. CASE e < a + d + 2
    <3>. DEFINE m == ((e + 1) - a) + 1
    <3>1. /\ e # n /\ e + 1 \in a .. n /\ m \in 1 .. Len(M) /\ m # 3 /\ m # d + 4 /\ m # Len(M)
      <4>1. /\ n \in Nat /\ a \in Nat /\ b = a + 3 /\ c = a + d + 4 /\ 1 <= d /\ d \in Nat /\ c <= n
            /\ e \in Nat /\ b <= e /\ e < a + d + 2 /\ k \in Nat /\ Len(M) = (d + k) + 5
        BY <1>0, <1>1, <1>6, <1>9, <2>1, <2>3
      <4>. QED  BY ONLY <4>1
    <3>2. Blank(line[e + 1]) /\ line[e + 1] = M[m]
      BY <1>4, <1>7, <3>1
    <3>. HIDE DEF m
    <3>. QED  BY <1>3, <3>1, <3>2
  <2>. QED  BY <1>0, <1>1, <2>1, <2>2, <2>3
<1>11. FromHex(Words(line)[2]) = x.data
  <2>. DEFINE w == SubSeq(line, b, e)
  <2>1. /\ b \in 1 .. Len(line) + 1 /\ e \in b - 1 .. Len(line) /\ (e + 1) - b = d
        /\ \A i \in 1 .. d : (b - 1) + i \in a .. n /\ (((b - 1) + i) - a) + 1 = 3 + i
    <3>1. /\ n \in Nat /\ a \in Nat /\ b = a + 3 /\ d \in Nat /\ 1 <= d /\ e \in b .. n /\ 1 <= a
          /\ e = a + d + 2 /\ Len(line) = n
      BY <1>0, <1>1, <1>6, <1>7, <1>9, <1>10 DEF n
    <3>. QED  BY ONLY <3>1
  <2>2. w \in Seq(Char) /\ Len(w) = d /\ \A i \in 1 .. d : w[i] = line[(b - 1) + i]
    <3>1. /\ w \in Seq(Char) /\ Len(w) = (e + 1) - b
          /\ \A i \in 1 .. (e + 1) - b : w[i] = line[(b - 1) + i]
      BY <2>1, Part
    <3>. QED  BY <2>1, <3>1
  <2>3. \A i \in 1 .. d : w[i] = hex_encode(data)[i]
    BY <1>2, <1>4, <2>1, <2>2
  <2>4. hex_encode(data) \in Seq(Char) /\ Len(hex_encode(data)) = d
    BY <1>1, HexText DEF d, data
  <2>. HIDE DEF w
  <2>5. w = hex_encode(data)
    BY <2>2, <2>3, <2>4, SameSeq
  <2>6. FromHex(hex_encode(data)) = data
    BY ONLY <1>1, FromHexBack
  <2>7. Words(line)[2] = w
    BY <1>7 DEF w
  <2>. QED  BY <2>5, <2>6, <2>7 DEF data
<1>12. PICK z \in c .. n :
         /\ Word(line, c) = SubSeq(line, c, z)
         /\ \A j \in c .. z - 1 : ~Blank(line[j + 1])
  BY WordEnd DEF n
<1>13. IsPrefix(Words(line)[3], rssi)
  <2>. DEFINE w == SubSeq(line, c, z)  m == (z + 1) - c
  <2>0. /\ n \in Nat /\ a \in Nat /\ c \in Nat /\ d \in Nat /\ k \in Nat /\ z \in c .. n
        /\ 1 <= a /\ c <= n /\ c = a + d + 4 /\ Len(line) = n
    BY <1>0, <1>1, <1>6, <1>12 DEF n
  <2>1. /\ c \in 1 .. Len(line) + 1 /\ z \in c - 1 .. Len(line) /\ z \in Nat /\ m \in Nat /\ z <= n /\ c <= z
        /\ \A i \in 1 .. m : /\ (c - 1) + i \in a .. n /\ (((c - 1) + i) - a) + 1 = (d + 4) + i
                             /\ (d + 4) + i # 3 /\ (d + 4) + i # d + 4
                             /\ i = 1 \/ (((c - 1) + i) - 1) \in c .. z - 1
    BY ONLY <2>0
  <2>2. w \in Seq(Char) /\ Len(w) = m /\ \A i \in 1 .. m : w[i] = line[(c - 1) + i]
    BY ONLY line \in Seq(Char), <2>1, Part
  <2>3. ASSUME NEW i \in 1 .. m
        PROVE  i \in 1 .. k /\ w[i] = rssi[i]
    <3>1. ~Blank(line[(c - 1) + i])
      <4>1. CASE i = 1
        <5>1. (c - 1) + 1 = c
          BY <1>0, <1>1
        <5>. QED  BY <1>8, <4>1, <5>1
      <4>2. CASE (((c - 1) + i) - 1) \in c .. z - 1
        <5>1. (((c - 1) + i) - 1) + 1 = (c - 1) + i
          BY <1>0, <1>1
        <5>. QED  BY <1>12, <4>2, <5>1
      <4>. QED  BY <2>1, <4>1, <4>2
    <3>2. (d + 4) + i \in 1 .. Len(M) /\ line[(c - 1) + i] = M[(d + 4) + i]
      BY <1>4, <2>1
    <3>3. (d + 4) + i # Len(M)
      BY <1>3, <3>1, <3>2
    <3>4. i \in 1 .. k
      <4>1. /\ d \in Nat /\ k \in Nat /\ Len(M) = (d + k) + 5 /\ m \in Nat /\ i \in 1 .. m
            /\ (d + 4) + i \in 1 .. Len(M) /\ (d + 4) + i # Len(M)
        BY <1>1, <2>1, <3>2, <3>3
      <4>. HIDE DEF m
      <4>. QED  BY ONLY <4>1
    <3>. QED  BY <1>2, <2>2, <3>2, <3>4
  <2>4. rssi \in Seq(RssiChar) /\ Len(rssi) = k
    BY <1>1 DEF k, rssi
  <2>5. m <= k
    <3>1. m \in Nat /\ k \in Nat /\ \A i \in 1 .. m : i \in 1 .. k
      BY <1>1, <2>1, <2>3
    <3>2. m = 0 \/ m \in 1 .. m
      BY ONLY <3>1
    <3>. HIDE DEF m
    <3>. QED  BY ONLY <3>1, <3>2
  <2>6. SubSeq(rssi, 1, m) = w
    <3>1. 1 \in 1 .. Len(rssi) + 1 /\ m \in 1 - 1 .. Len(rssi) /\ (m + 1) - 1 = m
          /\ \A i \in 1 .. m : (1 - 1) + i = i
      BY ONLY <2>1, <2>4, <2>5, <1>1
    <3>2. /\ SubSeq(rssi, 1, m) \in Seq(RssiChar) /\ Len(SubSeq(rssi, 1, m)) = m
          /\ \A i \in 1 .. m : SubSeq(rssi, 1, m)[i] = rssi[i]
      <4>. HIDE DEF m
      <4>1. /\ SubSeq(rssi, 1, m) \in Seq(RssiChar) /\ Len(SubSeq(rssi, 1, m)) = (m + 1) - 1
            /\ \A i \in 1 .. (m + 1) - 1 : SubSeq(rssi, 1, m)[i] = rssi[(1 - 1) + i]
        BY <2>4, <3>1, Part
      <4>. QED  BY <3>1, <4>1
    <3>3. SubSeq(rssi, 1, m) \in Seq(Char)
      BY <3>2, RssiChars, SeqMonotonic
    <3>. HIDE DEF w, m
    <3>4. \A i \in 1 .. m : SubSeq(rssi, 1, m)[i] = w[i]
      BY <2>3, <3>2
    <3>. QED  BY <2>2, <3>2, <3>3, <3>4, SameSeq
  <2>7. SubSeq(w, 1, m) = w
    <3>. HIDE DEF w
    <3>. QED  BY <2>2, SubSeqFull
  <2>8. Words(line)[3] = w
    BY <1>12
  <2>. HIDE DEF w, m
  <2>. QED  BY <2>2, <2>4, <2>5, <2>6, <2>7, <2>8 DEF IsPrefix
<1>. QED  BY <1>11, <1>13 DEF rssi

-----------------------------------------------------------------------------
(* The trace follows the stream: reports are added behind it, what the hub *)
(* has read is taken off its front, a restart cuts off either end.         *)
Trace(u, q) == \E from, of, nr : Traced(u, q, from, of, nr)
Reported == {ReportOf(x) : x \in Item}

LEMMA TraceStart ==
  ASSUME NEW q
  PROVE  Trace(<<>>, q)
<1>. DEFINE e == [i \in 1 .. Len(<<>>) |-> 0]
<1>1. Len(<<>>) = 0 /\ 1 .. Len(<<>>) = {}
  OBVIOUS
<1>2. /\ e \in [1 .. Len(<<>>) -> Int] /\ e \in [1 .. Len(<<>>) -> Item] /\ e \in [1 .. Len(<<>>) -> Nat]
  BY <1>1
<1>3. Traced(<<>>, q, e, e, e)
  BY <1>1, <1>2 DEF Traced
<1>. QED  BY <1>3 DEF Trace

LEMMA TraceCut ==
  ASSUME NEW u \in Seq(Char), NEW q, Trace(u, q), NEW m \in 0 .. Len(u)
  PROVE  Trace(SubSeq(u, 1, m), q)
<1>. DEFINE v == SubSeq(u, 1, m)
<1>1. /\ Len(u) \in Nat /\ Len(v) = m /\ m \in Nat
      /\ \A i \in 1 .. m : v[i] = u[i] /\ i \in 1 .. Len(u)
  <2>1. /\ Len(u) \in Nat /\ m \in Nat /\ 1 \in 1 .. Len(u) + 1 /\ m \in 1 - 1 .. Len(u)
        /\ (m + 1) - 1 = m /\ \A i \in 1 .. m : (1 - 1) + i = i /\ i \in 1 .. Len(u)
    BY LenProperties
  <2>2. v \in Seq(Char) /\ Len(v) = (m + 1) - 1 /\ \A i \in 1 .. (m + 1) - 1 : v[i] = u[(1 - 1) + i]
    BY <2>1, Part
  <2>. QED  BY <2>1, <2>2
<1>2. PICK from, of, nr : Traced(u, q, from, of, nr)
  BY DEF Trace
<1>. DEFINE f == [i \in 1 .. m |-> from[i]]  o == [i \in 1 .. m |-> of[i]]  n == [i \in 1 .. m |-> nr[i]]
<1>. HIDE DEF v
<1>3. f \in [1 .. m -> Int] /\ o \in [1 .. m -> Item] /\ n \in [1 .. m -> Nat]
  BY <1>1, <1>2 DEF Traced
<1>4. \A i \in 1 .. m : f[i] = from[i] /\ o[i] = of[i] /\ n[i] = nr[i]
  OBVIOUS
<1>. HIDE DEF f, o, n
<1>5. ASSUME NEW i \in 1 .. m
      PROVE  /\ f[i] <= i /\ (i - f[i]) + 1 \in 1 .. Len(LineOf(o[i]))
             /\ v[i] = LineOf(o[i])[(i - f[i]) + 1]
             /\ f[i] = i => n[i] \in 1 .. Len(q) /\ q[n[i]] = ReportOf(o[i])
  BY <1>1, <1>2, <1>4 DEF Traced
<1>6. ASSUME NEW i \in 1 .. m, NEW j \in 1 .. m, i < j
      PROVE  \/ f[j] = f[i] /\ o[j] = o[i]
             \/ f[j] \in i + 1 .. j /\ f[f[j]] = f[j]
  <2>1. \/ from[j] = from[i] /\ of[j] = of[i]
        \/ from[j] \in i + 1 .. j /\ from[from[j]] = from[j]
    BY <1>1, <1>2, <1>6 DEF Traced
  <2>2. \A g \in i + 1 .. j : g \in 1 .. m
    BY <1>1
  <2>. QED  BY <1>4, <2>1, <2>2
<1>7. ASSUME NEW i \in 1 .. m, NEW j \in 1 .. m, i < j, f[i] = i, f[j] = j
      PROVE  n[i] < n[j]
  BY <1>1, <1>2, <1>4, <1>7 DEF Traced
<1>8. Traced(v, q, f, o, n)
  BY <1>1, <1>3, <1>5, <1>6, <1>7 DEF Traced
<1>. QED  BY <1>8 DEF Trace, v

LEMMA TraceRest ==
  ASSUME NEW u \in Seq(Char), NEW q \in Seq(Reported), NEW from, NEW of, NEW nr,
         Traced(u, q, from, of, nr), NEW m \in 0 .. Len(u), NEW k \in 0 .. Len(q),
         \A i \in m + 1 .. Len(u) : from[i] = i => k < nr[i]
  PROVE  Trace(SubSeq(u, m + 1, Len(u)), SubSeq(q, k + 1, Len(q)))
<1>. DEFINE v == SubSeq(u, m + 1, Len(u))  r == SubSeq(q, k + 1, Len(q))  l == Len(u) - m
<1>1. /\ Len(u) \in Nat /\ Len(v) = l /\ m \in Nat /\ l \in Nat
      /\ \A i \in 1 .. l : v[i] = u[m + i] /\ m + i \in 1 .. Len(u) /\ m + i \in m + 1 .. Len(u)
  <2>1. /\ Len(u) \in Nat /\ m \in Nat /\ m + 1 \in 1 .. Len(u) + 1 /\ Len(u) \in (m + 1) - 1 .. Len(u)
        /\ (Len(u) + 1) - (m + 1) = l /\ (m + 1) - 1 = m /\ l \in Nat
        /\ \A i \in 1 .. l : m + i \in 1 .. Len(u) /\ m + i \in m + 1 .. Len(u)
    BY LenProperties
  <2>. DEFINE a == m + 1  b == Len(u)
  <2>2. a \in 1 .. Len(u) + 1 /\ b \in a - 1 .. Len(u)
    BY <2>1
  <2>. HIDE DEF a, b
  <2>3. /\ SubSeq(u, a, b) \in Seq(Char) /\ Len(SubSeq(u, a, b)) = (b + 1) - a
        /\ \A i \in 1 .. (b + 1) - a : SubSeq(u, a, b)[i] = u[(a - 1) + i]
    BY <2>2, Part
  <2>. QED  BY <2>1, <2>3 DEF a, b
<1>2. /\ Len(q) \in Nat /\ k \in Nat /\ Len(r) = Len(q) - k
      /\ \A i \in 1 .. Len(q) - k : r[i] = q[k + i]
  <2>1. /\ Len(q) \in Nat /\ k \in Nat /\ k + 1 \in 1 .. Len(q) + 1 /\ Len(q) \in (k + 1) - 1 .. Len(q)
        /\ (Len(q) + 1) - (k + 1) = Len(q) - k /\ (k + 1) - 1 = k
    BY LenProperties
  <2>. DEFINE a == k + 1  b == Len(q)
  <2>2. a \in 1 .. Len(q) + 1 /\ b \in a - 1 .. Len(q)
    BY <2>1
  <2>. HIDE DEF a, b
  <2>3. /\ SubSeq(q, a, b) \in Seq(Reported) /\ Len(SubSeq(q, a, b)) = (b + 1) - a
        /\ \A i \in 1 .. (b + 1) - a : SubSeq(q, a, b)[i] = q[(a - 1) + i]
    BY <2>2, Part
  <2>. QED  BY <2>1, <2>3 DEF a, b
<1>. DEFINE f == [i \in 1 .. l |-> from[m + i] - m]  o == [i \in 1 .. l |-> of[m + i]]
            n == [i \in 1 .. l |-> IF from[m + i] = m + i THEN nr[m + i] - k ELSE 0]
<1>. HIDE DEF v, r, l
<1>3. ASSUME NEW i \in 1 .. l
      PROVE  /\ f[i] = from[m + i] - m /\ from[m + i] \in Int /\ f[i] \in Int
             /\ (f[i] = i <=> from[m + i] = m + i)
             /\ o[i] = of[m + i] /\ o[i] \in Item
             /\ f[i] = i => n[i] = nr[m + i] - k /\ nr[m + i] \in Nat /\ k < nr[m + i]
             /\ n[i] \in Nat
  <2>1. m + i \in 1 .. Len(u) /\ m + i \in m + 1 .. Len(u)
    BY <1>1
  <2>2. from[m + i] \in Int /\ of[m + i] \in Item /\ nr[m + i] \in Nat
    BY <2>1 DEF Traced
  <2>3. f[i] = from[m + i] - m /\ o[i] = of[m + i]
        /\ n[i] = IF from[m + i] = m + i THEN nr[m + i] - k ELSE 0
    OBVIOUS
  <2>. HIDE DEF f, o, n
  <2>4. f[i] \in Int /\ (f[i] = i <=> from[m + i] = m + i)
    BY <1>1, <2>2, <2>3
  <2>5. from[m + i] = m + i => k < nr[m + i]
    BY <2>1
  <2>6. n[i] \in Nat
    BY <1>2, <2>2, <2>3, <2>5
  <2>. QED  BY <2>2, <2>3, <2>4, <2>5, <2>6
<1>4. f \in [1 .. l -> Int] /\ o \in [1 .. l -> Item] /\ n \in [1 .. l -> Nat]
  BY <1>3
<1>. HIDE DEF f, o, n
<1>5. ASSUME NEW i \in 1 .. l
      PROVE  /\ f[i] <= i /\ (i - f[i]) + 1 \in 1 .. Len(LineOf(o[i]))
             /\ v[i] = LineOf(o[i])[(i - f[i]) + 1]
             /\ f[i] = i => n[i] \in 1 .. Len(r) /\ r[n[i]] = ReportOf(o[i])
  <2>. DEFINE j == m + i
  <2>1. j \in 1 .. Len(u) /\ v[i] = u[j] /\ f[i] = from[j] - m /\ o[i] = of[j] /\ from[j] \in Int
    BY <1>1, <1>3
  <2>2. /\ from[j] <= j /\ (j - from[j]) + 1 \in 1 .. Len(LineOf(of[j]))
        /\ u[j] = LineOf(of[j])[(j - from[j]) + 1]
        /\ from[j] = j => nr[j] \in 1 .. Len(q) /\ q[nr[j]] = ReportOf(of[j])
    BY <2>1 DEF Traced
  <2>3. i - f[i] = j - from[j] /\ f[i] <= i
    <3>1. j = m + i /\ m \in Nat /\ i \in 1 .. l /\ l \in Nat /\ f[i] = from[j] - m /\ from[j] \in Int
          /\ from[j] <= j
      BY <1>1, <2>1, <2>2
    <3>. HIDE DEF j
    <3>. QED  BY ONLY <3>1
  <2>4. ASSUME f[i] = i
        PROVE  n[i] \in 1 .. Len(r) /\ r[n[i]] = ReportOf(o[i])
    <3>1. /\ nr[j] \in 1 .. Len(q) /\ q[nr[j]] = ReportOf(of[j]) /\ n[i] = nr[j] - k /\ k < nr[j]
      BY <1>3, <2>2, <2>4
    <3>. HIDE DEF j
    <3>2. n[i] \in 1 .. Len(q) - k /\ k + n[i] = nr[j]
      BY <1>2, <3>1
    <3>. QED  BY <1>2, <2>1, <3>1, <3>2
  <2>. HIDE DEF j
  <2>. QED  BY <2>1, <2>2, <2>3, <2>4
<1>6. ASSUME NEW i \in 1 .. l, NEW j \in 1 .. l, i < j
      PROVE  \/ f[j] = f[i] /\ o[j] = o[i]
             \/ f[j] \in i + 1 .. j /\ f[f[j]] = f[j]
  <2>1. m + i \in 1 .. Len(u) /\ m + j \in 1 .. Len(u) /\ m + i < m + j
    BY <1>1, <1>6
  <2>2. \/ from[m + j] = from[m + i] /\ of[m + j] = of[m + i]
        \/ from[m + j] \in (m + i) + 1 .. m + j /\ from[from[m + j]] = from[m + j]
    BY <2>1 DEF Traced
  <2>3. CASE from[m + j] = from[m + i] /\ of[m + j] = of[m + i]
    BY <1>3, <2>3
  <2>4. CASE from[m + j] \in (m + i) + 1 .. m + j /\ from[from[m + j]] = from[m + j]
    <3>. DEFINE g == from[m + j] - m
    <3>1. f[j] = g /\ g \in i + 1 .. j /\ g \in 1 .. l /\ m + g = from[m + j]
      <4>1. /\ f[j] = g /\ m \in Nat /\ l \in Nat /\ i \in 1 .. l /\ j \in 1 .. l
            /\ from[m + j] \in (m + i) + 1 .. m + j
        BY <1>1, <1>3, <2>4
      <4>. QED  BY ONLY <4>1
    <3>. HIDE DEF g
    <3>2. f[g] = g
      BY <1>3, <2>4, <3>1
    <3>. QED  BY <3>1, <3>2
  <2>. QED  BY <2>2, <2>3, <2>4
<1>7. ASSUME NEW i \in 1 .. l, NEW j \in 1 .. l, i < j, f[i] = i, f[j] = j
      PROVE  n[i] < n[j]
  <2>1. /\ m + i \in 1 .. Len(u) /\ m + j \in 1 .. Len(u) /\ m + i < m + j
        /\ from[m + i] = m + i /\ from[m + j] = m + j
    BY <1>1, <1>3, <1>7
  <2>2. nr[m + i] < nr[m + j]
    BY <2>1 DEF Traced
  <2>3. /\ n[i] = nr[m + i] - k /\ nr[m + i] \in Nat /\ n[j] = nr[m + j] - k /\ nr[m + j] \in Nat
    BY <1>3, <1>7
  <2>. QED  BY ONLY <1>2, <2>2, <2>3
<1>8. Traced(v, r, f, o, n)
  BY <1>1, <1>4, <1>5, <1>6, <1>7 DEF Traced
<1>. QED  BY <1>8 DEF Trace, v, r

LEMMA TraceMore ==
  ASSUME NEW u \in Seq(Char), NEW q \in Seq(Reported), NEW x \in Item, Trace(u, q)
  PROVE  Trace(u \o LineOf(x), Append(q, ReportOf(x)))
<1>. DEFINE M == LineOf(x)  v == u \o M  r == Append(q, ReportOf(x))  l == Len(u)  w == Len(u) + Len(M)
<1>1. /\ M \in Seq(Char) /\ Len(M) \in Nat /\ Len(M) # 0 /\ l \in Nat /\ w \in Nat /\ l <= w
      /\ Len(v) = w /\ \A i \in 1 .. l : v[i] = u[i]
      /\ \A i \in 1 .. Len(M) : v[l + i] = M[i]
  <2>1. M \in Seq(Char) /\ Len(M) = 2 * Len(x.data) + Len(x.rssi) + 5 /\ Len(x.data) \in Nat /\ Len(x.rssi) \in Nat
    BY ItemLine
  <2>2. l \in Nat
    BY LenProperties
  <2>. HIDE DEF M
  <2>3. /\ Len(u \o M) = Len(u) + Len(M)
        /\ \A i \in 1 .. Len(u) : (u \o M)[i] = u[i]
        /\ \A i \in 1 .. Len(M) : (u \o M)[Len(u) + i] = M[i]
    BY <2>1, CatChars
  <2>4. Len(M) \in Nat /\ Len(M) # 0
    <3>1. \A a, b \in Nat : 2 * a + b + 5 \in Nat /\ 2 * a + b + 5 # 0
      OBVIOUS
    <3>. QED  BY <2>1, <3>1
  <2>5. Len(u) + Len(M) \in Nat /\ Len(u) <= Len(u) + Len(M)
    BY ONLY <2>2, <2>4
  <2>. QED  BY ONLY <2>1, <2>2, <2>3, <2>4, <2>5
<1>2. /\ Len(q) \in Nat /\ Len(r) = Len(q) + 1 /\ r[Len(q) + 1] = ReportOf(x)
      /\ \A i \in 1 .. Len(q) : r[i] = q[i]
  <2>1. ReportOf(x) \in Reported
    BY DEF Reported
  <2>2. Len(q) \in Nat
    BY LenProperties
  <2>. QED  BY <2>1, <2>2, AppendProperties
<1>3. PICK from, of, nr : Traced(u, q, from, of, nr)
  BY DEF Trace
<1>. DEFINE f == [i \in 1 .. w |-> IF i <= l THEN from[i] ELSE l + 1]
            o == [i \in 1 .. w |-> IF i <= l THEN of[i] ELSE x]
            n == [i \in 1 .. w |-> IF i <= l THEN nr[i] ELSE Len(q) + 1]
<1>. HIDE DEF M, v, r, l, w
<1>4. ASSUME NEW i \in 1 .. w, i <= l
      PROVE  /\ i \in 1 .. l /\ f[i] = from[i] /\ o[i] = of[i] /\ n[i] = nr[i]
             /\ from[i] \in Int /\ of[i] \in Item /\ nr[i] \in Nat /\ from[i] <= i
  <2>1. i \in 1 .. l
    BY <1>1, <1>4
  <2>2. from[i] \in Int /\ of[i] \in Item /\ nr[i] \in Nat /\ from[i] <= i
    BY <1>3, <2>1 DEF Traced, l
  <2>. QED  BY <1>4, <2>1, <2>2
<1>5. ASSUME NEW i \in 1 .. w, ~(i <= l)
      PROVE  /\ f[i] = l + 1 /\ o[i] = x /\ n[i] = Len(q) + 1
             /\ l + 1 <= i /\ (i - (l + 1)) + 1 \in 1 .. Len(M)
             /\ l + ((i - (l + 1)) + 1) = i /\ l + 1 \in 1 .. w
  <2>1. l \in Nat /\ w \in Nat /\ w = l + Len(M) /\ i \in 1 .. w /\ ~(i <= l) /\ Len(M) \in Nat
    BY <1>1, <1>5 DEF w, l
  <2>2. /\ l + 1 <= i /\ (i - (l + 1)) + 1 \in 1 .. Len(M)
        /\ l + ((i - (l + 1)) + 1) = i /\ l + 1 \in 1 .. w
    BY ONLY <2>1
  <2>. QED  BY <1>5, <2>2
<1>6. f \in [1 .. w -> Int] /\ o \in [1 .. w -> Item] /\ n \in [1 .. w -> Nat]
  <2>1. ASSUME NEW i \in 1 .. w
        PROVE  f[i] \in Int /\ o[i] \in Item /\ n[i] \in Nat
    <3>1. l + 1 \in Int /\ Len(q) + 1 \in Nat
      BY <1>1, <1>2
    <3>. HIDE DEF f, o, n
    <3>. QED  BY <1>4, <1>5, <3>1
  <2>. QED  BY <2>1
<1>. HIDE DEF f, o, n
<1>7. ASSUME NEW i \in 1 .. w
      PROVE  /\ f[i] <= i /\ (i - f[i]) + 1 \in 1 .. Len(LineOf(o[i]))
             /\ v[i] = LineOf(o[i])[(i - f[i]) + 1]
             /\ f[i] = i => n[i] \in 1 .. Len(r) /\ r[n[i]] = ReportOf(o[i])
  <2>1. CASE i <= l
    <3>1. i \in 1 .. Len(u) /\ v[i] = u[i]
      BY <1>1, <1>4, <2>1 DEF l
    <3>2. /\ (i - from[i]) + 1 \in 1 .. Len(LineOf(of[i]))
          /\ u[i] = LineOf(of[i])[(i - from[i]) + 1]
          /\ from[i] = i => nr[i] \in 1 .. Len(q) /\ q[nr[i]] = ReportOf(of[i])
      BY <1>3, <3>1 DEF Traced
    <3>3. \A g \in 1 .. Len(q) : g \in 1 .. Len(r) /\ r[g] = q[g]
      BY <1>2
    <3>. QED  BY <1>4, <2>1, <3>1, <3>2, <3>3
  <2>2. CASE ~(i <= l)
    <3>1. v[i] = M[(i - (l + 1)) + 1]
      BY <1>1, <1>5, <2>2
    <3>2. Len(q) + 1 \in 1 .. Len(r)
      BY <1>2
    <3>. QED  BY <1>2, <1>5, <2>2, <3>1, <3>2 DEF M
  <2>. QED  BY <2>1, <2>2
<1>8. ASSUME NEW i \in 1 .. w, NEW j \in 1 .. w, i < j
      PROVE  \/ f[j] = f[i] /\ o[j] = o[i]
             \/ f[j] \in i + 1 .. j /\ f[f[j]] = f[j]
  <2>1. CASE j <= l
    <3>1. i <= l
      BY <1>1, <1>8, <2>1
    <3>2. \/ from[j] = from[i] /\ of[j] = of[i]
          \/ from[j] \in i + 1 .. j /\ from[from[j]] = from[j]
      BY <1>3, <1>4, <1>8, <2>1, <3>1 DEF Traced, l
    <3>3. CASE from[j] \in i + 1 .. j /\ from[from[j]] = from[j]
      <4>1. from[j] \in 1 .. w /\ from[j] <= l
        BY <1>1, <2>1, <3>3
      <4>. QED  BY <1>4, <2>1, <3>3, <4>1
    <3>. QED  BY <1>4, <2>1, <3>1, <3>2, <3>3
  <2>2. CASE ~(j <= l)
    <3>1. CASE i <= l
      <4>1. l + 1 \in i + 1 .. j /\ ~(l + 1 <= l)
        BY <1>1, <1>5, <2>2, <3>1
      <4>. QED  BY <1>5, <2>2, <4>1
    <3>. QED  BY <1>5, <2>2, <3>1
  <2>. QED  BY <2>1, <2>2
<1>9. ASSUME NEW i \in 1 .. w, NEW j \in 1 .. w, i < j, f[i] = i, f[j] = j
      PROVE  n[i] < n[j]
  <2>1. CASE j <= l
    <3>1. i <= l
      BY <1>1, <1>9, <2>1
    <3>2. nr[i] < nr[j]
      BY <1>3, <1>4, <1>9, <2>1, <3>1 DEF Traced, l
    <3>. QED  BY <1>4, <2>1, <3>1, <3>2
  <2>2. CASE ~(j <= l)
    <3>1. i <= l
      BY <1>1, <1>5, <1>9, <2>2
    <3>2. nr[i] \in 1 .. Len(q)
      BY <1>3, <1>4, <1>9, <3>1 DEF Traced, l
    <3>3. n[i] = nr[i] /\ n[j] = Len(q) + 1
      BY <1>4, <1>5, <2>2, <3>1
    <3>. QED  BY <1>2, <3>2, <3>3
  <2>. QED  BY <2>1, <2>2
<1>10. Traced(v, r, f, o, n)
  BY <1>1, <1>6, <1>7, <1>8, <1>9 DEF Traced
<1>. QED  BY <1>10 DEF Trace, M, v, r

-----------------------------------------------------------------------------
(* What the hub takes for a frame was reported, and is expected.           *)
HeardAs(line, q, x, k) ==
  /\ x \in Item
  /\ decode_rx_line(line) = HubDecode(x.data)
  /\ IsPrefix(Words(line)[3], x.rssi)
  /\ k \in 1 .. Len(q) /\ q[k] = ReportOf(x)

LEMMA Heard ==
  ASSUME NEW u \in Seq(Char), NEW q, NEW from, NEW of, NEW nr, Traced(u, q, from, of, nr),
         NEW n \in 0 .. Len(u), decode_rx_line(SubSeq(u, 1, n)) # NoFrame
  PROVE  \E a \in 1 .. n : from[a] = a /\ HeardAs(SubSeq(u, 1, n), q, of[a], nr[a])
<1>. DEFINE line == SubSeq(u, 1, n)
<1>. line = SubSeq(u, 1, n) /\ decode_rx_line(line) # NoFrame
  OBVIOUS
<1>. HIDE DEF line
<1>1. Len(u) \in Nat /\ n \in Nat /\ \A a \in 1 .. n : a \in 1 .. Len(u)
  BY LenProperties
<1>2. line \in Seq(Char) /\ Len(line) = n
  <2>1. 1 \in 1 .. Len(u) + 1 /\ n \in 1 - 1 .. Len(u) /\ (n + 1) - 1 = n
    BY ONLY <1>1, n \in 0 .. Len(u)
  <2>2. SubSeq(u, 1, n) \in Seq(Char) /\ Len(SubSeq(u, 1, n)) = (n + 1) - 1
    BY ONLY <2>1, u \in Seq(Char), Part
  <2>. QED  BY <2>1, <2>2
<1>3. /\ Len(Words(line)) = 3 /\ decode_rx_line(line) = HubDecode(FromHex(Words(line)[2]))
  BY DecodedParts
<1>4. PICK a \in 1 .. Len(line), b \in 1 .. Len(line), c \in 1 .. Len(line) : WordsAt(line, a, b, c)
  BY <1>2, <1>3, ThreeWords
<1>5. a \in 1 .. n /\ b \in 1 .. n /\ c \in 1 .. n /\ n \in 1 .. Len(u)
  BY <1>1, <1>2, <1>4
<1>6. from[a] = a /\ Continues(line, a, of[a])
  BY ZenonT(30), <1>4, <1>5, OneReport DEF line
<1>7. of[a] \in Item /\ nr[a] \in 1 .. Len(q) /\ q[nr[a]] = ReportOf(of[a])
  BY <1>1, <1>5, <1>6 DEF Traced
<1>8. FromHex(Words(line)[2]) = of[a].data /\ IsPrefix(Words(line)[3], of[a].rssi)
  BY <1>2, <1>4, <1>6, <1>7, HeardParts
<1>9. HeardAs(line, q, of[a], nr[a])
  BY <1>3, <1>7, <1>8 DEF HeardAs
<1>. QED  BY <1>5, <1>6, <1>9 DEF line

LEMMA NeverErrs ==
  ASSUME NEW b
  PROVE  BoardDecode(b) # ValueError
<1>1. BoardDecode(b).type \in 0 .. 7
  BY DEF BoardDecode, decode_beacon_frame, decode_join_frame, decode_data_frame, decode_blink_frame,
         decode_claim_frame, decode_announce_frame, decode_config_frame, Decoded, Frame, NoFrame,
         BEACON, JOIN, DATA, BLINK, CLAIM, ANNOUNCE, CONFIG
<1>. QED  BY <1>1 DEF ValueError

(* What readline returns is at the front of what is under way.             *)
LEMMA ReadsPart ==
  ASSUME up \in Seq(Char), NEW line \in Reads
  PROVE  \E n \in 0 .. Len(up) :
           line = SubSeq(up, 1, n) /\ Len(line) = n /\ (up # <<>> => n # 0)
<1>. DEFINE ends == {i \in DOMAIN up : up[i] = Newline}
            end == IF ends = {} THEN Len(up) ELSE Min(ends)
<1>1. Len(up) \in Nat /\ DOMAIN up = 1 .. Len(up)
  BY LenProperties
<1>2. end \in 0 .. Len(up) /\ (up # <<>> => end # 0)
  <2>1. CASE ends = {}
    BY <1>1, <2>1, EmptyLen
  <2>2. CASE ends # {}
    <3>1. ends \in SUBSET Nat /\ ends \subseteq 1 .. Len(up)
      BY <1>1
    <3>. HIDE DEF ends
    <3>2. Min(ends) \in 1 .. Len(up)
      BY <2>2, <3>1, MinOf
    <3>3. \A m \in 1 .. Len(up) : m \in 0 .. Len(up) /\ m # 0
      BY ONLY <1>1
    <3>. QED  BY <2>2, <3>2, <3>3
  <2>. QED  BY <2>1, <2>2
<1>. HIDE DEF ends, end
<1>3. PICK c \in {0} \cup {c \in Cuts : c < end} : line = SubSeq(up, 1, end - c)
  BY DEF Reads, ends, end
<1>4. c \in Nat /\ (c = 0 \/ c < end)
  BY <1>3, SerialAssumption
<1>. DEFINE n == end - c
<1>5. n \in 0 .. Len(up) /\ (up # <<>> => n # 0) /\ n \in Nat
      /\ 1 \in 1 .. Len(up) + 1 /\ n \in 1 - 1 .. Len(up) /\ (n + 1) - 1 = n
  BY ONLY <1>1, <1>2, <1>4
<1>. HIDE DEF n
<1>6. Len(SubSeq(up, 1, n)) = (n + 1) - 1
  BY ONLY <1>5, up \in Seq(Char), Part
<1>7. line = SubSeq(up, 1, n)
  BY <1>3 DEF n
<1>. QED  BY <1>5, <1>6, <1>7

(* A line the hub makes a frame of is expected, and nothing begins behind  *)
(* it that was expected before; one it cannot decode is bad DATA.          *)
LEMMA Expected ==
  ASSUME up \in Seq(Char), due \in Seq(Reported), NEW from, NEW of, NEW nr,
         Traced(up, due, from, of, nr), NEW n \in 0 .. Len(up),
         decode_rx_line(SubSeq(up, 1, n)) # NoFrame
  PROVE  \E a \in 1 .. n :
           /\ from[a] = a /\ nr[a] \in 1 .. Len(due)
           /\ decode_rx_line(SubSeq(up, 1, n)) # ValueError => nr[a] \in Reports(SubSeq(up, 1, n))
           /\ decode_rx_line(SubSeq(up, 1, n)) = ValueError =>
                due[nr[a]].frame.type = DATA /\ due[nr[a]].frame.fields[2] \notin NeedsWater
<1>. DEFINE line == SubSeq(up, 1, n)
<1>. line = SubSeq(up, 1, n) /\ decode_rx_line(line) # NoFrame
  OBVIOUS
<1>1. PICK a \in 1 .. n :
        /\ from[a] = a
        /\ of[a] \in Item
        /\ decode_rx_line(line) = HubDecode(of[a].data)
        /\ IsPrefix(Words(line)[3], of[a].rssi)
        /\ nr[a] \in 1 .. Len(due) /\ due[nr[a]] = ReportOf(of[a])
  <2>1. PICK a \in 1 .. n : from[a] = a /\ HeardAs(line, due, of[a], nr[a])
    <3>1. up \in Seq(Char) /\ Traced(up, due, from, of, nr) /\ n \in 0 .. Len(up)
          /\ decode_rx_line(SubSeq(up, 1, n)) # NoFrame
      OBVIOUS
    <3>. QED  BY ONLY SMT, <3>1, Heard
  <2>. QED  BY <2>1 DEF HeardAs
<1>. HIDE DEF line
<1>. DEFINE B == BoardDecode(of[a].data)
<1>2. of[a].data \in Seq(0 .. 255)
  BY <1>1 DEF Item, Bytes
<1>3. decode_rx_line(line) =
        IF B.type = DATA /\ B.fields[2] \notin NeedsWater THEN ValueError ELSE B
  BY <1>1, <1>2, CodecsAgree
<1>4. B # ValueError
  BY NeverErrs
<1>5. due[nr[a]].frame = B /\ due[nr[a]].rssi = of[a].rssi
  BY <1>1 DEF ReportOf
<1>. HIDE DEF B
<1>6. nr[a] \in DOMAIN due
  BY <1>1, LenProperties
<1>7. ASSUME decode_rx_line(line) # ValueError
      PROVE  nr[a] \in Reports(line)
  <2>1. due[nr[a]].frame = decode_rx_line(line)
    BY <1>3, <1>5, <1>7
  <2>2. IsPrefix(Words(line)[3], due[nr[a]].rssi)
    BY <1>1, <1>5
  <2>. QED  BY <1>6, <2>1, <2>2 DEF Reports
<1>8. ASSUME decode_rx_line(line) = ValueError
      PROVE  due[nr[a]].frame.type = DATA /\ due[nr[a]].frame.fields[2] \notin NeedsWater
  BY <1>3, <1>4, <1>5, <1>8
<1>. QED  BY <1>1, <1>7, <1>8 DEF line

-----------------------------------------------------------------------------
(* The invariant of what is on its way to the hub.                         *)
HubInv ==
  /\ up \in Seq(Char) /\ due \in Seq(Reported) /\ rxq \in Seq(Item)
  /\ Trace(up, due)

(* It settles both properties of the hub's side.                           *)
THEOREM HeardOnly == HubInv => HeardAsReported /\ CutsNeverRaise
<1>. SUFFICES ASSUME HubInv, NEW line \in Reads
              PROVE  /\ decode_rx_line(line) \notin {NoFrame, ValueError} => Reports(line) # {}
                     /\ decode_rx_line(line) = ValueError =>
                          \E k \in DOMAIN due :
                            due[k].frame.type = DATA /\ due[k].frame.fields[2] \notin NeedsWater
  BY DEF HeardAsReported, CutsNeverRaise
<1>1. up \in Seq(Char) /\ due \in Seq(Reported)
  BY DEF HubInv
<1>2. PICK n \in 0 .. Len(up) : line = SubSeq(up, 1, n)
  BY <1>1, ReadsPart
<1>3. PICK from, of, nr : Traced(up, due, from, of, nr)
  BY DEF HubInv, Trace
<1>4. ASSUME decode_rx_line(line) # NoFrame
      PROVE  \E k \in DOMAIN due :
               /\ decode_rx_line(line) # ValueError => k \in Reports(line)
               /\ decode_rx_line(line) = ValueError =>
                    due[k].frame.type = DATA /\ due[k].frame.fields[2] \notin NeedsWater
  <2>1. PICK a \in 1 .. n :
           /\ from[a] = a /\ nr[a] \in 1 .. Len(due)
           /\ decode_rx_line(SubSeq(up, 1, n)) # ValueError => nr[a] \in Reports(SubSeq(up, 1, n))
           /\ decode_rx_line(SubSeq(up, 1, n)) = ValueError =>
                due[nr[a]].frame.type = DATA /\ due[nr[a]].frame.fields[2] \notin NeedsWater
    BY ONLY <1>1, <1>2, <1>3, <1>4, Expected
  <2>2. nr[a] \in DOMAIN due
    BY <1>1, <2>1, LenProperties
  <2>. QED  BY <1>2, <2>1, <2>2
<1>5. NoFrame # ValueError
  BY DEF NoFrame, ValueError
<1>. QED  BY <1>4, <1>5

(* Reading takes a piece off the front and settles no report that is still *)
(* to begin.                                                               *)
LEMMA TraceTail ==
  ASSUME NEW u \in Seq(Char), NEW q \in Seq(Reported), Trace(u, q), NEW m \in 0 .. Len(u)
  PROVE  Trace(SubSeq(u, m + 1, Len(u)), q)
<1>1. PICK from, of, nr : Traced(u, q, from, of, nr)
  BY DEF Trace
<1>2. 0 \in 0 .. Len(q) /\ \A i \in m + 1 .. Len(u) : from[i] = i => 0 < nr[i]
  <2>1. Len(u) \in Nat /\ Len(q) \in Nat /\ \A i \in m + 1 .. Len(u) : i \in 1 .. Len(u)
    BY LenProperties
  <2>2. ASSUME NEW i \in m + 1 .. Len(u), from[i] = i
        PROVE  0 < nr[i]
    <3>1. nr[i] \in 1 .. Len(q)
      BY <1>1, <2>1, <2>2 DEF Traced
    <3>. QED  BY ONLY <2>1, <3>1
  <2>. QED  BY <2>1, <2>2
<1>3. Trace(SubSeq(u, m + 1, Len(u)), SubSeq(q, 0 + 1, Len(q)))
  BY ONLY <1>1, <1>2, TraceRest, u \in Seq(Char), q \in Seq(Reported), m \in 0 .. Len(u)
<1>4. SubSeq(q, 0 + 1, Len(q)) = q
  <2>1. SubSeq(q, 1, Len(q)) = q
    BY SubSeqFull
  <2>. QED  BY <2>1
<1>. QED  BY <1>3, <1>4

LEMMA SettledRest ==
  ASSUME NEW S, NEW q \in Seq(S), NEW these \in SUBSET (1 .. Len(q))
  PROVE  /\ Settled(q, these) \in Seq(S) /\ Len(Settled(q, these)) <= Len(q)
         /\ these # {} => Len(Settled(q, these)) < Len(q)
<1>1. CASE these = {}
  BY <1>1, LenProperties DEF Settled
<1>2. CASE these # {}
  <2>. DEFINE k == Min(these)
  <2>1. Len(q) \in Nat /\ these \in SUBSET Nat
    BY LenProperties
  <2>2. k \in these
    BY <1>2, <2>1, MinOf
  <2>. HIDE DEF k
  <2>3. k + 1 \in 1 .. Len(q) + 1 /\ Len(q) \in (k + 1) - 1 .. Len(q)
        /\ (Len(q) + 1) - (k + 1) <= Len(q) /\ (Len(q) + 1) - (k + 1) < Len(q)
    BY <2>1, <2>2
  <2>. DEFINE a == k + 1  b == Len(q)
  <2>4. a \in 1 .. Len(q) + 1 /\ b \in a - 1 .. Len(q)
        /\ (b + 1) - a <= Len(q) /\ (b + 1) - a < Len(q)
    BY <2>3
  <2>. HIDE DEF a, b
  <2>5. SubSeq(q, a, b) \in Seq(S) /\ Len(SubSeq(q, a, b)) = (b + 1) - a
    BY ONLY <2>4, q \in Seq(S), Part
  <2>6. Settled(q, these) = SubSeq(q, a, b)
    BY <1>2 DEF Settled, a, b, k
  <2>. QED  BY <2>4, <2>5, <2>6
<1>. QED  BY <1>1, <1>2

LEMMA ReadOff ==
  ASSUME HubInv, up # <<>>, NEW line \in Reads
  PROVE  /\ Trace(SubSeq(up, Len(line) + 1, Len(up)), due)
         /\ decode_rx_line(line) \notin {NoFrame, ValueError} =>
              Trace(SubSeq(up, Len(line) + 1, Len(up)), Settled(due, Reports(line)))
         /\ SubSeq(up, Len(line) + 1, Len(up)) \in Seq(Char)
         /\ Reports(line) \in SUBSET (1 .. Len(due))
<1>1. up \in Seq(Char) /\ due \in Seq(Reported) /\ Trace(up, due)
  BY DEF HubInv
<1>2. PICK n \in 0 .. Len(up) : line = SubSeq(up, 1, n) /\ Len(line) = n
  BY <1>1, ReadsPart
<1>3. Trace(SubSeq(up, n + 1, Len(up)), due)
  BY ONLY <1>1, <1>2, TraceTail
<1>4. /\ Len(up) \in Nat /\ Len(due) \in Nat /\ n \in Nat /\ DOMAIN due = 1 .. Len(due)
      /\ n + 1 \in 1 .. Len(up) + 1 /\ Len(up) \in (n + 1) - 1 .. Len(up)
  BY <1>1, <1>2, LenProperties
<1>5. SubSeq(up, n + 1, Len(up)) \in Seq(Char)
  BY ONLY <1>1, <1>4, Part
<1>6. Reports(line) \in SUBSET (1 .. Len(due))
  BY <1>4 DEF Reports
<1>7. ASSUME decode_rx_line(line) \notin {NoFrame, ValueError}
      PROVE  Trace(SubSeq(up, n + 1, Len(up)), Settled(due, Reports(line)))
  <2>1. PICK from, of, nr : Traced(up, due, from, of, nr)
    BY <1>1 DEF Trace
  <2>2. PICK a \in 1 .. n :
           /\ from[a] = a /\ nr[a] \in 1 .. Len(due)
           /\ decode_rx_line(SubSeq(up, 1, n)) # ValueError => nr[a] \in Reports(SubSeq(up, 1, n))
           /\ decode_rx_line(SubSeq(up, 1, n)) = ValueError =>
                due[nr[a]].frame.type = DATA /\ due[nr[a]].frame.fields[2] \notin NeedsWater
    <3>1. decode_rx_line(SubSeq(up, 1, n)) # NoFrame
      BY <1>2, <1>7
    <3>. QED  BY ONLY <1>1, <1>2, <2>1, <3>1, Expected
  <2>3. nr[a] \in Reports(line)
    BY <1>2, <1>7, <2>2
  <2>. DEFINE k == Min(Reports(line))
  <2>4. k \in Reports(line) /\ k <= nr[a]
    <3>1. Reports(line) \in SUBSET Nat /\ Reports(line) # {}
      BY <1>4, <1>6, <2>3
    <3>. QED  BY <2>3, <3>1, MinOf
  <2>. HIDE DEF k
  <2>5. k \in 0 .. Len(due) /\ k \in Nat
    BY <1>4, <1>6, <2>4
  <2>6. ASSUME NEW i \in n + 1 .. Len(up), from[i] = i
        PROVE  k < nr[i]
    <3>1. a \in 1 .. Len(up) /\ i \in 1 .. Len(up) /\ a < i
      BY ONLY <1>4, a \in 1 .. n, n \in 0 .. Len(up), i \in n + 1 .. Len(up)
    <3>2. nr[a] < nr[i] /\ nr[a] \in Nat /\ nr[i] \in Nat
      BY <2>1, <2>2, <2>6, <3>1 DEF Traced
    <3>. QED  BY ONLY <2>4, <2>5, <3>2
  <2>7. Trace(SubSeq(up, n + 1, Len(up)), SubSeq(due, k + 1, Len(due)))
    BY ONLY <1>1, <1>2, <2>1, <2>5, <2>6, TraceRest
  <2>8. Settled(due, Reports(line)) = SubSeq(due, k + 1, Len(due))
    BY <2>4 DEF Settled, k
  <2>. QED  BY <2>7, <2>8
<1>. QED  BY <1>2, <1>3, <1>5, <1>6, <1>7

LEMMA Kept ==
  ASSUME NEW S, NEW d \in Seq(S), NEW l \in Nat
  PROVE  SubSeq(d, 1, Min({Len(d), l})) \in Seq(S)
<1>. DEFINE m == Min({Len(d), l})
<1>1. Len(d) \in Nat
  BY LenProperties
<1>2. m \in 0 .. Len(d)
  <2>1. {Len(d), l} \in SUBSET Nat /\ {Len(d), l} # {}
    BY <1>1
  <2>2. m \in {Len(d), l} /\ m <= Len(d)
    BY <2>1, MinOf
  <2>. HIDE DEF m
  <2>. QED  BY <1>1, <2>2
<1>. HIDE DEF m
<1>3. 1 \in 1 .. Len(d) + 1 /\ m \in 1 - 1 .. Len(d)
  BY <1>1, <1>2
<1>4. SubSeq(d, 1, m) \in Seq(S)
  BY <1>3, Part
<1>. QED  BY <1>4 DEF m

LEMMA ReportStep ==
  ASSUME HubInv, Report
  PROVE  HubInv'
<1>1. up \in Seq(Char) /\ due \in Seq(Reported) /\ rxq \in Seq(Item) /\ Trace(up, due)
  BY DEF HubInv
<1>2. CASE rxq = <<>>
  BY <1>1, <1>2 DEF Report, HubInv
<1>3. CASE rxq # <<>>
  <2>. DEFINE x == Head(rxq)
  <2>1. x \in Item /\ Tail(rxq) \in Seq(Item)
    BY <1>1, <1>3, HeadTailProperties
  <2>2. rxq' = Tail(rxq) /\ up' = up \o LineOf(x) /\ due' = Append(due, ReportOf(x))
    BY <1>3 DEF Report, LineOf, ReportOf
  <2>. HIDE DEF x
  <2>3. up' \in Seq(Char)
    BY <1>1, <2>1, <2>2, ItemLine, CatChars
  <2>4. due' \in Seq(Reported)
    <3>1. ReportOf(x) \in Reported
      BY <2>1 DEF Reported
    <3>. QED  BY <1>1, <2>2, <3>1, AppendProperties
  <2>5. Trace(up', due')
    <3>1. Trace(up \o LineOf(x), Append(due, ReportOf(x)))
      BY ONLY <1>1, <2>1, TraceMore
    <3>. QED  BY <2>2, <3>1
  <2>. QED  BY <2>1, <2>2, <2>3, <2>4, <2>5 DEF HubInv
<1>. QED  BY <1>2, <1>3

LEMMA HubInvStep ==
  ASSUME HubInv, [Next]_vars
  PROVE  HubInv'
<1>0. up \in Seq(Char) /\ due \in Seq(Reported) /\ rxq \in Seq(Item) /\ Trace(up, due)
      /\ Len(up) \in Nat /\ Len(due) \in Nat
  BY LenProperties DEF HubInv
<1>e. \A q : Trace(<<>>, q)
  BY TraceStart
<1>s. <<>> \in Seq(Reported) /\ <<>> \in Seq(Item) /\ <<>> \in Seq(Char)
  OBVIOUS
<1>1. CASE \E t \in Web, payload \in Commands : Send(t, payload)
  BY <1>0, <1>1 DEF Send, HubInv, dongle, history
<1>2. CASE \E t \in Threads : Write(t)
  BY <1>0, <1>2 DEF Write, HubInv
<1>3. ASSUME NEW payload \in Air, NEW rssi \in Rssi, radio_on_receive_done(payload, rssi)
      PROVE  HubInv'
  <2>. DEFINE item == [data |-> SubSeq(payload, 1, Min({Len(payload), PROTOCOL_FRAME_MAX_LEN})),
                       rssi |-> rssi]
  <2>1. item \in Item
    <3>1. payload \in Seq(Bytes) /\ PROTOCOL_FRAME_MAX_LEN \in Nat
      BY SerialAssumption DEF Bytes, PROTOCOL_FRAME_MAX_LEN, FRAME_LEN, DATA
    <3>2. SubSeq(payload, 1, Min({Len(payload), PROTOCOL_FRAME_MAX_LEN})) \in Seq(Bytes)
      BY ONLY <3>1, Kept
    <3>. QED  BY <3>2 DEF Item
  <2>2. rxq' = (IF Len(rxq) < QueueDepth THEN Append(rxq, item) ELSE rxq) /\ up' = up /\ due' = due
    BY <1>3 DEF radio_on_receive_done, history
  <2>. HIDE DEF item
  <2>3. rxq' \in Seq(Item)
    BY <1>0, <2>1, <2>2, AppendProperties
  <2>. QED  BY <1>0, <2>2, <2>3 DEF HubInv
<1>4. CASE Iterate
  BY <1>4, ReportStep DEF Iterate
<1>5. CASE HubPoll
  <2>1. PICK line \in Reads :
           /\ up' = SubSeq(up, Len(line) + 1, Len(up))
           /\ due' = IF up' = <<>> THEN <<>>
                     ELSE IF decode_rx_line(line) \in {NoFrame, ValueError} THEN due
                     ELSE Settled(due, Reports(line))
    BY <1>5 DEF HubPoll
  <2>2. up # <<>> /\ rxq' = rxq
    BY <1>5 DEF HubPoll, dongle
  <2>3. /\ Trace(up', due)
        /\ decode_rx_line(line) \notin {NoFrame, ValueError} => Trace(up', Settled(due, Reports(line)))
        /\ up' \in Seq(Char)
        /\ Reports(line) \in SUBSET (1 .. Len(due))
    BY <2>1, <2>2, ReadOff
  <2>4. Settled(due, Reports(line)) \in Seq(Reported)
    BY ONLY <1>0, <2>3, SettledRest
  <2>5. due' \in Seq(Reported) /\ Trace(up', due')
    BY <1>0, <1>e, <1>s, <2>1, <2>3, <2>4
  <2>. QED  BY <1>0, <2>2, <2>3, <2>5 DEF HubInv
<1>6. CASE DongleRestart
  <2>1. PICK lost \in {0} \cup {c \in Cuts : c <= Len(up)} : up' = SubSeq(up, 1, Len(up) - lost)
    BY <1>6 DEF DongleRestart
  <2>2. rxq' = <<>> /\ due' = IF up' = <<>> THEN <<>> ELSE due
    BY <1>6 DEF DongleRestart
  <2>. DEFINE m == Len(up) - lost
  <2>3. m \in 0 .. Len(up) /\ 1 \in 1 .. Len(up) + 1 /\ m \in 1 - 1 .. Len(up)
    <3>1. lost \in Nat /\ lost <= Len(up)
      BY <1>0, <2>1, SerialAssumption
    <3>. QED  BY ONLY <1>0, <3>1
  <2>. HIDE DEF m
  <2>4. Trace(SubSeq(up, 1, m), due)
    BY ONLY <1>0, <2>3, TraceCut
  <2>5. SubSeq(up, 1, m) \in Seq(Char)
    BY ONLY <1>0, <2>3, Part
  <2>6. up' = SubSeq(up, 1, m)
    BY <2>1 DEF m
  <2>. QED  BY <1>0, <1>e, <1>s, <2>2, <2>4, <2>5, <2>6 DEF HubInv
<1>7. CASE HubRestart
  <2>1. PICK kept \in {0} \cup {c \in Cuts : c <= Len(up)} :
           up' = SubSeq(up, Len(up) - kept + 1, Len(up))
    BY <1>7 DEF HubRestart
  <2>2. rxq' = rxq /\ due' = IF up' = <<>> THEN <<>> ELSE due
    BY <1>7 DEF HubRestart, dongle
  <2>. DEFINE m == Len(up) - kept
  <2>3. m \in 0 .. Len(up) /\ m + 1 \in 1 .. Len(up) + 1 /\ Len(up) \in (m + 1) - 1 .. Len(up)
    <3>1. kept \in Nat /\ kept <= Len(up)
      BY <1>0, <2>1, SerialAssumption
    <3>. QED  BY ONLY <1>0, <3>1
  <2>4. up' = SubSeq(up, m + 1, Len(up))
    BY <2>1
  <2>. HIDE DEF m
  <2>5. Trace(SubSeq(up, m + 1, Len(up)), due)
    BY ONLY <1>0, <2>3, TraceTail
  <2>6. SubSeq(up, m + 1, Len(up)) \in Seq(Char)
    BY ONLY <1>0, <2>3, Part
  <2>. QED  BY <1>0, <1>e, <1>s, <2>2, <2>4, <2>5, <2>6 DEF HubInv
<1>8. CASE UNCHANGED vars
  BY <1>0, <1>8 DEF vars, dongle, history, HubInv
<1>. QED  BY <1>1, <1>2, <1>3, <1>4, <1>5, <1>6, <1>7, <1>8 DEF Next

(* Whatever the boards send, however the line is cut and whoever restarts: *)
(* what the hub takes for a frame is one the dongle received, in order and *)
(* at most once, and only bad DATA off the air ends the poll thread.       *)
THEOREM SerialHub == Spec => []HubInv
<1>1. Init => HubInv
  <2>1. ASSUME Init
        PROVE  HubInv
    <3>1. up = <<>> /\ due = <<>> /\ rxq = <<>>
      BY <2>1 DEF Init
    <3>2. Trace(<<>>, <<>>)
      BY TraceStart
    <3>. QED  BY <3>1, <3>2 DEF HubInv
  <2>. QED  BY <2>1
<1>2. HubInv /\ [Next]_vars => HubInv'
  BY HubInvStep
<1>. QED  BY <1>1, <1>2, PTL DEF Spec

(* What the hub takes for a frame is one that is still due, whose strength *)
(* begins with the one the line has (serial_bridge.py:66-89).              *)
THEOREM SerialHeard == Spec => []HeardAsReported
<1>1. HubInv => HeardAsReported
  BY HeardOnly
<1>. QED  BY <1>1, SerialHub, PTL

(* A line that was cut or run into another raises in the poll thread only  *)
(* if a payload off the air does (protocol_frame.py:182, main.py:45-50).   *)
THEOREM SerialKills == Spec => []CutsNeverRaise
<1>1. HubInv => CutsNeverRaise
  BY HeardOnly
<1>. QED  BY <1>1, SerialHub, PTL

-----------------------------------------------------------------------------
(* What a thread has still to write is the rest of the line of a payload;  *)
(* only a whole line begins with T, and only its last character is a       *)
(* newline.                                                                *)
Payload == Commands \cup Configs

LEMMA PayloadLine ==
  ASSUME NEW p \in Payload
  PROVE  /\ p \in Seq(Bytes) /\ p # <<>>
         /\ encode_tx_line(p) \in Seq(Char) /\ Len(encode_tx_line(p)) \in Nat
         /\ 6 <= Len(encode_tx_line(p)) /\ Len(encode_tx_line(p)) < LineMax
         /\ \A i \in 1 .. Len(encode_tx_line(p)) :
              /\ encode_tx_line(p)[i] = Newline <=> i = Len(encode_tx_line(p))
              /\ encode_tx_line(p)[i] = "T" <=> i = 1
         /\ parse_tx_line(SubSeq(encode_tx_line(p), 1, Len(encode_tx_line(p)) - 1)) = p
<1>1. /\ p \in Seq(Bytes) /\ Len(p) \in 1 .. PROTOCOL_FRAME_MAX_LEN /\ 2 * Len(p) + 4 < LineMax
      /\ LineMax \in Nat
  BY SerialAssumption DEF Payload, Bytes
<1>2. PROTOCOL_FRAME_MAX_LEN \in Nat
  BY DEF PROTOCOL_FRAME_MAX_LEN, FRAME_LEN, DATA
<1>3. Len(p) \in Nat /\ 1 <= Len(p) /\ Len(p) <= PROTOCOL_FRAME_MAX_LEN
  BY ONLY <1>1, <1>2
<1>4. p # <<>>
  BY <1>1, <1>3, EmptyLen
<1>5. encode_tx_line(p) \in Seq(Char) /\ Len(encode_tx_line(p)) = 2 * Len(p) + 4
  BY <1>1, TxLine
<1>6. Len(encode_tx_line(p)) \in Nat /\ 6 <= Len(encode_tx_line(p)) /\ Len(encode_tx_line(p)) < LineMax
  <2>1. \A l \in Nat : 1 <= l => 2 * l + 4 \in Nat /\ 6 <= 2 * l + 4
    OBVIOUS
  <2>. QED  BY <1>1, <1>3, <1>5, <2>1
<1>7. parse_tx_line(SubSeq(encode_tx_line(p), 1, Len(encode_tx_line(p)) - 1)) = p
  BY ONLY <1>1, <1>3, ParseBack
<1>8. \A i \in 1 .. Len(encode_tx_line(p)) :
        /\ encode_tx_line(p)[i] = Newline <=> i = Len(encode_tx_line(p))
        /\ encode_tx_line(p)[i] = "T" <=> i = 1
  BY <1>1, TxMarks
<1>. QED  BY <1>1, <1>4, <1>5, <1>6, <1>7, <1>8

RestOf(s, p, m) ==
  /\ p \in Payload /\ m \in Nat /\ m < Len(encode_tx_line(p))
  /\ s = SubSeq(encode_tx_line(p), m + 1, Len(encode_tx_line(p)))

Rest(s) == s = <<>> \/ \E p, m : RestOf(s, p, m)

LEMMA RestIs ==
  ASSUME NEW s, NEW p, NEW m, RestOf(s, p, m)
  PROVE  /\ s \in Seq(Char) /\ Len(s) = Len(encode_tx_line(p)) - m /\ Len(s) \in Nat \ {0} /\ Len(s) < LineMax
         /\ \A i \in 1 .. Len(s) : /\ m + i \in 1 .. Len(encode_tx_line(p))
                                   /\ s[i] = encode_tx_line(p)[m + i]
                                   /\ s[i] = Newline <=> i = Len(s)
                                   /\ s[i] = "T" <=> m = 0 /\ i = 1
         /\ Unfinished(s) <=> m # 0
         /\ m = 0 => s = encode_tx_line(p)
<1>. DEFINE e == encode_tx_line(p)  l == Len(e)
<1>1. /\ e \in Seq(Char) /\ l \in Nat /\ l < LineMax
      /\ \A i \in 1 .. l : (e[i] = Newline <=> i = l) /\ (e[i] = "T" <=> i = 1)
  BY PayloadLine DEF RestOf
<1>2. m \in Nat /\ m < l /\ s = SubSeq(e, m + 1, l) /\ LineMax \in Nat
  BY SerialAssumption DEF RestOf
<1>. HIDE DEF e
<1>3. /\ m + 1 \in 1 .. Len(e) + 1 /\ l \in (m + 1) - 1 .. Len(e)
      /\ (l + 1) - (m + 1) = l - m /\ (m + 1) - 1 = m
  BY ONLY <1>1, <1>2
<1>. DEFINE a == m + 1
<1>. HIDE DEF l, a
<1>4. /\ s \in Seq(Char) /\ Len(s) = l - m /\ \A i \in 1 .. l - m : s[i] = e[m + i]
  <2>1. a \in 1 .. Len(e) + 1 /\ l \in a - 1 .. Len(e)
    BY <1>3 DEF a
  <2>2. /\ SubSeq(e, a, l) \in Seq(Char) /\ Len(SubSeq(e, a, l)) = (l + 1) - a
        /\ \A i \in 1 .. (l + 1) - a : SubSeq(e, a, l)[i] = e[(a - 1) + i]
    BY ONLY <1>1, <2>1, Part
  <2>. QED  BY <1>2, <1>3, <2>2 DEF a
<1>5. Len(s) \in Nat \ {0} /\ Len(s) < LineMax
  BY ONLY <1>1, <1>2, <1>4
<1>6. ASSUME NEW i \in 1 .. Len(s)
      PROVE  /\ m + i \in 1 .. l /\ s[i] = e[m + i]
             /\ s[i] = Newline <=> i = Len(s)
             /\ s[i] = "T" <=> m = 0 /\ i = 1
  <2>1. m + i \in 1 .. l /\ i \in 1 .. l - m /\ (m + i = l <=> i = Len(s)) /\ (m + i = 1 <=> m = 0 /\ i = 1)
    BY ONLY <1>1, <1>2, <1>4, i \in 1 .. Len(s)
  <2>. QED  BY <1>1, <1>4, <2>1
<1>7. Unfinished(s) <=> m # 0
  <2>1. 1 \in 1 .. Len(s) /\ s # <<>>
    BY <1>4, <1>5, EmptyLen
  <2>. QED  BY <1>6, <2>1 DEF Unfinished
<1>8. m = 0 => s = e
  <2>. SUFFICES ASSUME m = 0
                PROVE  s = e
    OBVIOUS
  <2>1. Len(s) = Len(e) /\ \A i \in 1 .. Len(s) : m + i = i
    BY <1>1, <1>2, <1>4 DEF l
  <2>2. \A i \in 1 .. Len(s) : s[i] = e[i]
    BY <1>6, <2>1
  <2>. QED  BY <1>1, <1>4, <2>1, <2>2, SameSeq
<1>. QED  BY <1>4, <1>5, <1>6, <1>7, <1>8 DEF l, e

LEMMA LineRest ==
  ASSUME NEW p \in Payload
  PROVE  RestOf(encode_tx_line(p), p, 0)
<1>1. encode_tx_line(p) \in Seq(Char) /\ Len(encode_tx_line(p)) \in Nat /\ 6 <= Len(encode_tx_line(p))
  BY PayloadLine
<1>2. 0 < Len(encode_tx_line(p)) /\ 0 + 1 = 1
  BY ONLY <1>1
<1>3. SubSeq(encode_tx_line(p), 1, Len(encode_tx_line(p))) = encode_tx_line(p)
  BY <1>1, SubSeqFull
<1>. QED  BY <1>2, <1>3 DEF RestOf

(* What is left of it after another part.                                  *)
LEMMA RestRest ==
  ASSUME NEW s, NEW p, NEW m, RestOf(s, p, m), NEW n \in 1 .. Len(s)
  PROVE  /\ n = Len(s) => SubSeq(s, n + 1, Len(s)) = <<>>
         /\ n < Len(s) => RestOf(SubSeq(s, n + 1, Len(s)), p, m + n)
<1>. DEFINE e == encode_tx_line(p)  l == Len(e)
<1>1. /\ s \in Seq(Char) /\ Len(s) = l - m /\ Len(s) \in Nat
      /\ \A i \in 1 .. Len(s) : m + i \in 1 .. l /\ s[i] = e[m + i]
      /\ p \in Payload /\ m \in Nat /\ m < l /\ e \in Seq(Char) /\ l \in Nat
  BY RestIs, PayloadLine DEF RestOf
<1>. HIDE DEF e
<1>. DEFINE r == SubSeq(s, n + 1, Len(s))
<1>2. /\ n + 1 \in 1 .. Len(s) + 1 /\ Len(s) \in (n + 1) - 1 .. Len(s)
      /\ (Len(s) + 1) - (n + 1) = Len(s) - n /\ (n + 1) - 1 = n
  BY ONLY <1>1, n \in 1 .. Len(s)
<1>3. r \in Seq(Char) /\ Len(r) = Len(s) - n /\ \A i \in 1 .. Len(s) - n : r[i] = s[n + i]
  <2>. DEFINE a == n + 1  b == Len(s)
  <2>1. a \in 1 .. Len(s) + 1 /\ b \in a - 1 .. Len(s)
    BY <1>2
  <2>. HIDE DEF a, b
  <2>2. /\ SubSeq(s, a, b) \in Seq(Char) /\ Len(SubSeq(s, a, b)) = (b + 1) - a
        /\ \A i \in 1 .. (b + 1) - a : SubSeq(s, a, b)[i] = s[(a - 1) + i]
    BY ONLY <1>1, <2>1, Part
  <2>. QED  BY <1>2, <2>2 DEF a, b
<1>. HIDE DEF r
<1>4. n = Len(s) => r = <<>>
  <2>1. n = Len(s) => Len(r) = 0
    BY ONLY <1>1, <1>3
  <2>. QED  BY <1>3, <2>1, EmptyLen
<1>5. ASSUME n < Len(s)
      PROVE  RestOf(r, p, m + n)
  <2>. DEFINE k == m + n
  <2>1. /\ k \in Nat /\ k < l /\ k + 1 \in 1 .. Len(e) + 1 /\ l \in (k + 1) - 1 .. Len(e)
        /\ (l + 1) - (k + 1) = Len(s) - n /\ (k + 1) - 1 = k
        /\ \A i \in 1 .. Len(s) - n : n + i \in 1 .. Len(s) /\ m + (n + i) = k + i
    BY ONLY <1>1, <1>5, n \in 1 .. Len(s)
  <2>. DEFINE a == k + 1  b == l  x == SubSeq(e, a, b)
  <2>2. a \in 1 .. Len(e) + 1 /\ b \in a - 1 .. Len(e)
    BY <2>1
  <2>3. x \in Seq(Char) /\ Len(x) = Len(s) - n /\ \A i \in 1 .. Len(s) - n : x[i] = e[k + i]
    <3>. HIDE DEF a, b
    <3>1. /\ SubSeq(e, a, b) \in Seq(Char) /\ Len(SubSeq(e, a, b)) = (b + 1) - a
          /\ \A i \in 1 .. (b + 1) - a : SubSeq(e, a, b)[i] = e[(a - 1) + i]
      BY ONLY <1>1, <2>2, Part
    <3>. QED  BY <2>1, <3>1 DEF a, b
  <2>. HIDE DEF x, k, a, b
  <2>4. ASSUME NEW i \in 1 .. Len(s) - n
        PROVE  r[i] = x[i]
    <3>1. r[i] = s[n + i] /\ x[i] = e[k + i] /\ n + i \in 1 .. Len(s) /\ m + (n + i) = k + i
      BY <1>3, <2>1, <2>3
    <3>2. s[n + i] = e[m + (n + i)]
      BY ONLY <1>1, <3>1
    <3>. QED  BY ONLY <3>1, <3>2
  <2>5. r = x
    BY <1>3, <2>3, <2>4, SameSeq
  <2>. QED  BY <1>1, <2>1, <2>5 DEF RestOf, x, a, b, k, e
<1>. QED  BY <1>4, <1>5 DEF r

-----------------------------------------------------------------------------
(* The dongle's line buffer as it reads the driver: what it holds behind   *)
(* each character, from the one it holds now on.                           *)
Feeds(b, r, ls) ==
  /\ ls \in [0 .. Len(r) -> Seq(Char)]
  /\ ls[0] = b
  /\ \A i \in 0 .. Len(r) : Len(ls[i]) <= LineMax - 1
  /\ \A i \in 1 .. Len(r) :
       ls[i] = IF r[i] = Newline THEN <<>>
               ELSE IF Len(ls[i - 1]) < LineMax - 1 THEN Append(ls[i - 1], r[i])
               ELSE ls[i - 1]

(* And what it holds behind j characters of w, none of them a newline,     *)
(* when it held R before them.                                             *)
Fit(R, j) == IF Len(R) + j <= LineMax - 1 THEN Len(R) + j ELSE LineMax - 1
Got(R, w, j) == SubSeq(R \o w, 1, Fit(R, j))
Held(R) == R \in Seq(Char) /\ Len(R) <= LineMax - 1

LEMMA GotIs ==
  ASSUME NEW R, Held(R), NEW w \in Seq(Char), NEW j \in 0 .. Len(w)
  PROVE  /\ Held(Got(R, w, j)) /\ Len(Got(R, w, j)) = Fit(R, j) /\ Fit(R, j) \in Nat
         /\ Len(R) <= Fit(R, j)
         /\ \A i \in 1 .. Len(R) : i \in 1 .. Fit(R, j) /\ Got(R, w, j)[i] = R[i]
         /\ \A i \in 1 .. j : Len(R) + i <= Fit(R, j) => Got(R, w, j)[Len(R) + i] = w[i]
<1>1. /\ R \in Seq(Char) /\ Len(R) \in Nat /\ Len(R) <= LineMax - 1 /\ LineMax \in Nat /\ Len(w) \in Nat
      /\ j \in Nat /\ j <= Len(w)
  BY LenProperties, SerialAssumption DEF Held
<1>. DEFINE s == R \o w  f == Fit(R, j)
<1>2. /\ s \in Seq(Char) /\ Len(s) = Len(R) + Len(w)
      /\ \A i \in 1 .. Len(R) : s[i] = R[i]
      /\ \A i \in 1 .. Len(w) : s[Len(R) + i] = w[i]
  BY <1>1, CatChars
<1>3. f \in Nat /\ f <= LineMax - 1 /\ Len(R) <= f /\ f <= Len(R) + Len(w) /\ f <= Len(R) + j
  BY ONLY <1>1 DEF Fit
<1>. HIDE DEF s, f
<1>4. 1 \in 1 .. Len(s) + 1 /\ f \in 1 - 1 .. Len(s) /\ (f + 1) - 1 = f
  BY ONLY <1>1, <1>2, <1>3
<1>5. /\ SubSeq(s, 1, f) \in Seq(Char) /\ Len(SubSeq(s, 1, f)) = f
      /\ \A i \in 1 .. f : SubSeq(s, 1, f)[i] = s[i]
  <2>1. /\ SubSeq(s, 1, f) \in Seq(Char) /\ Len(SubSeq(s, 1, f)) = (f + 1) - 1
        /\ \A i \in 1 .. (f + 1) - 1 : SubSeq(s, 1, f)[i] = s[(1 - 1) + i]
    BY ONLY <1>2, <1>4, Part
  <2>2. \A i \in 1 .. f : (1 - 1) + i = i
    OBVIOUS
  <2>. QED  BY <1>4, <2>1, <2>2
<1>6. Got(R, w, j) = SubSeq(s, 1, f)
  BY DEF Got, s, f
<1>7. \A i \in 1 .. Len(R) : i \in 1 .. f
  BY ONLY <1>1, <1>3
<1>8. ASSUME NEW i \in 1 .. j, Len(R) + i <= f
      PROVE  SubSeq(s, 1, f)[Len(R) + i] = w[i]
  <2>1. Len(R) + i \in 1 .. f /\ i \in 1 .. Len(w)
    BY ONLY <1>1, <1>3, <1>8
  <2>. QED  BY <1>2, <1>5, <2>1
<1>. QED  BY <1>2, <1>3, <1>5, <1>6, <1>7, <1>8 DEF Held, f

LEMMA GotNone ==
  ASSUME NEW R, Held(R), NEW w \in Seq(Char)
  PROVE  Got(R, w, 0) = R
<1>1. R \in Seq(Char) /\ Len(R) \in Nat /\ Len(R) <= LineMax - 1 /\ LineMax \in Nat /\ 0 \in 0 .. Len(w)
  BY LenProperties, SerialAssumption DEF Held
<1>2. /\ Held(Got(R, w, 0)) /\ Len(Got(R, w, 0)) = Fit(R, 0)
      /\ \A i \in 1 .. Len(R) : Got(R, w, 0)[i] = R[i]
  BY <1>1, GotIs
<1>3. Fit(R, 0) = Len(R)
  BY ONLY <1>1 DEF Fit
<1>. QED  BY <1>1, <1>2, <1>3, SameSeq DEF Held

LEMMA GotNext ==
  ASSUME NEW R, Held(R), NEW w \in Seq(Char), NEW j \in 1 .. Len(w)
  PROVE  Got(R, w, j) = IF Len(Got(R, w, j - 1)) < LineMax - 1 THEN Append(Got(R, w, j - 1), w[j])
                        ELSE Got(R, w, j - 1)
<1>1. /\ R \in Seq(Char) /\ Len(R) \in Nat /\ Len(R) <= LineMax - 1 /\ LineMax \in Nat /\ Len(w) \in Nat
      /\ j \in Nat /\ j <= Len(w) /\ 1 <= j
  BY LenProperties, SerialAssumption DEF Held
<1>2. j \in 0 .. Len(w) /\ j - 1 \in 0 .. Len(w) /\ w[j] \in Char
  <2>1. j \in 0 .. Len(w) /\ j - 1 \in 0 .. Len(w)
    BY ONLY <1>1
  <2>. QED  BY <2>1, ElementOfSeq
<1>. DEFINE g == Got(R, w, j)  f == Fit(R, j)  k == j - 1
<1>. DEFINE g0 == Got(R, w, k)  f0 == Fit(R, k)
<1>3. /\ g \in Seq(Char) /\ Len(g) = f /\ f \in Nat
      /\ \A i \in 1 .. Len(R) : i \in 1 .. f /\ g[i] = R[i]
      /\ \A i \in 1 .. j : Len(R) + i <= f => g[Len(R) + i] = w[i]
  BY <1>2, GotIs DEF Held
<1>4. /\ g0 \in Seq(Char) /\ Len(g0) = f0 /\ f0 \in Nat
      /\ \A i \in 1 .. Len(R) : i \in 1 .. f0 /\ g0[i] = R[i]
      /\ \A i \in 1 .. k : Len(R) + i <= f0 => g0[Len(R) + i] = w[i]
  <2>1. k \in 0 .. Len(w)
    BY <1>2
  <2>. HIDE DEF k
  <2>. QED  BY <2>1, GotIs DEF Held
<1>5. /\ f0 < LineMax - 1 => f = Len(R) + j /\ f0 = Len(R) + k /\ f = f0 + 1
      /\ ~(f0 < LineMax - 1) => f = LineMax - 1 /\ f0 = f
      /\ f <= Len(R) + j /\ f0 <= Len(R) + k /\ k \in Nat /\ k = j - 1
  BY ONLY <1>1 DEF Fit
<1>. HIDE DEF g, f, g0, f0, k
<1>6. ASSUME NEW i \in 1 .. f0
      PROVE  g[i] = g0[i]
  <2>1. CASE i <= Len(R)
    <3>1. i \in 1 .. Len(R)
      BY ONLY <1>1, <1>4, <2>1, i \in 1 .. f0
    <3>. QED  BY <1>3, <1>4, <3>1
  <2>2. CASE ~(i <= Len(R))
    <3>. DEFINE x == i - Len(R)
    <3>1. /\ x \in 1 .. k /\ x \in 1 .. j /\ Len(R) + x = i /\ Len(R) + x <= f0 /\ Len(R) + x <= f
      <4>1. f0 <= f
        BY <1>3, <1>4, <1>5
      <4>. QED  BY ONLY <1>1, <1>3, <1>4, <1>5, <2>2, <4>1, i \in 1 .. f0
    <3>. HIDE DEF x
    <3>2. g[Len(R) + x] = w[x] /\ g0[Len(R) + x] = w[x]
      BY <1>3, <1>4, <3>1
    <3>. QED  BY <3>1, <3>2
  <2>. QED  BY <2>1, <2>2
<1>7. CASE f0 < LineMax - 1
  <2>. DEFINE a == Append(g0, w[j])
  <2>1. a \in Seq(Char) /\ Len(a) = f0 + 1 /\ (\A i \in 1 .. f0 : a[i] = g0[i]) /\ a[f0 + 1] = w[j]
    BY <1>2, <1>4, AppendProperties
  <2>. HIDE DEF a
  <2>2. ASSUME NEW i \in 1 .. Len(g)
        PROVE  g[i] = a[i]
    <3>1. i \in 1 .. f0 \/ i = f0 + 1
      BY ONLY <1>3, <1>4, <1>5, <1>7, i \in 1 .. Len(g)
    <3>2. CASE i = f0 + 1
      <4>1. j \in 1 .. j /\ Len(R) + j <= f /\ i = Len(R) + j
        BY ONLY <1>1, <1>3, <1>5, <1>7, <3>2
      <4>2. g[Len(R) + j] = w[j]
        BY <1>3, <4>1
      <4>. QED  BY <2>1, <3>2, <4>1, <4>2
    <3>. QED  BY <1>6, <2>1, <3>1, <3>2
  <2>3. Len(g) = Len(a)
    BY <1>3, <1>5, <1>7, <2>1
  <2>4. g = a
    BY ONLY <1>3, <2>1, <2>2, <2>3, SameSeq
  <2>. QED  BY <1>4, <1>7, <2>4 DEF a, g, g0, k
<1>8. CASE ~(f0 < LineMax - 1)
  <2>1. Len(g) = Len(g0) /\ \A i \in 1 .. Len(g) : g[i] = g0[i]
    BY <1>3, <1>4, <1>5, <1>6, <1>8
  <2>2. g = g0
    BY ONLY <1>3, <1>4, <2>1, SameSeq
  <2>. QED  BY <1>4, <1>8, <2>2 DEF g, g0, k
<1>. QED  BY <1>7, <1>8

-----------------------------------------------------------------------------
(* Where in the driver a line ends that holds a frame, and which of the    *)
(* lines begun it is: in their order, each once.                           *)
Hit(r, ls, i) == r[i] = Newline /\ parse_tx_line(ls[i - 1]) # <<>>

Marks(r, ls, h, q, m) ==
  /\ h \in [1 .. Len(r) -> Nat]
  /\ \A i \in 1 .. Len(r) :
       Hit(r, ls, i) => h[i] \in 1 .. m /\ parse_tx_line(ls[i - 1]) = q[h[i]]
  /\ \A i, j \in 1 .. Len(r) : i < j /\ Hit(r, ls, i) /\ Hit(r, ls, j) => h[i] < h[j]

Every(r, ls, h, m) == \A k \in 1 .. m : \E i \in 1 .. Len(r) : Hit(r, ls, i) /\ h[i] = k

(* A piece of a line comes in behind what the driver holds.                *)
Piece(w) ==
  /\ w \in Seq(Char) /\ Len(w) \in Nat \ {0}
  /\ \A i \in 1 .. Len(w) : w[i] = Newline => i = Len(w)

More(r, w, ls) ==
  [i \in 0 .. Len(r) + Len(w) |->
     IF i <= Len(r) THEN ls[i]
     ELSE IF w[i - Len(r)] = Newline THEN <<>>
     ELSE Got(ls[Len(r)], w, i - Len(r))]

MoreMarks(r, w, h, m) == [i \in 1 .. Len(r) + Len(w) |-> IF i <= Len(r) THEN h[i] ELSE m + 1]

FedMore(b, r, ls, w) ==
  /\ r \o w \in Seq(Char) /\ Len(r \o w) = Len(r) + Len(w)
  /\ \A i \in 1 .. Len(r) : (r \o w)[i] = r[i]
  /\ \A i \in 1 .. Len(w) : (r \o w)[Len(r) + i] = w[i]
  /\ Len(r) \in Nat /\ Held(ls[Len(r)])
  /\ \A i \in 0 .. Len(r) : More(r, w, ls)[i] = ls[i]
  /\ \A i \in 1 .. Len(w) :
       More(r, w, ls)[Len(r) + i] = IF w[i] = Newline THEN <<>> ELSE Got(ls[Len(r)], w, i)
  /\ More(r, w, ls)[Len(r) + Len(w) - 1] = Got(ls[Len(r)], w, Len(w) - 1)
  /\ Feeds(b, r \o w, More(r, w, ls))

LEMMA FeedMore ==
  ASSUME NEW b, NEW r \in Seq(Char), NEW ls, Feeds(b, r, ls), NEW w, Piece(w)
  PROVE  FedMore(b, r, ls, w)
<1>. DEFINE s == r \o w  g == More(r, w, ls)  n == Len(r)  l == Len(w)  R == ls[n]
<1>1. /\ n \in Nat /\ l \in Nat /\ l # 0 /\ w \in Seq(Char) /\ LineMax \in Nat
      /\ \A i \in 1 .. l : w[i] = Newline => i = l
  BY LenProperties, SerialAssumption DEF Piece
<1>2. /\ s \in Seq(Char) /\ Len(s) = n + l
      /\ \A i \in 1 .. n : s[i] = r[i]
      /\ \A i \in 1 .. l : s[n + i] = w[i]
  BY <1>1, CatChars
<1>3. Held(R)
  <2>1. n \in 0 .. n
    BY <1>1
  <2>. QED  BY <2>1 DEF Feeds, Held
<1>4. ASSUME NEW i \in 0 .. n
      PROVE  g[i] = ls[i] /\ i \in 0 .. n + l /\ ls[i] \in Seq(Char) /\ Len(ls[i]) <= LineMax - 1
  <2>1. i \in 0 .. n + l /\ i <= n
    BY ONLY <1>1, i \in 0 .. n
  <2>2. g[i] = ls[i]
    BY <2>1 DEF More
  <2>. QED  BY <2>1, <2>2 DEF Feeds
<1>. HIDE DEF s, R
<1>5. ASSUME NEW i \in 1 .. l
      PROVE  g[n + i] = (IF w[i] = Newline THEN <<>> ELSE Got(R, w, i)) /\ n + i \in 0 .. n + l
  <2>1. n + i \in 0 .. n + l /\ ~(n + i <= n) /\ (n + i) - n = i
    BY ONLY <1>1, i \in 1 .. l
  <2>. HIDE DEF l
  <2>2. g[n + i] = IF w[(n + i) - n] = Newline THEN <<>> ELSE Got(R, w, (n + i) - n)
    BY <2>1 DEF More, R, l
  <2>. QED  BY <2>1, <2>2
<1>6. DOMAIN g = 0 .. n + l /\ g = [i \in 0 .. n + l |-> g[i]]
  BY DEF More
<1>. HIDE DEF g, n, l
<1>7. ASSUME NEW i \in 0 .. n + l
      PROVE  i \in 0 .. n \/ \E k \in 1 .. l : i = n + k
  <2>1. i \in 0 .. n \/ (i - n \in 1 .. l /\ i = n + (i - n))
    BY ONLY <1>1, i \in 0 .. n + l
  <2>. QED  BY <2>1
<1>8. \A i \in 1 .. l : Held(Got(R, w, i)) /\ i \in 0 .. l
  <2>1. \A i \in 1 .. l : i \in 0 .. l
    BY ONLY <1>1
  <2>. QED  BY <1>1, <1>3, <2>1, GotIs DEF l
<1>9. ASSUME NEW i \in 0 .. n + l
      PROVE  g[i] \in Seq(Char) /\ Len(g[i]) <= LineMax - 1
  <2>1. CASE i \in 0 .. n
    BY <1>4, <2>1
  <2>2. ASSUME NEW k \in 1 .. l, i = n + k
        PROVE  g[i] \in Seq(Char) /\ Len(g[i]) <= LineMax - 1
    <3>1. <<>> \in Seq(Char) /\ Len(<<>>) <= LineMax - 1
      BY SerialAssumption
    <3>. QED  BY <1>5, <1>8, <2>2, <3>1 DEF Held
  <2>. QED  BY <1>7, <2>1, <2>2
<1>10. g[(n + l) - 1] = Got(R, w, l - 1)
  <2>1. CASE l = 1
    <3>1. (n + l) - 1 = n /\ l - 1 = 0 /\ n \in 0 .. n
      BY <1>1, <2>1
    <3>2. Got(R, w, 0) = R
      BY <1>1, <1>3, GotNone
    <3>. QED  BY <1>4, <3>1, <3>2 DEF R
  <2>2. CASE l # 1
    <3>. DEFINE k == l - 1
    <3>1. k \in 1 .. l /\ k # l /\ (n + l) - 1 = n + k
      BY <1>1, <2>2
    <3>. HIDE DEF k
    <3>2. w[k] # Newline
      BY <1>1, <3>1
    <3>3. g[n + k] = Got(R, w, k)
      BY <1>5, <3>1, <3>2
    <3>. QED  BY <3>1, <3>3 DEF k
  <2>. QED  BY <2>1, <2>2
<1>11. ASSUME NEW i \in 1 .. n + l
       PROVE  g[i] = IF s[i] = Newline THEN <<>>
                     ELSE IF Len(g[i - 1]) < LineMax - 1 THEN Append(g[i - 1], s[i])
                     ELSE g[i - 1]
  <2>1. CASE i \in 1 .. n
    <3>1. i \in 0 .. n /\ i - 1 \in 0 .. n
      BY ONLY <1>1, <2>1
    <3>2. ls[i] = IF r[i] = Newline THEN <<>>
                  ELSE IF Len(ls[i - 1]) < LineMax - 1 THEN Append(ls[i - 1], r[i])
                  ELSE ls[i - 1]
      BY <2>1 DEF Feeds, n
    <3>3. g[i] = ls[i] /\ g[i - 1] = ls[i - 1] /\ s[i] = r[i]
      BY <1>2, <1>4, <2>1, <3>1
    <3>. QED  BY <3>2, <3>3
  <2>2. ASSUME NEW k \in 1 .. l, i = n + k
        PROVE  g[i] = IF s[i] = Newline THEN <<>>
                      ELSE IF Len(g[i - 1]) < LineMax - 1 THEN Append(g[i - 1], s[i])
                      ELSE g[i - 1]
    <3>1. s[i] = w[k] /\ g[i] = IF w[k] = Newline THEN <<>> ELSE Got(R, w, k)
      BY <1>2, <1>5, <2>2
    <3>2. w[k] # Newline =>
            Got(R, w, k) = IF Len(Got(R, w, k - 1)) < LineMax - 1 THEN Append(Got(R, w, k - 1), w[k])
                           ELSE Got(R, w, k - 1)
      BY <1>1, <1>3, GotNext DEF l
    <3>3. g[i - 1] = Got(R, w, k - 1)
      <4>1. CASE k = 1
        <5>1. i - 1 = n /\ k - 1 = 0 /\ n \in 0 .. n
          BY <1>1, <2>2, <4>1
        <5>2. Got(R, w, 0) = R
          BY <1>1, <1>3, GotNone
        <5>. QED  BY <1>4, <5>1, <5>2 DEF R
      <4>2. CASE k # 1
        <5>. DEFINE x == k - 1
        <5>1. x \in 1 .. l /\ x # l /\ i - 1 = n + x
          BY <1>1, <2>2, <4>2
        <5>. HIDE DEF x
        <5>2. w[x] # Newline
          BY <1>1, <5>1
        <5>3. g[n + x] = Got(R, w, x)
          BY <1>5, <5>1, <5>2
        <5>. QED  BY <5>1, <5>3 DEF x
      <4>. QED  BY <4>1, <4>2
    <3>. QED  BY <3>1, <3>2, <3>3
  <2>3. i \in 1 .. n \/ \E k \in 1 .. l : i = n + k
    <3>1. i \in 0 .. n + l /\ (i \in 0 .. n => i \in 1 .. n)
      BY ONLY <1>1, i \in 1 .. n + l
    <3>. QED  BY <1>7, <3>1
  <2>. QED  BY <2>1, <2>2, <2>3
<1>12. g[0] = b
  <2>1. 0 \in 0 .. n
    BY <1>1
  <2>. QED  BY <1>4, <2>1 DEF Feeds
<1>13. Feeds(b, s, g)
  BY <1>2, <1>6, <1>9, <1>11, <1>12 DEF Feeds
<1>. QED  BY <1>1, <1>2, <1>3, <1>4, <1>5, <1>10, <1>13 DEF s, g, n, l, R, FedMore

LEMMA MarksMore ==
  ASSUME NEW b, NEW r \in Seq(Char), NEW ls, Feeds(b, r, ls), NEW w, Piece(w),
         NEW h, NEW q, NEW m \in Nat, Marks(r, ls, h, q, m), NEW p, \A k \in 1 .. m : p[k] = q[k],
         NEW n \in {m, m + 1}, NEW f, f = parse_tx_line(Got(ls[Len(r)], w, Len(w) - 1)),
         \/ n = m /\ (w[Len(w)] # Newline \/ f = <<>>)
         \/ n = m + 1 /\ w[Len(w)] = Newline /\ f # <<>> /\ p[m + 1] = f
  PROVE  /\ Marks(r \o w, More(r, w, ls), MoreMarks(r, w, h, m), p, n)
         /\ Every(r, ls, h, m) => Every(r \o w, More(r, w, ls), MoreMarks(r, w, h, m), n)
<1>. DEFINE s == r \o w  g == More(r, w, ls)  c == Len(r)  l == Len(w)  x == MoreMarks(r, w, h, m)
<1>1. /\ Len(s) = c + l /\ c \in Nat /\ l \in Nat /\ l # 0
      /\ \A i \in 1 .. c : s[i] = r[i]
      /\ \A i \in 1 .. l : s[c + i] = w[i]
      /\ \A i \in 0 .. c : g[i] = ls[i]
      /\ g[(c + l) - 1] = Got(ls[Len(r)], w, l - 1)
      /\ \A i \in 1 .. l : w[i] = Newline => i = l
  <2>1. /\ Len(r \o w) = Len(r) + Len(w) /\ Len(r) \in Nat
        /\ \A i \in 1 .. Len(r) : (r \o w)[i] = r[i]
        /\ \A i \in 1 .. Len(w) : (r \o w)[Len(r) + i] = w[i]
        /\ \A i \in 0 .. Len(r) : More(r, w, ls)[i] = ls[i]
        /\ More(r, w, ls)[Len(r) + Len(w) - 1] = Got(ls[Len(r)], w, Len(w) - 1)
    <3>1. FedMore(b, r, ls, w)
      BY FeedMore
    <3>. QED  BY ONLY <3>1 DEF FedMore
  <2>2. Len(w) \in Nat /\ Len(w) # 0 /\ \A i \in 1 .. Len(w) : w[i] = Newline => i = Len(w)
    BY DEF Piece
  <2>. QED  BY ONLY <2>1, <2>2
<1>2. x = [i \in 1 .. c + l |-> IF i <= c THEN h[i] ELSE m + 1]
  BY DEF MoreMarks
<1>3. /\ h \in [1 .. c -> Nat]
      /\ \A i \in 1 .. c : Hit(r, ls, i) => h[i] \in 1 .. m /\ parse_tx_line(ls[i - 1]) = q[h[i]]
      /\ \A i, j \in 1 .. c : i < j /\ Hit(r, ls, i) /\ Hit(r, ls, j) => h[i] < h[j]
  BY DEF Marks
<1>. HIDE DEF s, g, c, l, x
<1>4. ASSUME NEW i \in 1 .. c
      PROVE  /\ (Hit(s, g, i) <=> Hit(r, ls, i)) /\ g[i - 1] = ls[i - 1] /\ i \in 1 .. c + l /\ i <= c
             /\ x[i] = h[i]
  <2>1. i \in 0 .. c /\ i - 1 \in 0 .. c /\ i \in 1 .. c + l /\ i <= c
    BY ONLY <1>1, i \in 1 .. c
  <2>. QED  BY <1>1, <1>2, <2>1 DEF Hit
<1>5. ASSUME NEW i \in 1 .. c + l, ~(i \in 1 .. c), Hit(s, g, i)
      PROVE  /\ i = c + l /\ w[l] = Newline /\ f # <<>> /\ parse_tx_line(g[i - 1]) = f
             /\ x[i] = m + 1 /\ n = m + 1
  <2>. DEFINE k == i - c
  <2>1. k \in 1 .. l /\ i = c + k /\ ~(i <= c)
    BY ONLY <1>1, <1>5, i \in 1 .. c + l
  <2>. HIDE DEF k
  <2>2. w[k] = Newline
    BY <1>1, <1>5, <2>1 DEF Hit
  <2>3. k = l
    BY <1>1, <2>1, <2>2
  <2>4. i = c + l
    BY <2>1, <2>3
  <2>5. g[i - 1] = Got(ls[Len(r)], w, l - 1)
    BY <1>1, <2>4
  <2>6. parse_tx_line(g[i - 1]) = f
    BY <2>5 DEF l
  <2>7. f # <<>>
    BY <1>5, <2>6 DEF Hit
  <2>8. x[i] = m + 1
    BY <1>2, <2>1
  <2>. QED  BY <2>2, <2>3, <2>4, <2>6, <2>7, <2>8 DEF l
<1>6. ASSUME n = m + 1
      PROVE  Hit(s, g, c + l) /\ c + l \in 1 .. c + l /\ x[c + l] = m + 1
  <2>1. w[l] = Newline /\ f # <<>>
    BY <1>6 DEF l
  <2>2. l \in 1 .. l /\ c + l \in 1 .. c + l /\ ~(c + l <= c)
    BY ONLY <1>1
  <2>3. s[c + l] = Newline
    BY <1>1, <2>1, <2>2
  <2>4. parse_tx_line(g[(c + l) - 1]) = f
    BY <1>1 DEF l
  <2>5. Hit(s, g, c + l)
    BY <2>1, <2>3, <2>4 DEF Hit
  <2>. QED  BY <1>2, <2>2, <2>5
<1>7. n \in Nat /\ m <= n
  OBVIOUS
<1>8. x \in [1 .. c + l -> Nat]
  <2>1. ASSUME NEW i \in 1 .. c + l
        PROVE  x[i] \in Nat
    <3>1. CASE i <= c
      <4>1. i \in 1 .. c
        BY ONLY <1>1, <3>1, i \in 1 .. c + l
      <4>. QED  BY <1>3, <1>4, <4>1
    <3>2. CASE ~(i <= c)
      BY <1>2, <3>2
    <3>. QED  BY <3>1, <3>2
  <2>. QED  BY <1>2, <2>1
<1>9. ASSUME NEW i \in 1 .. c + l, Hit(s, g, i)
      PROVE  x[i] \in 1 .. n /\ parse_tx_line(g[i - 1]) = p[x[i]]
  <2>1. CASE i \in 1 .. c
    <3>1. x[i] = h[i] /\ h[i] \in 1 .. m /\ parse_tx_line(g[i - 1]) = q[h[i]]
      BY <1>3, <1>4, <1>9, <2>1
    <3>2. p[h[i]] = q[h[i]]
      BY <3>1
    <3>. QED  BY <1>7, <3>1, <3>2
  <2>2. CASE ~(i \in 1 .. c)
    <3>1. parse_tx_line(g[i - 1]) = f /\ x[i] = m + 1 /\ n = m + 1
      BY <1>5, <1>9, <2>2
    <3>2. p[m + 1] = f
      BY <3>1
    <3>. QED  BY <1>7, <3>1, <3>2
  <2>. QED  BY <2>1, <2>2
<1>10. ASSUME NEW i \in 1 .. c + l, NEW j \in 1 .. c + l, i < j, Hit(s, g, i), Hit(s, g, j)
       PROVE  x[i] < x[j]
  <2>1. CASE j \in 1 .. c
    <3>1. i \in 1 .. c
      BY ONLY <1>1, <1>10, <2>1, i \in 1 .. c + l
    <3>. QED  BY <1>3, <1>4, <1>10, <2>1, <3>1
  <2>2. CASE ~(j \in 1 .. c)
    <3>1. j = c + l /\ x[j] = m + 1
      BY <1>5, <1>10, <2>2
    <3>2. i \in 1 .. c
      <4>1. CASE ~(i \in 1 .. c)
        <5>1. i = c + l
          BY <1>5, <1>10, <4>1
        <5>. QED  BY ONLY <1>1, <1>10, <3>1, <5>1
      <4>. QED  BY <4>1
    <3>3. x[i] \in 1 .. m
      BY <1>3, <1>4, <1>10, <3>2
    <3>. QED  BY ONLY <3>1, <3>3, m \in Nat
  <2>. QED  BY <2>1, <2>2
<1>11. Marks(s, g, x, p, n)
  BY ONLY <1>1, <1>8, <1>9, <1>10 DEF Marks
<1>12. ASSUME Every(r, ls, h, m), NEW k \in 1 .. n
       PROVE  \E i \in 1 .. c + l : Hit(s, g, i) /\ x[i] = k
  <2>1. CASE k \in 1 .. m
    <3>1. PICK i \in 1 .. c : Hit(r, ls, i) /\ h[i] = k
      BY <1>12, <2>1 DEF Every, c
    <3>. QED  BY <1>4, <3>1
  <2>2. CASE ~(k \in 1 .. m)
    <3>1. n = m + 1 /\ k = m + 1
      BY ONLY <2>2, m \in Nat, n \in {m, m + 1}, k \in 1 .. n
    <3>. QED  BY <1>6, <3>1
  <2>. QED  BY <2>1, <2>2
<1>13. Every(r, ls, h, m) => Every(s, g, x, n)
  BY <1>1, <1>12 DEF Every
<1>. QED  BY <1>11, <1>13 DEF s, g, x

-----------------------------------------------------------------------------
(* What one poll of the driver makes of it: it reads to the end of the     *)
(* first line that holds a frame, or to the end.                           *)
PollTo(ls, P) ==
  /\ P \in 1 .. Len(ring) + 1
  /\ \A i \in 1 .. P - 1 : ~Hit(ring, ls, i)
  /\ P = Len(ring) + 1 \/ Hit(ring, ls, P)

Polled(ls, P) ==
  [i \in 0 .. Len(ring) |->
     IF i < P THEN [frame |-> <<>>, line |-> ls[i], ring |-> <<>>]
     ELSE [frame |-> parse_tx_line(ls[P - 1]), line |-> <<>>, ring |-> SubSeq(ring, P + 1, i)]]

IsRead(f) ==
  f = [i \in 0 .. Len(ring) |->
         IF i = 0 THEN [frame |-> <<>>, line |-> line_buf, ring |-> <<>>]
         ELSE ReadByte(f[i - 1], ring[i])]

LEMMA PollsTo ==
  ASSUME ring \in Seq(Char), NEW ls
  PROVE  \E P : PollTo(ls, P)
<1>1. Len(ring) \in Nat
  BY LenProperties
<1>. DEFINE S == {i \in 1 .. Len(ring) + 1 : i = Len(ring) + 1 \/ Hit(ring, ls, i)}
<1>2. S \in SUBSET Nat /\ S # {}
  <2>1. Len(ring) + 1 \in 1 .. Len(ring) + 1 /\ \A i \in 1 .. Len(ring) + 1 : i \in Nat
    BY ONLY <1>1
  <2>. QED  BY <2>1
<1>. HIDE DEF S
<1>3. PICK P \in S : \A k \in S : P <= k
  BY ONLY <1>2, LeastOf
<1>4. P \in 1 .. Len(ring) + 1 /\ (P = Len(ring) + 1 \/ Hit(ring, ls, P))
  BY <1>3 DEF S
<1>5. ASSUME NEW i \in 1 .. P - 1, Hit(ring, ls, i)
      PROVE  FALSE
  <2>1. i \in 1 .. Len(ring) + 1 /\ ~(P <= i)
    BY ONLY <1>1, <1>4, i \in 1 .. P - 1
  <2>2. i \in S
    BY <1>5, <2>1 DEF S
  <2>. QED  BY <1>3, <2>1, <2>2
<1>6. PollTo(ls, P)
  BY <1>4, <1>5 DEF PollTo
<1>. QED  BY <1>6

LEMMA PolledIsRead ==
  ASSUME ring \in Seq(Char), NEW ls, Feeds(line_buf, ring, ls), NEW P, PollTo(ls, P)
  PROVE  IsRead(Polled(ls, P))
<1>. DEFINE n == Len(ring)  g == Polled(ls, P)  F == parse_tx_line(ls[P - 1])
<1>1. /\ n \in Nat /\ P \in 1 .. n + 1 /\ P \in Nat
      /\ \A i \in 1 .. P - 1 : ~Hit(ring, ls, i)
      /\ P = n + 1 \/ Hit(ring, ls, P)
  <2>1. Len(ring) \in Nat
    BY LenProperties
  <2>. QED  BY <2>1 DEF PollTo
<1>2. /\ ls[0] = line_buf
      /\ \A i \in 1 .. n : ls[i] = IF ring[i] = Newline THEN <<>>
                                   ELSE IF Len(ls[i - 1]) < LineMax - 1 THEN Append(ls[i - 1], ring[i])
                                   ELSE ls[i - 1]
  BY DEF Feeds
<1>3. ASSUME NEW i \in 0 .. n
      PROVE  /\ i < P => g[i] = [frame |-> <<>>, line |-> ls[i], ring |-> <<>>]
             /\ ~(i < P) => g[i] = [frame |-> F, line |-> <<>>, ring |-> SubSeq(ring, P + 1, i)]
  BY DEF Polled
<1>4. g = [i \in 0 .. n |-> g[i]]
  BY DEF Polled
<1>. HIDE DEF g, n
<1>5. ASSUME NEW i \in 1 .. n, i < P
      PROVE  g[i] = ReadByte(g[i - 1], ring[i])
  <2>1. i \in 0 .. n /\ i - 1 \in 0 .. n /\ i - 1 < P /\ i \in 1 .. P - 1
    BY ONLY <1>1, <1>5, i \in 1 .. n
  <2>. DEFINE s == g[i - 1]
  <2>2. s = [frame |-> <<>>, line |-> ls[i - 1], ring |-> <<>>]
        /\ g[i] = [frame |-> <<>>, line |-> ls[i], ring |-> <<>>]
    BY <1>3, <1>5, <2>1
  <2>. HIDE DEF s
  <2>3. CASE ring[i] = Newline
    <3>1. parse_tx_line(ls[i - 1]) = <<>> /\ ls[i] = <<>>
      BY <1>1, <1>2, <2>1, <2>3 DEF Hit
    <3>2. ReadByte(s, ring[i]) = [s EXCEPT !.frame = parse_tx_line(s.line), !.line = <<>>]
      BY <2>2, <2>3 DEF ReadByte
    <3>3. ReadByte(s, ring[i]) = [frame |-> parse_tx_line(ls[i - 1]), line |-> <<>>, ring |-> <<>>]
      BY <2>2, <3>2
    <3>. QED  BY <2>2, <3>1, <3>3 DEF s
  <2>4. CASE ring[i] # Newline
    <3>1. ls[i] = IF Len(ls[i - 1]) < LineMax - 1 THEN Append(ls[i - 1], ring[i]) ELSE ls[i - 1]
      BY <1>2, <2>4
    <3>2. ReadByte(s, ring[i]) =
            IF Len(s.line) < LineMax - 1 THEN [s EXCEPT !.line = Append(@, ring[i])] ELSE s
      BY <2>2, <2>4 DEF ReadByte
    <3>3. s.line = ls[i - 1]
      BY <2>2
    <3>4. CASE Len(ls[i - 1]) < LineMax - 1
      <4>1. ReadByte(s, ring[i]) = [s EXCEPT !.line = Append(@, ring[i])]
        BY ONLY <3>2, <3>3, <3>4
      <4>2. ReadByte(s, ring[i]) = [frame |-> <<>>, line |-> Append(ls[i - 1], ring[i]), ring |-> <<>>]
        BY ONLY <2>2, <4>1
      <4>. QED  BY ONLY <2>2, <3>1, <3>4, <4>2 DEF s
    <3>5. CASE ~(Len(ls[i - 1]) < LineMax - 1)
      <4>1. ReadByte(s, ring[i]) = s
        BY ONLY <3>2, <3>3, <3>5
      <4>. QED  BY ONLY <2>2, <3>1, <3>5, <4>1 DEF s
    <3>. QED  BY <3>4, <3>5
  <2>. QED  BY <2>3, <2>4
<1>6. ASSUME P \in 1 .. n
      PROVE  g[P] = ReadByte(g[P - 1], ring[P])
  <2>1. P \in 0 .. n /\ P - 1 \in 0 .. n /\ P - 1 < P /\ ~(P < P) /\ P # n + 1
    BY ONLY <1>1, <1>6
  <2>. DEFINE s == g[P - 1]
  <2>2. s = [frame |-> <<>>, line |-> ls[P - 1], ring |-> <<>>]
        /\ g[P] = [frame |-> F, line |-> <<>>, ring |-> SubSeq(ring, P + 1, P)]
    BY <1>3, <2>1
  <2>. HIDE DEF s
  <2>3. ring[P] = Newline
    BY <1>1, <2>1 DEF Hit
  <2>4. ReadByte(s, ring[P]) = [s EXCEPT !.frame = parse_tx_line(s.line), !.line = <<>>]
    BY <2>2, <2>3 DEF ReadByte
  <2>5. ReadByte(s, ring[P]) = [frame |-> F, line |-> <<>>, ring |-> <<>>]
    BY <2>2, <2>4
  <2>6. SubSeq(ring, P + 1, P) = <<>>
    <3>. DEFINE a == P + 1
    <3>1. a \in 1 .. Len(ring) + 1 /\ P \in a - 1 .. Len(ring) /\ (P + 1) - a = 0
      BY <1>1, <2>1 DEF n
    <3>. HIDE DEF a
    <3>2. SubSeq(ring, a, P) \in Seq(Char) /\ Len(SubSeq(ring, a, P)) = (P + 1) - a
      BY ONLY <3>1, ring \in Seq(Char), Part
    <3>. QED  BY <3>1, <3>2, EmptyLen DEF a
  <2>. QED  BY <2>2, <2>5, <2>6 DEF s
<1>7. ASSUME NEW i \in 1 .. n, P < i
      PROVE  g[i] = ReadByte(g[i - 1], ring[i])
  <2>. DEFINE k == i - 1
  <2>1. i \in 0 .. n /\ k \in 0 .. n /\ ~(k < P) /\ ~(i < P) /\ P # n + 1 /\ P \in 1 .. n
    BY <1>1, <1>7
  <2>. DEFINE s == g[k]
  <2>2. s = [frame |-> F, line |-> <<>>, ring |-> SubSeq(ring, P + 1, k)]
        /\ g[i] = [frame |-> F, line |-> <<>>, ring |-> SubSeq(ring, P + 1, i)]
    BY <1>3, <2>1
  <2>3. F # <<>>
    BY <1>1, <2>1 DEF Hit
  <2>4. Append(SubSeq(ring, P + 1, k), ring[i]) = SubSeq(ring, P + 1, i)
    <3>. DEFINE a == P + 1  x == SubSeq(ring, a, k)  y == SubSeq(ring, a, i)  l == i - a
    <3>1. /\ a \in 1 .. Len(ring) + 1 /\ k \in a - 1 .. Len(ring) /\ i \in a - 1 .. Len(ring)
          /\ (k + 1) - a = l /\ (i + 1) - a = l + 1 /\ l \in Nat /\ (a - 1) + (l + 1) = i
          /\ \A j \in 1 .. l : j \in 1 .. l + 1
      BY <1>1, <1>7, <2>1 DEF n
    <3>. HIDE DEF a, k
    <3>2. /\ x \in Seq(Char) /\ Len(x) = (k + 1) - a
          /\ \A j \in 1 .. (k + 1) - a : x[j] = ring[(a - 1) + j]
      BY ONLY <3>1, ring \in Seq(Char), Part
    <3>3. /\ y \in Seq(Char) /\ Len(y) = (i + 1) - a
          /\ \A j \in 1 .. (i + 1) - a : y[j] = ring[(a - 1) + j]
      BY ONLY <3>1, ring \in Seq(Char), Part
    <3>. HIDE DEF x, y, l
    <3>4. ring[i] \in Char
      BY ElementOfSeq DEF n
    <3>. DEFINE z == Append(x, ring[i])
    <3>5. z \in Seq(Char) /\ Len(z) = l + 1 /\ (\A j \in 1 .. l : z[j] = x[j]) /\ z[l + 1] = ring[i]
      <4>1. x \in Seq(Char) /\ Len(x) = l
        BY <3>1, <3>2
      <4>2. /\ Append(x, ring[i]) \in Seq(Char) /\ Len(Append(x, ring[i])) = Len(x) + 1
            /\ \A j \in 1 .. Len(x) : Append(x, ring[i])[j] = x[j]
            /\ Append(x, ring[i])[Len(x) + 1] = ring[i]
        BY ONLY <3>4, <4>1, AppendProperties
      <4>. QED  BY <4>1, <4>2
    <3>. HIDE DEF z
    <3>6. ASSUME NEW j \in 1 .. l + 1
          PROVE  z[j] = y[j]
      <4>1. y[j] = ring[(a - 1) + j]
        BY <3>1, <3>3
      <4>2. CASE j = l + 1
        BY <3>1, <3>5, <4>1, <4>2
      <4>3. CASE j # l + 1
        <5>1. j \in 1 .. l
          BY ONLY <3>1, <4>3, j \in 1 .. l + 1
        <5>. QED  BY <3>1, <3>2, <3>5, <4>1, <5>1
      <4>. QED  BY <4>2, <4>3
    <3>7. z = y
      BY <3>1, <3>3, <3>5, <3>6, SameSeq
    <3>. QED  BY <3>7 DEF z, x, y, a
  <2>. HIDE DEF s, F
  <2>5. ReadByte(s, ring[i]) = [s EXCEPT !.ring = Append(@, ring[i])]
    BY <2>2, <2>3 DEF ReadByte
  <2>6. ReadByte(s, ring[i]) = [frame |-> F, line |-> <<>>, ring |-> Append(SubSeq(ring, P + 1, k), ring[i])]
    BY <2>2, <2>5
  <2>. QED  BY <2>2, <2>4, <2>6 DEF s
<1>8. g[0] = [frame |-> <<>>, line |-> line_buf, ring |-> <<>>]
  <2>1. 0 \in 0 .. n /\ 0 < P
    BY ONLY <1>1
  <2>. QED  BY <1>2, <1>3, <2>1
<1>9. ASSUME NEW i \in 0 .. n
      PROVE  g[i] = IF i = 0 THEN [frame |-> <<>>, line |-> line_buf, ring |-> <<>>]
                    ELSE ReadByte(g[i - 1], ring[i])
  <2>1. i = 0 \/ (i \in 1 .. n /\ i < P) \/ (i = P /\ P \in 1 .. n) \/ (i \in 1 .. n /\ P < i)
    BY ONLY <1>1, i \in 0 .. n
  <2>2. CASE i = 0
    BY <1>8, <2>2
  <2>3. CASE i # 0
    <3>1. g[i] = ReadByte(g[i - 1], ring[i])
      BY <1>5, <1>6, <1>7, <2>1, <2>3
    <3>. QED  BY <2>3, <3>1
  <2>. QED  BY <2>2, <2>3
<1>. QED  BY <1>4, <1>9 DEF IsRead, g, n

LEMMA OneRead ==
  ASSUME ring \in Seq(Char), NEW f, IsRead(f), NEW g, IsRead(g)
  PROVE  f = g
<1>1. Len(ring) \in Nat
  BY LenProperties
<1>. DEFINE n == Len(ring)  S == {i \in 0 .. n : f[i] # g[i]}
<1>2. \A i \in 0 .. n : /\ f[i] = IF i = 0 THEN [frame |-> <<>>, line |-> line_buf, ring |-> <<>>]
                                  ELSE ReadByte(f[i - 1], ring[i])
                        /\ g[i] = IF i = 0 THEN [frame |-> <<>>, line |-> line_buf, ring |-> <<>>]
                                  ELSE ReadByte(g[i - 1], ring[i])
  BY DEF IsRead
<1>3. f = [i \in 0 .. n |-> f[i]] /\ g = [i \in 0 .. n |-> g[i]]
  BY DEF IsRead
<1>4. CASE S = {}
  BY <1>3, <1>4
<1>5. CASE S # {}
  <2>1. S \in SUBSET Nat
    BY <1>1
  <2>. HIDE DEF S
  <2>2. PICK m \in S : \A k \in S : m <= k
    BY ONLY <1>5, <2>1, LeastOf
  <2>3. m \in 0 .. n /\ f[m] # g[m]
    BY <2>2 DEF S
  <2>4. m # 0
    BY <1>2, <2>3
  <2>5. m - 1 \in 0 .. n /\ ~(m <= m - 1)
    BY <1>1, <2>3, <2>4
  <2>6. m - 1 \notin S
    BY <2>2, <2>5
  <2>7. f[m - 1] = g[m - 1]
    BY <2>5, <2>6 DEF S
  <2>. QED  BY <1>2, <2>3, <2>4, <2>7
<1>. QED  BY <1>4, <1>5

LEMMA PollIs ==
  ASSUME ring \in Seq(Char), NEW ls, Feeds(line_buf, ring, ls), NEW P, PollTo(ls, P)
  PROVE  dongle_uart_poll_tx_frame = Polled(ls, P)[Len(ring)]
<1>. DEFINE r == CHOOSE f : IsRead(f)
<1>1. IsRead(Polled(ls, P))
  BY PolledIsRead
<1>2. IsRead(r)
  BY <1>1
<1>3. r = Polled(ls, P)
  BY <1>1, <1>2, OneRead
<1>4. dongle_uart_poll_tx_frame = r[Len(ring)]
  BY DEF dongle_uart_poll_tx_frame, IsRead
<1>. QED  BY <1>3, <1>4

(* What is left in the driver behind a line that held a frame.             *)
Later(r, ls, P) == [i \in 0 .. Len(r) - P |-> ls[P + i]]
LaterMarks(r, ls, h, P, k) ==
  [i \in 1 .. Len(r) - P |-> IF Hit(r, ls, P + i) THEN h[P + i] - k ELSE 0]

LaterFed(r, ls, P) ==
  /\ SubSeq(r, P + 1, Len(r)) \in Seq(Char)
  /\ Len(SubSeq(r, P + 1, Len(r))) = Len(r) - P
  /\ Later(r, ls, P)[Len(r) - P] = ls[Len(r)]
  /\ Feeds(<<>>, SubSeq(r, P + 1, Len(r)), Later(r, ls, P))
  /\ \A i \in 1 .. Len(r) - P :
       /\ SubSeq(r, P + 1, Len(r))[i] = r[P + i]
       /\ Later(r, ls, P)[i - 1] = ls[P + i - 1]

LEMMA FeedLater ==
  ASSUME NEW b, NEW r \in Seq(Char), NEW ls, Feeds(b, r, ls), NEW P \in 1 .. Len(r), r[P] = Newline
  PROVE  LaterFed(r, ls, P)
<1>. DEFINE n == Len(r)  l == n - P  s == SubSeq(r, P + 1, n)  g == Later(r, ls, P)
<1>1. /\ n \in Nat /\ P \in 1 .. n /\ P \in Nat /\ l \in Nat /\ n = P + l
      /\ P + 1 \in 1 .. n + 1 /\ n \in (P + 1) - 1 .. n
      /\ (n + 1) - (P + 1) = l /\ (P + 1) - 1 = P
  <2>1. n \in Nat /\ P \in 1 .. n
    BY LenProperties
  <2>. HIDE DEF n
  <2>. QED  BY ONLY <2>1
<1>2. s \in Seq(Char) /\ Len(s) = l /\ \A i \in 1 .. l : s[i] = r[P + i]
  <2>. DEFINE a == P + 1
  <2>1. a \in 1 .. Len(r) + 1 /\ n \in a - 1 .. Len(r) /\ (n + 1) - a = l /\ a - 1 = P
    BY <1>1
  <2>. HIDE DEF a, n, l
  <2>2. /\ SubSeq(r, a, n) \in Seq(Char) /\ Len(SubSeq(r, a, n)) = (n + 1) - a
        /\ \A i \in 1 .. (n + 1) - a : SubSeq(r, a, n)[i] = r[(a - 1) + i]
    BY ONLY <2>1, r \in Seq(Char), Part
  <2>. QED  BY <2>1, <2>2 DEF a
<1>3. g = [i \in 0 .. l |-> ls[P + i]]
  BY DEF Later
<1>4. /\ \A i \in 0 .. n : ls[i] \in Seq(Char) /\ Len(ls[i]) <= LineMax - 1
      /\ \A i \in 1 .. n : ls[i] = IF r[i] = Newline THEN <<>>
                                   ELSE IF Len(ls[i - 1]) < LineMax - 1 THEN Append(ls[i - 1], r[i])
                                   ELSE ls[i - 1]
  BY DEF Feeds
<1>. HIDE DEF n, l, s, g
<1>5. ASSUME NEW i \in 0 .. l
      PROVE  g[i] = ls[P + i] /\ P + i \in 0 .. n /\ g[i] \in Seq(Char) /\ Len(g[i]) <= LineMax - 1
  <2>1. P + i \in 0 .. n
    BY ONLY <1>1, i \in 0 .. l
  <2>. QED  BY <1>3, <1>4, <2>1
<1>6. g[0] = <<>>
  <2>1. 0 \in 0 .. l /\ P + 0 = P
    BY ONLY <1>1
  <2>2. ls[P] = <<>>
    BY <1>1, <1>4
  <2>. QED  BY <1>5, <2>1, <2>2
<1>7. ASSUME NEW i \in 1 .. l
      PROVE  /\ s[i] = r[P + i] /\ g[i - 1] = ls[P + i - 1]
             /\ g[i] = IF s[i] = Newline THEN <<>>
                       ELSE IF Len(g[i - 1]) < LineMax - 1 THEN Append(g[i - 1], s[i])
                       ELSE g[i - 1]
  <2>. DEFINE x == P + i
  <2>1. x \in 1 .. n /\ i \in 0 .. l /\ i - 1 \in 0 .. l /\ P + (i - 1) = x - 1
    BY ONLY <1>1, i \in 1 .. l
  <2>2. g[i] = ls[x] /\ s[i] = r[x]
    BY <1>2, <1>5, <2>1
  <2>3. g[i - 1] = ls[x - 1]
    <3>1. g[i - 1] = ls[P + (i - 1)]
      BY <1>5, <2>1
    <3>. QED  BY <2>1, <3>1
  <2>. HIDE DEF x
  <2>4. ls[x] = IF r[x] = Newline THEN <<>>
                ELSE IF Len(ls[x - 1]) < LineMax - 1 THEN Append(ls[x - 1], r[x])
                ELSE ls[x - 1]
    BY <1>4, <2>1
  <2>. QED  BY <2>2, <2>3, <2>4 DEF x
<1>8. Feeds(<<>>, s, g)
  BY <1>2, <1>3, <1>5, <1>6, <1>7 DEF Feeds
<1>9. g[l] = ls[n]
  <2>1. l \in 0 .. l
    BY ONLY <1>1
  <2>. QED  BY <1>1, <1>5, <2>1
<1>. QED  BY <1>2, <1>7, <1>8, <1>9 DEF LaterFed, n, l, s, g

LEMMA MarksLater ==
  ASSUME NEW b, NEW r \in Seq(Char), NEW ls, Feeds(b, r, ls),
         NEW h, NEW q, NEW m \in Nat, Marks(r, ls, h, q, m),
         NEW P \in 1 .. Len(r), Hit(r, ls, P), NEW k \in 1 .. h[P],
         NEW p, \A j \in 1 .. m - k : p[j] = q[k + j]
  PROVE  /\ m - k \in Nat
         /\ Marks(SubSeq(r, P + 1, Len(r)), Later(r, ls, P), LaterMarks(r, ls, h, P, k), p, m - k)
         /\ Every(r, ls, h, m) /\ (\A i \in 1 .. P - 1 : ~Hit(r, ls, i)) =>
              Every(SubSeq(r, P + 1, Len(r)), Later(r, ls, P), LaterMarks(r, ls, h, P, k), m - k)
<1>. DEFINE n == Len(r)  l == n - P  s == SubSeq(r, P + 1, n)  g == Later(r, ls, P)
            x == LaterMarks(r, ls, h, P, k)
<1>1. n \in Nat /\ P \in 1 .. n /\ P \in Nat /\ l \in Nat /\ n = P + l
  <2>1. n \in Nat /\ P \in 1 .. n
    BY LenProperties
  <2>. HIDE DEF n
  <2>. QED  BY ONLY <2>1
<1>2. Len(s) = l /\ \A i \in 1 .. l : s[i] = r[P + i] /\ g[i - 1] = ls[P + i - 1]
  <2>1. LaterFed(r, ls, P)
    BY FeedLater DEF Hit
  <2>. QED  BY ONLY <2>1 DEF LaterFed
<1>3. x = [i \in 1 .. l |-> IF Hit(r, ls, P + i) THEN h[P + i] - k ELSE 0]
  BY DEF LaterMarks
<1>4. /\ h \in [1 .. n -> Nat]
      /\ \A i \in 1 .. n : Hit(r, ls, i) => h[i] \in 1 .. m /\ parse_tx_line(ls[i - 1]) = q[h[i]]
      /\ \A i, j \in 1 .. n : i < j /\ Hit(r, ls, i) /\ Hit(r, ls, j) => h[i] < h[j]
  BY DEF Marks
<1>. HIDE DEF n, l, s, g, x
<1>5. h[P] \in 1 .. m /\ k \in Nat /\ 1 <= k /\ k <= h[P] /\ k <= m /\ m - k \in Nat
  <2>1. h[P] \in 1 .. m
    BY <1>1, <1>4
  <2>. QED  BY ONLY <2>1, k \in 1 .. h[P], m \in Nat
<1>6. ASSUME NEW i \in 1 .. l
      PROVE  P + i \in 1 .. n /\ P < P + i /\ (Hit(s, g, i) <=> Hit(r, ls, P + i))
             /\ parse_tx_line(g[i - 1]) = parse_tx_line(ls[P + i - 1])
  <2>1. P + i \in 1 .. n /\ P < P + i
    BY ONLY <1>1, i \in 1 .. l
  <2>2. s[i] = r[P + i] /\ g[i - 1] = ls[P + i - 1]
    BY <1>2
  <2>. QED  BY <2>1, <2>2 DEF Hit
<1>7. ASSUME NEW i \in 1 .. l, Hit(s, g, i)
      PROVE  /\ x[i] = h[P + i] - k /\ h[P + i] \in 1 .. m /\ h[P] < h[P + i]
             /\ x[i] \in 1 .. m - k /\ parse_tx_line(g[i - 1]) = p[x[i]]
  <2>1. /\ Hit(r, ls, P + i) /\ P + i \in 1 .. n /\ P < P + i
        /\ parse_tx_line(g[i - 1]) = parse_tx_line(ls[P + i - 1])
    BY <1>6, <1>7
  <2>2. x[i] = h[P + i] - k
    BY <1>3, <2>1
  <2>3. h[P + i] \in 1 .. m /\ parse_tx_line(ls[P + i - 1]) = q[h[P + i]]
    BY <1>4, <2>1
  <2>4. h[P] < h[P + i]
    BY <1>1, <1>4, <2>1
  <2>. DEFINE y == h[P + i]
  <2>. HIDE DEF y
  <2>5. y \in 1 .. m /\ h[P] < y /\ x[i] = y - k
    BY <2>2, <2>3, <2>4 DEF y
  <2>6. x[i] \in 1 .. m - k /\ k + x[i] = y
    BY ONLY <1>5, <2>5, m \in Nat
  <2>7. p[x[i]] = q[k + x[i]]
    BY <2>6
  <2>. QED  BY <2>1, <2>2, <2>3, <2>4, <2>6, <2>7 DEF y
<1>8. x \in [1 .. l -> Nat]
  <2>1. ASSUME NEW i \in 1 .. l
        PROVE  x[i] \in Nat
    <3>1. CASE Hit(s, g, i)
      <4>1. x[i] \in 1 .. m - k
        BY <1>7, <3>1
      <4>. QED  BY <1>5, <4>1
    <3>2. CASE ~Hit(s, g, i)
      BY <1>3, <1>6, <3>2
    <3>. QED  BY <3>1, <3>2
  <2>. QED  BY <1>3, <2>1
<1>9. ASSUME NEW i \in 1 .. l, NEW j \in 1 .. l, i < j, Hit(s, g, i), Hit(s, g, j)
      PROVE  x[i] < x[j]
  <2>1. P + i < P + j
    BY ONLY <1>1, <1>9, i \in 1 .. l, j \in 1 .. l
  <2>2. h[P + i] < h[P + j]
    BY <1>4, <1>6, <1>9, <2>1
  <2>3. /\ x[i] = h[P + i] - k /\ h[P + i] \in 1 .. m
        /\ x[j] = h[P + j] - k /\ h[P + j] \in 1 .. m
    BY <1>7, <1>9
  <2>. QED  BY ONLY <1>5, <2>2, <2>3, m \in Nat
<1>10. Marks(s, g, x, p, m - k)
  BY <1>2, <1>7, <1>8, <1>9 DEF Marks
<1>11. ASSUME Every(r, ls, h, m), \A i \in 1 .. P - 1 : ~Hit(r, ls, i)
       PROVE  Every(s, g, x, m - k)
  <2>1. \A i \in 1 .. n : Hit(r, ls, i) => i = P \/ P < i
    <3>1. \A i \in 1 .. n : i \in 1 .. P - 1 \/ i = P \/ P < i
      BY ONLY <1>1
    <3>. QED  BY <1>11, <3>1
  <2>2. h[P] = 1
    <3>1. 1 \in 1 .. m
      BY ONLY <1>5, m \in Nat
    <3>2. PICK i \in 1 .. n : Hit(r, ls, i) /\ h[i] = 1
      BY <1>11, <3>1 DEF Every, n
    <3>3. CASE P < i
      <4>1. h[P] < h[i]
        BY <1>1, <1>4, <3>2, <3>3
      <4>. QED  BY <1>5, <3>2, <4>1
    <3>. QED  BY <2>1, <3>2, <3>3
  <2>3. k = 1
    BY ONLY <1>5, <2>2
  <2>4. ASSUME NEW j \in 1 .. m - k
        PROVE  \E i \in 1 .. l : Hit(s, g, i) /\ x[i] = j
    <3>1. j + 1 \in 1 .. m /\ j + 1 # 1
      BY ONLY <1>5, <2>3, m \in Nat, j \in 1 .. m - k
    <3>2. PICK i \in 1 .. n : Hit(r, ls, i) /\ h[i] = j + 1
      BY <1>11, <3>1 DEF Every, n
    <3>3. P < i
      BY <2>1, <2>2, <3>1, <3>2
    <3>. DEFINE y == i - P
    <3>4. y \in 1 .. l /\ P + y = i
      BY ONLY <1>1, <3>3, i \in 1 .. n
    <3>. HIDE DEF y
    <3>5. Hit(s, g, y)
      BY <1>6, <3>2, <3>4
    <3>6. x[y] = h[P + y] - k
      BY <1>7, <3>4, <3>5
    <3>7. x[y] = j
      <4>1. h[P + y] = j + 1
        BY ONLY <3>2, <3>4
      <4>2. x[y] = (j + 1) - 1
        BY ONLY <2>3, <3>6, <4>1
      <4>3. j \in Nat
        BY ONLY <1>5, j \in 1 .. m - k
      <4>. QED  BY ONLY <4>2, <4>3
    <3>. QED  BY <3>4, <3>5, <3>7
  <2>. QED  BY <1>2, <2>4 DEF Every
<1>. QED  BY <1>5, <1>10, <1>11 DEF n, s, g, x

-----------------------------------------------------------------------------
(* The dongle's side. As long as no byte was lost to a full ring and no two *)
(* lines were unfinished at once, the end of what was written is either    *)
(* whole; or the beginning of the line begun last, whose thread has the    *)
(* rest; or, once a line was cut into or cut off, something that makes no  *)
(* frame whatever comes behind it.                                         *)
AtRest == \A t \in Threads : ~Unfinished(todo[t])
OnlyOne(t) == Unfinished(todo[t]) /\ \A u \in Threads \ {t} : ~Unfinished(todo[u])

Finished(ls, h) ==
  /\ AtRest
  /\ ls[Len(ring)] = <<>>
  /\ Marks(ring, ls, h, open, Len(open))
  /\ damage = "none" => Every(ring, ls, h, Len(open))

Begun(ls, h) ==
  /\ Len(open) >= 1
  /\ \E t \in Threads : /\ OnlyOne(t)
                        /\ ls[Len(ring)] \o todo[t] = encode_tx_line(open[Len(open)])
  /\ Marks(ring, ls, h, open, Len(open) - 1)
  /\ damage = "none" => Every(ring, ls, h, Len(open) - 1)

Lost(ls, h) ==
  /\ damage # "none"
  /\ AtRest \/ \E t \in Threads : OnlyOne(t)
  /\ \/ Doomed(ls[Len(ring)])
     \/ ls[Len(ring)] = <<>>
     \/ AtRest /\ Len(ls[Len(ring)]) <= LineMax - 2
  /\ Marks(ring, ls, h, open, Len(open))

InOrder(ls) == damage # "mixes" => \E h : Finished(ls, h) \/ Begun(ls, h) \/ Lost(ls, h)

LinesInv ==
  /\ todo \in [Threads -> Seq(Char)] /\ \A t \in Threads : Rest(todo[t])
  /\ ring \in Seq(Char) /\ Len(ring) <= RingSize
  /\ open \in Seq(Payload)
  /\ damage \in {"none", "loses", "mixes"}

DongleInv == LinesInv /\ \E ls : Feeds(line_buf, ring, ls) /\ InOrder(ls)

LEMMA NoFeed ==
  ASSUME NEW b, Held(b)
  PROVE  Feeds(b, <<>>, [i \in 0 .. 0 |-> b]) /\ [i \in 0 .. 0 |-> b][Len(<<>>)] = b
<1>1. Len(<<>>) = 0 /\ 1 .. 0 = {} /\ 0 .. 0 = {0}
  OBVIOUS
<1>2. Len(<<>>) \in 0 .. 0
  BY <1>1
<1>. QED  BY <1>1, <1>2 DEF Feeds, Held

LEMMA NoMarks ==
  ASSUME NEW ls, NEW q, NEW m
  PROVE  Marks(<<>>, ls, [i \in 1 .. 0 |-> 0], q, m)
<1>1. Len(<<>>) = 0 /\ 1 .. 0 = {}
  OBVIOUS
<1>. DEFINE e == [i \in 1 .. 0 |-> 0]
<1>2. e \in [1 .. 0 -> Nat]
  BY <1>1
<1>. HIDE DEF e
<1>3. Marks(<<>>, ls, e, q, m)
  BY <1>1, <1>2 DEF Marks
<1>. QED  BY <1>3 DEF e

LEMMA MarksWiden ==
  ASSUME NEW r, NEW ls, NEW h, NEW q, NEW m \in Nat, Marks(r, ls, h, q, m - 1)
  PROVE  Marks(r, ls, h, q, m)
<1>1. \A k \in 1 .. m - 1 : k \in 1 .. m
  OBVIOUS
<1>. QED  BY <1>1 DEF Marks

LEMMA EmptyHeld == Held(<<>>)
BY SerialAssumption DEF Held

LEMMA FeedHeld ==
  ASSUME NEW b, NEW r \in Seq(Char), NEW ls, Feeds(b, r, ls)
  PROVE  Held(b) /\ Held(ls[Len(r)]) /\ Len(r) \in Nat
<1>1. Len(r) \in Nat
  BY LenProperties
<1>2. 0 \in 0 .. Len(r) /\ Len(r) \in 0 .. Len(r)
  BY ONLY <1>1
<1>. QED  BY <1>1, <1>2 DEF Feeds, Held

LEMMA SentStep ==
  ASSUME DongleInv, NEW t \in Threads, todo[t] = <<>>, NEW p \in Payload,
         todo' = [todo EXCEPT ![t] = encode_tx_line(p)],
         ring' = ring, line_buf' = line_buf, open' = open, damage' = damage
  PROVE  DongleInv'
<1>1. LinesInv
  BY DEF DongleInv
<1>2. PICK ls : Feeds(line_buf, ring, ls) /\ InOrder(ls)
  BY DEF DongleInv
<1>3. encode_tx_line(p) \in Seq(Char) /\ Rest(encode_tx_line(p)) /\ ~Unfinished(encode_tx_line(p))
  <2>1. RestOf(encode_tx_line(p), p, 0)
    BY LineRest
  <2>2. Unfinished(encode_tx_line(p)) <=> 0 # 0
    BY <2>1, RestIs
  <2>. QED  BY <2>1, <2>2, PayloadLine DEF Rest
<1>4. LinesInv'
  BY <1>1, <1>3 DEF LinesInv
<1>5. ~Unfinished(todo[t])
  BY DEF Unfinished
<1>6. \A u \in Threads : /\ Unfinished(todo'[u]) <=> Unfinished(todo[u])
                         /\ Unfinished(todo[u]) => todo'[u] = todo[u]
  BY <1>1, <1>3, <1>5 DEF LinesInv
<1>7. AtRest' <=> AtRest
  BY <1>6 DEF AtRest
<1>8. \A u \in Threads : /\ OnlyOne(u)' <=> OnlyOne(u)
                         /\ OnlyOne(u) => todo'[u] = todo[u]
  BY <1>6 DEF OnlyOne
<1>9. ASSUME NEW h
      PROVE  (Finished(ls, h) => Finished(ls, h)') /\ (Begun(ls, h) => Begun(ls, h)') /\ (Lost(ls, h) => Lost(ls, h)')
  BY <1>7, <1>8 DEF Finished, Begun, Lost
<1>10. InOrder(ls)'
  BY <1>2, <1>9 DEF InOrder
<1>. QED  BY <1>2, <1>4, <1>10 DEF DongleInv

LEMMA SameStep ==
  ASSUME DongleInv, todo' = todo, ring' = ring, line_buf' = line_buf, open' = open, damage' = damage
  PROVE  DongleInv'
<1>1. LinesInv'
  BY DEF DongleInv, LinesInv
<1>2. PICK ls : Feeds(line_buf, ring, ls) /\ InOrder(ls)
  BY DEF DongleInv
<1>3. InOrder(ls)'
  BY <1>2 DEF InOrder, Finished, Begun, Lost, AtRest, OnlyOne
<1>. QED  BY <1>1, <1>2, <1>3 DEF DongleInv

LEMMA DongleRestartStep ==
  ASSUME DongleInv, DongleRestart
  PROVE  DongleInv'
<1>1. LinesInv
  BY DEF DongleInv
<1>2. /\ ring' = <<>> /\ line_buf' = <<>> /\ open' = <<>> /\ todo' = todo
      /\ damage' = IF damage = "mixes" THEN damage ELSE "loses"
  BY DEF DongleRestart, Worse
<1>3. LinesInv'
  <2>1. Len(<<>>) <= RingSize /\ <<>> \in Seq(Char) /\ <<>> \in Seq(Payload)
    BY SerialAssumption
  <2>. QED  BY <1>1, <1>2, <2>1 DEF LinesInv
<1>. DEFINE l == [i \in 0 .. 0 |-> <<>>]  e == [i \in 1 .. 0 |-> 0]
<1>4. Feeds(<<>>, <<>>, l) /\ l[Len(<<>>)] = <<>>
  BY ONLY NoFeed, EmptyHeld
<1>5. Marks(<<>>, l, e, <<>>, Len(<<>>))
  BY NoMarks
<1>. HIDE DEF l, e
<1>6. PICK ls : Feeds(line_buf, ring, ls) /\ InOrder(ls)
  BY DEF DongleInv
<1>7. ASSUME damage' # "mixes"
      PROVE  Lost(l, e)'
  <2>1. damage # "mixes" /\ damage' # "none"
    BY <1>2, <1>7
  <2>2. AtRest \/ \E t \in Threads : OnlyOne(t)
    BY <1>6, <2>1 DEF InOrder, Finished, Begun, Lost
  <2>3. AtRest' \/ \E t \in Threads : OnlyOne(t)'
    BY <1>2, <2>2 DEF AtRest, OnlyOne
  <2>. QED  BY <1>2, <1>4, <1>5, <2>1, <2>3 DEF Lost
<1>8. InOrder(l)'
  BY <1>7 DEF InOrder
<1>. QED  BY <1>2, <1>3, <1>4, <1>8 DEF DongleInv

LEMMA HubRestartStep ==
  ASSUME DongleInv, HubRestart
  PROVE  DongleInv'
<1>1. LinesInv
  BY DEF DongleInv
<1>2. /\ ring' = ring /\ line_buf' = line_buf /\ open' = open /\ todo' = [t \in Threads |-> <<>>]
      /\ damage' = IF damage = "mixes" THEN damage ELSE "loses"
  BY DEF HubRestart, Worse, dongle
<1>3. LinesInv'
  <2>1. <<>> \in Seq(Char) /\ Rest(<<>>)
    BY DEF Rest
  <2>. QED  BY <1>1, <1>2, <2>1 DEF LinesInv
<1>4. PICK ls : Feeds(line_buf, ring, ls) /\ InOrder(ls)
  BY DEF DongleInv
<1>5. AtRest'
  BY <1>2 DEF AtRest, Unfinished
<1>6. Len(open) \in Nat /\ LineMax \in Nat
  BY <1>1, LenProperties, SerialAssumption DEF LinesInv
<1>7. ASSUME damage' # "mixes"
      PROVE  \E h : Lost(ls, h)'
  <2>1. damage # "mixes" /\ damage' # "none"
    BY <1>2, <1>7
  <2>2. PICK h : Finished(ls, h) \/ Begun(ls, h) \/ Lost(ls, h)
    BY <1>4, <2>1 DEF InOrder
  <2>3. Marks(ring, ls, h, open, Len(open))
    BY <1>6, <2>2, MarksWiden DEF Finished, Begun, Lost
  <2>4. Doomed(ls[Len(ring)]) \/ ls[Len(ring)] = <<>> \/ Len(ls[Len(ring)]) <= LineMax - 2
    <3>1. CASE Begun(ls, h)
      <4>. DEFINE R == ls[Len(ring)]  p == open[Len(open)]
      <4>1. PICK t \in Threads : OnlyOne(t) /\ R \o todo[t] = encode_tx_line(p)
        BY <3>1 DEF Begun
      <4>2. R \in Seq(Char) /\ todo[t] \in Seq(Char) /\ todo[t] # <<>>
        <5>1. Held(R)
          BY <1>1, <1>4, FeedHeld DEF LinesInv
        <5>. QED  BY <1>1, <4>1, <5>1 DEF Held, LinesInv, OnlyOne, Unfinished
      <4>3. p \in Payload
        <5>1. Len(open) \in 1 .. Len(open)
          BY <1>6, <3>1 DEF Begun
        <5>. QED  BY <1>1, <5>1, ElementOfSeq DEF LinesInv
      <4>4. Len(R \o todo[t]) < LineMax
        BY <4>1, <4>3, PayloadLine
      <4>. HIDE DEF R, p
      <4>5. Len(R \o todo[t]) = Len(R) + Len(todo[t]) /\ Len(R) \in Nat /\ Len(todo[t]) \in Nat
        BY <4>2, CatChars, LenProperties
      <4>6. Len(todo[t]) # 0
        BY <4>2, EmptyLen
      <4>7. Len(R) <= LineMax - 2
        BY ONLY <1>6, <4>4, <4>5, <4>6
      <4>. QED  BY <4>7 DEF R
    <3>. QED  BY <2>2, <3>1 DEF Finished, Lost
  <2>. QED  BY <1>2, <1>5, <2>1, <2>3, <2>4 DEF Lost
<1>8. InOrder(ls)'
  BY <1>7 DEF InOrder
<1>. QED  BY <1>2, <1>3, <1>4, <1>8 DEF DongleInv

LEMMA IterateStep ==
  ASSUME DongleInv, Iterate
  PROVE  DongleInv'
<1>. DEFINE tx == dongle_uart_poll_tx_frame  n == Len(ring)
            these == {k \in DOMAIN open : open[k] = tx.frame}
<1>1. LinesInv /\ ring \in Seq(Char) /\ open \in Seq(Payload) /\ n \in Nat /\ Len(open) \in Nat
      /\ DOMAIN open = 1 .. Len(open) /\ RingSize \in Nat
  BY LenProperties, SerialAssumption DEF DongleInv, LinesInv
<1>2. PICK ls : Feeds(line_buf, ring, ls) /\ InOrder(ls)
  BY DEF DongleInv
<1>3. PICK P : PollTo(ls, P)
  BY <1>1, PollsTo
<1>4. tx = Polled(ls, P)[n]
  BY <1>1, <1>2, <1>3, PollIs
<1>5. /\ ring' = tx.ring /\ line_buf' = tx.line /\ open' = Settled(open, these)
      /\ todo' = todo /\ damage' = damage
  BY DEF Iterate
<1>6. P \in 1 .. n + 1 /\ n \in 0 .. n
  BY <1>1, <1>3 DEF PollTo
<1>. HIDE DEF tx, n
<1>7. open' \in Seq(Payload)
  <2>1. these \in SUBSET (1 .. Len(open))
    BY <1>1
  <2>. HIDE DEF these
  <2>. QED  BY <1>1, <1>5, <2>1, SettledRest
<1>8. CASE P = n + 1
  <2>1. n < P
    BY ONLY <1>1, <1>8
  <2>2. tx = [frame |-> <<>>, line |-> ls[n], ring |-> <<>>]
    BY <1>4, <1>6, <2>1 DEF Polled, n
  <2>3. these = {}
    <3>1. \A k \in DOMAIN open : open[k] # <<>>
      BY <1>1, PayloadLine, ElementOfSeq
    <3>. QED  BY <2>2, <3>1
  <2>4. ring' = <<>> /\ line_buf' = ls[n] /\ open' = open
    BY <1>5, <2>2, <2>3 DEF Settled
  <2>. DEFINE e == [i \in 1 .. 0 |-> 0]
  <2>5. PICK l : Feeds(ls[n], <<>>, l) /\ l[Len(<<>>)] = ls[n]
    <3>1. Held(ls[n])
      BY <1>1, <1>2, FeedHeld DEF n
    <3>2. Feeds(ls[n], <<>>, [i \in 0 .. 0 |-> ls[n]]) /\ [i \in 0 .. 0 |-> ls[n]][Len(<<>>)] = ls[n]
      BY ONLY <3>1, NoFeed
    <3>. QED  BY ONLY <3>2
  <2>6. \A m : Marks(<<>>, l, e, open, m)
    BY NoMarks
  <2>. HIDE DEF e
  <2>7. ASSUME NEW h, NEW m, Every(ring, ls, h, m)
        PROVE  Every(<<>>, l, e, m)
    <3>1. \A i \in 1 .. n : ~Hit(ring, ls, i)
      <4>1. P - 1 = n
        BY ONLY <1>1, <1>8
      <4>. QED  BY <1>3, <4>1 DEF PollTo
    <3>2. 1 .. m = {}
      BY <2>7, <3>1 DEF Every, n
    <3>. QED  BY <3>2 DEF Every
  <2>8. InOrder(l)'
    <3>1. ASSUME damage # "mixes", NEW h, Finished(ls, h) \/ Begun(ls, h) \/ Lost(ls, h)
          PROVE  Finished(l, e)' \/ Begun(l, e)' \/ Lost(l, e)'
      <4>1. (AtRest' <=> AtRest) /\ \A t \in Threads : OnlyOne(t)' <=> OnlyOne(t)
        BY <1>5 DEF AtRest, OnlyOne
      <4>2. Finished(ls, h) => Finished(l, e)'
        BY <1>5, <2>4, <2>5, <2>6, <2>7, <4>1 DEF Finished, n
      <4>3. Begun(ls, h) => Begun(l, e)'
        BY <1>5, <2>4, <2>5, <2>6, <2>7, <4>1 DEF Begun, n
      <4>4. Lost(ls, h) => Lost(l, e)'
        BY <1>5, <2>4, <2>5, <2>6, <4>1 DEF Lost, n
      <4>. QED  BY <3>1, <4>2, <4>3, <4>4
    <3>. QED  BY <1>2, <1>5, <3>1 DEF InOrder
  <2>9. LinesInv'
    <3>1. Len(<<>>) <= RingSize /\ <<>> \in Seq(Char)
      BY <1>1
    <3>. QED  BY <1>1, <1>5, <1>7, <2>4, <3>1 DEF LinesInv
  <2>. QED  BY <2>4, <2>5, <2>8, <2>9 DEF DongleInv
<1>9. CASE P # n + 1
  <2>1. P \in 1 .. n /\ ~(n < P) /\ P \in 1 .. Len(ring)
    BY <1>1, <1>6, <1>9 DEF n
  <2>2. Hit(ring, ls, P) /\ ring[P] = Newline /\ \A i \in 1 .. P - 1 : ~Hit(ring, ls, i)
    BY <1>3, <1>9 DEF PollTo, Hit, n
  <2>. DEFINE r == SubSeq(ring, P + 1, n)  F == parse_tx_line(ls[P - 1])
  <2>0. PICK l : l = Later(ring, ls, P)
    OBVIOUS
  <2>3. tx = [frame |-> F, line |-> <<>>, ring |-> r]
    BY <1>4, <1>6, <2>1 DEF Polled, n
  <2>4. /\ r \in Seq(Char) /\ Len(r) = n - P /\ l[n - P] = ls[n] /\ Feeds(<<>>, r, l)
    <3>1. LaterFed(ring, ls, P)
      BY <1>1, <1>2, <2>1, <2>2, FeedLater
    <3>. QED  BY <2>0, <3>1 DEF LaterFed, n
  <2>. HIDE DEF r, F
  <2>5. ring' = r /\ line_buf' = <<>>
    BY <1>5, <2>3
  <2>6. LinesInv'
    <3>1. Len(ring) <= RingSize
      BY <1>1 DEF LinesInv
    <3>2. Len(r) <= RingSize
      BY <1>1, <2>1, <2>4, <3>1 DEF n
    <3>. QED  BY <1>1, <1>5, <1>7, <2>4, <2>5, <3>2 DEF LinesInv
  <2>7. ASSUME damage # "mixes", NEW h, Finished(ls, h) \/ Begun(ls, h) \/ Lost(ls, h)
        PROVE  \E x : Finished(l, x)' \/ Begun(l, x)' \/ Lost(l, x)'
    <3>. DEFINE k == Min(these)
    <3>1. PICK m : 
             /\ Marks(ring, ls, h, open, m) /\ m \in Nat /\ m <= Len(open)
             /\ Finished(ls, h) \/ Lost(ls, h) => m = Len(open)
             /\ ~(Finished(ls, h) \/ Lost(ls, h)) => m = Len(open) - 1
      <4>1. CASE Finished(ls, h) \/ Lost(ls, h)
        <5>1. Marks(ring, ls, h, open, Len(open))
          BY <4>1 DEF Finished, Lost
        <5>2. Len(open) <= Len(open)
          BY <1>1
        <5>. QED  BY <1>1, <4>1, <5>1, <5>2
      <4>2. CASE ~(Finished(ls, h) \/ Lost(ls, h))
        <5>1. Marks(ring, ls, h, open, Len(open) - 1) /\ Len(open) >= 1
          BY <2>7, <4>2 DEF Begun
        <5>2. Len(open) - 1 \in Nat /\ Len(open) - 1 <= Len(open)
          BY ONLY <1>1, <5>1
        <5>. QED  BY <4>2, <5>1, <5>2
      <4>. QED  BY <4>1, <4>2
    <3>a. m \in Nat /\ m <= Len(open)
      BY <3>1
    <3>2. h[P] \in 1 .. m /\ F = open[h[P]]
      BY <2>1, <2>2, <3>1 DEF Marks, F
    <3>3. h[P] \in these
      <4>1. h[P] \in 1 .. Len(open)
        <5>1. h[P] \in 1 .. m
          BY <3>2
        <5>. QED  BY ONLY <1>1, <3>a, <5>1
      <4>. QED  BY <1>1, <2>3, <3>2, <4>1
    <3>4. k \in these /\ k <= h[P] /\ these # {} /\ k \in 1 .. Len(open)
      <4>1. these \in SUBSET Nat /\ these # {} /\ these \subseteq 1 .. Len(open)
        BY <1>1, <3>3
      <4>. HIDE DEF these
      <4>. QED  BY <3>3, <4>1, MinOf
    <3>. HIDE DEF k, these
    <3>5. k \in 1 .. h[P] /\ k \in Nat /\ k <= m
      <4>1. h[P] \in 1 .. m
        BY <3>2
      <4>. QED  BY ONLY <1>1, <3>a, <3>4, <4>1
    <3>6. open' = SubSeq(open, k + 1, Len(open))
      BY <1>5, <3>4 DEF Settled, k
    <3>7. Len(open') = Len(open) - k /\ \A j \in 1 .. Len(open) - k : open'[j] = open[k + j]
      <4>. DEFINE a == k + 1  b == Len(open)
      <4>1. a \in 1 .. Len(open) + 1 /\ b \in a - 1 .. Len(open) /\ (b + 1) - a = Len(open) - k /\ a - 1 = k
        BY ONLY <1>1, <3>4
      <4>. HIDE DEF a, b
      <4>2. /\ Len(SubSeq(open, a, b)) = (b + 1) - a
            /\ \A i \in 1 .. (b + 1) - a : SubSeq(open, a, b)[i] = open[(a - 1) + i]
        BY ONLY <1>1, <4>1, Part
      <4>. QED  BY <3>6, <4>1, <4>2 DEF a, b
    <3>b. PICK x : x = LaterMarks(ring, ls, h, P, k)
      OBVIOUS
    <3>8. /\ m - k \in Nat
          /\ Marks(r, l, x, open', m - k)
          /\ Every(ring, ls, h, m) => Every(r, l, x, m - k)
      <4>1. \A j \in 1 .. m - k : open'[j] = open[k + j]
        <5>1. \A j \in 1 .. m - k : j \in 1 .. Len(open) - k
          BY ONLY <1>1, <3>a, <3>5
        <5>. QED  BY <3>7, <5>1
      <4>. DEFINE p == open'
      <4>2. \A j \in 1 .. m - k : p[j] = open[k + j]
        BY <4>1
      <4>. HIDE DEF p
      <4>3. /\ m - k \in Nat
            /\ Marks(SubSeq(ring, P + 1, Len(ring)), Later(ring, ls, P), LaterMarks(ring, ls, h, P, k), p, m - k)
            /\ Every(ring, ls, h, m) /\ (\A i \in 1 .. P - 1 : ~Hit(ring, ls, i)) =>
                 Every(SubSeq(ring, P + 1, Len(ring)), Later(ring, ls, P), LaterMarks(ring, ls, h, P, k), m - k)
        BY ONLY <1>1, <1>2, <2>1, <2>2, <3>1, <3>5, <4>2, MarksLater
      <4>. QED  BY <2>0, <2>2, <3>b, <4>3 DEF p, r, n
    <3>9. (AtRest' <=> AtRest) /\ \A t \in Threads : OnlyOne(t)' <=> OnlyOne(t)
      BY <1>5 DEF AtRest, OnlyOne
    <3>10. l[Len(ring')] = ls[Len(ring)]
      BY <2>4, <2>5 DEF n
    <3>11. CASE Finished(ls, h)
      <4>1. m - k = Len(open') /\ m = Len(open)
        BY <3>1, <3>7, <3>11
      <4>2. Finished(l, x)'
        BY <1>5, <2>5, <3>8, <3>9, <3>10, <3>11, <4>1 DEF Finished
      <4>. QED  BY <4>2
    <3>12. CASE Lost(ls, h)
      <4>1. m - k = Len(open') /\ m = Len(open)
        BY <3>1, <3>7, <3>12
      <4>2. Lost(l, x)'
        BY <1>5, <2>5, <3>8, <3>9, <3>10, <3>12, <4>1 DEF Lost
      <4>. QED  BY <4>2
    <3>13. CASE ~(Finished(ls, h) \/ Lost(ls, h))
      <4>1. Begun(ls, h)
        BY <2>7, <3>13
      <4>2. m = Len(open) - 1
        BY <3>1, <3>13
      <4>3. /\ m - k = Len(open') - 1 /\ Len(open') >= 1
            /\ Len(open') \in 1 .. Len(open) - k /\ k + Len(open') = Len(open)
        BY ONLY <1>1, <3>5, <3>7, <4>2
      <4>4. open'[Len(open')] = open[Len(open)]
        BY <3>7, <4>3
      <4>5. \E t \in Threads : OnlyOne(t)' /\ l[Len(ring')] \o todo'[t] = encode_tx_line(open'[Len(open')])
        BY <1>5, <3>9, <3>10, <4>1, <4>4 DEF Begun
      <4>6. damage' = "none" => Every(ring', l, x, Len(open') - 1)
        BY <1>5, <2>5, <3>8, <4>1, <4>2, <4>3 DEF Begun
      <4>7. Begun(l, x)'
        BY <2>5, <3>8, <4>3, <4>5, <4>6 DEF Begun
      <4>. QED  BY <4>7
    <3>. QED  BY <3>11, <3>12, <3>13
  <2>8. InOrder(l)'
    BY <1>2, <1>5, <2>7 DEF InOrder
  <2>9. \E l2 : Feeds(line_buf', ring', l2) /\ InOrder(l2)'
    BY <2>4, <2>5, <2>8
  <2>. QED  BY <2>6, <2>9 DEF DongleInv
<1>. QED  BY <1>8, <1>9

(* A line that has begun holds its characters, whatever comes behind; a    *)
(* second T in it makes it useless for good.                               *)
LEMMA DoomedGot ==
  ASSUME NEW R, Held(R), NEW w \in Seq(Char), NEW j \in 0 .. Len(w),
         Doomed(R) \/ (R # <<>> /\ Len(R) <= LineMax - 2 /\ 1 <= j /\ w[1] = "T")
  PROVE  parse_tx_line(Got(R, w, j)) = <<>> /\ Doomed(Got(R, w, j))
<1>. DEFINE g == Got(R, w, j)
<1>1. /\ g \in Seq(Char) /\ Len(g) = Fit(R, j) /\ Fit(R, j) \in Nat /\ Len(R) <= Fit(R, j)
      /\ \A i \in 1 .. Len(R) : i \in 1 .. Fit(R, j) /\ g[i] = R[i]
      /\ \A i \in 1 .. j : Len(R) + i <= Fit(R, j) => g[Len(R) + i] = w[i]
  BY GotIs DEF Held
<1>2. Len(R) \in Nat /\ LineMax \in Nat /\ R \in Seq(Char) /\ Len(w) \in Nat
  BY LenProperties, SerialAssumption DEF Held
<1>. HIDE DEF g
<1>0. SUFFICES Doomed(g)
  BY <1>1, DoomedParse DEF g
<1>3. CASE Doomed(R)
  <2>1. PICK i \in 2 .. Len(R) : R[i] = "T"
    BY <1>3 DEF Doomed
  <2>2. i \in 1 .. Len(R) /\ i \in 2 .. Len(g)
    BY ONLY <1>1, <1>2, i \in 2 .. Len(R)
  <2>3. g[i] = "T"
    BY <1>1, <2>1, <2>2
  <2>. QED  BY <2>2, <2>3 DEF Doomed
<1>4. CASE R # <<>> /\ Len(R) <= LineMax - 2 /\ 1 <= j /\ w[1] = "T"
  <2>1. Len(R) # 0
    BY <1>2, <1>4, EmptyLen
  <2>2. 1 \in 1 .. j /\ Len(R) + 1 <= Fit(R, j) /\ Len(R) + 1 \in 2 .. Len(g)
    <3>1. 1 \in 1 .. j /\ Len(R) + 1 <= Fit(R, j)
      BY ONLY <1>2, <1>4, j \in 0 .. Len(w) DEF Fit
    <3>. QED  BY ONLY <1>1, <1>2, <2>1, <3>1
  <2>3. g[Len(R) + 1] = "T"
    BY <1>1, <1>4, <2>2
  <2>. QED  BY <2>2, <2>3 DEF Doomed
<1>. QED  BY <1>3, <1>4

LEMMA HeadlessGot ==
  ASSUME NEW w \in Seq(Char), NEW j \in 0 .. Len(w), w[1] # "T"
  PROVE  parse_tx_line(Got(<<>>, w, j)) = <<>>
<1>. DEFINE g == Got(<<>>, w, j)
<1>1. Held(<<>>) /\ Len(<<>>) = 0
  BY EmptyHeld
<1>2. /\ g \in Seq(Char) /\ Len(g) = Fit(<<>>, j) /\ Fit(<<>>, j) \in Nat
      /\ \A i \in 1 .. j : Len(<<>>) + i <= Fit(<<>>, j) => g[Len(<<>>) + i] = w[i]
  <2>1. /\ Held(Got(<<>>, w, j)) /\ Len(Got(<<>>, w, j)) = Fit(<<>>, j) /\ Fit(<<>>, j) \in Nat
        /\ \A i \in 1 .. j : Len(<<>>) + i <= Fit(<<>>, j) => Got(<<>>, w, j)[Len(<<>>) + i] = w[i]
    BY ONLY <1>1, w \in Seq(Char), j \in 0 .. Len(w), GotIs
  <2>. QED  BY <2>1 DEF Held
<1>3. Fit(<<>>, j) <= j
  <2>1. j \in Nat /\ LineMax \in Nat
    BY SerialAssumption, LenProperties
  <2>. QED  BY <1>1, <2>1 DEF Fit
<1>. HIDE DEF g
<1>4. CASE Len(g) = 0
  BY <1>2, <1>4, EmptyLen, HeadlessParse DEF g
<1>5. CASE Len(g) # 0
  <2>1. 1 \in 1 .. j /\ 0 + 1 <= Fit(<<>>, j) /\ 0 + 1 = 1
    <3>1. j \in Nat
      BY LenProperties
    <3>. QED  BY ONLY <1>2, <1>3, <1>5, <3>1
  <2>2. g[1] = w[1]
    BY <1>1, <1>2, <2>1
  <2>. QED  BY <1>2, <2>2, HeadlessParse DEF g
<1>. QED  BY <1>4, <1>5

(* The characters taken of what a thread has still to write.               *)
LEMMA FirstPart ==
  ASSUME NEW s, NEW p, NEW m, RestOf(s, p, m), NEW n \in 1 .. Len(s)
  PROVE  /\ Piece(SubSeq(s, 1, n)) /\ Len(SubSeq(s, 1, n)) = n
         /\ SubSeq(s, 1, n)[n] = Newline <=> n = Len(s)
         /\ SubSeq(s, 1, n)[1] = "T" <=> m = 0
         /\ SubSeq(s, 1, n) \o SubSeq(s, n + 1, Len(s)) = s
<1>1. /\ s \in Seq(Char) /\ Len(s) \in Nat
      /\ \A i \in 1 .. Len(s) : (s[i] = Newline <=> i = Len(s)) /\ (s[i] = "T" <=> m = 0 /\ i = 1)
  BY RestIs
<1>. DEFINE w == SubSeq(s, 1, n)  r == SubSeq(s, n + 1, Len(s))
<1>2. /\ n \in Nat \ {0} /\ 1 \in 1 .. n /\ n \in 1 .. n
      /\ \A i \in 1 .. n : i \in 1 .. Len(s) /\ (i = Len(s) => i = n)
      /\ 1 \in 1 .. Len(s) + 1 /\ n \in 1 - 1 .. Len(s) /\ (n + 1) - 1 = n
      /\ \A i \in 1 .. n : (1 - 1) + i = i
      /\ n + 1 \in 1 .. Len(s) + 1 /\ Len(s) \in (n + 1) - 1 .. Len(s)
      /\ (Len(s) + 1) - (n + 1) = Len(s) - n /\ (n + 1) - 1 = n
      /\ n + (Len(s) - n) = Len(s) /\ Len(s) - n \in Nat
  BY ONLY <1>1, n \in 1 .. Len(s)
<1>3. w \in Seq(Char) /\ Len(w) = n /\ \A i \in 1 .. n : w[i] = s[i]
  <2>1. /\ SubSeq(s, 1, n) \in Seq(Char) /\ Len(SubSeq(s, 1, n)) = (n + 1) - 1
        /\ \A i \in 1 .. (n + 1) - 1 : SubSeq(s, 1, n)[i] = s[(1 - 1) + i]
    <3>. DEFINE a == 1
    <3>1. a \in 1 .. Len(s) + 1 /\ n \in a - 1 .. Len(s)
      BY <1>2
    <3>. HIDE DEF a
    <3>2. /\ SubSeq(s, a, n) \in Seq(Char) /\ Len(SubSeq(s, a, n)) = (n + 1) - a
          /\ \A i \in 1 .. (n + 1) - a : SubSeq(s, a, n)[i] = s[(a - 1) + i]
      BY ONLY <1>1, <3>1, Part
    <3>. QED  BY <3>2 DEF a
  <2>. QED  BY <1>2, <2>1
<1>4. r \in Seq(Char) /\ Len(r) = Len(s) - n /\ \A i \in 1 .. Len(s) - n : r[i] = s[n + i]
  <2>. DEFINE a == n + 1  b == Len(s)
  <2>1. a \in 1 .. Len(s) + 1 /\ b \in a - 1 .. Len(s)
    BY <1>2
  <2>. HIDE DEF a, b
  <2>2. /\ SubSeq(s, a, b) \in Seq(Char) /\ Len(SubSeq(s, a, b)) = (b + 1) - a
        /\ \A i \in 1 .. (b + 1) - a : SubSeq(s, a, b)[i] = s[(a - 1) + i]
    BY ONLY <1>1, <2>1, Part
  <2>. QED  BY <1>2, <2>2 DEF a, b
<1>. HIDE DEF w, r
<1>5. Piece(w) /\ Len(w) = n
  BY <1>1, <1>2, <1>3 DEF Piece
<1>6. w[n] = Newline <=> n = Len(s)
  BY <1>1, <1>2, <1>3
<1>7. w[1] = "T" <=> m = 0
  BY <1>1, <1>2, <1>3
<1>8. w \o r = s
  <2>1. /\ w \o r \in Seq(Char) /\ Len(w \o r) = Len(w) + Len(r)
        /\ \A i \in 1 .. Len(w) : (w \o r)[i] = w[i]
        /\ \A i \in 1 .. Len(r) : (w \o r)[Len(w) + i] = r[i]
    BY <1>3, <1>4, CatChars
  <2>2. Len(w \o r) = Len(s)
    BY <1>2, <1>3, <1>4, <2>1
  <2>a. Len(s) \in Nat /\ n \in Nat
    BY <1>1, <1>2
  <2>3. ASSUME NEW i \in 1 .. Len(w \o r)
        PROVE  (w \o r)[i] = s[i]
    <3>1. CASE i <= n
      <4>1. i \in 1 .. n
        BY ONLY <2>a, <2>2, <3>1, i \in 1 .. Len(w \o r)
      <4>. QED  BY <1>3, <2>1, <4>1
    <3>2. CASE ~(i <= n)
      <4>1. i - n \in 1 .. Len(s) - n /\ n + (i - n) = i
        BY ONLY <2>a, <2>2, <3>2, i \in 1 .. Len(w \o r)
      <4>. DEFINE k == i - n
      <4>2. k \in 1 .. Len(r) /\ n + k = i /\ k \in 1 .. Len(s) - n
        BY <1>4, <4>1
      <4>. HIDE DEF k
      <4>3. (w \o r)[n + k] = r[k] /\ r[k] = s[n + k]
        BY <1>3, <1>4, <2>1, <4>2
      <4>. QED  BY <4>2, <4>3
    <3>. QED  BY <3>1, <3>2
  <2>. QED  BY <1>1, <2>1, <2>2, <2>3, SameSeq
<1>. QED  BY <1>5, <1>6, <1>7, <1>8 DEF w, r

(* A write takes n characters of a thread's rest of the line of p, from    *)
(* behind its first m, and as many of them as fit into the driver.         *)
Between(t) == \E u \in Threads \ {t} : Unfinished(todo[u])

Written(t, p, m, n, fits) ==
  /\ RestOf(todo[t], p, m)
  /\ n \in 1 .. Len(todo[t]) /\ (m # 0 => n = Len(todo[t]))
  /\ fits \in 0 .. n /\ Len(ring) + fits <= RingSize
  /\ ring' = ring \o SubSeq(todo[t], 1, fits) /\ line_buf' = line_buf
  /\ todo' = [todo EXCEPT ![t] = SubSeq(todo[t], n + 1, Len(todo[t]))]
  /\ open' = IF m = 0 THEN Append(open, p) ELSE open
  /\ damage' = IF damage = "mixes" \/ fits < n \/ (Between(t) /\ n < Len(todo[t])) THEN "mixes"
               ELSE IF Between(t) THEN "loses" ELSE damage

LEMMA WriteParts ==
  ASSUME LinesInv, NEW t \in Threads, Write(t)
  PROVE  \E p, m, n, fits : Written(t, p, m, n, fits)
<1>. DEFINE s == todo[t]
<1>1. /\ s # <<>> /\ Rest(s) /\ ring \in Seq(Char) /\ Len(ring) \in Nat /\ Len(ring) <= RingSize
      /\ RingSize \in Nat
  BY LenProperties, SerialAssumption DEF Write, LinesInv
<1>2. PICK p, m : RestOf(s, p, m)
  BY <1>1 DEF Rest
<1>3. /\ s \in Seq(Char) /\ Len(s) \in Nat \ {0} /\ (Unfinished(s) <=> m # 0)
      /\ m = 0 => s = encode_tx_line(p)
  BY <1>2, RestIs
<1>4. PICK n \in {Len(s)} \cup IF Unfinished(s) THEN {} ELSE {c \in Cuts : c < Len(s)} :
        LET fits == Min({n, RingSize - Len(ring)})
            rest == SubSeq(s, n + 1, Len(s))
            between == Between(t)
        IN  /\ ring' = ring \o SubSeq(s, 1, fits)
            /\ todo' = [todo EXCEPT ![t] = rest]
            /\ Worse(IF fits < n \/ (between /\ rest # <<>>) THEN "mixes"
                     ELSE IF between THEN "loses" ELSE damage)
  BY DEF Write, Between
<1>5. n \in 1 .. Len(s) /\ (m # 0 => n = Len(s))
  <2>1. n = Len(s) \/ (m = 0 /\ n \in Nat \ {0} /\ n < Len(s))
    BY <1>3, <1>4, SerialAssumption
  <2>. QED  BY ONLY <1>3, <2>1
<1>. DEFINE fits == Min({n, RingSize - Len(ring)})
<1>6. fits \in 0 .. n /\ Len(ring) + fits <= RingSize
  <2>. DEFINE S == {n, RingSize - Len(ring)}
  <2>1. n \in Nat /\ RingSize - Len(ring) \in Nat
    BY ONLY <1>1, <1>3, <1>5
  <2>2. S \in SUBSET Nat /\ S # {} /\ n \in S /\ RingSize - Len(ring) \in S
    BY <2>1
  <2>. HIDE DEF S
  <2>3. Min(S) \in Nat /\ Min(S) <= n /\ Min(S) <= RingSize - Len(ring)
    BY <2>2, MinOf
  <2>4. fits = Min(S)
    BY DEF S
  <2>. HIDE DEF fits
  <2>. QED  BY ONLY <1>1, <2>1, <2>3, <2>4
<1>7. SubSeq(s, n + 1, Len(s)) # <<>> <=> n < Len(s)
  <2>1. n = Len(s) => SubSeq(s, n + 1, Len(s)) = <<>>
    BY <1>2, <1>5, RestRest
  <2>2. ASSUME n < Len(s)
        PROVE  SubSeq(s, n + 1, Len(s)) # <<>>
    <3>1. RestOf(SubSeq(s, n + 1, Len(s)), p, m + n)
      BY <1>2, <1>5, <2>2, RestRest
    <3>2. /\ Len(SubSeq(s, n + 1, Len(s))) \in Nat \ {0}
          /\ SubSeq(s, n + 1, Len(s)) \in Seq(Char)
      BY <3>1, RestIs
    <3>. QED  BY <3>2, EmptyLen
  <2>3. n = Len(s) \/ n < Len(s)
    BY ONLY <1>3, <1>5
  <2>4. ~(n = Len(s) /\ n < Len(s))
    BY ONLY <1>3, <1>5
  <2>. QED  BY <2>1, <2>2, <2>3, <2>4
<1>. HIDE DEF fits
<1>8. /\ ring' = ring \o SubSeq(s, 1, fits)
      /\ todo' = [todo EXCEPT ![t] = SubSeq(s, n + 1, Len(s))]
      /\ damage' = IF damage = "mixes" \/ fits < n \/ (Between(t) /\ n < Len(s)) THEN "mixes"
                   ELSE IF Between(t) THEN "loses" ELSE damage
  BY <1>4, <1>7 DEF fits, Worse
<1>9. open' = IF m = 0 THEN Append(open, p) ELSE open
  <2>1. open' = IF Unfinished(s) THEN open ELSE Append(open, parse_tx_line(Front(s)))
    BY DEF Write
  <2>2. m = 0 => parse_tx_line(Front(s)) = p
    <3>1. p \in Payload
      BY <1>2 DEF RestOf
    <3>2. parse_tx_line(SubSeq(encode_tx_line(p), 1, Len(encode_tx_line(p)) - 1)) = p
      BY <3>1, PayloadLine
    <3>. QED  BY <1>3, <3>2 DEF Front
  <2>. QED  BY <1>3, <2>1, <2>2
<1>10. line_buf' = line_buf
  BY DEF Write
<1>11. Written(t, p, m, n, fits)
  BY <1>2, <1>5, <1>6, <1>8, <1>9, <1>10 DEF Written
<1>. QED  BY <1>11

LEMMA WriteLines ==
  ASSUME LinesInv, NEW t \in Threads, NEW p, NEW m, NEW n, NEW fits, Written(t, p, m, n, fits)
  PROVE  LinesInv'
<1>. DEFINE s == todo[t]  r == SubSeq(s, n + 1, Len(s))
<1>1. /\ RestOf(s, p, m) /\ n \in 1 .. Len(s) /\ fits \in 0 .. n /\ Len(ring) + fits <= RingSize
      /\ p \in Payload /\ open \in Seq(Payload) /\ ring \in Seq(Char)
      /\ todo \in [Threads -> Seq(Char)]
  BY DEF Written, RestOf, LinesInv
<1>2. s \in Seq(Char) /\ Len(s) \in Nat
  BY <1>1, RestIs
<1>3. r \in Seq(Char) /\ Rest(r)
  <2>1. n = Len(s) \/ n < Len(s)
    BY ONLY <1>1, <1>2
  <2>2. r = <<>> \/ RestOf(r, p, m + n)
    BY <1>1, <2>1, RestRest
  <2>3. RestOf(r, p, m + n) => r \in Seq(Char)
    BY RestIs
  <2>. HIDE DEF r
  <2>4. <<>> \in Seq(Char)
    OBVIOUS
  <2>. QED  BY <2>2, <2>3, <2>4 DEF Rest
<1>. HIDE DEF r
<1>4. todo' \in [Threads -> Seq(Char)] /\ \A u \in Threads : Rest(todo'[u])
  <2>1. todo' = [todo EXCEPT ![t] = r]
    BY DEF Written, r
  <2>. QED  BY <1>1, <1>3, <2>1 DEF LinesInv
<1>5. ring' \in Seq(Char) /\ Len(ring') <= RingSize
  <2>. DEFINE a == 1  w == SubSeq(s, a, fits)
  <2>1. a \in 1 .. Len(s) + 1 /\ fits \in a - 1 .. Len(s) /\ (fits + 1) - a = fits
    BY ONLY <1>1, <1>2
  <2>. HIDE DEF a
  <2>2. w \in Seq(Char) /\ Len(w) = fits
    <3>1. SubSeq(s, a, fits) \in Seq(Char) /\ Len(SubSeq(s, a, fits)) = (fits + 1) - a
      BY ONLY <1>2, <2>1, Part
    <3>. QED  BY <2>1, <3>1
  <2>. HIDE DEF w
  <2>3. ring \o w \in Seq(Char) /\ Len(ring \o w) = Len(ring) + Len(w)
    BY <1>1, <2>2, CatChars
  <2>4. ring' = ring \o w
    BY DEF Written, w, a
  <2>. QED  BY <1>1, <2>2, <2>3, <2>4
<1>6. open' \in Seq(Payload)
  <2>1. Append(open, p) \in Seq(Payload)
    BY <1>1, AppendProperties
  <2>. QED  BY <1>1, <2>1 DEF Written
<1>7. damage' \in {"none", "loses", "mixes"}
  BY DEF Written, LinesInv
<1>. QED  BY <1>4, <1>5, <1>6, <1>7 DEF LinesInv

LEMMA WriteFeeds ==
  ASSUME LinesInv, NEW ls, Feeds(line_buf, ring, ls),
         NEW t \in Threads, NEW p, NEW m, NEW n, NEW fits, Written(t, p, m, n, fits)
  PROVE  \E l : Feeds(line_buf', ring', l)
<1>. DEFINE s == todo[t]
<1>1. /\ RestOf(s, p, m) /\ n \in 1 .. Len(s) /\ fits \in 0 .. n /\ ring \in Seq(Char)
      /\ line_buf' = line_buf /\ ring' = ring \o SubSeq(s, 1, fits)
  BY DEF Written, LinesInv
<1>2. s \in Seq(Char) /\ Len(s) \in Nat
  BY <1>1, RestIs
<1>3. CASE fits = 0
  <2>1. SubSeq(s, 1, 0) = <<>>
    BY <1>2, SubSeqEmpty
  <2>2. ring \o <<>> = ring
    BY <1>1, ConcatEmptySeq
  <2>. QED  BY <1>1, <1>3, <2>1, <2>2
<1>4. CASE fits # 0
  <2>1. fits \in 1 .. Len(s)
    BY ONLY <1>1, <1>2, <1>4
  <2>. DEFINE w == SubSeq(s, 1, fits)
  <2>2. Piece(w)
    BY <1>1, <2>1, FirstPart
  <2>. HIDE DEF w
  <2>3. FedMore(line_buf, ring, ls, w)
    BY <1>1, <2>2, FeedMore
  <2>4. Feeds(line_buf, ring \o w, More(ring, w, ls))
    BY ONLY <2>3 DEF FedMore
  <2>. QED  BY <1>1, <2>4 DEF w
<1>. QED  BY <1>3, <1>4

LEMMA MarksWider ==
  ASSUME NEW r, NEW ls, NEW h, NEW q, NEW m \in Nat, NEW k \in Nat, k <= m, Marks(r, ls, h, q, k)
  PROVE  Marks(r, ls, h, q, m)
<1>1. \A i \in 1 .. k : i \in 1 .. m
  OBVIOUS
<1>. QED  BY <1>1 DEF Marks

(* Where the line begun last has its beginning in the line buffer, that is *)
(* not empty and has room left.                                            *)
LEMMA BegunHeld ==
  ASSUME LinesInv, NEW R, Held(R), NEW u \in Threads, Unfinished(todo[u]), Len(open) >= 1,
         R \o todo[u] = encode_tx_line(open[Len(open)])
  PROVE  R # <<>> /\ Len(R) <= LineMax - 2
<1>. DEFINE s == todo[u]  p == open[Len(open)]
<1>1. R \in Seq(Char) /\ s \in Seq(Char) /\ s # <<>> /\ s[1] # "T" /\ p \in Payload /\ LineMax \in Nat
  <2>1. Len(open) \in 1 .. Len(open) /\ open \in Seq(Payload)
    BY LenProperties DEF LinesInv
  <2>2. p \in Payload
    BY <2>1, ElementOfSeq
  <2>. QED  BY <2>2, SerialAssumption DEF Held, LinesInv, Unfinished
<1>. HIDE DEF p, s
<1>2. /\ Len(encode_tx_line(p)) < LineMax /\ 6 <= Len(encode_tx_line(p)) /\ Len(encode_tx_line(p)) \in Nat
      /\ \A i \in 1 .. Len(encode_tx_line(p)) : encode_tx_line(p)[i] = "T" <=> i = 1
  BY <1>1, PayloadLine
<1>3. R \o s = encode_tx_line(p)
  BY DEF s, p
<1>4. Len(R \o s) = Len(R) + Len(s) /\ Len(R) \in Nat /\ Len(s) \in Nat /\ Len(s) # 0
  BY <1>1, CatChars, LenProperties, EmptyLen
<1>5. Len(R) <= LineMax - 2
  BY ONLY <1>1, <1>2, <1>3, <1>4
<1>6. R # <<>>
  <2>1. SUFFICES ASSUME R = <<>>
                 PROVE  FALSE
    OBVIOUS
  <2>2. <<>> \o s = s
    BY <1>1, ConcatEmptySeq
  <2>3. s = encode_tx_line(p)
    BY <1>3, <2>1, <2>2
  <2>4. 1 \in 1 .. Len(encode_tx_line(p))
    BY ONLY <1>2
  <2>. QED  BY <1>1, <1>2, <2>3, <2>4
<1>. QED  BY <1>5, <1>6

(* What the write of a piece makes of the threads and of the driver, when  *)
(* it is one that does not mix lines.                                      *)
Wrote(ls, t, p, m, n, w, l) ==
  /\ p \in Payload /\ n \in Nat \ {0} /\ Len(open) \in Nat
  /\ damage # "mixes" /\ (Between(t) => n = Len(todo[t]))
  /\ damage' = IF Between(t) THEN "loses" ELSE damage
  /\ Unfinished(todo[t]) <=> m # 0
  /\ Piece(w) /\ Len(w) = n
  /\ w[n] = Newline <=> n = Len(todo[t])
  /\ w[1] = "T" <=> m = 0
  /\ w \o todo'[t] = todo[t]
  /\ n = Len(todo[t]) => w = todo[t] /\ ~Unfinished(todo'[t])
  /\ n # Len(todo[t]) => Unfinished(todo'[t])
  /\ \A u \in Threads \ {t} : todo'[u] = todo[u]
  /\ ring' = ring \o w /\ l = More(ring, w, ls)
  /\ Held(ls[Len(ring)]) /\ Feeds(line_buf', ring', l)
  /\ l[Len(ring')] = IF n = Len(todo[t]) THEN <<>> ELSE Got(ls[Len(ring)], w, n)
  /\ Len(open') = IF m = 0 THEN Len(open) + 1 ELSE Len(open)
  /\ \A k \in 1 .. Len(open) : open'[k] = open[k]
  /\ m = 0 => open'[Len(open')] = p /\ todo[t] = encode_tx_line(p) 
  /\ m = 0 /\ n = Len(todo[t]) => 2 <= n
  /\ n < LineMax

LEMMA WriteWrote ==
  ASSUME LinesInv, NEW ls, Feeds(line_buf, ring, ls), NEW t \in Threads, NEW p, NEW m, NEW n, NEW fits,
         Written(t, p, m, n, fits), damage' # "mixes"
  PROVE  \E w, l : Wrote(ls, t, p, m, n, w, l)
<1>. DEFINE s == todo[t]  r == SubSeq(s, n + 1, Len(s))
<1>1. /\ RestOf(s, p, m) /\ n \in 1 .. Len(s) /\ fits \in 0 .. n /\ ring \in Seq(Char)
      /\ p \in Payload /\ m \in Nat /\ open \in Seq(Payload)
      /\ line_buf' = line_buf /\ ring' = ring \o SubSeq(s, 1, fits)
      /\ todo \in [Threads -> Seq(Char)] /\ todo' = [todo EXCEPT ![t] = r]
      /\ open' = IF m = 0 THEN Append(open, p) ELSE open
  BY DEF Written, LinesInv, RestOf
<1>2. damage # "mixes" /\ ~(fits < n) /\ ~(Between(t) /\ n < Len(s)) /\ damage' = IF Between(t) THEN "loses" ELSE damage
  BY DEF Written
<1>3. /\ s \in Seq(Char) /\ Len(s) \in Nat \ {0} /\ Len(s) < LineMax /\ (Unfinished(s) <=> m # 0)
      /\ m = 0 => s = encode_tx_line(p)
  BY <1>1, RestIs
<1>4. fits = n /\ n \in Nat \ {0} /\ (Between(t) => n = Len(s)) /\ (n # Len(s) => n < Len(s)) /\ n < LineMax
  <2>1. fits = n /\ n \in Nat \ {0} /\ (n # Len(s) => n < Len(s))
    BY ONLY <1>1, <1>2, <1>3
  <2>2. n < LineMax
    <3>1. LineMax \in Nat
      BY SerialAssumption
    <3>. QED  BY ONLY <1>1, <1>3, <3>1
  <2>. QED  BY <1>2, <2>1, <2>2
<1>5. PICK w : w = SubSeq(s, 1, n)
  OBVIOUS
<1>6. /\ Piece(w) /\ Len(w) = n
      /\ w[n] = Newline <=> n = Len(s)
      /\ w[1] = "T" <=> m = 0
      /\ w \o r = s
  BY <1>1, <1>5, FirstPart
<1>7. n = Len(s) => r = <<>> /\ w = s
  <2>1. n = Len(s) => r = <<>>
    BY <1>1, RestRest
  <2>2. r = <<>> => w \o r = w
    <3>1. w \in Seq(Char)
      BY <1>6 DEF Piece
    <3>. QED  BY <3>1, ConcatEmptySeq
  <2>. QED  BY <1>6, <2>1, <2>2
<1>8. n # Len(s) => Unfinished(r)
  <2>. SUFFICES ASSUME n # Len(s)
                PROVE  Unfinished(r)
    OBVIOUS
  <2>1. RestOf(r, p, m + n)
    BY <1>1, <1>4, RestRest
  <2>2. m + n # 0
    BY ONLY <1>1, <1>4
  <2>. QED  BY <2>1, <2>2, RestIs
<1>. HIDE DEF r
<1>9. PICK l : l = More(ring, w, ls)
  OBVIOUS
<1>10. /\ Held(ls[Len(ring)]) /\ Feeds(line_buf', ring', l) /\ ring' = ring \o w
       /\ l[Len(ring')] = IF n = Len(s) THEN <<>> ELSE Got(ls[Len(ring)], w, n)
  <2>1. FedMore(line_buf, ring, ls, w)
    BY <1>1, <1>6, FeedMore
  <2>2. n \in 1 .. Len(w)
    BY <1>4, <1>6
  <2>3. ring' = ring \o w
    BY <1>1, <1>4, <1>5
  <2>4. Len(ring') = Len(ring) + n
    BY ONLY <1>6, <2>1, <2>3 DEF FedMore
  <2>5. /\ Held(ls[Len(ring)]) /\ Feeds(line_buf, ring \o w, More(ring, w, ls))
        /\ More(ring, w, ls)[Len(ring) + n] = IF w[n] = Newline THEN <<>> ELSE Got(ls[Len(ring)], w, n)
    BY ONLY <2>1, <2>2 DEF FedMore
  <2>. QED  BY <1>1, <1>6, <1>9, <2>3, <2>4, <2>5
<1>11. /\ Len(open) \in Nat
       /\ Len(open') = IF m = 0 THEN Len(open) + 1 ELSE Len(open)
       /\ \A k \in 1 .. Len(open) : open'[k] = open[k]
       /\ m = 0 => open'[Len(open')] = p
  <2>1. /\ Len(Append(open, p)) = Len(open) + 1 /\ Append(open, p)[Len(open) + 1] = p
        /\ \A k \in 1 .. Len(open) : Append(open, p)[k] = open[k]
    BY <1>1, AppendProperties
  <2>. QED  BY <1>1, <2>1, LenProperties
<1>12. todo'[t] = r /\ \A u \in Threads \ {t} : todo'[u] = todo[u]
  BY <1>1
<1>13. m = 0 /\ n = Len(s) => 2 <= n
  <2>1. 6 <= Len(encode_tx_line(p)) /\ Len(encode_tx_line(p)) \in Nat
    BY <1>1, PayloadLine
  <2>2. \A i \in Nat : 6 <= i => 2 <= i
    OBVIOUS
  <2>. QED  BY <1>3, <2>1, <2>2
<1>14. n = Len(s) => ~Unfinished(r)
  BY <1>7 DEF Unfinished
<1>15. Wrote(ls, t, p, m, n, w, l)
  BY <1>1, <1>2, <1>3, <1>4, <1>6, <1>7, <1>8, <1>9, <1>10, <1>11, <1>12, <1>13, <1>14 DEF Wrote
<1>. QED  BY <1>15

(* The frame the piece makes with what the line buffer held, if any, is    *)
(* the next one.                                                           *)
Marked(ls, n, w, l, h, M, f, x) ==
  /\ w[n] # Newline \/ f = <<>> =>
       /\ Marks(ring', l, x, open', M)
       /\ Every(ring, ls, h, M) => Every(ring', l, x, M)
  /\ w[n] = Newline /\ f # <<>> /\ open'[M + 1] = f =>
       /\ Marks(ring', l, x, open', M + 1)
       /\ Every(ring, ls, h, M) => Every(ring', l, x, M + 1)

LEMMA WroteMarks ==
  ASSUME LinesInv, NEW ls, Feeds(line_buf, ring, ls), NEW t \in Threads, NEW p, NEW m, NEW n, NEW w, NEW l,
         Wrote(ls, t, p, m, n, w, l), NEW h, NEW M \in Nat, M <= Len(open), Marks(ring, ls, h, open, M),
         NEW f, f = parse_tx_line(Got(ls[Len(ring)], w, n - 1))
  PROVE  \E x : Marked(ls, n, w, l, h, M, f, x)
<1>1. /\ Piece(w) /\ Len(w) = n /\ ring' = ring \o w /\ l = More(ring, w, ls) /\ Len(open) \in Nat
      /\ \A k \in 1 .. Len(open) : open'[k] = open[k]
  BY DEF Wrote
<1>2. PICK q : q = open'
  OBVIOUS
<1>3. \A k \in 1 .. M : q[k] = open[k]
  <2>1. \A k \in 1 .. M : k \in 1 .. Len(open)
    BY ONLY <1>1, M \in Nat, M <= Len(open)
  <2>. QED  BY <1>1, <1>2, <2>1
<1>4. ring \in Seq(Char) /\ f = parse_tx_line(Got(ls[Len(ring)], w, Len(w) - 1))
  BY <1>1 DEF LinesInv
<1>5. PICK x : x = MoreMarks(ring, w, h, M)
  OBVIOUS
<1>6. ASSUME w[n] # Newline \/ f = <<>>
      PROVE  /\ Marks(ring', l, x, open', M)
             /\ Every(ring, ls, h, M) => Every(ring', l, x, M)
  <2>1. M \in {M, M + 1} /\ M = M /\ (w[Len(w)] # Newline \/ f = <<>>)
    BY <1>1, <1>6
  <2>2. /\ Marks(ring \o w, More(ring, w, ls), MoreMarks(ring, w, h, M), q, M)
        /\ Every(ring, ls, h, M) => Every(ring \o w, More(ring, w, ls), MoreMarks(ring, w, h, M), M)
    BY ONLY <1>1, <1>3, <1>4, <2>1, Feeds(line_buf, ring, ls), M \in Nat, Marks(ring, ls, h, open, M), MarksMore
  <2>. QED  BY <1>1, <1>2, <1>5, <2>2
<1>7. ASSUME w[n] = Newline, f # <<>>, open'[M + 1] = f
      PROVE  /\ Marks(ring', l, x, open', M + 1)
             /\ Every(ring, ls, h, M) => Every(ring', l, x, M + 1)
  <2>1. M + 1 \in {M, M + 1} /\ M + 1 = M + 1 /\ w[Len(w)] = Newline /\ f # <<>> /\ q[M + 1] = f
    BY <1>1, <1>2, <1>7
  <2>2. /\ Marks(ring \o w, More(ring, w, ls), MoreMarks(ring, w, h, M), q, M + 1)
        /\ Every(ring, ls, h, M) => Every(ring \o w, More(ring, w, ls), MoreMarks(ring, w, h, M), M + 1)
    BY ONLY <1>1, <1>3, <1>4, <2>1, Feeds(line_buf, ring, ls), M \in Nat, Marks(ring, ls, h, open, M), MarksMore
  <2>. QED  BY <1>1, <1>2, <1>5, <2>2
<1>8. Marked(ls, n, w, l, h, M, f, x)
  BY <1>6, <1>7 DEF Marked
<1>. QED  BY <1>8

(* Which frame the piece makes.                                            *)
LEMMA WroteFrame ==
  ASSUME NEW ls, NEW t \in Threads, NEW p, NEW m, NEW n, NEW w, NEW l, Wrote(ls, t, p, m, n, w, l),
         NEW f, f = parse_tx_line(Got(ls[Len(ring)], w, n - 1))
  PROVE  /\ m = 0 /\ ls[Len(ring)] = <<>> /\ n = Len(todo[t]) => f = p /\ f # <<>> /\ w[n] = Newline
         /\ m = 0 /\ ls[Len(ring)] = <<>> => Got(ls[Len(ring)], w, n) = w
         /\ m = 0 /\ ls[Len(ring)] # <<>> /\ (Doomed(ls[Len(ring)]) \/ Len(ls[Len(ring)]) <= LineMax - 2) =>
              (w[n] # Newline \/ f = <<>>) /\ Doomed(Got(ls[Len(ring)], w, n))
         /\ Doomed(ls[Len(ring)]) => f = <<>>
         /\ m # 0 /\ ls[Len(ring)] = <<>> => f = <<>>
<1>. DEFINE R == ls[Len(ring)]  s == todo[t]
<1>1. /\ p \in Payload /\ n \in Nat \ {0} /\ Piece(w) /\ Len(w) = n /\ n < LineMax /\ Held(R)
      /\ w[n] = Newline <=> n = Len(s)
      /\ w[1] = "T" <=> m = 0
      /\ m = 0 => s = encode_tx_line(p)
      /\ n = Len(s) => w = s
      /\ m = 0 /\ n = Len(s) => 2 <= n
  BY DEF Wrote
<1>. HIDE DEF R, s
<1>2. w \in Seq(Char) /\ LineMax \in Nat
  BY <1>1, SerialAssumption DEF Piece
<1>3. n \in 0 .. Len(w) /\ n - 1 \in 0 .. Len(w) /\ 1 <= n /\ (2 <= n => 1 <= n - 1)
  <2>1. n \in 0 .. n /\ n - 1 \in 0 .. n /\ 1 <= n /\ (2 <= n => 1 <= n - 1)
    BY ONLY <1>1
  <2>. QED  BY <1>1, <2>1
<1>4. \A j \in 0 .. Len(w) : Got(<<>>, w, j) = SubSeq(w, 1, j)
  <2>. TAKE j \in 0 .. Len(w)
  <2>1. <<>> \o w = w
    BY <1>2, ConcatEmptySeq
  <2>2. Len(<<>>) = 0 /\ j \in Nat /\ j <= n
    BY <1>1
  <2>3. 0 + j <= LineMax - 1 /\ 0 + j = j
    BY ONLY <1>1, <1>2, <2>2
  <2>4. Fit(<<>>, j) = j
    BY <2>2, <2>3 DEF Fit
  <2>. QED  BY <2>1, <2>4 DEF Got
<1>5. f = parse_tx_line(Got(R, w, n - 1))
  BY DEF R
<1>6. ASSUME m = 0, R = <<>>, n = Len(s)
      PROVE  f = p /\ f # <<>> /\ w[n] = Newline
  <2>1. w = encode_tx_line(p) /\ n = Len(encode_tx_line(p)) /\ w[n] = Newline
    BY <1>1, <1>6
  <2>2. Got(<<>>, w, n - 1) = SubSeq(w, 1, n - 1)
    BY <1>3, <1>4
  <2>3. parse_tx_line(SubSeq(encode_tx_line(p), 1, Len(encode_tx_line(p)) - 1)) = p /\ p # <<>>
    BY <1>1, PayloadLine
  <2>. QED  BY <1>5, <1>6, <2>1, <2>2, <2>3
<1>7. ASSUME m = 0, R = <<>>
      PROVE  Got(R, w, n) = w
  <2>1. Got(<<>>, w, n) = SubSeq(w, 1, n)
    BY <1>3, <1>4
  <2>2. SubSeq(w, 1, Len(w)) = w
    BY <1>2, SubSeqFull
  <2>. QED  BY <1>1, <1>7, <2>1, <2>2
<1>8. ASSUME m = 0, R # <<>>, Doomed(R) \/ Len(R) <= LineMax - 2
      PROVE  (w[n] # Newline \/ f = <<>>) /\ Doomed(Got(R, w, n))
  <2>1. w[1] = "T"
    BY <1>1, <1>8
  <2>2. Doomed(Got(R, w, n))
    BY <1>1, <1>2, <1>3, <1>8, <2>1, DoomedGot
  <2>3. ASSUME w[n] = Newline
        PROVE  f = <<>>
    <3>1. n - 1 \in 0 .. Len(w) /\ 1 <= n - 1
      BY <1>1, <1>3, <1>8, <2>3
    <3>. DEFINE j == n - 1
    <3>2. j \in 0 .. Len(w) /\ 1 <= j /\ f = parse_tx_line(Got(R, w, j))
      BY <1>5, <3>1
    <3>. HIDE DEF j
    <3>3. parse_tx_line(Got(R, w, j)) = <<>>
      BY <1>1, <1>2, <1>8, <2>1, <3>2, DoomedGot
    <3>. QED  BY <3>2, <3>3
  <2>. QED  BY <2>2, <2>3
<1>. DEFINE j == n - 1
<1>9. j \in 0 .. Len(w) /\ f = parse_tx_line(Got(R, w, j))
  BY <1>3, <1>5
<1>. HIDE DEF j
<1>10. Doomed(R) => f = <<>>
  BY <1>1, <1>2, <1>9, DoomedGot
<1>11. m # 0 /\ R = <<>> => f = <<>>
  BY <1>1, <1>2, <1>9, HeadlessGot
<1>. QED  BY <1>6, <1>7, <1>8, <1>10, <1>11 DEF R, s

Threading(t, m, n) ==
  /\ n = Len(todo[t]) /\ ~Between(t) => AtRest'
  /\ n # Len(todo[t]) => OnlyOne(t)'
  /\ \A u \in Threads \ {t} : n = Len(todo[t]) /\ OnlyOne(u) => OnlyOne(u)'
  /\ AtRest => ~Between(t) /\ m = 0
  /\ \A u \in Threads \ {t} : OnlyOne(u) => Between(t) /\ m = 0
  /\ OnlyOne(t) => ~Between(t) /\ m # 0

LEMMA WroteThreads ==
  ASSUME LinesInv, NEW ls, NEW t \in Threads, NEW p, NEW m, NEW n, NEW w, NEW l, Wrote(ls, t, p, m, n, w, l)
  PROVE  Threading(t, m, n)
<1>1. /\ Between(t) => n = Len(todo[t])
      /\ Unfinished(todo[t]) <=> m # 0
      /\ n = Len(todo[t]) => ~Unfinished(todo'[t])
      /\ n # Len(todo[t]) => Unfinished(todo'[t])
      /\ \A u \in Threads \ {t} : todo'[u] = todo[u]
  BY DEF Wrote
<1>2. n = Len(todo[t]) /\ ~Between(t) => AtRest'
  BY <1>1 DEF AtRest, Between
<1>3. n # Len(todo[t]) => OnlyOne(t)'
  BY <1>1 DEF OnlyOne, Between
<1>4. \A u \in Threads \ {t} : n = Len(todo[t]) /\ OnlyOne(u) => OnlyOne(u)'
  BY <1>1 DEF OnlyOne
<1>5. AtRest => ~Between(t) /\ m = 0
  BY <1>1 DEF AtRest, Between
<1>6. \A u \in Threads \ {t} : OnlyOne(u) => Between(t) /\ m = 0
  BY <1>1 DEF OnlyOne, Between
<1>7. OnlyOne(t) => ~Between(t) /\ m # 0
  BY <1>1 DEF OnlyOne, Between
<1>. QED  BY <1>2, <1>3, <1>4, <1>5, <1>6, <1>7 DEF Threading

(* Nobody was in the middle of a line: another begins.                     *)
LEMMA WriteAtRest ==
  ASSUME LinesInv, NEW ls, Feeds(line_buf, ring, ls), NEW t \in Threads, NEW p, NEW m, NEW n, NEW w, NEW l,
         Wrote(ls, t, p, m, n, w, l), NEW h, Finished(ls, h) \/ Lost(ls, h), AtRest
  PROVE  \E x : Finished(l, x)' \/ Begun(l, x)' \/ Lost(l, x)'
<1>. DEFINE R == ls[Len(ring)]
<1>1. PICK f : f = parse_tx_line(Got(ls[Len(ring)], w, n - 1))
  OBVIOUS
<1>2. Marks(ring, ls, h, open, Len(open)) /\ (damage = "none" => Every(ring, ls, h, Len(open)))
  BY DEF Finished, Lost
<1>3. ~Between(t) /\ m = 0 /\ (n = Len(todo[t]) => AtRest') /\ (n # Len(todo[t]) => OnlyOne(t)')
  <2>1. Threading(t, m, n)
    BY WroteThreads
  <2>. QED  BY <2>1 DEF Threading
<1>4. /\ Len(open) \in Nat /\ Len(open) <= Len(open) /\ damage' = damage
      /\ Len(open') = Len(open) + 1 /\ open'[Len(open')] = p /\ open'[Len(open) + 1] = p
      /\ l[Len(ring')] = IF n = Len(todo[t]) THEN <<>> ELSE Got(R, w, n)
      /\ w[n] = Newline <=> n = Len(todo[t])
      /\ w \o todo'[t] = todo[t] /\ todo[t] = encode_tx_line(p)
  BY <1>3 DEF Wrote
<1>. DEFINE M == Len(open)
<1>a. PICK x : Marked(ls, n, w, l, h, M, f, x)
  <2>1. M \in Nat /\ M <= Len(open)
    BY <1>4
  <2>2. Marks(ring, ls, h, open, M)
    BY <1>2
  <2>. HIDE DEF M
  <2>. QED  BY ONLY <1>1, <2>1, <2>2, LinesInv, Feeds(line_buf, ring, ls), t \in Threads, Wrote(ls, t, p, m, n, w, l), WroteMarks
<1>5. /\ w[n] # Newline \/ f = <<>> =>
           /\ Marks(ring', l, x, open', M)
           /\ Every(ring, ls, h, M) => Every(ring', l, x, M)
      /\ w[n] = Newline /\ f # <<>> /\ open'[M + 1] = f =>
           /\ Marks(ring', l, x, open', M + 1)
           /\ Every(ring, ls, h, M) => Every(ring', l, x, M + 1)
  BY ONLY <1>a DEF Marked
<1>6. /\ m = 0 /\ R = <<>> /\ n = Len(todo[t]) => f = p /\ f # <<>> /\ w[n] = Newline
      /\ m = 0 /\ R = <<>> => Got(R, w, n) = w
      /\ m = 0 /\ R # <<>> /\ (Doomed(R) \/ Len(R) <= LineMax - 2) =>
           (w[n] # Newline \/ f = <<>>) /\ Doomed(Got(R, w, n))
  BY <1>1, WroteFrame
<1>7. CASE R = <<>> /\ n = Len(todo[t])
  <2>1. f = p /\ f # <<>> /\ w[n] = Newline
    BY <1>3, <1>6, <1>7
  <2>2. /\ Marks(ring', l, x, open', Len(open'))
        /\ Every(ring, ls, h, M) => Every(ring', l, x, Len(open'))
    BY <1>4, <1>5, <2>1
  <2>3. Finished(l, x)'
    BY <1>2, <1>3, <1>4, <1>7, <2>2 DEF Finished
  <2>. QED  BY <2>3
<1>8. CASE R = <<>> /\ n # Len(todo[t])
  <2>1. w[n] # Newline /\ Got(R, w, n) = w
    BY <1>3, <1>4, <1>6, <1>8
  <2>2. Len(open') - 1 = M /\ Len(open') >= 1
    BY ONLY <1>4
  <2>3. /\ Marks(ring', l, x, open', Len(open') - 1)
        /\ Every(ring, ls, h, M) => Every(ring', l, x, Len(open') - 1)
    BY <1>5, <2>1, <2>2
  <2>4. l[Len(ring')] \o todo'[t] = encode_tx_line(open'[Len(open')])
    BY <1>4, <1>8, <2>1
  <2>5. Begun(l, x)'
    BY <1>2, <1>3, <1>4, <1>8, <2>2, <2>3, <2>4 DEF Begun
  <2>. QED  BY <2>5
<1>9. CASE R # <<>>
  <2>1. Doomed(R) \/ Len(R) <= LineMax - 2
    BY <1>9 DEF Finished, Lost
  <2>2. damage # "none"
    BY <1>9 DEF Finished, Lost
  <2>3. (w[n] # Newline \/ f = <<>>) /\ Doomed(Got(R, w, n))
    BY <1>3, <1>6, <1>9, <2>1
  <2>4. Marks(ring', l, x, open', M)
    BY <1>5, <2>3
  <2>5. Marks(ring', l, x, open', Len(open'))
    <3>1. M \in Nat /\ Len(open') \in Nat /\ M <= Len(open')
      BY ONLY <1>4
    <3>. QED  BY <2>4, <3>1, MarksWider
  <2>6. Doomed(l[Len(ring')]) \/ l[Len(ring')] = <<>>
    BY <1>4, <2>3
  <2>7. AtRest' \/ \E u \in Threads : OnlyOne(u)'
    BY <1>3
  <2>8. Lost(l, x)'
    BY <1>4, <2>2, <2>5, <2>6, <2>7 DEF Lost
  <2>. QED  BY <2>8
<1>. QED  BY <1>7, <1>8, <1>9

(* Another thread was: its line is cut into.                               *)
LEMMA WriteBetween ==
  ASSUME LinesInv, NEW ls, Feeds(line_buf, ring, ls), NEW t \in Threads, NEW p, NEW m, NEW n, NEW w, NEW l,
         Wrote(ls, t, p, m, n, w, l), NEW h, Begun(ls, h) \/ Lost(ls, h), NEW u \in Threads \ {t}, OnlyOne(u)
  PROVE  \E x : Lost(l, x)'
<1>. DEFINE R == ls[Len(ring)]
<1>1. PICK f : f = parse_tx_line(Got(ls[Len(ring)], w, n - 1))
  OBVIOUS
<1>2. Between(t) /\ m = 0 /\ (n = Len(todo[t]) => OnlyOne(u)')
  <2>1. Threading(t, m, n)
    BY WroteThreads
  <2>. QED  BY <2>1 DEF Threading
<1>3. /\ n = Len(todo[t]) /\ damage' = "loses" /\ Len(open) \in Nat /\ Held(R)
      /\ Len(open') = Len(open) + 1 /\ open'[Len(open) + 1] = p
      /\ l[Len(ring')] = <<>>
  BY <1>2 DEF Wrote
<1>4. OnlyOne(u)'
  BY <1>2, <1>3
<1>5. PICK M : /\ M \in Nat /\ M <= Len(open) /\ Marks(ring, ls, h, open, M)
               /\ Lost(ls, h) => M = Len(open)
  <2>1. CASE Lost(ls, h)
    <3>1. Marks(ring, ls, h, open, Len(open)) /\ Len(open) <= Len(open)
      BY <1>3, <2>1 DEF Lost
    <3>. QED  BY <1>3, <3>1
  <2>2. CASE ~Lost(ls, h)
    <3>1. Marks(ring, ls, h, open, Len(open) - 1) /\ Len(open) >= 1
      BY <2>2 DEF Begun
    <3>2. Len(open) - 1 \in Nat /\ Len(open) - 1 <= Len(open)
      BY ONLY <1>3, <3>1
    <3>. QED  BY <2>2, <3>1, <3>2
  <2>. QED  BY <2>1, <2>2
<1>a. PICK x : Marked(ls, n, w, l, h, M, f, x)
  <2>1. M \in Nat /\ M <= Len(open) /\ Marks(ring, ls, h, open, M)
    BY <1>5
  <2>. QED  BY ONLY <1>1, <2>1, LinesInv, Feeds(line_buf, ring, ls), t \in Threads, Wrote(ls, t, p, m, n, w, l), WroteMarks
<1>6. /\ w[n] # Newline \/ f = <<>> => Marks(ring', l, x, open', M)
      /\ w[n] = Newline /\ f # <<>> /\ open'[M + 1] = f => Marks(ring', l, x, open', M + 1)
  BY ONLY <1>a DEF Marked
<1>7. /\ R = <<>> => f = p /\ f # <<>> /\ w[n] = Newline
      /\ R # <<>> /\ (Doomed(R) \/ Len(R) <= LineMax - 2) => w[n] # Newline \/ f = <<>>
  BY <1>1, <1>2, <1>3, WroteFrame
<1>8. Begun(ls, h) => R # <<>> /\ Len(R) <= LineMax - 2
  <2>. SUFFICES ASSUME Begun(ls, h)
                PROVE  R # <<>> /\ Len(R) <= LineMax - 2
    OBVIOUS
  <2>1. PICK v \in Threads : OnlyOne(v) /\ R \o todo[v] = encode_tx_line(open[Len(open)])
    BY DEF Begun
  <2>2. Unfinished(todo[v]) /\ Len(open) >= 1
    BY <2>1 DEF OnlyOne, Begun
  <2>. HIDE DEF R
  <2>. QED  BY <1>3, <2>1, <2>2, BegunHeld
<1>9. ~AtRest
  BY DEF AtRest, OnlyOne
<1>10. \E k : k \in Nat /\ k <= Len(open') /\ Marks(ring', l, x, open', k)
  <2>1. CASE R = <<>>
    <3>1. M = Len(open) /\ f = p /\ f # <<>> /\ w[n] = Newline
      BY <1>5, <1>7, <1>8, <2>1
    <3>2. Marks(ring', l, x, open', M + 1)
      BY <1>3, <1>6, <3>1
    <3>3. M + 1 \in Nat /\ M + 1 <= Len(open')
      BY ONLY <1>3, <3>1
    <3>. QED  BY <3>2, <3>3
  <2>2. CASE R # <<>>
    <3>1. Doomed(R) \/ Len(R) <= LineMax - 2
      BY <1>8, <1>9, <2>2 DEF Lost
    <3>2. Marks(ring', l, x, open', M)
      BY <1>6, <1>7, <2>2, <3>1
    <3>3. M \in Nat /\ M <= Len(open')
      <4>1. M \in Nat /\ M <= Len(open)
        BY <1>5
      <4>. QED  BY ONLY <1>3, <4>1
    <3>. QED  BY <3>2, <3>3
  <2>. QED  BY <2>1, <2>2
<1>11. Marks(ring', l, x, open', Len(open'))
  <2>1. Len(open') \in Nat
    BY <1>3
  <2>. QED  BY <1>10, <2>1, MarksWider
<1>12. Lost(l, x)'
  BY <1>3, <1>4, <1>11 DEF Lost
<1>. QED  BY <1>12

(* It was this thread: its line ends.                                      *)
LEMMA WriteEnd ==
  ASSUME LinesInv, NEW ls, Feeds(line_buf, ring, ls), NEW t \in Threads, NEW p, NEW m, NEW n, NEW w, NEW l,
         Wrote(ls, t, p, m, n, w, l), n = Len(todo[t]), NEW h, Begun(ls, h) \/ Lost(ls, h), OnlyOne(t)
  PROVE  \E x : Finished(l, x)' \/ Lost(l, x)'
<1>. DEFINE R == ls[Len(ring)]
<1>1. PICK f : f = parse_tx_line(Got(ls[Len(ring)], w, n - 1))
  OBVIOUS
<1>2. ~Between(t) /\ m # 0 /\ AtRest'
  <2>1. Threading(t, m, n)
    BY WroteThreads
  <2>. QED  BY <2>1 DEF Threading
<1>3. /\ damage' = damage /\ Len(open) \in Nat /\ Held(R)
      /\ Len(open') = Len(open) /\ \A k \in 1 .. Len(open) : open'[k] = open[k]
      /\ l[Len(ring')] = <<>> /\ w = todo[t] /\ w[n] = Newline
      /\ Piece(w) /\ Len(w) = n /\ n \in Nat \ {0}
  BY <1>2 DEF Wrote
<1>4. CASE Lost(ls, h)
  <2>1. Marks(ring, ls, h, open, Len(open)) /\ Len(open) <= Len(open)
    BY <1>3, <1>4 DEF Lost
  <2>2. f = <<>>
    <3>1. Doomed(R) \/ R = <<>>
      BY <1>4 DEF Lost, AtRest, OnlyOne
    <3>. QED  BY <1>1, <1>2, <3>1, WroteFrame
  <2>a. PICK x : Marked(ls, n, w, l, h, Len(open), f, x)
    BY ONLY <1>1, <1>3, <2>1, LinesInv, Feeds(line_buf, ring, ls), t \in Threads, Wrote(ls, t, p, m, n, w, l), WroteMarks
  <2>3. Marks(ring', l, x, open', Len(open))
    BY <2>2, <2>a DEF Marked
  <2>4. Lost(l, x)'
    BY <1>2, <1>3, <1>4, <2>3 DEF Lost
  <2>. QED  BY <2>4
<1>5. CASE Begun(ls, h)
  <2>. DEFINE M == Len(open) - 1  e == encode_tx_line(open[Len(open)])
  <2>1. /\ Marks(ring, ls, h, open, M) /\ Len(open) >= 1 /\ (damage = "none" => Every(ring, ls, h, M))
        /\ R \o w = e
    <3>1. PICK v \in Threads : OnlyOne(v) /\ R \o todo[v] = e
      BY <1>5 DEF Begun
    <3>2. v = t
      BY <3>1 DEF OnlyOne
    <3>. QED  BY <1>3, <1>5, <3>1, <3>2 DEF Begun
  <2>2. M \in Nat /\ M <= Len(open) /\ M + 1 = Len(open) /\ Len(open) \in 1 .. Len(open)
    BY ONLY <1>3, <2>1
  <2>3. open[Len(open)] \in Payload
    BY <2>2, ElementOfSeq DEF LinesInv
  <2>4. /\ Len(e) < LineMax /\ Len(e) \in Nat /\ open[Len(open)] # <<>>
        /\ parse_tx_line(SubSeq(e, 1, Len(e) - 1)) = open[Len(open)]
    BY <2>3, PayloadLine
  <2>5. R \in Seq(Char) /\ w \in Seq(Char) /\ Len(R) \in Nat /\ LineMax \in Nat /\ Len(R \o w) = Len(R) + Len(w)
    <3>1. R \in Seq(Char) /\ w \in Seq(Char)
      BY <1>3 DEF Held, Piece
    <3>. QED  BY <3>1, LenProperties, SerialAssumption, CatChars
  <2>. HIDE DEF e, R
  <2>6. Got(R, w, n - 1) = SubSeq(e, 1, Len(e) - 1)
    <3>1. Len(e) = Len(R) + n
      BY <1>3, <2>1, <2>5
    <3>2. Len(R) + (n - 1) <= LineMax - 1 /\ Len(R) + (n - 1) = Len(e) - 1
      BY ONLY <1>3, <2>4, <2>5, <3>1
    <3>3. Fit(R, n - 1) = Len(e) - 1
      BY <3>2 DEF Fit
    <3>. QED  BY <2>1, <3>3 DEF Got
  <2>7. f = open[Len(open)] /\ f # <<>> /\ open'[M + 1] = f
    <3>1. f = open[Len(open)] /\ f # <<>>
      BY <1>1, <2>4, <2>6 DEF R
    <3>. QED  BY <1>3, <2>2, <3>1
  <2>a. PICK x : Marked(ls, n, w, l, h, M, f, x)
    <3>1. Marks(ring, ls, h, open, M) /\ M \in Nat /\ M <= Len(open)
      BY <2>1, <2>2
    <3>. HIDE DEF M
    <3>. QED  BY ONLY <1>1, <3>1, LinesInv, Feeds(line_buf, ring, ls), t \in Threads, Wrote(ls, t, p, m, n, w, l), WroteMarks
  <2>8. /\ Marks(ring', l, x, open', M + 1)
        /\ Every(ring, ls, h, M) => Every(ring', l, x, M + 1)
    BY <1>3, <2>7, <2>a DEF Marked
  <2>9. /\ Marks(ring', l, x, open', Len(open'))
        /\ damage' = "none" => Every(ring', l, x, Len(open'))
    BY <1>3, <2>1, <2>2, <2>8
  <2>10. Finished(l, x)'
    BY <1>2, <1>3, <2>9 DEF Finished
  <2>. QED  BY <2>10
<1>. QED  BY <1>4, <1>5

LEMMA WriteStep ==
  ASSUME DongleInv, NEW t \in Threads, Write(t)
  PROVE  DongleInv'
<1>1. LinesInv
  BY DEF DongleInv
<1>2. PICK ls : Feeds(line_buf, ring, ls) /\ InOrder(ls)
  BY DEF DongleInv
<1>3. PICK p, m, n, fits : Written(t, p, m, n, fits)
  BY <1>1, WriteParts
<1>4. LinesInv'
  BY <1>1, <1>3, WriteLines
<1>5. CASE damage' = "mixes"
  <2>1. PICK l : Feeds(line_buf', ring', l)
    BY <1>1, <1>2, <1>3, WriteFeeds
  <2>2. InOrder(l)'
    BY <1>5 DEF InOrder
  <2>. QED  BY <1>4, <2>1, <2>2 DEF DongleInv
<1>6. CASE damage' # "mixes"
  <2>1. PICK w, l : Wrote(ls, t, p, m, n, w, l)
    BY <1>1, <1>2, <1>3, <1>6, WriteWrote
  <2>2. damage # "mixes" /\ Feeds(line_buf', ring', l)
    BY <2>1 DEF Wrote
  <2>3. PICK h : Finished(ls, h) \/ Begun(ls, h) \/ Lost(ls, h)
    BY <1>2, <2>2 DEF InOrder
  <2>4. \E x : Finished(l, x)' \/ Begun(l, x)' \/ Lost(l, x)'
    <3>1. CASE AtRest
      <4>1. ~Begun(ls, h)
        BY <3>1 DEF Begun, AtRest, OnlyOne
      <4>. QED  BY <1>1, <1>2, <2>1, <2>3, <3>1, <4>1, WriteAtRest
    <3>2. CASE ~AtRest
      <4>1. Begun(ls, h) \/ Lost(ls, h)
        BY <2>3, <3>2 DEF Finished
      <4>2. PICK u \in Threads : OnlyOne(u)
        BY <3>2, <4>1 DEF Begun, Lost
      <4>3. CASE u = t
        <5>1. m # 0
          <6>1. Threading(t, m, n)
            BY <1>1, <2>1, WroteThreads
          <6>. QED  BY <4>2, <4>3, <6>1 DEF Threading
        <5>2. n = Len(todo[t])
          BY <1>3, <5>1 DEF Written
        <5>. QED  BY <1>1, <1>2, <2>1, <4>1, <4>2, <4>3, <5>2, WriteEnd
      <4>4. CASE u # t
        BY <1>1, <1>2, <2>1, <4>1, <4>2, <4>4, WriteBetween
      <4>. QED  BY <4>3, <4>4
    <3>. QED  BY <3>1, <3>2
  <2>5. InOrder(l)'
    BY <2>4 DEF InOrder
  <2>. QED  BY <1>4, <2>2, <2>5 DEF DongleInv
<1>. QED  BY <1>5, <1>6

LEMMA DongleInvStep ==
  ASSUME DongleInv, [Next]_vars
  PROVE  DongleInv'
<1>1. ASSUME NEW t \in Web, NEW payload \in Commands, Send(t, payload)
      PROVE  DongleInv'
  <2>1. t \in Threads /\ payload \in Payload
    BY DEF Threads, Payload
  <2>2. /\ todo[t] = <<>> /\ todo' = [todo EXCEPT ![t] = encode_tx_line(payload)]
        /\ ring' = ring /\ line_buf' = line_buf /\ open' = open /\ damage' = damage
    BY <1>1 DEF Send, dongle, history
  <2>. QED  BY <2>1, <2>2, SentStep
<1>2. CASE \E t \in Threads : Write(t)
  BY <1>2, WriteStep
<1>3. ASSUME NEW payload \in Air, NEW rssi \in Rssi, radio_on_receive_done(payload, rssi)
      PROVE  DongleInv'
  BY <1>3, SameStep DEF radio_on_receive_done, history
<1>4. CASE Iterate
  BY <1>4, IterateStep
<1>5. CASE HubPoll
  <2>1. ring' = ring /\ line_buf' = line_buf /\ open' = open /\ damage' = damage /\ todo[Poll] = <<>>
    BY <1>5 DEF HubPoll, dongle
  <2>2. todo' = todo \/ \E payload \in Configs : todo' = [todo EXCEPT ![Poll] = encode_tx_line(payload)]
    BY <1>5 DEF HubPoll
  <2>3. CASE todo' = todo
    BY <2>1, <2>3, SameStep
  <2>4. ASSUME NEW payload \in Configs, todo' = [todo EXCEPT ![Poll] = encode_tx_line(payload)]
        PROVE  DongleInv'
    <3>1. Poll \in Threads /\ payload \in Payload
      BY DEF Threads, Payload
    <3>. QED  BY <2>1, <2>4, <3>1, SentStep
  <2>. QED  BY <2>2, <2>3, <2>4
<1>6. CASE DongleRestart
  BY <1>6, DongleRestartStep
<1>7. CASE HubRestart
  BY <1>7, HubRestartStep
<1>8. CASE UNCHANGED vars
  BY <1>8, SameStep DEF vars, dongle, history
<1>. QED  BY <1>1, <1>2, <1>3, <1>4, <1>5, <1>6, <1>7, <1>8 DEF Next

LEMMA DongleInvInit ==
  ASSUME Init
  PROVE  DongleInv
<1>1. /\ todo = [t \in Threads |-> <<>>] /\ ring = <<>> /\ line_buf = <<>> /\ open = <<>>
      /\ damage = "none"
  BY DEF Init
<1>2. LinesInv
  <2>1. /\ <<>> \in Seq(Char) /\ <<>> \in Seq(Payload) /\ Rest(<<>>) /\ Len(<<>>) <= RingSize
    BY SerialAssumption DEF Rest
  <2>. QED  BY <1>1, <2>1 DEF LinesInv
<1>. DEFINE l == [i \in 0 .. 0 |-> <<>>]  e == [i \in 1 .. 0 |-> 0]
<1>3. Feeds(<<>>, <<>>, l) /\ l[Len(<<>>)] = <<>>
  BY ONLY NoFeed, EmptyHeld
<1>4. Marks(<<>>, l, e, <<>>, Len(<<>>))
  BY NoMarks
<1>5. Every(<<>>, l, e, Len(<<>>))
  <2>1. 1 .. Len(<<>>) = {}
    OBVIOUS
  <2>. QED  BY <2>1 DEF Every
<1>6. AtRest
  BY <1>1 DEF AtRest, Unfinished
<1>. HIDE DEF l, e
<1>7. Finished(l, e)
  BY <1>1, <1>3, <1>4, <1>5, <1>6 DEF Finished
<1>8. InOrder(l)
  BY <1>7 DEF InOrder
<1>. QED  BY <1>1, <1>2, <1>3, <1>8 DEF DongleInv

(* What the line buffer and the driver hold are the lines the hub wrote,   *)
(* in their order and each once, as long as no byte was lost to a full     *)
(* ring and no two lines were unfinished at once; a line cut into or cut   *)
(* off makes no frame.                                                     *)
THEOREM SerialDongle == Spec => []DongleInv
<1>1. Init => DongleInv
  BY DongleInvInit
<1>2. DongleInv /\ [Next]_vars => DongleInv'
  BY DongleInvStep
<1>. QED  BY <1>1, <1>2, PTL DEF Spec

LEMMA SentOnly ==
  ASSUME DongleInv
  PROVE  SentAsWritten
<1>. DEFINE n == Len(ring)
<1>1. /\ ring \in Seq(Char) /\ open \in Seq(Payload) /\ n \in Nat /\ Len(open) \in Nat
  BY LenProperties DEF DongleInv, LinesInv
<1>2. PICK ls : Feeds(line_buf, ring, ls) /\ InOrder(ls)
  BY DEF DongleInv
<1>3. PICK P : PollTo(ls, P)
  BY <1>1, PollsTo
<1>4. dongle_uart_poll_tx_frame = Polled(ls, P)[n] /\ n \in 0 .. n /\ P \in 1 .. n + 1
  BY <1>1, <1>2, <1>3, PollIs DEF PollTo
<1>5. CASE n < P
  <2>1. Polled(ls, P)[n] = [frame |-> <<>>, line |-> ls[n], ring |-> <<>>]
    BY <1>4, <1>5 DEF Polled
  <2>. QED  BY <1>4, <2>1 DEF SentAsWritten
<1>6. CASE ~(n < P)
  <2>1. P \in 1 .. n /\ P # n + 1
    BY ONLY <1>1, <1>4, <1>6
  <2>2. Hit(ring, ls, P)
    BY <1>3, <2>1 DEF PollTo
  <2>. DEFINE F == parse_tx_line(ls[P - 1])
  <2>3. dongle_uart_poll_tx_frame.frame = F
    <3>1. Polled(ls, P)[n] = [frame |-> F, line |-> <<>>, ring |-> SubSeq(ring, P + 1, n)]
      BY <1>4, <1>6 DEF Polled
    <3>. QED  BY <1>4, <3>1
  <2>. HIDE DEF F
  <2>4. ASSUME damage # "mixes"
        PROVE  Contains(open, F)
    <3>1. PICK h : Finished(ls, h) \/ Begun(ls, h) \/ Lost(ls, h)
      BY <1>2, <2>4 DEF InOrder
    <3>2. Marks(ring, ls, h, open, Len(open))
      BY <1>1, <3>1, MarksWiden DEF Finished, Begun, Lost
    <3>3. h[P] \in 1 .. Len(open) /\ F = open[h[P]]
      BY <2>1, <2>2, <3>2 DEF Marks, F
    <3>. QED  BY <3>3 DEF Contains
  <2>. QED  BY <2>3, <2>4 DEF SentAsWritten
<1>. QED  BY <1>5, <1>6

LEMMA QuietOnly ==
  ASSUME DongleInv
  PROVE  QuietMeansSent
<1>. SUFFICES ASSUME damage = "none", ring = <<>>, \A t \in Threads : todo[t] = <<>>
              PROVE  open = <<>>
  BY DEF QuietMeansSent
<1>1. PICK ls : InOrder(ls)
  BY DEF DongleInv
<1>2. PICK h : Finished(ls, h) \/ Begun(ls, h) \/ Lost(ls, h)
  BY <1>1 DEF InOrder
<1>3. Finished(ls, h)
  BY <1>2 DEF Begun, Lost, OnlyOne, Unfinished
<1>4. Every(<<>>, ls, h, Len(open))
  BY <1>3 DEF Finished
<1>5. 1 .. Len(<<>>) = {}
  OBVIOUS
<1>6. 1 .. Len(open) = {}
  BY <1>4, <1>5 DEF Every
<1>7. open \in Seq(Payload) /\ Len(open) \in Nat
  BY LenProperties DEF DongleInv, LinesInv
<1>8. Len(open) = 0
  BY <1>6, <1>7
<1>. QED  BY <1>7, <1>8, EmptyLen

(* The dongle transmits only what the hub wrote, each line once and in     *)
(* order, for every interleaving of the threads and every restart, as long *)
(* as no byte was lost and no two lines were unfinished at once.           *)
THEOREM SerialSent == Spec => []SentAsWritten
<1>1. DongleInv => SentAsWritten
  BY SentOnly
<1>. QED  BY <1>1, SerialDongle, PTL

(* And when nothing was cut into or cut off, a dongle at rest has          *)
(* transmitted every line it was given.                                    *)
THEOREM SerialQuiet == Spec => []QuietMeansSent
<1>1. DongleInv => QuietMeansSent
  BY QuietOnly
<1>. QED  BY <1>1, SerialDongle, PTL

-----------------------------------------------------------------------------
(* The types, and the bound on what is under way.                          *)
Lines == {t \in Threads : todo[t] # <<>> /\ ~Unfinished(todo[t])}

BoundInv ==
  /\ Load <= MaxLoad
  /\ Len(rxq) <= QueueDepth
  /\ poll \in {"runs", "dead"}

LineInv == HubInv /\ DongleInv /\ BoundInv

LEMMA Counted ==
  ASSUME NEW S \in SUBSET Threads
  PROVE  IsFiniteSet(S) /\ Cardinality(S) \in Nat
<1>1. IsFiniteSet(Web \cup {Poll})
  BY SerialAssumption, FS_AddElement
<1>2. IsFiniteSet(S)
  BY <1>1, FS_Subset DEF Threads
<1>. QED  BY <1>2, FS_CardinalityType

LEMMA OneMore ==
  ASSUME NEW S \in SUBSET Threads, NEW t \in Threads, NEW T \in SUBSET (S \cup {t})
  PROVE  Cardinality(T) <= Cardinality(S) + 1
<1>1. IsFiniteSet(S) /\ Cardinality(S) \in Nat
  BY Counted
<1>. DEFINE U == S \cup {t}
<1>2. IsFiniteSet(U) /\ Cardinality(U) <= Cardinality(S) + 1
  BY <1>1, FS_AddElement
<1>3. T \in SUBSET U
  OBVIOUS
<1>. HIDE DEF U
<1>4. Cardinality(T) <= Cardinality(U)
  BY <1>2, <1>3, FS_Subset
<1>5. Cardinality(T) \in Nat /\ Cardinality(U) \in Nat
  <2>1. IsFiniteSet(T)
    BY <1>2, <1>3, FS_Subset
  <2>. QED  BY <1>2, <2>1, FS_CardinalityType
<1>. QED  BY ONLY <1>1, <1>2, <1>4, <1>5

LEMMA OneLess ==
  ASSUME NEW S \in SUBSET Threads, NEW t \in S, NEW T \in SUBSET (S \ {t})
  PROVE  Cardinality(T) + 1 <= Cardinality(S)
<1>1. IsFiniteSet(S) /\ Cardinality(S) \in Nat
  BY Counted
<1>. DEFINE U == S \ {t}
<1>2. IsFiniteSet(U) /\ Cardinality(U) = Cardinality(S) - 1
  BY <1>1, FS_RemoveElement
<1>3. T \in SUBSET U
  OBVIOUS
<1>. HIDE DEF U
<1>4. Cardinality(T) <= Cardinality(U) /\ IsFiniteSet(T)
  BY <1>2, <1>3, FS_Subset
<1>5. Cardinality(T) \in Nat /\ Cardinality(U) \in Nat
  BY <1>2, <1>4, FS_CardinalityType
<1>. QED  BY ONLY <1>1, <1>2, <1>4, <1>5

LEMMA NoMore ==
  ASSUME NEW S \in SUBSET Threads, NEW T \in SUBSET S
  PROVE  Cardinality(T) <= Cardinality(S)
BY Counted, FS_Subset

(* A frame the hub takes from a line is off the list of what is due.       *)
LEMMA TakenOff ==
  ASSUME HubInv, NEW line \in Reads, decode_rx_line(line).type = DATA,
         due' = IF up' = <<>> THEN <<>>
                ELSE IF decode_rx_line(line) \in {NoFrame, ValueError} THEN due
                ELSE Settled(due, Reports(line))
  PROVE  Len(due') + 1 <= Len(due)
<1>1. decode_rx_line(line) \notin {NoFrame, ValueError}
  BY DEF NoFrame, ValueError, DATA
<1>2. Reports(line) # {}
  BY <1>1, HeardOnly DEF HeardAsReported
<1>3. due \in Seq(Reported) /\ Len(due) \in Nat /\ Reports(line) \in SUBSET (1 .. Len(due))
  BY LenProperties DEF HubInv, Reports
<1>. DEFINE R == Reports(line)
<1>. HIDE DEF R
<1>4. R # {} /\ R \in SUBSET (1 .. Len(due))
  BY <1>2, <1>3 DEF R
<1>5. Settled(due, R) \in Seq(Reported) /\ Len(Settled(due, R)) < Len(due)
  BY ONLY <1>3, <1>4, SettledRest
<1>6. Len(Settled(due, R)) \in Nat
  BY <1>5, LenProperties
<1>7. Len(Settled(due, R)) + 1 <= Len(due)
  BY ONLY <1>3, <1>5, <1>6
<1>8. Len(<<>>) + 1 <= Len(due)
  <2>1. Len(<<>>) = 0
    OBVIOUS
  <2>. QED  BY ONLY <1>3, <1>6, <1>7, <2>1
<1>. QED  BY <1>1, <1>7, <1>8 DEF R

LEMMA LoadStep ==
  ASSUME HubInv, DongleInv, BoundInv, [Next]_vars, HubInv', DongleInv'
  PROVE  Load' <= MaxLoad
<1>0. PICK a, b, c, d, aa, bb, cc, dd :
         /\ a = Len(open) /\ b = Len(due) /\ c = Len(rxq) /\ d = Cardinality(Lines)
         /\ aa = Len(open') /\ bb = Len(due') /\ cc = Len(rxq') /\ dd = Cardinality(Lines')
  OBVIOUS
<1>1. /\ Load = a + b + c + d /\ Load' = aa + bb + cc + dd
      /\ Load <= MaxLoad /\ MaxLoad \in Nat
  BY <1>0, SerialAssumption DEF Load, Lines, BoundInv
<1>2. /\ Lines \in SUBSET Threads /\ Lines' \in SUBSET Threads
  BY DEF Lines
<1>3. /\ open \in Seq(Payload) /\ open' \in Seq(Payload)
      /\ due \in Seq(Reported) /\ due' \in Seq(Reported)
      /\ rxq \in Seq(Item) /\ rxq' \in Seq(Item)
      /\ todo \in [Threads -> Seq(Char)]
  BY DEF HubInv, DongleInv, LinesInv, Reported
<1>4. a \in Nat /\ b \in Nat /\ c \in Nat /\ d \in Nat /\ aa \in Nat /\ bb \in Nat /\ cc \in Nat /\ dd \in Nat
  BY <1>0, <1>2, <1>3, LenProperties, Counted
<1>5. Len(<<>>) = 0
  OBVIOUS
<1>e. /\ aa + bb + cc + dd <= a + b + c + d => Load' <= MaxLoad
      /\ Load < MaxLoad /\ aa + bb + cc + dd <= a + b + c + d + 1 => Load' <= MaxLoad
  <2>. DEFINE l == Load  m == Load'
  <2>1. l = a + b + c + d /\ m = aa + bb + cc + dd /\ l <= MaxLoad
    BY <1>1
  <2>. HIDE DEF l, m
  <2>2. /\ aa + bb + cc + dd <= a + b + c + d => m <= MaxLoad
        /\ l < MaxLoad /\ aa + bb + cc + dd <= a + b + c + d + 1 => m <= MaxLoad
    <3>1. l \in Nat /\ m \in Nat /\ MaxLoad \in Nat
      BY ONLY <1>1, <1>4, <2>1
    <3>. QED  BY ONLY <2>1, <3>1
  <2>. QED  BY <2>2 DEF l, m
<1>6. SUFFICES aa + bb + cc + dd <= a + b + c + d \/ (Load < MaxLoad /\ aa + bb + cc + dd <= a + b + c + d + 1)
  BY <1>e
<1>7. ASSUME NEW t \in Web, NEW payload \in Commands, Send(t, payload)
      PROVE  Load < MaxLoad /\ aa + bb + cc + dd <= a + b + c + d + 1
  <2>1. t \in Threads /\ Load < MaxLoad /\ open' = open /\ due' = due /\ rxq' = rxq
        /\ \A u \in Threads \ {t} : todo'[u] = todo[u]
    BY <1>3, <1>7 DEF Send, Threads, dongle, history
  <2>2. Lines' \in SUBSET (Lines \cup {t})
    BY <2>1 DEF Lines, Unfinished
  <2>3. dd <= d + 1
    BY <1>0, <1>2, <2>1, <2>2, OneMore
  <2>4. aa = a /\ bb = b /\ cc = c
    BY <1>0, <2>1
  <2>. QED  BY ONLY <1>4, <2>1, <2>3, <2>4
<1>8. ASSUME NEW t \in Threads, Write(t)
      PROVE  aa + bb + cc + dd <= a + b + c + d
  <2>1. PICK p, m, n, fits : Written(t, p, m, n, fits)
    BY <1>8, WriteParts DEF DongleInv
  <2>2. due' = due /\ rxq' = rxq /\ todo[t] # <<>>
    BY <1>8 DEF Write
  <2>3. /\ RestOf(todo[t], p, m) /\ n \in 1 .. Len(todo[t]) /\ p \in Payload /\ m \in Nat
        /\ todo' = [todo EXCEPT ![t] = SubSeq(todo[t], n + 1, Len(todo[t]))]
        /\ open' = IF m = 0 THEN Append(open, p) ELSE open
    BY <2>1 DEF Written, RestOf
  <2>4. todo'[t] = <<>> \/ Unfinished(todo'[t])
    <3>1. Len(todo[t]) \in Nat
      BY <2>3, RestIs
    <3>2. n = Len(todo[t]) \/ n < Len(todo[t])
      BY ONLY <2>3, <3>1
    <3>3. n < Len(todo[t]) => Unfinished(SubSeq(todo[t], n + 1, Len(todo[t])))
      <4>1. n < Len(todo[t]) => RestOf(SubSeq(todo[t], n + 1, Len(todo[t])), p, m + n)
        BY <2>3, RestRest
      <4>2. m + n # 0
        BY ONLY <2>3, <3>1
      <4>. QED  BY <4>1, <4>2, RestIs
    <3>4. n = Len(todo[t]) => SubSeq(todo[t], n + 1, Len(todo[t])) = <<>>
      BY <2>3, RestRest
    <3>5. todo'[t] = SubSeq(todo[t], n + 1, Len(todo[t]))
      BY <1>3, <2>3
    <3>. QED  BY <3>2, <3>3, <3>4, <3>5
  <2>5. \A u \in Threads \ {t} : todo'[u] = todo[u]
    BY <1>3, <2>3
  <2>6. Lines' \in SUBSET (Lines \ {t})
    BY <2>4, <2>5 DEF Lines
  <2>7. bb = b /\ cc = c
    BY <1>0, <2>2
  <2>8. CASE m = 0
    <3>1. t \in Lines
      <4>1. Unfinished(todo[t]) <=> m # 0
        BY <2>3, RestIs
      <4>. QED  BY <2>2, <2>8, <4>1 DEF Lines
    <3>2. dd + 1 <= d
      BY <1>0, <1>2, <2>6, <3>1, OneLess
    <3>3. aa = a + 1
      BY <1>0, <1>3, <2>3, <2>8, AppendProperties
    <3>. QED  BY ONLY <1>4, <2>7, <3>2, <3>3
  <2>9. CASE m # 0
    <3>1. dd <= d
      <4>1. Lines' \in SUBSET Lines
        BY <2>6
      <4>. QED  BY <1>0, <1>2, <4>1, NoMore
    <3>2. aa = a
      BY <1>0, <2>3, <2>9
    <3>. QED  BY ONLY <1>4, <2>7, <3>1, <3>2
  <2>. QED  BY <2>8, <2>9
<1>9. ASSUME NEW payload \in Air, NEW rssi \in Rssi, radio_on_receive_done(payload, rssi)
      PROVE  Load < MaxLoad /\ aa + bb + cc + dd <= a + b + c + d + 1
  <2>1. /\ Load < MaxLoad /\ open' = open /\ due' = due /\ todo' = todo
        /\ rxq' = rxq \/ \E x : rxq' = Append(rxq, x)
    BY <1>9 DEF radio_on_receive_done, history
  <2>2. Len(rxq') <= Len(rxq) + 1
    <3>1. \A x : Len(Append(rxq, x)) = Len(rxq) + 1
      <4>. TAKE x
      <4>1. rxq \in Seq(Item \cup {x})
        BY <1>3
      <4>2. x \in Item \cup {x}
        OBVIOUS
      <4>. HIDE DEF Item
      <4>. QED  BY ONLY <4>1, <4>2, AppendProperties
    <3>2. Len(rxq) \in Nat
      BY <1>3, LenProperties
    <3>. QED  BY <2>1, <3>1, <3>2
  <2>3. aa = a /\ bb = b /\ dd = d /\ cc <= c + 1
    BY <1>0, <2>1, <2>2 DEF Lines, Unfinished
  <2>. QED  BY ONLY <1>4, <2>1, <2>3
<1>10. CASE Iterate
  <2>1. PICK these \in SUBSET (1 .. Len(open)) : open' = Settled(open, these)
    <3>. DEFINE S == {k \in DOMAIN open : open[k] = dongle_uart_poll_tx_frame.frame}
    <3>1. S \in SUBSET (1 .. Len(open))
      BY <1>3, LenProperties
    <3>2. open' = Settled(open, S)
      BY <1>10 DEF Iterate
    <3>. HIDE DEF S
    <3>. QED  BY <3>1, <3>2
  <2>2. aa <= a
    BY <1>0, <1>3, <2>1, SettledRest
  <2>3. todo' = todo /\ Report
    BY <1>10 DEF Iterate
  <2>4. dd = d
    BY <1>0, <2>3 DEF Lines, Unfinished
  <2>5. bb + cc <= b + c
    <3>1. CASE rxq = <<>>
      <4>1. bb = b /\ cc = c
        BY <1>0, <2>3, <3>1 DEF Report
      <4>. QED  BY ONLY <1>4, <4>1
    <3>2. CASE rxq # <<>>
      <4>. DEFINE x == [frame |-> BoardDecode(Head(rxq).data), rssi |-> Head(rxq).rssi]
      <4>1. rxq' = Tail(rxq) /\ due' = Append(due, x)
        BY <2>3, <3>2 DEF Report
      <4>2. x \in Reported
        <5>1. Head(rxq) \in Item
          BY <1>3, <3>2, HeadTailProperties
        <5>. QED  BY <5>1 DEF Reported, ReportOf
      <4>. HIDE DEF x
      <4>3. bb = b + 1
        BY <1>0, <1>3, <4>1, <4>2, AppendProperties
      <4>4. cc = c - 1
        BY <1>0, <1>3, <3>2, <4>1, HeadTailProperties
      <4>. QED  BY ONLY <1>4, <4>3, <4>4
    <3>. QED  BY <3>1, <3>2
  <2>. QED  BY ONLY <1>4, <2>2, <2>4, <2>5
<1>11. CASE HubPoll
  <2>1. PICK line \in Reads :
           /\ up' = SubSeq(up, Len(line) + 1, Len(up))
           /\ due' = IF up' = <<>> THEN <<>>
                     ELSE IF decode_rx_line(line) \in {NoFrame, ValueError} THEN due
                     ELSE Settled(due, Reports(line))
           /\ \/ UNCHANGED todo
              \/ /\ decode_rx_line(line).type = DATA
                 /\ \E payload \in Configs : todo' = [todo EXCEPT ![Poll] = encode_tx_line(payload)]
    BY <1>11 DEF HubPoll
  <2>2. open' = open /\ rxq' = rxq
    BY <1>11 DEF HubPoll, dongle
  <2>3. aa = a /\ cc = c
    BY <1>0, <2>2
  <2>4. bb <= b
    <3>1. Settled(due, Reports(line)) \in Seq(Reported) /\ Len(Settled(due, Reports(line))) <= Len(due)
      <4>. DEFINE R == Reports(line)
      <4>1. R \in SUBSET (1 .. Len(due))
        BY <1>3, LenProperties DEF Reports
      <4>. HIDE DEF R
      <4>2. Settled(due, R) \in Seq(Reported) /\ Len(Settled(due, R)) <= Len(due)
        BY ONLY <1>3, <4>1, SettledRest
      <4>. QED  BY <4>2 DEF R
    <3>2. Len(<<>>) <= b /\ b <= b
      BY <1>4, <1>5
    <3>. QED  BY <1>0, <2>1, <3>1, <3>2
  <2>5. CASE UNCHANGED todo
    <3>1. dd = d
      BY <1>0, <2>5 DEF Lines, Unfinished
    <3>. QED  BY ONLY <1>4, <2>3, <2>4, <3>1
  <2>6. CASE decode_rx_line(line).type = DATA /\ \E payload \in Configs : todo' = [todo EXCEPT ![Poll] = encode_tx_line(payload)]
    <3>1. bb + 1 <= b
      BY <1>0, <2>1, <2>6, TakenOff
    <3>2. Poll \in Threads /\ \A u \in Threads \ {Poll} : todo'[u] = todo[u]
      BY <1>3, <2>6 DEF Threads
    <3>3. Lines' \in SUBSET (Lines \cup {Poll})
      BY <3>2 DEF Lines, Unfinished
    <3>4. dd <= d + 1
      BY <1>0, <1>2, <3>2, <3>3, OneMore
    <3>. QED  BY ONLY <1>4, <2>3, <3>1, <3>4
  <2>. QED  BY <2>1, <2>5, <2>6
<1>12. CASE DongleRestart
  <2>1. open' = <<>> /\ rxq' = <<>> /\ todo' = todo /\ due' = IF up' = <<>> THEN <<>> ELSE due
    BY <1>12 DEF DongleRestart
  <2>2. aa = 0 /\ cc = 0 /\ dd = d /\ (bb = 0 \/ bb = b)
    BY <1>0, <1>5, <2>1 DEF Lines, Unfinished
  <2>. QED  BY ONLY <1>4, <2>2
<1>13. CASE HubRestart
  <2>1. /\ open' = open /\ rxq' = rxq /\ todo' = [t \in Threads |-> <<>>]
        /\ due' = IF up' = <<>> THEN <<>> ELSE due
    BY <1>13 DEF HubRestart, dongle
  <2>2. Lines' \in SUBSET Lines
    BY <2>1 DEF Lines
  <2>3. aa = a /\ cc = c /\ dd <= d /\ (bb = 0 \/ bb = b)
    BY <1>0, <1>2, <1>5, <2>1, <2>2, NoMore
  <2>. QED  BY ONLY <1>4, <2>3
<1>14. CASE UNCHANGED vars
  <2>1. aa = a /\ bb = b /\ cc = c /\ dd = d
    BY <1>0, <1>14 DEF vars, dongle, history, Lines, Unfinished
  <2>. QED  BY ONLY <1>4, <2>1
<1>. QED  BY <1>7, <1>8, <1>9, <1>10, <1>11, <1>12, <1>13, <1>14 DEF Next

LEMMA BoundStep ==
  ASSUME HubInv, DongleInv, BoundInv, [Next]_vars, HubInv', DongleInv'
  PROVE  BoundInv'
<1>1. Load' <= MaxLoad
  BY LoadStep
<1>2. rxq \in Seq(Item) /\ Len(rxq) \in Nat /\ Len(rxq) <= QueueDepth /\ QueueDepth \in Nat /\ Len(<<>>) = 0
  BY LenProperties, SerialAssumption DEF HubInv, BoundInv
<1>3. poll \in {"runs", "dead"}
  BY DEF BoundInv
<1>4. Len(<<>>) <= QueueDepth
  BY ONLY <1>2
<1>5. Len(rxq') <= QueueDepth /\ poll' \in {"runs", "dead"}
  <2>1. CASE \E t \in Web, payload \in Commands : Send(t, payload)
    BY <1>2, <1>3, <2>1 DEF Send, dongle
  <2>2. CASE \E t \in Threads : Write(t)
    BY <1>2, <1>3, <2>2 DEF Write
  <2>3. ASSUME NEW payload \in Air, NEW rssi \in Rssi, radio_on_receive_done(payload, rssi)
        PROVE  Len(rxq') <= QueueDepth /\ poll' \in {"runs", "dead"}
    <3>1. poll' = poll /\ \E x : rxq' = IF Len(rxq) < QueueDepth THEN Append(rxq, x) ELSE rxq
      BY <2>3 DEF radio_on_receive_done
    <3>2. \A x : Len(Append(rxq, x)) = Len(rxq) + 1
      <4>. TAKE x
      <4>1. rxq \in Seq(Item \cup {x})
        BY <1>2
      <4>2. x \in Item \cup {x}
        OBVIOUS
      <4>. HIDE DEF Item
      <4>. QED  BY ONLY <4>1, <4>2, AppendProperties
    <3>3. Len(rxq) < QueueDepth => Len(rxq) + 1 <= QueueDepth
      BY ONLY <1>2
    <3>. QED  BY <1>2, <1>3, <3>1, <3>2, <3>3
  <2>4. CASE Iterate
    <3>1. poll' = poll /\ (rxq' = rxq \/ (rxq # <<>> /\ rxq' = Tail(rxq)))
      BY <2>4 DEF Iterate, Report
    <3>2. rxq # <<>> => Len(Tail(rxq)) = Len(rxq) - 1
      BY <1>2, HeadTailProperties
    <3>3. Len(rxq) - 1 <= QueueDepth
      BY ONLY <1>2
    <3>. QED  BY <1>2, <1>3, <3>1, <3>2, <3>3
  <2>5. CASE HubPoll
    BY <1>2, <1>3, <2>5 DEF HubPoll, dongle
  <2>6. CASE DongleRestart
    BY <1>3, <1>4, <2>6 DEF DongleRestart
  <2>7. CASE HubRestart
    BY <1>2, <2>7 DEF HubRestart, dongle
  <2>8. CASE UNCHANGED vars
    BY <1>2, <1>3, <2>8 DEF vars, dongle
  <2>. QED  BY <2>1, <2>2, <2>3, <2>4, <2>5, <2>6, <2>7, <2>8 DEF Next
<1>. QED  BY <1>1, <1>5 DEF BoundInv

LEMMA BoundInit ==
  ASSUME Init
  PROVE  BoundInv
<1>1. /\ todo = [t \in Threads |-> <<>>] /\ rxq = <<>> /\ open = <<>> /\ due = <<>> /\ poll = "runs"
  BY DEF Init
<1>2. Lines = {}
  BY <1>1 DEF Lines
<1>3. Len(<<>>) = 0 /\ Cardinality({}) = 0 /\ MaxLoad \in Nat /\ QueueDepth \in Nat
  BY SerialAssumption, FS_EmptySet
<1>4. Load = 0 + 0 + 0 + 0
  BY <1>1, <1>2, <1>3 DEF Load, Lines
<1>5. 0 + 0 + 0 + 0 <= MaxLoad /\ 0 <= QueueDepth
  BY ONLY <1>3
<1>. QED  BY <1>1, <1>3, <1>4, <1>5 DEF BoundInv

LEMMA TypesOnly ==
  ASSUME HubInv, DongleInv, BoundInv
  PROVE  TypeOK
<1>1. /\ todo \in [Threads -> Seq(Char)] /\ ring \in Seq(Char) /\ up \in Seq(Char)
      /\ Len(ring) <= RingSize /\ Len(rxq) <= QueueDepth /\ poll \in {"runs", "dead"}
      /\ damage \in {"none", "loses", "mixes"}
      /\ open \in Seq(Payload) /\ due \in Seq(Reported) /\ rxq \in Seq(Item)
  BY DEF HubInv, DongleInv, LinesInv, BoundInv
<1>2. line_buf \in Seq(Char) /\ Len(line_buf) < LineMax
  <2>1. PICK ls : Feeds(line_buf, ring, ls)
    BY DEF DongleInv
  <2>2. Held(line_buf)
    BY <1>1, <2>1, FeedHeld
  <2>3. line_buf \in Seq(Char) /\ Len(line_buf) <= LineMax - 1 /\ LineMax \in Nat /\ Len(line_buf) \in Nat
    BY <2>2, LenProperties, SerialAssumption DEF Held
  <2>4. Len(line_buf) < LineMax
    BY ONLY <2>3
  <2>. QED  BY <2>3, <2>4
<1>3. Len(open) + Len(due) <= MaxLoad
  <2>. DEFINE a == Len(open)  b == Len(due)  c == Len(rxq)  d == Cardinality(Lines)
  <2>1. Lines \in SUBSET Threads
    BY DEF Lines
  <2>2. a \in Nat /\ b \in Nat /\ c \in Nat /\ d \in Nat /\ MaxLoad \in Nat
    BY <1>1, <2>1, LenProperties, Counted, SerialAssumption
  <2>3. a + b + c + d <= MaxLoad
    BY DEF BoundInv, Load, Lines
  <2>. HIDE DEF a, b, c, d
  <2>4. a + b <= MaxLoad
    BY ONLY <2>2, <2>3
  <2>. QED  BY <2>4 DEF a, b
<1>. QED  BY <1>1, <1>2, <1>3 DEF TypeOK

(* The types, with what bounds the buffers of the dongle: the driver's, the *)
(* line's and the radio's; and what is under way stays within its bound,   *)
(* because a frame is off the list before the line that answers it.        *)
THEOREM SerialTypes == Spec => []TypeOK
<1>1. Init => LineInv
  <2>1. Init => HubInv
    <3>1. ASSUME Init
          PROVE  HubInv
      <4>1. up = <<>> /\ due = <<>> /\ rxq = <<>>
        BY <3>1 DEF Init
      <4>2. Trace(<<>>, <<>>)
        BY TraceStart
      <4>. QED  BY <4>1, <4>2 DEF HubInv
    <3>. QED  BY <3>1
  <2>. QED  BY <2>1, DongleInvInit, BoundInit DEF LineInv
<1>2. LineInv /\ [Next]_vars => LineInv'
  <2>1. ASSUME LineInv, [Next]_vars
        PROVE  LineInv'
    <3>1. HubInv /\ DongleInv /\ BoundInv
      BY <2>1 DEF LineInv
    <3>2. HubInv' /\ DongleInv'
      BY <2>1, <3>1, HubInvStep, DongleInvStep
    <3>3. BoundInv'
      BY <2>1, <3>1, <3>2, BoundStep
    <3>. QED  BY <3>2, <3>3 DEF LineInv
  <2>. QED  BY <2>1
<1>3. LineInv => TypeOK
  BY TypesOnly DEF LineInv
<1>. QED  BY <1>1, <1>2, <1>3, PTL DEF Spec
=============================================================================
