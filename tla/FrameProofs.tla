---------------------------- MODULE FrameProofs ----------------------------
(***************************************************************************)
(* The codecs undo each other for every value that fits its field: what    *)
(* the hub encodes is what a board reads, and what a board encodes is what *)
(* another board and the hub read. TLC's payloads come nowhere near 2^32.  *)
(***************************************************************************)
EXTENDS Frame, SequenceTheorems, TLAPS

UInt8 == {v \in Nat : v < 256}
UInt16 == {v \in Nat : v < 65536}
UInt32 == {v \in Nat : v < 4294967296}

-----------------------------------------------------------------------------
(* Two and four little-endian bytes make up the number again.              *)
LEMMA TwoBytes ==
  ASSUME NEW v \in UInt16
  PROVE  (v % 256) + 256 * Byte(v, 256) = v
BY SMT DEF UInt16, Byte

LEMMA FourBytes ==
  ASSUME NEW v \in UInt32
  PROVE  (v % 256) + 256 * Byte(v, 256) + 65536 * Byte(v, 65536) + 16777216 * Byte(v, 16777216) = v
BY SMT DEF UInt32, Byte

LEMMA BytesAreInts ==
  ASSUME NEW v \in UInt32
  PROVE  /\ v % 256 \in Int /\ Byte(v, 256) \in Int
         /\ Byte(v, 65536) \in Int /\ Byte(v, 16777216) \in Int
BY SMT DEF UInt32, Byte

LEMMA Wider == UInt8 \subseteq UInt16 /\ UInt16 \subseteq UInt32
BY SMT DEF UInt8, UInt16, UInt32

(* A frame with bytes in it is not the empty sequence.                     *)
LEMMA NotEmpty ==
  ASSUME NEW frame, Len(frame) # 0
  PROVE  frame # <<>>
<1>1. Len(<<>>) = 0
  OBVIOUS
<1>. QED  BY <1>1

(* The Python port's bytes are the same ones.                              *)
LEMMA SameBytes ==
  ASSUME NEW v \in UInt32
  PROVE  to_bytes(v, 2) = u16le(v) /\ to_bytes(v, 4) = u32le(v)
<1>1. Byte(v, 1) = v % 256
  BY SMT DEF Byte, UInt32
<1>2. /\ Power[1] = 1 /\ Power[2] = 256 /\ Power[3] = 65536 /\ Power[4] = 16777216
  BY SMT DEF Power
<1>3. to_bytes(v, 2) = <<Byte(v, Power[1]), Byte(v, Power[2])>>
  BY SMT DEF to_bytes
<1>4. to_bytes(v, 4) = <<Byte(v, Power[1]), Byte(v, Power[2]), Byte(v, Power[3]), Byte(v, Power[4])>>
  BY SMT DEF to_bytes
<1>. QED  BY <1>1, <1>2, <1>3, <1>4, SMT DEF u16le, u32le

-----------------------------------------------------------------------------
(* What is where in a concatenation.                                       *)
LEMMA Both ==
  ASSUME NEW s \in Seq(Int), NEW t \in Seq(Int)
  PROVE  /\ s \o t \in Seq(Int)
         /\ Len(s \o t) = Len(s) + Len(t)
         /\ \A i \in 1 .. Len(s) : (s \o t)[i] = s[i]
         /\ \A i \in 1 .. Len(t) : (s \o t)[Len(s) + i] = t[i]
<1>1. /\ s \o t \in Seq(Int)
      /\ Len(s \o t) = Len(s) + Len(t)
      /\ \A i \in 1 .. Len(s) + Len(t) :
           (s \o t)[i] = IF i <= Len(s) THEN s[i] ELSE t[i - Len(s)]
  BY ConcatProperties
<1>2. Len(s) \in Nat /\ Len(t) \in Nat
  OBVIOUS
<1>3. ASSUME NEW i \in 1 .. Len(s)
      PROVE  (s \o t)[i] = s[i]
  BY <1>1, <1>2
<1>4. ASSUME NEW i \in 1 .. Len(t)
      PROVE  (s \o t)[Len(s) + i] = t[i]
  <2>1. Len(s) + i \in 1 .. Len(s) + Len(t) /\ ~(Len(s) + i <= Len(s)) /\ (Len(s) + i) - Len(s) = i
    BY <1>2
  <2>. QED  BY <1>1, <2>1
<1>. QED  BY <1>1, <1>3, <1>4

(* A type byte, a two-byte field and another field.                        *)
Whole(type, f1, f2, g) == <<type>> \o <<f1, f2>> \o g

Layout(b, type, f1, f2, g) ==
  /\ b \in Seq(Int) /\ Len(b) = 3 + Len(g)
  /\ b[1] = type /\ b[2] = f1 /\ b[3] = f2
  /\ \A i \in 1 .. Len(g) : b[3 + i] = g[i]

LEMMA WholeHas ==
  ASSUME NEW type \in Int, NEW f1 \in Int, NEW f2 \in Int, NEW g \in Seq(Int)
  PROVE  Layout(Whole(type, f1, f2, g), type, f1, f2, g)
<1>. DEFINE b == Whole(type, f1, f2, g)
<1>. DEFINE s == <<type>>  t == <<f1, f2>>  u == s \o t
<1>1. s \in Seq(Int) /\ Len(s) = 1 /\ s[1] = type
  OBVIOUS
<1>2. t \in Seq(Int) /\ Len(t) = 2 /\ t[1] = f1 /\ t[2] = f2
  OBVIOUS
<1>. HIDE DEF s, t
<1>3. /\ u \in Seq(Int) /\ Len(u) = Len(s) + Len(t)
      /\ \A i \in 1 .. Len(s) : u[i] = s[i]
      /\ \A i \in 1 .. Len(t) : u[Len(s) + i] = t[i]
  BY <1>1, <1>2, Both
<1>. HIDE DEF u
<1>4. Len(u) = 3 /\ u[1] = type /\ u[2] = f1 /\ u[3] = f2
  <2>1. 1 \in 1 .. Len(s) /\ 1 \in 1 .. Len(t) /\ 2 \in 1 .. Len(t)
    BY <1>1, <1>2
  <2>2. u[1] = s[1] /\ u[Len(s) + 1] = t[1] /\ u[Len(s) + 2] = t[2]
    BY <1>3, <2>1
  <2>. QED  BY <1>3, <2>2, <1>1, <1>2
<1>5. b = u \o g
  BY DEF u, s, t, Whole
<1>. HIDE DEF b
<1>6. /\ b \in Seq(Int) /\ Len(b) = Len(u) + Len(g)
      /\ \A i \in 1 .. Len(u) : b[i] = u[i]
      /\ \A i \in 1 .. Len(g) : b[Len(u) + i] = g[i]
  BY <1>3, <1>5, Both
<1>7. Layout(b, type, f1, f2, g)
  BY <1>4, <1>6 DEF Layout
<1>. QED  BY <1>7 DEF b

-----------------------------------------------------------------------------
(* Frames of a type and two two-byte fields, whoever encodes them.         *)
TwoFields(type, x, y) == <<type>> \o u16le(x) \o u16le(y)

LEMMA TwoFieldsRead ==
  ASSUME NEW type \in Int, NEW x \in UInt16, NEW y \in UInt16
  PROVE  /\ Len(TwoFields(type, x, y)) = 5 /\ TwoFields(type, x, y)[1] = type
         /\ read_u16le(TwoFields(type, x, y), 2) = x
         /\ read_u16le(TwoFields(type, x, y), 4) = y
<1>. DEFINE p == x % 256  q == Byte(x, 256)  g == u16le(y)  b == TwoFields(type, x, y)
<1>1. x % 256 \in Int /\ Byte(x, 256) \in Int /\ y % 256 \in Int /\ Byte(y, 256) \in Int
  BY Wider, BytesAreInts
<1>2. g \in Seq(Int) /\ Len(g) = 2 /\ g[1] = y % 256 /\ g[2] = Byte(y, 256)
  BY <1>1 DEF u16le
<1>. HIDE DEF g
<1>3. b = Whole(type, p, q, g)
  BY DEF g, u16le, Whole, TwoFields
<1>4. p \in Int /\ q \in Int /\ g \in Seq(Int)
  BY <1>1, <1>2
<1>. HIDE DEF b, p, q
<1>5. /\ Len(b) = 3 + Len(g)
      /\ b[1] = type /\ b[2] = p /\ b[3] = q
      /\ \A i \in 1 .. Len(g) : b[3 + i] = g[i]
  <2>1. Layout(Whole(type, p, q, g), type, p, q, g)
    BY <1>4, WholeHas
  <2>. QED  BY <2>1, <1>3 DEF Layout
<1>6. b[4] = y % 256 /\ b[5] = Byte(y, 256)
  <2>1. 1 \in 1 .. Len(g) /\ 2 \in 1 .. Len(g)
    BY <1>2
  <2>2. b[3 + 1] = g[1] /\ b[3 + 2] = g[2]
    BY <1>5, <2>1
  <2>. QED  BY <2>2, <1>2
<1>7. read_u16le(b, 2) = (x % 256) + 256 * Byte(x, 256)
  BY <1>5 DEF read_u16le, p, q
<1>8. read_u16le(b, 4) = (y % 256) + 256 * Byte(y, 256)
  BY <1>6 DEF read_u16le
<1>9. Len(b) = 5 /\ b[1] = type /\ read_u16le(b, 2) = x /\ read_u16le(b, 4) = y
  BY <1>2, <1>5, <1>7, <1>8, TwoBytes
<1>. QED  BY <1>9 DEF b

(* A CLAIM the hub encodes is read by a board as the same address and hub  *)
(* id (hub/protocol_frame.py's encoder, protocol_frame.c's decoder).        *)
THEOREM ClaimReadBack ==
  ASSUME NEW address \in UInt16, NEW hub \in UInt16
  PROVE  BoardDecode(encode_claim_frame(address, hub)) = Frame(CLAIM, <<address, hub>>)
<1>. DEFINE b == encode_claim_frame(address, hub)
<1>1. b = TwoFields(CLAIM, address, hub)
  <2>1. to_bytes(address, 2) = u16le(address) /\ to_bytes(hub, 2) = u16le(hub)
    BY Wider, SameBytes
  <2>. QED  BY <2>1 DEF encode_claim_frame, TwoFields
<1>. HIDE DEF b
<1>2. /\ Len(b) = 5 /\ b[1] = CLAIM
      /\ read_u16le(b, 2) = address /\ read_u16le(b, 4) = hub
  BY <1>1, TwoFieldsRead, CLAIM \in Int DEF CLAIM
<1>3. b # <<>>
  <2>1. Len(b) # 0
    BY <1>2
  <2>. QED  BY ONLY <2>1, NotEmpty
<1>4. decode_frame_type(b) = CLAIM
  BY <1>2, <1>3 DEF decode_frame_type
<1>5. BoardDecode(b) = decode_claim_frame(b)
  BY <1>4 DEF BoardDecode, BEACON, JOIN, DATA, BLINK, CLAIM, ANNOUNCE, CONFIG
<1>6. FRAME_LEN[CLAIM] = 5
  BY DEF FRAME_LEN, CLAIM
<1>7. BoardDecode(b) = Frame(CLAIM, <<address, hub>>)
  BY <1>2, <1>5, <1>6 DEF decode_claim_frame, Decoded
<1>. QED  BY <1>7 DEF b

(* A BLINK the hub encodes is read by a board as the same hub id and       *)
(* target (hub/protocol_frame.py's encoder, protocol_frame.c's decoder).    *)
THEOREM BlinkReadBack ==
  ASSUME NEW hub \in UInt16, NEW target \in UInt16
  PROVE  BoardDecode(encode_blink_frame(hub, target)) = Frame(BLINK, <<hub, target>>)
<1>. DEFINE b == encode_blink_frame(hub, target)
<1>1. b = TwoFields(BLINK, hub, target)
  <2>1. to_bytes(hub, 2) = u16le(hub) /\ to_bytes(target, 2) = u16le(target)
    BY Wider, SameBytes
  <2>. QED  BY <2>1 DEF encode_blink_frame, TwoFields
<1>. HIDE DEF b
<1>2. /\ Len(b) = 5 /\ b[1] = BLINK
      /\ read_u16le(b, 2) = hub /\ read_u16le(b, 4) = target
  BY <1>1, TwoFieldsRead, BLINK \in Int DEF BLINK
<1>3. b # <<>>
  <2>1. Len(b) # 0
    BY <1>2
  <2>. QED  BY ONLY <2>1, NotEmpty
<1>4. decode_frame_type(b) = BLINK
  BY <1>2, <1>3 DEF decode_frame_type
<1>5. BoardDecode(b) = decode_blink_frame(b)
  BY <1>4 DEF BoardDecode, BEACON, JOIN, DATA, BLINK, CLAIM, ANNOUNCE, CONFIG
<1>6. FRAME_LEN[BLINK] = 5
  BY DEF FRAME_LEN, BLINK
<1>7. BoardDecode(b) = Frame(BLINK, <<hub, target>>)
  BY <1>2, <1>5, <1>6 DEF decode_blink_frame, Decoded
<1>. QED  BY <1>7 DEF b

-----------------------------------------------------------------------------
(* Frames of nine bytes: a type, a two-byte field, and two more fields.    *)
NineBytes(type, x, g, h) == <<type>> \o u16le(x) \o g \o h

NineLayout(b, type, x, g, h) ==
  /\ b \in Seq(Int) /\ Len(b) = 9
  /\ b[1] = type /\ read_u16le(b, 2) = x
  /\ \A i \in 1 .. Len(g) : b[3 + i] = g[i]
  /\ \A i \in 1 .. Len(h) : b[3 + Len(g) + i] = h[i]

LEMMA NineBytesHave ==
  ASSUME NEW type \in Int, NEW x \in UInt16, NEW g \in Seq(Int), NEW h \in Seq(Int),
         Len(g) + Len(h) = 6
  PROVE  NineLayout(NineBytes(type, x, g, h), type, x, g, h)
<1>. DEFINE p == x % 256  q == Byte(x, 256)  s == Whole(type, p, q, g)
<1>1. p \in Int /\ q \in Int
  BY Wider, BytesAreInts
<1>2. NineBytes(type, x, g, h) = s \o h
  BY DEF u16le, Whole, NineBytes
<1>. HIDE DEF p, q
<1>3. Layout(s, type, p, q, g)
  BY <1>1, WholeHas
<1>. HIDE DEF s
<1>4. Len(s) = 3 + Len(g) /\ s \in Seq(Int)
  BY <1>3 DEF Layout
<1>5. /\ s \o h \in Seq(Int) /\ Len(s \o h) = Len(s) + Len(h)
      /\ \A i \in 1 .. Len(s) : (s \o h)[i] = s[i]
      /\ \A i \in 1 .. Len(h) : (s \o h)[Len(s) + i] = h[i]
  BY <1>4, Both
<1>. DEFINE c == s \o h
<1>. HIDE DEF c
<1>6. /\ c \in Seq(Int) /\ Len(c) = Len(s) + Len(h)
      /\ \A i \in 1 .. Len(s) : c[i] = s[i]
      /\ \A i \in 1 .. Len(h) : c[Len(s) + i] = h[i]
  BY <1>5 DEF c
<1>7. Len(g) \in Nat /\ Len(h) \in Nat
  OBVIOUS
<1>8. Len(c) = 9
  BY <1>4, <1>6, <1>7
<1>9. c[1] = type /\ c[2] = p /\ c[3] = q
  <2>1. 1 \in 1 .. Len(s) /\ 2 \in 1 .. Len(s) /\ 3 \in 1 .. Len(s)
    BY <1>4, <1>7
  <2>2. c[1] = s[1] /\ c[2] = s[2] /\ c[3] = s[3]
    BY <2>1, <1>6
  <2>. QED  BY <2>2, <1>3 DEF Layout
<1>10. ASSUME NEW i \in 1 .. Len(g)
       PROVE  c[3 + i] = g[i]
  <2>1. 3 + i \in 1 .. Len(s)
    BY <1>4, <1>7
  <2>2. c[3 + i] = s[3 + i]
    BY <2>1, <1>6
  <2>. QED  BY <2>2, <1>3 DEF Layout
<1>11. read_u16le(c, 2) = (x % 256) + 256 * Byte(x, 256)
  BY <1>9 DEF read_u16le, p, q
<1>12. \A i \in 1 .. Len(h) : c[3 + Len(g) + i] = h[i]
  BY <1>4, <1>6
<1>13. NineBytes(type, x, g, h) = c
  BY <1>2 DEF c
<1>14. read_u16le(c, 2) = x
  BY <1>11, TwoBytes
<1>15. NineLayout(c, type, x, g, h)
  BY <1>6, <1>8, <1>9, <1>10, <1>12, <1>14 DEF NineLayout
<1>. QED  BY <1>13, <1>15

(* A CONFIG the hub encodes is read by a board as the same target, wake    *)
(* interval and threshold, for every 32-bit interval                       *)
(* (hub/protocol_frame.py's encoder, protocol_frame.c's decoder).          *)
THEOREM ConfigReadBack ==
  ASSUME NEW target \in UInt16, NEW interval \in UInt32, NEW threshold \in UInt16
  PROVE  BoardDecode(encode_config_frame(target, interval, threshold))
           = Frame(CONFIG, <<target, interval, threshold>>)
<1>. DEFINE b == encode_config_frame(target, interval, threshold)
            g == u32le(interval)
            h == u16le(threshold)
<1>1. b = NineBytes(CONFIG, target, g, h)
  <2>1. /\ to_bytes(target, 2) = u16le(target)
        /\ to_bytes(interval, 4) = u32le(interval)
        /\ to_bytes(threshold, 2) = u16le(threshold)
    BY Wider, SameBytes
  <2>. QED  BY <2>1 DEF encode_config_frame, NineBytes
<1>2. g \in Seq(Int) /\ h \in Seq(Int) /\ Len(g) = 4 /\ Len(h) = 2
  BY BytesAreInts, Wider DEF u16le, u32le
<1>3. /\ g[1] = interval % 256 /\ g[2] = Byte(interval, 256)
      /\ g[3] = Byte(interval, 65536) /\ g[4] = Byte(interval, 16777216)
      /\ h[1] = threshold % 256 /\ h[2] = Byte(threshold, 256)
  BY SMT DEF u16le, u32le
<1>. HIDE DEF b, g, h
<1>4. NineLayout(b, CONFIG, target, g, h)
  <2>1. CONFIG \in Int /\ Len(g) + Len(h) = 6
    BY <1>2 DEF CONFIG
  <2>. QED  BY <1>1, <1>2, <2>1, NineBytesHave
<1>5. /\ Len(b) = 9 /\ b[1] = CONFIG /\ read_u16le(b, 2) = target
      /\ \A i \in 1 .. 4 : b[3 + i] = g[i]
      /\ \A i \in 1 .. 2 : b[7 + i] = h[i]
  BY <1>2, <1>4 DEF NineLayout
<1>6. /\ b[4] = g[1] /\ b[5] = g[2] /\ b[6] = g[3] /\ b[7] = g[4]
      /\ b[8] = h[1] /\ b[9] = h[2]
  <2>1. b[3 + 1] = g[1] /\ b[3 + 2] = g[2] /\ b[3 + 3] = g[3] /\ b[3 + 4] = g[4]
    BY <1>5
  <2>2. b[7 + 1] = h[1] /\ b[7 + 2] = h[2]
    BY <1>5
  <2>. QED  BY <2>1, <2>2
<1>7. read_u32le(b, 4) = interval
  BY <1>3, <1>6, FourBytes, SMT DEF read_u32le
<1>8. read_u16le(b, 8) = threshold
  BY <1>3, <1>6, TwoBytes, SMT DEF read_u16le
<1>9. decode_frame_type(b) = CONFIG
  <2>1. Len(b) = 9
    BY <1>5
  <2>2. b # <<>>
    <3>1. Len(b) # 0
      BY ONLY <2>1
    <3>. QED  BY ONLY <3>1, NotEmpty
  <2>. QED  BY <1>5, <2>2 DEF decode_frame_type
<1>10. BoardDecode(b) = decode_config_frame(b)
  BY <1>9 DEF BoardDecode, BEACON, JOIN, DATA, BLINK, CLAIM, ANNOUNCE, CONFIG
<1>11. FRAME_LEN[CONFIG] = 9
  BY DEF FRAME_LEN, CONFIG
<1>12. BoardDecode(b) = Frame(CONFIG, <<target, interval, threshold>>)
  BY <1>5, <1>7, <1>8, <1>10, <1>11 DEF decode_config_frame, Decoded
<1>. QED  BY <1>12 DEF b

-----------------------------------------------------------------------------
(* Bytes as a number, least significant first.                             *)
LEMMA FromBytes ==
  ASSUME NEW s \in Seq(Int)
  PROVE  /\ Len(s) = 1 => from_bytes(s) = s[1]
         /\ Len(s) = 2 => from_bytes(s) = read_u16le(s, 1)
         /\ Len(s) = 4 => from_bytes(s) = read_u32le(s, 1)
<1>1. /\ Power[1] = 1 /\ Power[2] = 256 /\ Power[3] = 65536 /\ Power[4] = 16777216
  BY SMT DEF Power
<1>2. \A k \in 1 .. Len(s) : s[k] \in Int
  BY ElementOfSeq
<1>3. ASSUME Len(s) = 1
      PROVE  from_bytes(s) = s[1]
  <2>1. s[1] \in Int
    BY <1>2, <1>3
  <2>. QED  BY ONLY <1>1, <1>3, <2>1, SMT DEF from_bytes
<1>4. ASSUME Len(s) = 2
      PROVE  from_bytes(s) = read_u16le(s, 1)
  <2>1. s[1] \in Int /\ s[2] \in Int
    BY <1>2, <1>4
  <2>2. from_bytes(s) = s[1] + 256 * s[2]
    BY ONLY <1>1, <1>4, <2>1, SMT DEF from_bytes
  <2>3. read_u16le(s, 1) = s[1] + 256 * s[2]
    BY ONLY SMT DEF read_u16le
  <2>. QED  BY <2>2, <2>3
<1>5. ASSUME Len(s) = 4
      PROVE  from_bytes(s) = read_u32le(s, 1)
  <2>1. s[1] \in Int /\ s[2] \in Int /\ s[3] \in Int /\ s[4] \in Int
    BY <1>2, <1>5
  <2>2. from_bytes(s) = s[1] + 256 * s[2] + 65536 * s[3] + 16777216 * s[4]
    BY ONLY <1>1, <1>5, <2>1, SMT DEF from_bytes
  <2>3. read_u32le(s, 1) = s[1] + 256 * s[2] + 65536 * s[3] + 16777216 * s[4]
    BY ONLY SMT DEF read_u32le
  <2>. QED  BY <2>2, <2>3
<1>. QED  BY <1>3, <1>4, <1>5

(* A slice of the Python decoders is what the boards read at its place.    *)
LEMMA Slice ==
  ASSUME NEW b \in Seq(Int), NEW i \in 1 .. Len(b)
  PROVE  /\ from_bytes(SubSeq(b, i, i)) = b[i]
         /\ i + 1 <= Len(b) => from_bytes(SubSeq(b, i, i + 1)) = read_u16le(b, i)
         /\ i + 3 <= Len(b) => from_bytes(SubSeq(b, i, i + 3)) = read_u32le(b, i)
<1>1. Len(b) \in Nat /\ i \in Nat /\ 1 <= i /\ i <= Len(b)
  BY LenProperties
<1>2. ASSUME NEW n \in Nat, i + n <= Len(b)
      PROVE  /\ SubSeq(b, i, i + n) \in Seq(Int) /\ Len(SubSeq(b, i, i + n)) = n + 1
             /\ \A k \in 1 .. n + 1 : SubSeq(b, i, i + n)[k] = b[i + (k - 1)]
  <2>. DEFINE j == i + n
  <2>1. j \in Int /\ i \in Int /\ i <= j /\ j - i + 1 = n + 1
    BY <1>1
  <2>2. ASSUME NEW k \in i .. j
        PROVE  b[k] \in Int
    <3>1. k \in 1 .. Len(b)
      BY <1>1, <1>2
    <3>. QED  BY <3>1, ElementOfSeq
  <2>. HIDE DEF j
  <2>3. /\ SubSeq(b, i, j) \in Seq(Int)
        /\ Len(SubSeq(b, i, j)) = IF i <= j THEN j - i + 1 ELSE 0
        /\ \A k \in 1 .. j - i + 1 : SubSeq(b, i, j)[k] = b[i + k - 1]
    BY <2>1, <2>2, SubSeqProperties
  <2>4. \A k \in Int : i + k - 1 = i + (k - 1)
    BY <1>1
  <2>. QED  BY <2>1, <2>3, <2>4 DEF j
<1>3. from_bytes(SubSeq(b, i, i)) = b[i]
  <2>1. 0 \in Nat /\ i + 0 = i /\ 0 + 1 = 1 /\ i + (1 - 1) = i /\ i + 0 <= Len(b) /\ 1 \in 1 .. 0 + 1
    BY <1>1
  <2>2. SubSeq(b, i, i) \in Seq(Int) /\ Len(SubSeq(b, i, i)) = 1 /\ SubSeq(b, i, i)[1] = b[i]
    BY <1>2, <2>1
  <2>. DEFINE s == SubSeq(b, i, i)
  <2>. HIDE DEF s
  <2>3. s \in Seq(Int) /\ Len(s) = 1 /\ s[1] = b[i]
    BY <2>2 DEF s
  <2>4. from_bytes(s) = s[1]
    BY ONLY <2>3, FromBytes
  <2>. QED  BY <2>3, <2>4 DEF s
<1>4. ASSUME i + 1 <= Len(b)
      PROVE  from_bytes(SubSeq(b, i, i + 1)) = read_u16le(b, i)
  <2>. DEFINE s == SubSeq(b, i, i + 1)
  <2>1. 1 \in Nat /\ 1 + 1 = 2 /\ i + (1 - 1) = i /\ i + (2 - 1) = i + 1 /\ 1 \in 1 .. 1 + 1 /\ 2 \in 1 .. 1 + 1
    BY <1>1
  <2>2. s \in Seq(Int) /\ Len(s) = 1 + 1 /\ \A k \in 1 .. 1 + 1 : s[k] = b[i + (k - 1)]
    BY <1>2, <1>4, <2>1
  <2>. HIDE DEF s
  <2>3. s \in Seq(Int) /\ Len(s) = 2 /\ s[1] = b[i] /\ s[2] = b[i + 1]
    BY <2>1, <2>2
  <2>4. from_bytes(s) = read_u16le(s, 1)
    BY <2>3, FromBytes
  <2>5. read_u16le(s, 1) = read_u16le(b, i)
    <3>1. read_u16le(s, 1) = s[1] + 256 * s[2]
      BY ONLY SMT DEF read_u16le
    <3>2. read_u16le(b, i) = b[i] + 256 * b[i + 1]
      BY ONLY Zenon DEF read_u16le
    <3>. QED  BY ONLY <2>3, <3>1, <3>2, Zenon
  <2>. QED  BY <2>4, <2>5 DEF s
<1>5. ASSUME i + 3 <= Len(b)
      PROVE  from_bytes(SubSeq(b, i, i + 3)) = read_u32le(b, i)
  <2>. DEFINE s == SubSeq(b, i, i + 3)
  <2>1. /\ 3 \in Nat /\ 3 + 1 = 4 /\ i + (1 - 1) = i /\ i + (2 - 1) = i + 1
        /\ i + (3 - 1) = i + 2 /\ i + (4 - 1) = i + 3
        /\ 1 \in 1 .. 3 + 1 /\ 2 \in 1 .. 3 + 1 /\ 3 \in 1 .. 3 + 1 /\ 4 \in 1 .. 3 + 1
    BY <1>1
  <2>2. s \in Seq(Int) /\ Len(s) = 3 + 1 /\ \A k \in 1 .. 3 + 1 : s[k] = b[i + (k - 1)]
    BY <1>2, <1>5, <2>1
  <2>. HIDE DEF s
  <2>3. /\ s \in Seq(Int) /\ Len(s) = 4
        /\ s[1] = b[i] /\ s[2] = b[i + 1] /\ s[3] = b[i + 2] /\ s[4] = b[i + 3]
    BY <2>1, <2>2
  <2>4. from_bytes(s) = read_u32le(s, 1)
    BY <2>3, FromBytes
  <2>5. read_u32le(s, 1) = read_u32le(b, i)
    <3>1. read_u32le(s, 1) = s[1] + 256 * s[2] + 65536 * s[3] + 16777216 * s[4]
      BY ONLY SMT DEF read_u32le
    <3>2. read_u32le(b, i) = b[i] + 256 * b[i + 1] + 65536 * b[i + 2] + 16777216 * b[i + 3]
      BY ONLY SMT DEF read_u32le
    <3>. QED  BY ONLY <2>3, <3>1, <3>2, SMT
  <2>. QED  BY <2>4, <2>5 DEF s
<1>. QED  BY <1>3, <1>4, <1>5

(* The Python decoders' slices are the same numbers.                       *)
LEMMA Sliced ==
  ASSUME NEW b \in Seq(Int), Len(b) = 9
  PROVE  /\ from_bytes(SubSeq(b, 2, 3)) = b[2] + 256 * b[3]
         /\ from_bytes(SubSeq(b, 4, 4)) = b[4]
         /\ from_bytes(SubSeq(b, 5, 5)) = b[5]
         /\ from_bytes(SubSeq(b, 6, 9)) = b[6] + 256 * b[7] + 65536 * b[8] + 16777216 * b[9]
<1>1. /\ 2 \in 1 .. Len(b) /\ 2 + 1 = 3 /\ 3 <= Len(b)
      /\ 4 \in 1 .. Len(b) /\ 5 \in 1 .. Len(b)
      /\ 6 \in 1 .. Len(b) /\ 6 + 1 = 7 /\ 6 + 2 = 8 /\ 6 + 3 = 9 /\ 9 <= Len(b)
  BY SMT
<1>2. from_bytes(SubSeq(b, 4, 4)) = b[4] /\ from_bytes(SubSeq(b, 5, 5)) = b[5]
  BY <1>1, Slice, Zenon
<1>3. from_bytes(SubSeq(b, 2, 2 + 1)) = read_u16le(b, 2)
  <2>1. 2 + 1 <= Len(b)
    BY <1>1
  <2>. QED  BY <1>1, <2>1, Slice, Zenon
<1>4. from_bytes(SubSeq(b, 6, 6 + 3)) = read_u32le(b, 6)
  <2>1. 6 + 3 <= Len(b)
    BY <1>1
  <2>. QED  BY <1>1, <2>1, Slice, Zenon
<1>5. from_bytes(SubSeq(b, 2, 3)) = b[2] + 256 * b[3]
  BY ONLY <1>1, <1>3, SMT DEF read_u16le
<1>6. from_bytes(SubSeq(b, 6, 9)) = b[6] + 256 * b[7] + 65536 * b[8] + 16777216 * b[9]
  BY ONLY <1>1, <1>4, SMT DEF read_u32le
<1>. QED  BY <1>2, <1>5, <1>6

(* A DATA a board encodes is read by the hub as the same sender, reading,  *)
(* battery and time, and never raises                                      *)
(* (protocol_frame.c's encoder, hub/protocol_frame.py's decoder).          *)
THEOREM DataHeard ==
  ASSUME NEW sender \in UInt16, NEW water \in NeedsWater,
         NEW battery \in UInt8, NEW time \in UInt32
  PROVE  HubDecode(encode_data_frame(sender, water, battery, time))
           = Frame(DATA, <<sender, water, battery, time>>)
<1>. DEFINE b == encode_data_frame(sender, water, battery, time)
            g == <<water, battery>>
            h == u32le(time)
<1>1. b = NineBytes(DATA, sender, g, h)
  BY DEF encode_data_frame, NineBytes
<1>2. water \in Int /\ battery \in Int
  BY SMT DEF NeedsWater, UInt8
<1>3. g \in Seq(Int) /\ Len(g) = 2 /\ g[1] = water /\ g[2] = battery
  BY <1>2
<1>4. h \in Seq(Int) /\ Len(h) = 4
  BY BytesAreInts DEF u32le
<1>5. /\ h[1] = time % 256 /\ h[2] = Byte(time, 256)
      /\ h[3] = Byte(time, 65536) /\ h[4] = Byte(time, 16777216)
  BY SMT DEF u32le
<1>. HIDE DEF b, g, h
<1>6. NineLayout(b, DATA, sender, g, h)
  <2>1. DATA \in Int /\ Len(g) + Len(h) = 6
    BY <1>3, <1>4 DEF DATA
  <2>. QED  BY <1>1, <1>3, <1>4, <2>1, NineBytesHave
<1>7. /\ b \in Seq(Int) /\ Len(b) = 9 /\ b[1] = DATA /\ read_u16le(b, 2) = sender
      /\ \A i \in 1 .. 2 : b[3 + i] = g[i]
      /\ \A i \in 1 .. 4 : b[5 + i] = h[i]
  BY <1>3, <1>4, <1>6 DEF NineLayout
<1>8. /\ b[4] = water /\ b[5] = battery
      /\ b[6] = h[1] /\ b[7] = h[2] /\ b[8] = h[3] /\ b[9] = h[4]
  <2>1. b[3 + 1] = g[1] /\ b[3 + 2] = g[2]
    BY <1>7
  <2>2. b[5 + 1] = h[1] /\ b[5 + 2] = h[2] /\ b[5 + 3] = h[3] /\ b[5 + 4] = h[4]
    BY <1>7
  <2>. QED  BY <1>3, <2>1, <2>2
<1>9. /\ from_bytes(SubSeq(b, 2, 3)) = sender
      /\ from_bytes(SubSeq(b, 4, 4)) = water
      /\ from_bytes(SubSeq(b, 5, 5)) = battery
      /\ from_bytes(SubSeq(b, 6, 9)) = time
  <2>1. b[2] + 256 * b[3] = sender
    BY <1>7 DEF read_u16le
  <2>2. b[6] + 256 * b[7] + 65536 * b[8] + 16777216 * b[9] = time
    BY <1>5, <1>8, FourBytes, SMT
  <2>3. b \in Seq(Int) /\ Len(b) = 9
    BY <1>7
  <2>4. /\ from_bytes(SubSeq(b, 2, 3)) = b[2] + 256 * b[3]
        /\ from_bytes(SubSeq(b, 4, 4)) = b[4]
        /\ from_bytes(SubSeq(b, 5, 5)) = b[5]
        /\ from_bytes(SubSeq(b, 6, 9)) = b[6] + 256 * b[7] + 65536 * b[8] + 16777216 * b[9]
    BY <2>3, Sliced, SMT
  <2>. QED  BY <1>8, <2>1, <2>2, <2>4, SMT
<1>10. decode_frame_type(b) = 3
  <2>1. Len(b) = 9
    BY <1>7
  <2>2. b # <<>>
    <3>1. Len(b) # 0
      BY ONLY <2>1
    <3>. QED  BY ONLY <3>1, NotEmpty
  <2>. QED  BY <1>7, <2>2 DEF decode_frame_type, DATA
<1>11. /\ 3 \in DOMAIN Slices /\ FRAME_LEN[3] = 9
       /\ DOMAIN Slices[3] = 1 .. 4
       /\ Slices[3][1][1] = 1 /\ Slices[3][1][2] = 3 /\ Slices[3][2][1] = 3 /\ Slices[3][2][2] = 4
       /\ Slices[3][3][1] = 4 /\ Slices[3][3][2] = 5 /\ Slices[3][4][1] = 5 /\ Slices[3][4][2] = 9
  BY DEF Slices, FRAME_LEN
<1>. DEFINE slice(s) == from_bytes(SubSeq(b, s[1] + 1, s[2]))
            read == [k \in DOMAIN Slices[3] |-> slice(Slices[3][k])]
<1>12. HubDecode(b) = Frame(DATA, read)
  BY <1>7, <1>8, <1>10, <1>11 DEF HubDecode, DATA
<1>13. /\ slice(Slices[3][1]) = sender /\ slice(Slices[3][2]) = water
       /\ slice(Slices[3][3]) = battery /\ slice(Slices[3][4]) = time
  BY <1>9, <1>11
<1>. HIDE DEF slice
<1>14. read = <<sender, water, battery, time>>
  BY <1>11, <1>13
<1>. QED  BY <1>12, <1>14 DEF b

-----------------------------------------------------------------------------
(* The same numbers in every frame, and the same verdict on every payload. *)
LEMMA SliceTable ==
  /\ DOMAIN Slices = 1 .. 7
  /\ FRAME_LEN[1] = 4 /\ FRAME_LEN[2] = 5 /\ FRAME_LEN[3] = 9 /\ FRAME_LEN[4] = 5
  /\ FRAME_LEN[5] = 5 /\ FRAME_LEN[6] = 3 /\ FRAME_LEN[7] = 9
  /\ Slices[1] = << <<1, 3>>, <<3, 4>> >> /\ Slices[2] = << <<1, 3>>, <<3, 5>> >>
  /\ Slices[3] = << <<1, 3>>, <<3, 4>>, <<4, 5>>, <<5, 9>> >>
  /\ Slices[4] = << <<1, 3>>, <<3, 5>> >> /\ Slices[5] = << <<1, 3>>, <<3, 5>> >>
  /\ Slices[6] = << <<1, 3>> >> /\ Slices[7] = << <<1, 3>>, <<3, 7>>, <<7, 9>> >>
BY DEF Slices, FRAME_LEN

LEMMA BoardDecodes ==
  ASSUME NEW b
  PROVE  /\ decode_frame_type(b) = 1 => BoardDecode(b) = decode_beacon_frame(b)
         /\ decode_frame_type(b) = 2 => BoardDecode(b) = decode_join_frame(b)
         /\ decode_frame_type(b) = 3 => BoardDecode(b) = decode_data_frame(b)
         /\ decode_frame_type(b) = 4 => BoardDecode(b) = decode_blink_frame(b)
         /\ decode_frame_type(b) = 5 => BoardDecode(b) = decode_claim_frame(b)
         /\ decode_frame_type(b) = 6 => BoardDecode(b) = decode_announce_frame(b)
         /\ decode_frame_type(b) = 7 => BoardDecode(b) = decode_config_frame(b)
BY DEF BoardDecode, BEACON, JOIN, DATA, BLINK, CLAIM, ANNOUNCE, CONFIG

(* The hub and the boards make the same of every payload that comes off    *)
(* the air, except that the hub's decoder raises on DATA whose needs_water *)
(* byte it does not know (hub/protocol_frame.py, protocol_frame.c).        *)
THEOREM CodecsAgree ==
  ASSUME NEW b \in Seq(0 .. 255)
  PROVE  HubDecode(b) =
           IF BoardDecode(b).type = DATA /\ BoardDecode(b).fields[2] \notin NeedsWater
             THEN ValueError ELSE BoardDecode(b)
<1>. DEFINE t == decode_frame_type(b)  slice(s) == from_bytes(SubSeq(b, s[1] + 1, s[2]))
<1>1. b \in Seq(Int) /\ Len(b) \in Nat
  <2>1. b \in Seq(0 .. 255) /\ (0 .. 255) \subseteq Int
    OBVIOUS
  <2>. QED  BY <2>1, SeqMonotonic, LenProperties
<1>2. ASSUME t \notin 1 .. 7
      PROVE  HubDecode(b) = NoFrame /\ BoardDecode(b) = NoFrame
  BY <1>2, SliceTable DEF HubDecode, BoardDecode, BEACON, JOIN, DATA, BLINK, CLAIM, ANNOUNCE, CONFIG
<1>3. ASSUME t \in 1 .. 7, Len(b) # FRAME_LEN[t]
      PROVE  HubDecode(b) = NoFrame /\ BoardDecode(b) = NoFrame
  <2>1. HubDecode(b) = NoFrame
    BY <1>3, SliceTable DEF HubDecode
  <2>2. t \in {1, 2, 3, 4, 5, 6, 7}
    BY <1>3
  <2>3. BoardDecode(b) = NoFrame
    BY <1>3, <2>2
    DEF BoardDecode, Decoded, decode_beacon_frame, decode_join_frame, decode_data_frame,
        decode_blink_frame, decode_claim_frame, decode_announce_frame, decode_config_frame,
        BEACON, JOIN, DATA, BLINK, CLAIM, ANNOUNCE, CONFIG
  <2>. QED  BY <2>1, <2>3
<1>4. ASSUME t \in 1 .. 7, Len(b) = FRAME_LEN[t]
      PROVE  /\ b[1] = t
             /\ HubDecode(b) = IF t = DATA /\ b[4] \notin NeedsWater THEN ValueError
                               ELSE Frame(t, [k \in DOMAIN Slices[t] |-> slice(Slices[t][k])])
  <2>1. b # <<>>
    <3>1. t \in {1, 2, 3, 4, 5, 6, 7}
      BY <1>4
    <3>2. Len(b) # 0
      BY <1>4, <3>1, SliceTable
    <3>. QED  BY <3>2, NotEmpty
  <2>2. b[1] = t
    BY <2>1 DEF decode_frame_type
  <2>. QED  BY <1>4, <2>2, SliceTable DEF HubDecode
<1>5. /\ Len(b) >= 3 => slice(<<1, 3>>) = read_u16le(b, 2)
      /\ Len(b) >= 4 => slice(<<3, 4>>) = b[4]
      /\ Len(b) >= 5 => slice(<<3, 5>>) = read_u16le(b, 4) /\ slice(<<4, 5>>) = b[5]
      /\ Len(b) >= 9 => /\ slice(<<3, 7>>) = read_u32le(b, 4)
                        /\ slice(<<7, 9>>) = read_u16le(b, 8)
                        /\ slice(<<5, 9>>) = read_u32le(b, 6)
  <2>1. ASSUME Len(b) >= 3
        PROVE  slice(<<1, 3>>) = read_u16le(b, 2)
    <3>1. 2 \in 1 .. Len(b) /\ 2 + 1 <= Len(b) /\ 2 + 1 = 3 /\ 1 + 1 = 2
      BY <1>1, <2>1
    <3>2. from_bytes(SubSeq(b, 2, 2 + 1)) = read_u16le(b, 2)
      BY ONLY <1>1, <3>1, Slice
    <3>. QED  BY <3>1, <3>2
  <2>2. ASSUME Len(b) >= 4
        PROVE  slice(<<3, 4>>) = b[4]
    <3>1. 4 \in 1 .. Len(b) /\ 3 + 1 = 4
      BY <1>1, <2>2
    <3>2. from_bytes(SubSeq(b, 4, 4)) = b[4]
      BY ONLY <1>1, <3>1, Slice
    <3>. QED  BY <3>1, <3>2
  <2>3. ASSUME Len(b) >= 5
        PROVE  slice(<<3, 5>>) = read_u16le(b, 4) /\ slice(<<4, 5>>) = b[5]
    <3>1. 4 \in 1 .. Len(b) /\ 4 + 1 <= Len(b) /\ 4 + 1 = 5 /\ 3 + 1 = 4 /\ 5 \in 1 .. Len(b)
      BY <1>1, <2>3
    <3>2. from_bytes(SubSeq(b, 4, 4 + 1)) = read_u16le(b, 4) /\ from_bytes(SubSeq(b, 5, 5)) = b[5]
      BY ONLY <1>1, <3>1, Slice
    <3>. QED  BY <3>1, <3>2
  <2>4. ASSUME Len(b) >= 9
        PROVE  /\ slice(<<3, 7>>) = read_u32le(b, 4)
               /\ slice(<<7, 9>>) = read_u16le(b, 8)
               /\ slice(<<5, 9>>) = read_u32le(b, 6)
    <3>1. /\ 4 \in 1 .. Len(b) /\ 4 + 3 <= Len(b) /\ 4 + 3 = 7 /\ 3 + 1 = 4
          /\ 8 \in 1 .. Len(b) /\ 8 + 1 <= Len(b) /\ 8 + 1 = 9 /\ 7 + 1 = 8
          /\ 6 \in 1 .. Len(b) /\ 6 + 3 <= Len(b) /\ 6 + 3 = 9 /\ 5 + 1 = 6
      BY <1>1, <2>4
    <3>2. /\ from_bytes(SubSeq(b, 4, 4 + 3)) = read_u32le(b, 4)
          /\ from_bytes(SubSeq(b, 8, 8 + 1)) = read_u16le(b, 8)
          /\ from_bytes(SubSeq(b, 6, 6 + 3)) = read_u32le(b, 6)
      BY ONLY <1>1, <3>1, Slice
    <3>. QED  BY <3>1, <3>2
  <2>. QED  BY <2>1, <2>2, <2>3, <2>4
<1>6. CASE t \in 1 .. 7 /\ Len(b) = FRAME_LEN[t]
  <2>. DEFINE fields == [k \in DOMAIN Slices[t] |-> slice(Slices[t][k])]
  <2>. HIDE DEF slice
  <2>1. CASE t = 1
    <3>1. /\ DOMAIN Slices[t] = 1 .. 2
          /\ Slices[t][1] = <<1, 3>> /\ Slices[t][2] = <<3, 4>>
      BY <2>1, SliceTable
    <3>2. /\ slice(Slices[t][1]) = read_u16le(b, 2)
          /\ slice(Slices[t][2]) = b[4]
      BY <2>1, <1>5, <1>6, <3>1, SliceTable
    <3>3. fields = [k \in 1 .. 2 |-> slice(Slices[t][k])]
      BY <3>1
    <3>4. fields = <<read_u16le(b, 2), b[4]>>
      BY ONLY <3>2, <3>3
    <3>5. BoardDecode(b) = Frame(t, <<read_u16le(b, 2), b[4]>>)
      BY <2>1, <1>4, <1>6, BoardDecodes DEF Decoded, decode_beacon_frame, BEACON
    <3>6. BoardDecode(b).type # DATA
      BY <2>1, <3>5 DEF Frame, DATA
    <3>7. HubDecode(b) = Frame(t, fields)
      BY <2>1, <1>4, <1>6 DEF DATA
    <3>. QED  BY <3>4, <3>5, <3>6, <3>7
  <2>2. CASE t \in {2, 4, 5}
    <3>1. /\ DOMAIN Slices[t] = 1 .. 2
          /\ Slices[t][1] = <<1, 3>> /\ Slices[t][2] = <<3, 5>>
      BY <2>2, SliceTable
    <3>2. /\ slice(Slices[t][1]) = read_u16le(b, 2)
          /\ slice(Slices[t][2]) = read_u16le(b, 4)
      BY <2>2, <1>5, <1>6, <3>1, SliceTable
    <3>3. fields = [k \in 1 .. 2 |-> slice(Slices[t][k])]
      BY <3>1
    <3>4. fields = <<read_u16le(b, 2), read_u16le(b, 4)>>
      BY ONLY <3>2, <3>3
    <3>5. BoardDecode(b) = Frame(t, <<read_u16le(b, 2), read_u16le(b, 4)>>)
      BY <2>2, <1>4, <1>6, BoardDecodes DEF Decoded, decode_join_frame, decode_blink_frame, decode_claim_frame, JOIN, BLINK, CLAIM
    <3>6. BoardDecode(b).type # DATA
      BY <2>2, <3>5 DEF Frame, DATA
    <3>7. HubDecode(b) = Frame(t, fields)
      BY <2>2, <1>4, <1>6 DEF DATA
    <3>. QED  BY <3>4, <3>5, <3>6, <3>7
  <2>3. CASE t = 3
    <3>1. /\ DOMAIN Slices[t] = 1 .. 4
          /\ Slices[t][1] = <<1, 3>> /\ Slices[t][2] = <<3, 4>> /\ Slices[t][3] = <<4, 5>> /\ Slices[t][4] = <<5, 9>>
      BY <2>3, SliceTable
    <3>2. /\ slice(Slices[t][1]) = read_u16le(b, 2)
          /\ slice(Slices[t][2]) = b[4]
          /\ slice(Slices[t][3]) = b[5]
          /\ slice(Slices[t][4]) = read_u32le(b, 6)
      BY <2>3, <1>5, <1>6, <3>1, SliceTable
    <3>3. fields = [k \in 1 .. 4 |-> slice(Slices[t][k])]
      BY <3>1
    <3>4. fields = <<read_u16le(b, 2), b[4], b[5], read_u32le(b, 6)>>
      BY ONLY <3>2, <3>3
    <3>5. BoardDecode(b) = Frame(t, <<read_u16le(b, 2), b[4], b[5], read_u32le(b, 6)>>)
      BY <2>3, <1>4, <1>6, BoardDecodes DEF Decoded, decode_data_frame, DATA
    <3>6. BoardDecode(b).type = DATA /\ BoardDecode(b).fields[2] = b[4]
      BY <2>3, <3>5 DEF Frame, DATA
    <3>7. HubDecode(b) = IF b[4] \notin NeedsWater THEN ValueError ELSE Frame(t, fields)
      BY <2>3, <1>4, <1>6 DEF DATA
    <3>. QED  BY <3>4, <3>5, <3>6, <3>7
  <2>4. CASE t = 6
    <3>1. /\ DOMAIN Slices[t] = 1 .. 1
          /\ Slices[t][1] = <<1, 3>>
      BY <2>4, SliceTable
    <3>2. /\ slice(Slices[t][1]) = read_u16le(b, 2)
      BY <2>4, <1>5, <1>6, <3>1, SliceTable
    <3>3. fields = [k \in 1 .. 1 |-> slice(Slices[t][k])]
      BY <3>1
    <3>4. fields = <<read_u16le(b, 2)>>
      BY ONLY <3>2, <3>3
    <3>5. BoardDecode(b) = Frame(t, <<read_u16le(b, 2)>>)
      BY <2>4, <1>4, <1>6, BoardDecodes DEF Decoded, decode_announce_frame, ANNOUNCE
    <3>6. BoardDecode(b).type # DATA
      BY <2>4, <3>5 DEF Frame, DATA
    <3>7. HubDecode(b) = Frame(t, fields)
      BY <2>4, <1>4, <1>6 DEF DATA
    <3>. QED  BY <3>4, <3>5, <3>6, <3>7
  <2>5. CASE t = 7
    <3>1. /\ DOMAIN Slices[t] = 1 .. 3
          /\ Slices[t][1] = <<1, 3>> /\ Slices[t][2] = <<3, 7>> /\ Slices[t][3] = <<7, 9>>
      BY <2>5, SliceTable
    <3>2. /\ slice(Slices[t][1]) = read_u16le(b, 2)
          /\ slice(Slices[t][2]) = read_u32le(b, 4)
          /\ slice(Slices[t][3]) = read_u16le(b, 8)
      BY <2>5, <1>5, <1>6, <3>1, SliceTable
    <3>3. fields = [k \in 1 .. 3 |-> slice(Slices[t][k])]
      BY <3>1
    <3>4. fields = <<read_u16le(b, 2), read_u32le(b, 4), read_u16le(b, 8)>>
      BY ONLY <3>2, <3>3
    <3>5. BoardDecode(b) = Frame(t, <<read_u16le(b, 2), read_u32le(b, 4), read_u16le(b, 8)>>)
      BY <2>5, <1>4, <1>6, BoardDecodes DEF Decoded, decode_config_frame, CONFIG
    <3>6. BoardDecode(b).type # DATA
      BY <2>5, <3>5 DEF Frame, DATA
    <3>7. HubDecode(b) = Frame(t, fields)
      BY <2>5, <1>4, <1>6 DEF DATA
    <3>. QED  BY <3>4, <3>5, <3>6, <3>7
  <2>6. t \in {1, 2, 3, 4, 5, 6, 7}
    BY <1>6
  <2>. QED  BY <2>6, <2>1, <2>2, <2>3, <2>4, <2>5
<1>7. NoFrame.type # DATA
  BY DEF NoFrame, DATA
<1>. QED  BY <1>2, <1>3, <1>6, <1>7
=============================================================================
