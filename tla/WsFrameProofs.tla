---------------------------- MODULE WsFrameProofs ----------------------------
(***************************************************************************)
(* Proofs about WsFrame for data of any size up to 32 bits, any bytes, any *)
(* masking keys and any number of frames: what DecodeWsData takes out of a *)
(* frame of RFC 6455 is what the peer put into it, so that the payload of  *)
(* the connection is always the message as far as it has come.             *)
(***************************************************************************)
EXTENDS WsFrame, SequenceTheorems, TLAPS

-----------------------------------------------------------------------------
(* Bytes and their bits.                                                    *)

\* A byte is the sum of its bits ...
LEMMA ByteIsBits ==
  ASSUME NEW x \in Octet
  PROVE  /\ \A w \in {1, 2, 4, 8, 16, 32, 64, 128} : Bit(x, w) \in 0..1
         /\ x = Bit(x, 1) + 2 * Bit(x, 2) + 4 * Bit(x, 4) + 8 * Bit(x, 8)
                + 16 * Bit(x, 16) + 32 * Bit(x, 32) + 64 * Bit(x, 64) + 128 * Bit(x, 128)
BY DEF Octet, Bit

\* ... and the bits of a sum of bits are these.
LEMMA BitsOfSum ==
  ASSUME NEW a \in 0..1, NEW b \in 0..1, NEW c \in 0..1, NEW d \in 0..1,
         NEW e \in 0..1, NEW f \in 0..1, NEW g \in 0..1, NEW h \in 0..1,
         NEW x, x = a + 2 * b + 4 * c + 8 * d + 16 * e + 32 * f + 64 * g + 128 * h
  PROVE  /\ x \in Octet
         /\ Bit(x, 1) = a /\ Bit(x, 2) = b /\ Bit(x, 4) = c /\ Bit(x, 8) = d
         /\ Bit(x, 16) = e /\ Bit(x, 32) = f /\ Bit(x, 64) = g /\ Bit(x, 128) = h
BY DEF Octet, Bit

\* Exclusive or acts on each bit.
LEMMA XorBits ==
  ASSUME NEW x \in Octet, NEW y \in Octet
  PROVE  /\ Xor(x, y) \in Octet
         /\ \A w \in {1, 2, 4, 8, 16, 32, 64, 128} :
              Bit(Xor(x, y), w) = (Bit(x, w) + Bit(y, w)) % 2
<1> DEFINE B(w) == (Bit(x, w) + Bit(y, w)) % 2
<1>1. \A w \in {1, 2, 4, 8, 16, 32, 64, 128} : B(w) \in 0..1
  BY ByteIsBits
<1>2. Xor(x, y) = B(1) + 2 * B(2) + 4 * B(4) + 8 * B(8) + 16 * B(16) + 32 * B(32)
                  + 64 * B(64) + 128 * B(128)
  BY <1>1 DEF Xor
<1> HIDE DEF B
<1>3. /\ Xor(x, y) \in Octet
      /\ Bit(Xor(x, y), 1) = B(1) /\ Bit(Xor(x, y), 2) = B(2)
      /\ Bit(Xor(x, y), 4) = B(4) /\ Bit(Xor(x, y), 8) = B(8)
      /\ Bit(Xor(x, y), 16) = B(16) /\ Bit(Xor(x, y), 32) = B(32)
      /\ Bit(Xor(x, y), 64) = B(64) /\ Bit(Xor(x, y), 128) = B(128)
  BY <1>1, <1>2, BitsOfSum
<1> QED
  BY <1>3 DEF B

\* Unmasking is masking again.
LEMMA XorTwice ==
  ASSUME NEW x \in Octet, NEW y \in Octet
  PROVE  Xor(Xor(x, y), y) = x
<1> DEFINE z == Xor(x, y)
<1>1. z \in Octet /\ Xor(z, y) \in Octet
  BY XorBits
<1>2. \A w \in {1, 2, 4, 8, 16, 32, 64, 128} : Bit(Xor(z, y), w) = Bit(x, w)
  <2> TAKE w \in {1, 2, 4, 8, 16, 32, 64, 128}
  <2>1. Bit(x, w) \in 0..1 /\ Bit(y, w) \in 0..1
    BY ByteIsBits
  <2>2. Bit(Xor(z, y), w) = (Bit(z, w) + Bit(y, w)) % 2
    BY <1>1, XorBits
  <2>3. Bit(z, w) = (Bit(x, w) + Bit(y, w)) % 2
    BY XorBits
  <2> HIDE DEF z
  <2> QED
    BY <2>1, <2>2, <2>3
<1> HIDE DEF z
<1>3. Xor(z, y) = x
  BY <1>1, <1>2, ByteIsBits
<1> QED
  BY <1>3 DEF z

-----------------------------------------------------------------------------
(* The frames of RFC 6455.                                                  *)

KeyType == {<<>>} \cup [1..4 -> Octet]
Opcodes == {CONT, TEXT, BINARY, CLOSE, PING, PONG}

\* The digits of a size to the base of 256.
Digit0(n) == n % 256
Digit1(n) == (n \div 256) % 256
Digit2(n) == (n \div 65536) % 256
Digit3(n) == (n \div 16777216) % 256

\* The bytes of a length are its digits.
LEMMA Digits ==
  ASSUME NEW n \in Size
  PROVE  /\ Digit0(n) \in Octet /\ Digit1(n) \in Octet
         /\ Digit2(n) \in Octet /\ Digit3(n) \in Octet
         /\ n <= 65535 => 256 * Digit1(n) + Digit0(n) = n
         /\ 65536 * (256 * Digit3(n) + Digit2(n)) + (256 * Digit1(n) + Digit0(n)) = n
<1>1. n \in Nat /\ (n \div 65536) < 65536
  BY SMT DEF Size
<1>2. /\ Digit0(n) \in Octet /\ Digit1(n) \in Octet
      /\ Digit2(n) \in Octet /\ Digit3(n) \in Octet
  BY <1>1, SMT DEF Octet, Digit0, Digit1, Digit2, Digit3
<1>3. n <= 65535 => 256 * Digit1(n) + Digit0(n) = n
  BY <1>1, SMT DEF Digit0, Digit1
<1>4. 65536 * (256 * Digit3(n) + Digit2(n)) + (256 * Digit1(n) + Digit0(n)) = n
  BY <1>1, SMT DEF Digit0, Digit1, Digit2, Digit3
<1> QED
  BY <1>2, <1>3, <1>4, SMT

\* BigEndian and Byte give the digits, the most significant first.
LEMMA DigitBytes ==
  ASSUME NEW n \in Nat
  PROVE  /\ BigEndian(n, 2) = <<Digit1(n), Digit0(n)>>
         /\ BigEndian(n, 8) = <<0, 0, 0, 0, Digit3(n), Digit2(n), Digit1(n), Digit0(n)>>
         /\ Byte(n, 0) = Digit0(n) /\ Byte(n, 8) = Digit1(n)
         /\ Byte(n, 16) = Digit2(n) /\ Byte(n, 24) = Digit3(n)
<1>1. 256^0 = 1 /\ 256^1 = 256 /\ 256^2 = 65536 /\ 256^3 = 16777216
  BY SMT
<1>2. 2^0 = 1 /\ 2^8 = 256 /\ 2^16 = 65536 /\ 2^24 = 16777216
  BY SMT
<1>3. (n \div 1) = n
  BY SMT
<1>4. BigEndian(n, 2) = <<Digit1(n), Digit0(n)>>
  BY <1>1, <1>3, SMT DEF BigEndian, Digit0, Digit1
<1>5. BigEndian(n, 8) = <<0, 0, 0, 0, Digit3(n), Digit2(n), Digit1(n), Digit0(n)>>
  BY <1>1, <1>3, SMT DEF BigEndian, Digit0, Digit1, Digit2, Digit3
<1>6. Byte(n, 0) = Digit0(n)
  BY <1>2, <1>3, SMT DEF Byte, Digit0
<1>7. Byte(n, 8) = Digit1(n)
  BY <1>2, SMT DEF Byte, Digit1
<1>8. Byte(n, 16) = Digit2(n)
  BY <1>2, SMT DEF Byte, Digit2
<1>9. Byte(n, 24) = Digit3(n)
  BY <1>2, SMT DEF Byte, Digit3
<1> QED
  BY <1>4, <1>5, <1>6, <1>7, <1>8, <1>9

\* The forms of the length field, behind its first byte x.
Form3(x, n) == <<x, Digit1(n), Digit0(n)>>
Form9(x, n) == <<x, 0, 0, 0, 0, Digit3(n), Digit2(n), Digit1(n), Digit0(n)>>

MaskBit(masked) == IF masked THEN 128 ELSE 0

\* A byte before two or eight others.
LEMMA PrefixedTwo ==
  ASSUME NEW x, NEW a, NEW b
  PROVE  <<x>> \o <<a, b>> = <<x, a, b>>
<1> DEFINE s == <<x>> \o <<a, b>>
           t == <<x, a, b>>
<1>1. /\ s \in Seq({x, a, b}) /\ t \in Seq({x, a, b}) /\ Len(s) = 3 /\ Len(t) = 3
      /\ s[1] = t[1] /\ s[2] = t[2] /\ s[3] = t[3]
  OBVIOUS
<1> HIDE DEF s, t
<1>2. s = t
  BY <1>1, SeqEqual
<1> QED
  BY <1>2 DEF s, t

LEMMA PrefixedEight ==
  ASSUME NEW x, NEW z, NEW a, NEW b, NEW c, NEW d
  PROVE  <<x>> \o <<z, z, z, z, a, b, c, d>> = <<x, z, z, z, z, a, b, c, d>>
<1> DEFINE s == <<x>> \o <<z, z, z, z, a, b, c, d>>
           t == <<x, z, z, z, z, a, b, c, d>>
<1>1. /\ s \in Seq({x, z, a, b, c, d}) /\ t \in Seq({x, z, a, b, c, d})
      /\ Len(s) = 9 /\ Len(t) = 9
      /\ s[1] = t[1] /\ s[2] = t[2] /\ s[3] = t[3] /\ s[4] = t[4] /\ s[5] = t[5]
      /\ s[6] = t[6] /\ s[7] = t[7] /\ s[8] = t[8] /\ s[9] = t[9]
  OBVIOUS
<1> HIDE DEF s, t
<1>2. s = t
  BY <1>1, SeqEqual
<1> QED
  BY <1>2 DEF s, t

LEMMA FormsAreBytes ==
  ASSUME NEW n \in Size, NEW x \in Octet
  PROVE  /\ Form3(x, n) \in Seq(Octet) /\ Len(Form3(x, n)) = 3
         /\ Form9(x, n) \in Seq(Octet) /\ Len(Form9(x, n)) = 9
         /\ <<x>> \o BigEndian(n, 2) = Form3(x, n)
         /\ <<x>> \o BigEndian(n, 8) = Form9(x, n)
<1>1. n \in Nat /\ 0 \in Octet
  BY SMT DEF Size, Octet
<1>2. Digit0(n) \in Octet /\ Digit1(n) \in Octet /\ Digit2(n) \in Octet /\ Digit3(n) \in Octet
  BY Digits
<1>3. Form3(x, n) \in Seq(Octet) /\ Len(Form3(x, n)) = 3
  BY <1>2 DEF Form3
<1>4. Form9(x, n) \in Seq(Octet) /\ Len(Form9(x, n)) = 9
  BY <1>1, <1>2 DEF Form9
<1>5. /\ BigEndian(n, 2) = <<Digit1(n), Digit0(n)>>
      /\ BigEndian(n, 8) = <<0, 0, 0, 0, Digit3(n), Digit2(n), Digit1(n), Digit0(n)>>
  BY <1>1, DigitBytes
<1>6. <<x>> \o BigEndian(n, 2) = Form3(x, n)
  BY <1>5, PrefixedTwo, Zenon DEF Form3
<1>7. <<x>> \o BigEndian(n, 8) = Form9(x, n)
  BY <1>5, PrefixedEight, Zenon DEF Form9
<1> QED
  BY <1>3, <1>4, <1>6, <1>7

\* Which of them RFC 6455 uses.
IsLength(l, bit, n) ==
  /\ n <= 125 => l = <<bit + n>> /\ Len(l) = 1
  /\ n > 125 /\ n <= 65535 => l = Form3(bit + 126, n) /\ Len(l) = 3
  /\ n > 65535 => l = Form9(bit + 127, n) /\ Len(l) = 9

LEMMA LengthForms ==
  ASSUME NEW n \in Size, NEW masked \in BOOLEAN
  PROVE  /\ RfcLength(masked, n) \in Seq(Octet)
         /\ IsLength(RfcLength(masked, n), MaskBit(masked), n)
<1>1. PICK l, bit : l = RfcLength(masked, n) /\ bit = MaskBit(masked)
  OBVIOUS
<1>2. n \in Nat /\ bit \in {0, 128}
  BY <1>1, SMT DEF Size, MaskBit
<1>3. CASE n <= 125
  <2>1. l = <<bit + n>>
    BY <1>1, <1>2, <1>3, SMT DEF RfcLength, MaskBit
  <2>2. bit + n \in Octet
    BY <1>2, <1>3, SMT DEF Octet
  <2>3. l \in Seq(Octet) /\ IsLength(l, bit, n)
    BY <1>2, <1>3, <2>1, <2>2, SMT DEF IsLength
  <2> QED
    BY <1>1, <2>3, Zenon
<1>4. CASE n > 125 /\ n <= 65535
  <2>1. PICK x \in Octet : x = bit + 126
    BY <1>2, SMT DEF Octet
  <2>2. l = <<x>> \o BigEndian(n, 2)
    BY <1>1, <1>2, <1>4, <2>1, SMT DEF RfcLength, MaskBit
  <2>3. l = Form3(x, n) /\ l \in Seq(Octet) /\ Len(l) = 3
    BY <2>2, FormsAreBytes, Zenon
  <2>4. IsLength(l, bit, n)
    BY <1>2, <1>4, <2>1, <2>3, SMT DEF IsLength
  <2> QED
    BY <1>1, <2>3, <2>4, Zenon
<1>5. CASE n > 65535
  <2>1. PICK x \in Octet : x = bit + 127
    BY <1>2, SMT DEF Octet
  <2>2. l = <<x>> \o BigEndian(n, 8)
    BY <1>1, <1>2, <1>5, <2>1, SMT DEF RfcLength, MaskBit
  <2>3. l = Form9(x, n) /\ l \in Seq(Octet) /\ Len(l) = 9
    BY <2>2, FormsAreBytes, Zenon
  <2>4. IsLength(l, bit, n)
    BY <1>2, <1>5, <2>1, <2>3, SMT DEF IsLength
  <2> QED
    BY <1>1, <2>3, <2>4, Zenon
<1> QED
  BY <1>2, <1>3, <1>4, <1>5, SMT

\* A function on 1..n is a sequence.
LEMMA FunctionIsSeq ==
  ASSUME NEW S, NEW n \in Nat, NEW f \in [1..n -> S]
  PROVE  f \in Seq(S) /\ Len(f) = n
OBVIOUS

\* Masked data are as many bytes.
LEMMA MaskedType ==
  ASSUME NEW key \in KeyType, NEW data \in Seq(Octet)
  PROVE  /\ key \in Seq(Octet) /\ Len(key) = IF key = <<>> THEN 0 ELSE 4
         /\ Masked(key, data) \in Seq(Octet) /\ Len(Masked(key, data)) = Len(data)
<1>1. CASE key = <<>>
  BY <1>1 DEF Masked
<1>2. CASE key # <<>>
  <2>1. key \in [1..4 -> Octet]
    BY <1>2 DEF KeyType
  <2>2. key \in Seq(Octet) /\ Len(key) = 4
    BY <2>1, FunctionIsSeq
  <2>3. \A i \in 1..Len(data) : ((i - 1) % 4) + 1 \in 1..4
    OBVIOUS
  <2>4. \A i \in 1..Len(data) : Xor(data[i], key[((i - 1) % 4) + 1]) \in Octet
    BY <2>1, <2>3, XorBits
  <2>5. Masked(key, data) = [i \in 1..Len(data) |-> Xor(data[i], key[((i - 1) % 4) + 1])]
    BY <1>2 DEF Masked
  <2>6. Masked(key, data) \in [1..Len(data) -> Octet] /\ Len(data) \in Nat
    BY <2>4, <2>5
  <2> QED
    BY <1>2, <2>2, <2>6
<1> QED
  BY <1>1, <1>2

\* Two sequences one after the other, and four.
LEMMA TwoParts ==
  ASSUME NEW S, NEW a \in Seq(S), NEW b \in Seq(S), NEW f, f = a \o b
  PROVE  /\ f \in Seq(S) /\ Len(f) = Len(a) + Len(b)
         /\ \A i \in 1..Len(a) : f[i] = a[i]
         /\ \A i \in 1..Len(b) : f[Len(a) + i] = b[i]
OBVIOUS

Consists(f, h, l, k, d) ==
  /\ Len(f) = 1 + Len(l) + Len(k) + Len(d) /\ f[1] = h
  /\ \A i \in 1..Len(l) : f[1 + i] = l[i]
  /\ \A i \in 1..Len(k) : f[1 + Len(l) + i] = k[i]
  /\ \A i \in 1..Len(d) : f[1 + Len(l) + Len(k) + i] = d[i]

LEMMA FourParts ==
  ASSUME NEW S, NEW h \in S, NEW l \in Seq(S), NEW k \in Seq(S), NEW d \in Seq(S)
  PROVE  /\ <<h>> \o l \o k \o d \in Seq(S)
         /\ Consists(<<h>> \o l \o k \o d, h, l, k, d)
<1>1. PICK f, a, b : a = <<h>> \o l /\ b = a \o k /\ f = b \o d
  OBVIOUS
<1>2. <<h>> \in Seq(S) /\ Len(<<h>>) = 1 /\ <<h>>[1] = h
  OBVIOUS
<1>3. /\ a \in Seq(S) /\ Len(a) = 1 + Len(l)
      /\ \A i \in 1..1 : a[i] = <<h>>[i]
      /\ \A i \in 1..Len(l) : a[1 + i] = l[i]
  BY <1>1, <1>2, TwoParts
<1>4. /\ b \in Seq(S) /\ Len(b) = Len(a) + Len(k) /\ \A i \in 1..Len(a) : b[i] = a[i]
      /\ \A i \in 1..Len(k) : b[Len(a) + i] = k[i]
  BY <1>1, <1>3, TwoParts
<1>5. /\ f \in Seq(S) /\ Len(f) = Len(b) + Len(d) /\ \A i \in 1..Len(b) : f[i] = b[i]
      /\ \A i \in 1..Len(d) : f[Len(b) + i] = d[i]
  BY <1>1, <1>4, TwoParts
<1>6. Len(l) \in Nat /\ Len(k) \in Nat /\ Len(d) \in Nat
  OBVIOUS
<1>7. ASSUME NEW i \in 1..Len(l) PROVE f[1 + i] = l[i]
  <2>1. 1 + i \in 1..Len(a) /\ 1 + i \in 1..Len(b)
    BY <1>3, <1>4, <1>6
  <2> QED
    BY <1>3, <1>4, <1>5, <2>1
<1>8. ASSUME NEW i \in 1..Len(k) PROVE f[1 + Len(l) + i] = k[i]
  <2>1. Len(a) + i \in 1..Len(b) /\ Len(a) + i = 1 + Len(l) + i
    BY <1>3, <1>4, <1>6
  <2> QED
    BY <1>4, <1>5, <2>1
<1>9. ASSUME NEW i \in 1..Len(d) PROVE f[1 + Len(l) + Len(k) + i] = d[i]
  BY <1>3, <1>4, <1>5, <1>6
<1>10. f[1] = h
  <2>1. 1 \in 1..Len(a) /\ 1 \in 1..Len(b) /\ 1 \in 1..1
    BY <1>3, <1>4, <1>6
  <2> QED
    BY <1>2, <1>3, <1>4, <1>5, <2>1
<1>11. f \in Seq(S) /\ Consists(f, h, l, k, d)
  BY <1>3, <1>4, <1>5, <1>6, <1>7, <1>8, <1>9, <1>10 DEF Consists
<1>12. f = <<h>> \o l \o k \o d
  BY <1>1, Zenon
<1> QED
  BY <1>11, <1>12, Zenon

\* The parts of a frame.
Header(fin, opcode) == (IF fin THEN 128 ELSE 0) + opcode

LEMMA FrameParts ==
  ASSUME NEW fin \in BOOLEAN, NEW opcode \in Opcodes, NEW key \in KeyType,
         NEW data \in Seq(Octet), Len(data) \in Size
  PROVE  /\ RfcFrame(fin, opcode, key, data) \in Seq(Octet)
         /\ Consists(RfcFrame(fin, opcode, key, data), Header(fin, opcode),
                     RfcLength(key # <<>>, Len(data)), key, Masked(key, data))
<1>1. Header(fin, opcode) \in Octet
  BY DEF Header, Opcodes, Octet, CONT, TEXT, BINARY, CLOSE, PING, PONG
<1>2. key \in Seq(Octet) /\ Masked(key, data) \in Seq(Octet)
  BY MaskedType
<1>3. RfcLength(key # <<>>, Len(data)) \in Seq(Octet)
  BY LengthForms, Zenon
<1>4. RfcFrame(fin, opcode, key, data)
      = <<Header(fin, opcode)>> \o RfcLength(key # <<>>, Len(data)) \o key \o Masked(key, data)
  BY Zenon DEF RfcFrame, Header
<1> QED
  BY <1>1, <1>2, <1>3, <1>4, FourParts, Zenon

\* DecodeWsData reads each form of the length.
LaidOut(f, header, m, n) == Layout(f) = [header |-> header, mask |-> m, data |-> n]

LEMMA LayoutOfForms ==
  ASSUME NEW n \in Size, NEW m \in {0, 4}, NEW bit \in {0, 128}, bit = 128 <=> m = 4,
         NEW l, NEW f, Len(f) = 1 + Len(l) + m + n, IsLength(l, bit, n),
         \A i \in 1..Len(l) : f[1 + i] = l[i]
  PROVE  LaidOut(f, 1 + Len(l) + m, m, n)
<1>1. n \in Nat
  BY SMT DEF Size
<1>2. CASE n <= 125
  <2>1. l = <<bit + n>> /\ Len(l) = 1
    BY <1>2, SMT DEF IsLength
  <2>2. f[1 + 1] = bit + n
    BY <2>1, SMT
  <2>3. /\ f[2] % 128 = n /\ (f[2] >= 128 <=> m = 4)
        /\ ~(Len(f) < 2) /\ Len(f) >= m
    BY <1>1, <1>2, <2>1, <2>2, SMT
  <2> QED
    BY <1>1, <1>2, <2>1, <2>3, SMT DEF Layout, LaidOut
<1>3. CASE n > 125 /\ n <= 65535
  <2>1. Len(l) = 3 /\ l = Form3(bit + 126, n)
    BY <1>3, SMT DEF IsLength
  <2>2. l[1] = bit + 126 /\ l[2] = Digit1(n) /\ l[3] = Digit0(n)
    BY <2>1, SMT DEF Form3
  <2>3. f[1 + 1] = l[1] /\ f[1 + 2] = l[2] /\ f[1 + 3] = l[3]
    BY <2>1, SMT
  <2>4. /\ f[2] % 128 = 126 /\ (f[2] >= 128 <=> m = 4)
        /\ ~(Len(f) < 2) /\ Len(f) >= 4 + m
    BY <1>1, <2>1, <2>2, <2>3, SMT
  <2>5. 256 * f[3] + f[4] = n
    BY <1>3, <2>2, <2>3, Digits, SMT
  <2> QED
    BY <1>1, <1>3, <2>1, <2>4, <2>5, SMT DEF Layout, LaidOut
<1>4. CASE n > 65535
  <2>1. Len(l) = 9 /\ l = Form9(bit + 127, n)
    BY <1>4, SMT DEF IsLength
  <2>2. /\ l[1] = bit + 127 /\ l[2] = 0 /\ l[3] = 0 /\ l[4] = 0 /\ l[5] = 0
        /\ l[6] = Digit3(n) /\ l[7] = Digit2(n) /\ l[8] = Digit1(n) /\ l[9] = Digit0(n)
    BY <2>1, SMT DEF Form9
  <2>3. f[2] = l[1] /\ f[3] = l[2] /\ f[4] = l[3]
    <3>1. f[1 + 1] = l[1] /\ f[1 + 2] = l[2] /\ f[1 + 3] = l[3]
      BY <2>1, SMT
    <3> QED
      BY <3>1, SMT
  <2>4. f[5] = l[4] /\ f[6] = l[5] /\ f[7] = l[6]
    <3>1. f[1 + 4] = l[4] /\ f[1 + 5] = l[5] /\ f[1 + 6] = l[6]
      BY <2>1, SMT
    <3> QED
      BY <3>1, SMT
  <2>5. f[8] = l[7] /\ f[9] = l[8] /\ f[10] = l[9]
    <3>1. f[1 + 7] = l[7] /\ f[1 + 8] = l[8] /\ f[1 + 9] = l[9]
      BY <2>1, SMT
    <3> QED
      BY <3>1, SMT
  <2>6. /\ f[2] % 128 = 127 /\ (f[2] >= 128 <=> m = 4)
        /\ ~(Len(f) < 2) /\ Len(f) >= 10 + m
    BY <1>1, <2>1, <2>2, <2>3, SMT
  <2>7. 65536 * (256 * f[7] + f[8]) + (256 * f[9] + f[10]) = n
    BY <2>2, <2>4, <2>5, Digits, SMT
  <2>8. f[3] = 0 /\ f[4] = 0 /\ f[5] = 0 /\ f[6] = 0
    BY <2>2, <2>3, <2>4, Zenon
  <2>9. 65536 * (65536 * (65536 * (256 * f[3] + f[4]) + (256 * f[5] + f[6]))) = 0
    BY <2>8, SMT
  <2> QED
    BY <1>1, <2>1, <2>6, <2>7, <2>9, SMT DEF Layout, LaidOut
<1> QED
  BY <1>1, <1>2, <1>3, <1>4, SMT

\* DecodeWsData finds the parts of a frame.
LEMMA LayoutOfFrame ==
  ASSUME NEW key \in KeyType, NEW n \in Size, NEW l, NEW f,
         IsLength(l, MaskBit(key # <<>>), n),
         Len(f) = 1 + Len(l) + Len(key) + n, \A i \in 1..Len(l) : f[1 + i] = l[i]
  PROVE  LaidOut(f, 1 + Len(l) + Len(key), Len(key), n)
<1>1. Len(key) = IF key = <<>> THEN 0 ELSE 4
  <2>1. <<>> \in Seq(Octet)
    OBVIOUS
  <2> QED
    BY <2>1, MaskedType, Zenon
<1>2. PICK m, bit : m = Len(key) /\ bit = MaskBit(key # <<>>)
  OBVIOUS
<1>3. m \in {0, 4} /\ bit \in {0, 128} /\ (bit = 128 <=> m = 4)
  BY <1>1, <1>2 DEF MaskBit
<1>4. Len(f) = 1 + Len(l) + m + n /\ IsLength(l, bit, n)
  BY <1>2, Zenon
<1>5. LaidOut(f, 1 + Len(l) + m, m, n)
  BY <1>3, <1>4, LayoutOfForms
<1> QED
  BY <1>2, <1>5, Zenon

\* ... and takes the data out, whether they are masked or not.
LEMMA UnmaskedIsData ==
  ASSUME NEW fin \in BOOLEAN, NEW opcode \in Opcodes, NEW key \in KeyType,
         NEW data \in Seq(Octet), Len(data) \in Size
  PROVE  Unmasked(RfcFrame(fin, opcode, key, data)) = data
<1>1. PICK f, l, masked, n :
        /\ f = RfcFrame(fin, opcode, key, data) /\ l = RfcLength(key # <<>>, Len(data))
        /\ masked = Masked(key, data) /\ n = Len(data)
  OBVIOUS
<1>2. /\ key \in Seq(Octet) /\ Len(key) = IF key = <<>> THEN 0 ELSE 4
      /\ masked \in Seq(Octet) /\ Len(masked) = n /\ n \in Nat
  BY <1>1, MaskedType
<1>3. l \in Seq(Octet) /\ IsLength(l, MaskBit(key # <<>>), n)
  BY <1>1, LengthForms, Zenon
<1>4. f \in Seq(Octet) /\ Consists(f, Header(fin, opcode), l, key, masked)
  BY <1>1, FrameParts, Zenon
<1>5. PICK h \in Nat : h = 1 + Len(l) + Len(key)
  BY <1>2, <1>3
<1>6. /\ Len(f) = 1 + Len(l) + Len(key) + n /\ Len(f) = h + n
      /\ \A i \in 1..Len(l) : f[1 + i] = l[i]
      /\ \A i \in 1..Len(key) : f[1 + Len(l) + i] = key[i]
      /\ \A i \in 1..n : f[h + i] = masked[i]
  BY <1>2, <1>4, <1>5, Zenon DEF Consists
<1>7. Layout(f) = [header |-> h, mask |-> Len(key), data |-> n]
  <2>1. Len(l) \in Nat /\ n \in Size
    BY <1>1, <1>3
  <2>2. LaidOut(f, 1 + Len(l) + Len(key), Len(key), n)
    BY <1>3, <1>6, <2>1, LayoutOfFrame
  <2> QED
    BY <1>5, <2>2, Zenon DEF LaidOut
<1>8. PICK substr : substr = SubSeq(f, h + 1, h + n)
  OBVIOUS
<1>9. substr \in Seq(Octet) /\ Len(substr) = n /\ \A i \in 1..n : substr[i] = f[h + i]
  BY <1>2, <1>4, <1>5, <1>6, <1>8
<1>10. substr = masked
  <2>1. \A i \in 1..Len(substr) : substr[i] = masked[i]
    BY <1>6, <1>9
  <2> QED
    BY <1>2, <1>9, <2>1, SeqEqual, Zenon
<1>11. Layout(f).header = h /\ Layout(f).mask = Len(key) /\ Layout(f).data = n
  BY <1>7
<1>12. Unmasked(f) = IF Len(key) = 0 THEN masked
                     ELSE [i \in 1..n |-> Xor(masked[i], f[h - 3 + ((i - 1) % 4)])]
  BY <1>2, <1>8, <1>10, <1>11, Zenon DEF Unmasked
<1>13. CASE key = <<>>
  <2>1. masked = data /\ Len(key) = 0
    BY <1>1, <1>2, <1>13, Zenon DEF Masked
  <2> QED
    BY <1>1, <1>12, <2>1, Zenon
<1>14. CASE key # <<>>
  <2>0. Len(key) = 4
    BY <1>2, <1>14, Zenon
  <2>1. Unmasked(f) = [i \in 1..n |-> Xor(masked[i], f[h - 3 + ((i - 1) % 4)])]
    BY <1>12, <2>0, SMT
  <2>2. ASSUME NEW i \in 1..n PROVE Xor(masked[i], f[h - 3 + ((i - 1) % 4)]) = data[i]
    <3>1. PICK j : j = ((i - 1) % 4) + 1
      OBVIOUS
    <3>2. j \in 1..Len(key)
      <4>1. i \in Nat /\ i >= 1
        BY <1>2
      <4>2. ((i - 1) % 4) \in 0..3
        BY <4>1
      <4> QED
        BY <2>0, <3>1, <4>2
    <3>3. Len(l) \in Nat /\ ((i - 1) % 4) \in Int
      BY <1>2, <1>3
    <3>4. h - 3 + ((i - 1) % 4) = 1 + Len(l) + j
      BY <1>5, <2>0, <3>1, <3>3
    <3>5. f[h - 3 + ((i - 1) % 4)] = key[j]
      BY <1>6, <3>2, <3>4, Zenon
    <3>6. key[j] \in Octet
      BY <1>2, <3>2
    <3>7. masked[i] = Xor(data[i], key[j]) /\ data[i] \in Octet
      BY <1>1, <1>14, <3>1 DEF Masked
    <3> QED
      BY <3>5, <3>6, <3>7, XorTwice, Zenon
  <2>3. data = [i \in 1..n |-> data[i]]
    BY <1>1
  <2> QED
    BY <1>1, <2>1, <2>2, <2>3
<1> QED
  BY <1>13, <1>14

\* The first byte tells the opcode and the last frame of a message.
Decodes(f, fin, opcode, data) ==
  (f[1] % 16) = opcode /\ (f[1] >= 128 <=> fin) /\ Unmasked(f) = data

LEMMA FrameDecodes ==
  ASSUME NEW fin \in BOOLEAN, NEW opcode \in Opcodes, NEW key \in KeyType,
         NEW data \in Seq(Octet), Len(data) \in Size
  PROVE  Decodes(RfcFrame(fin, opcode, key, data), fin, opcode, data)
<1>1. PICK f, l : f = RfcFrame(fin, opcode, key, data) /\ l = RfcLength(key # <<>>, Len(data))
  OBVIOUS
<1>2. Consists(f, Header(fin, opcode), l, key, Masked(key, data))
  BY <1>1, FrameParts, Zenon
<1>3. f[1] = Header(fin, opcode)
  BY <1>2, Zenon DEF Consists
<1>4. (f[1] % 16) = opcode /\ (f[1] >= 128 <=> fin)
  BY <1>3 DEF Header, Opcodes, CONT, TEXT, BINARY, CLOSE, PING, PONG
<1> QED
  BY <1>1, <1>4, UnmaskedIsData, Zenon DEF Decodes

\* BuildWsFrame writes the shortest form of the length, as RFC 6455 asks.
LEMMA LengthFieldIsRfc ==
  ASSUME NEW n \in Size
  PROVE  LengthField(n) = RfcLength(FALSE, n)
<1>1. PICK l : l = RfcLength(FALSE, n)
  OBVIOUS
<1>2. IsLength(l, 0, n)
  <2>1. MaskBit(FALSE) = 0
    BY DEF MaskBit
  <2> QED
    BY <1>1, <2>1, LengthForms, Zenon
<1>3. n \in Nat
  BY SMT DEF Size
<1>4. /\ Byte(n, 0) = Digit0(n) /\ Byte(n, 8) = Digit1(n)
      /\ Byte(n, 16) = Digit2(n) /\ Byte(n, 24) = Digit3(n)
  BY <1>3, DigitBytes
<1>5. ASSUME n <= 125 PROVE LengthField(n) = l
  <2>1. l = <<0 + n>> /\ LengthField(n) = <<n>> /\ 0 + n = n
    BY <1>2, <1>3, <1>5, SMT DEF IsLength, LengthField
  <2> QED
    BY <2>1, Zenon
<1>6. ASSUME n > 125, n <= 65535 PROVE LengthField(n) = l
  <2>1. l = Form3(0 + 126, n) /\ LengthField(n) = <<126, Byte(n, 8), Byte(n, 0)>>
    BY <1>2, <1>3, <1>6, SMT DEF IsLength, LengthField
  <2>2. 0 + 126 = 126
    BY SMT
  <2> QED
    BY <1>4, <2>1, <2>2, Zenon DEF Form3
<1>7. ASSUME n > 65535 PROVE LengthField(n) = l
  <2>1. /\ l = Form9(0 + 127, n)
        /\ LengthField(n)
           = <<127, 0, 0, 0, 0, Byte(n, 24), Byte(n, 16), Byte(n, 8), Byte(n, 0)>>
    BY <1>2, <1>3, <1>7, SMT DEF IsLength, LengthField
  <2>2. 0 + 127 = 127
    BY SMT
  <2> QED
    BY <1>4, <2>1, <2>2, Zenon DEF Form9
<1>8. LengthField(n) = l
  BY <1>3, <1>5, <1>6, <1>7, SMT
<1> QED
  BY <1>1, <1>8, Zenon

LEMMA BuiltIsRfc ==
  ASSUME NEW data \in Seq(Octet), Len(data) \in Size
  PROVE  BuildWsFrame(TEXT, data) = RfcFrame(TRUE, TEXT, <<>>, data)
<1>1. PICK l, none, x : l = LengthField(Len(data)) /\ none = <<>> /\ x = 129
  OBVIOUS
<1>2. l = RfcLength(none # <<>>, Len(data)) /\ l \in Seq(Octet)
  BY <1>1, LengthFieldIsRfc, LengthForms, Zenon
<1>3. 128 + (TEXT % 16) = x /\ x \in Octet /\ (IF TRUE THEN 128 ELSE 0) + TEXT = x
  BY <1>1 DEF TEXT, Octet
<1>4. BuildWsFrame(TEXT, data) = <<x>> \o l \o data
  BY <1>1, <1>3, Zenon DEF BuildWsFrame
<1>5. RfcFrame(TRUE, TEXT, none, data) = <<x>> \o l \o none \o data
  BY <1>1, <1>2, <1>3, Zenon DEF RfcFrame, Masked
<1>6. <<x>> \o l \in Seq(Octet)
  BY <1>2, <1>3
<1>7. (<<x>> \o l) \o none = <<x>> \o l
  BY <1>1, <1>6, ConcatEmptySeq, Zenon
<1> QED
  BY <1>1, <1>4, <1>5, <1>7, Zenon

-----------------------------------------------------------------------------
(* The connection.                                                          *)

\* The payload of the connection is the message as far as it has come.
WsInv ==
  /\ frames \in 0..MaxFrames
  /\ payload = message /\ payload \in Seq(Octet)
  /\ FramesExchanged

\* What DecodeWsData does with a frame of data, and with a control frame.
LEMMA DataReceived ==
  ASSUME NEW f, NEW fin, NEW data, NEW opcode \in {CONT, TEXT, BINARY},
         Decodes(f, fin, opcode, data)
  PROVE  /\ opcode = CONT => NewPayload(f) = payload \o data
         /\ opcode # CONT => NewPayload(f) = data
         /\ WsResult(f) = "WS_DATA" <=> fin
<1>1. (f[1] % 16) = opcode /\ (f[1] >= 128 <=> fin) /\ Unmasked(f) = data
  BY Zenon DEF Decodes
<1>2. /\ ~(CONT \in {TEXT, BINARY}) /\ opcode # PING /\ opcode # CLOSE
      /\ opcode # CONT => opcode \in {TEXT, BINARY}
  BY DEF CONT, TEXT, BINARY, PING, CLOSE
<1>3. opcode = CONT => NewPayload(f) = payload \o data
  BY <1>1, <1>2, Zenon DEF NewPayload
<1>4. opcode # CONT => NewPayload(f) = data
  BY <1>1, <1>2, Zenon DEF NewPayload
<1>5. WsResult(f) = IF f[1] >= 128 THEN "WS_DATA" ELSE "WS_PARTIAL"
  BY <1>1, <1>2, Zenon DEF WsResult
<1> QED
  BY <1>1, <1>3, <1>4, <1>5, Zenon

LEMMA ControlReceived ==
  ASSUME NEW f, NEW fin, NEW data, NEW opcode \in {PING, PONG, CLOSE},
         Decodes(f, fin, opcode, data)
  PROVE  NewPayload(f) = payload /\ (WsResult(f) = "WS_DATA" => opcode = PONG)
<1>1. (f[1] % 16) = opcode
  BY Zenon DEF Decodes
<1>2. ~(opcode \in {TEXT, BINARY}) /\ opcode # CONT /\ CLOSE # PING
  BY DEF CONT, TEXT, BINARY, PING, PONG, CLOSE
<1>3. NewPayload(f) = payload
  BY <1>1, <1>2, Zenon DEF NewPayload
<1>4. opcode = PING => WsResult(f) = "WS_SEND_PONG"
  BY <1>1, <1>2, Zenon DEF WsResult
<1>5. opcode = CLOSE => WsResult(f) = "WS_CLOSE"
  BY <1>1, <1>2, Zenon DEF WsResult
<1> QED
  BY <1>3, <1>4, <1>5, Zenon

\* The inputs are those of WsAssumption.
LEMMA InputTypes ==
  ASSUME NEW k \in 0..MaxFrames
  PROVE  /\ \A key \in Keys : key \in KeyType
         /\ \A data \in Payloads[k] \cup Replies : data \in Seq(Octet) /\ Len(data) \in Size
<1>1. \A key \in Keys : key \in KeyType
  BY WsAssumption, Zenon DEF KeyType
<1>2. Payloads[k] \subseteq Seq(Octet) /\ Replies \subseteq Seq(Octet)
  BY WsAssumption
<1>3. \A data \in Payloads[k] \cup Replies : Len(data) \in Size
  BY WsAssumption, Zenon
<1> QED
  BY <1>1, <1>2, <1>3, Zenon

LEMMA PeerSendsDataStep ==
  ASSUME WsInv, NEW fin \in BOOLEAN, NEW key \in Keys, NEW data \in Payloads[frames],
         PeerSendsData(fin, key, data)
  PROVE  payload' = message' /\ payload' \in Seq(Octet) /\ MessagesDelivered'
<1>1. key \in KeyType /\ data \in Seq(Octet) /\ Len(data) \in Size
  BY InputTypes, Zenon DEF WsInv
<1>2. PICK opcode \in IF fragmented THEN {CONT} ELSE {TEXT, BINARY} :
        Receive(RfcFrame(fin, opcode, key, data))
  BY Zenon DEF PeerSendsData
<1>3. opcode \in {CONT, TEXT, BINARY} /\ (opcode = CONT <=> fragmented)
  BY <1>2 DEF CONT, TEXT, BINARY
<1>4. PICK f : f = RfcFrame(fin, opcode, key, data)
  OBVIOUS
<1>5. /\ opcode = CONT => NewPayload(f) = payload \o data
      /\ opcode # CONT => NewPayload(f) = data
      /\ WsResult(f) = "WS_DATA" <=> fin
  <2>1. opcode \in Opcodes
    BY <1>3, Zenon DEF Opcodes
  <2>2. Decodes(f, fin, opcode, data)
    BY <1>1, <1>4, <2>1, FrameDecodes, Zenon
  <2> QED
    BY <1>3, <2>2, DataReceived
<1>6. /\ payload' = NewPayload(f)
      /\ delivered' = IF WsResult(f) = "WS_DATA" THEN Append(delivered, payload') ELSE delivered
  BY <1>2, <1>4, Zenon DEF Receive
<1>7. /\ message' = (IF fragmented THEN message \o data ELSE data)
      /\ whole' = (IF fin THEN Append(whole, message') ELSE whole)
      /\ ponged' = ponged
  BY Zenon DEF PeerSendsData
<1>8. payload = message /\ payload \in Seq(Octet) /\ (~ponged => delivered = whole)
  BY Zenon DEF WsInv, FramesExchanged, MessagesDelivered
<1>9. payload' = message' /\ payload' \in Seq(Octet)
  <2>1. payload \o data \in Seq(Octet)
    BY <1>1, <1>8
  <2>2. CASE fragmented
    BY <1>3, <1>5, <1>6, <1>7, <1>8, <2>1, <2>2, Zenon
  <2>3. CASE ~fragmented
    BY <1>1, <1>3, <1>5, <1>6, <1>7, <2>3, Zenon
  <2> QED
    BY <2>2, <2>3, Zenon
<1> QED
  BY <1>5, <1>6, <1>7, <1>8, <1>9, Zenon DEF MessagesDelivered

LEMMA PeerSendsControlStep ==
  ASSUME WsInv, NEW key \in Keys, NEW data \in Payloads[frames], PeerSendsControl(key, data)
  PROVE  payload' = message' /\ payload' \in Seq(Octet) /\ MessagesDelivered'
<1>1. key \in KeyType /\ data \in Seq(Octet) /\ Len(data) \in Size
  BY InputTypes, Zenon DEF WsInv
<1>2. PICK opcode \in {PING, PONG, CLOSE} :
        Receive(RfcFrame(TRUE, opcode, key, data)) /\ ponged' = (ponged \/ opcode = PONG)
  BY Zenon DEF PeerSendsControl
<1>3. PICK f : f = RfcFrame(TRUE, opcode, key, data)
  OBVIOUS
<1>4. NewPayload(f) = payload /\ (WsResult(f) = "WS_DATA" => opcode = PONG)
  <2>1. opcode \in Opcodes
    BY <1>2, Zenon DEF Opcodes
  <2>2. Decodes(f, TRUE, opcode, data)
    BY <1>1, <1>3, <2>1, FrameDecodes, Zenon
  <2> QED
    BY <1>2, <2>2, ControlReceived, Zenon
<1>5. /\ payload' = NewPayload(f)
      /\ delivered' = IF WsResult(f) = "WS_DATA" THEN Append(delivered, payload') ELSE delivered
  BY <1>2, <1>3, Zenon DEF Receive
<1>6. message' = message /\ whole' = whole
  BY Zenon DEF PeerSendsControl
<1>7. payload = message /\ payload \in Seq(Octet) /\ (~ponged => delivered = whole)
  BY Zenon DEF WsInv, FramesExchanged, MessagesDelivered
<1> QED
  BY <1>2, <1>4, <1>5, <1>6, <1>7, Zenon DEF MessagesDelivered

\* WsInv holds initially and every step preserves it.
LEMMA WsInvInit == WsInit => WsInv
<1> HAVE WsInit
<1>1. MaxFrames \in Nat
  BY WsAssumption, Zenon
<1>2. frames \in 0..MaxFrames /\ payload = message /\ payload \in Seq(Octet)
  BY <1>1 DEF WsInit
<1>3. MessagesDelivered
  BY Zenon DEF WsInit, MessagesDelivered
<1>4. SentIsRfc
  BY DEF WsInit, SentIsRfc
<1> QED
  BY <1>2, <1>3, <1>4, Zenon DEF WsInv, FramesExchanged

LEMMA WsInvStep == WsInv /\ [WsNext]_wsVars => WsInv'
<1> SUFFICES ASSUME WsInv, [WsNext]_wsVars PROVE WsInv'
  OBVIOUS
<1>1. MaxFrames \in Nat
  BY WsAssumption, Zenon
<1>2. CASE PeerSends
  <2>1. frames' \in 0..MaxFrames
    BY <1>1, <1>2 DEF PeerSends, WsInv
  <2>2. PICK key \in Keys, data \in Payloads[frames] :
          \/ \E fin \in BOOLEAN : PeerSendsData(fin, key, data)
          \/ PeerSendsControl(key, data)
    BY <1>2, Zenon DEF PeerSends
  <2>3. payload' = message' /\ payload' \in Seq(Octet) /\ MessagesDelivered'
    BY <2>2, PeerSendsDataStep, PeerSendsControlStep, Zenon
  <2>4. SentIsRfc'
    <3>1. wire' = wire /\ SentIsRfc
      BY <1>2, Zenon DEF PeerSends, WsInv, FramesExchanged
    <3> QED
      BY <3>1, Zenon DEF SentIsRfc
  <2> QED
    BY <2>1, <2>3, <2>4, Zenon DEF WsInv, FramesExchanged
<1>3. CASE ServerSends
  <2>1. PICK data \in Replies : wire' = [frame |-> BuildWsFrame(TEXT, data), data |-> data]
    BY <1>3, Zenon DEF ServerSends
  <2>2. data \in Seq(Octet) /\ Len(data) \in Size
    BY InputTypes, Zenon DEF WsInv
  <2>3. wire'.frame = BuildWsFrame(TEXT, data) /\ wire'.data = data
    BY <2>1
  <2>4. SentIsRfc'
    BY <2>2, <2>3, BuiltIsRfc, Zenon DEF SentIsRfc
  <2>5. /\ payload' = payload /\ message' = message /\ frames' = frames
        /\ delivered' = delivered /\ whole' = whole /\ ponged' = ponged
    BY <1>3, Zenon DEF ServerSends
  <2> QED
    BY <2>4, <2>5, Zenon DEF WsInv, FramesExchanged, MessagesDelivered
<1>4. CASE UNCHANGED wsVars
  BY <1>4, Zenon DEF wsVars, WsInv, FramesExchanged, MessagesDelivered, SentIsRfc
<1> QED
  BY <1>2, <1>3, <1>4, Zenon DEF WsNext

\* With one frame in every Recv, and so for frames of at most MAXRECV bytes,
\* DecodeWsData hands ReadData the messages a peer of RFC 6455 has completed, for
\* any MAXRECV, key and fragmentation; BuildWsFrame writes frames of RFC 6455 for
\* data of any size up to 32 bits (TcpSocket.cpp:216-261, 342, 772-878).
THEOREM FramesAreExchanged == WsSpec => []FramesExchanged
<1>1. WsInv => FramesExchanged
  BY Zenon DEF WsInv
<1> QED
  BY <1>1, WsInvInit, WsInvStep, PTL DEF WsSpec
=============================================================================
