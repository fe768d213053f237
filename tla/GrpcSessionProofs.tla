-------------------------- MODULE GrpcSessionProofs --------------------------
(***************************************************************************)
(* TLAPS proofs about GrpcSession and GrpcEnvelope, for any streams,          *)
(* requests, results, methods, limits and windows, and any way the bytes are  *)
(* cut into DATA frames.                                                      *)
(***************************************************************************)
EXTENDS GrpcSession, SequenceTheorems, FiniteSetTheorems, WellFoundedInduction, TLAPS

Byte == 0..255
BigEndian(a, b, c, d) == ((a * kOctets + b) * kOctets + c) * kOctets + d
K2   == kOctets * kOctets
K3   == kOctets * kOctets * kOctets

-----------------------------------------------------------------------------
(* The envelope. *)

LEMMA ByteFacts == Bytes = Seq(Byte) /\ kEnvelopeSize = 5
  BY DEF Bytes, Byte, kOctets, kEnvelopeSize

(* One more byte at the end of a number. *)
LEMMA Shifted ==
    ASSUME NEW a \in Nat, NEW b \in Byte, NEW v, v = a * kOctets + b
    PROVE  v \in Nat /\ v \div kOctets = a /\ v % kOctets = b
  BY SMT DEF Byte, kOctets

(* The last byte of a number, and the number before it. *)
LEMMA LastByte ==
    ASSUME NEW v \in Nat
    PROVE  v \div kOctets \in Nat /\ v % kOctets \in Byte /\ v = (v \div kOctets) * kOctets + (v % kOctets)
  BY SMT DEF Byte, kOctets

LEMMA ShiftTwice ==
    ASSUME NEW v \in Nat
    PROVE  /\ v \div K2 = (v \div kOctets) \div kOctets
           /\ v \div K3 = ((v \div kOctets) \div kOctets) \div kOctets
  BY SMT DEF K2, K3, kOctets

(* The four bytes of a number below 2^32 give it back. *)
LEMMA FourBytes ==
    ASSUME NEW v \in Nat
    PROVE  /\ (v \div K3) % kOctets \in Byte /\ (v \div K2) % kOctets \in Byte
           /\ (v \div kOctets) % kOctets \in Byte /\ v % kOctets \in Byte
           /\ v \div K3 < kOctets =>
                BigEndian((v \div K3) % kOctets, (v \div K2) % kOctets,
                          (v \div kOctets) % kOctets, v % kOctets) = v
  <1> DEFINE q1 == v \div kOctets
             q2 == q1 \div kOctets
             q3 == q2 \div kOctets
  <1>1. q1 \in Nat /\ v % kOctets \in Byte /\ v = q1 * kOctets + (v % kOctets)
    BY LastByte
  <1>2. v \div K2 = q2 /\ v \div K3 = q3
    BY ShiftTwice
  <1> HIDE DEF q1
  <1>3. q2 \in Nat /\ q1 % kOctets \in Byte /\ q1 = q2 * kOctets + (q1 % kOctets)
    BY <1>1, LastByte
  <1> HIDE DEF q2
  <1>4. q3 \in Nat /\ q2 % kOctets \in Byte /\ q2 = q3 * kOctets + (q2 % kOctets)
    BY <1>3, LastByte
  <1> HIDE DEF q3
  <1>5. q3 % kOctets \in Byte
    BY <1>4, LastByte
  <1>6. ASSUME q3 < kOctets PROVE q3 % kOctets = q3
    BY <1>4, <1>6, SMT DEF kOctets
  <1>7. q3 < kOctets => BigEndian(q3 % kOctets, q2 % kOctets, q1 % kOctets, v % kOctets) = v
    BY <1>1, <1>3, <1>4, <1>6 DEF BigEndian
  <1> QED
    BY <1>1, <1>2, <1>3, <1>4, <1>5, <1>7 DEF q1

(* Four bytes are the bytes of the number they spell. *)
LEMMA BytesOfFour ==
    ASSUME NEW a \in Byte, NEW b \in Byte, NEW c \in Byte, NEW d \in Byte,
           NEW v, v = BigEndian(a, b, c, d)
    PROVE  /\ v \in Nat
           /\ (v \div K3) % kOctets = a /\ (v \div K2) % kOctets = b
           /\ (v \div kOctets) % kOctets = c /\ v % kOctets = d
  <1> DEFINE x == a * kOctets + b
             y == x * kOctets + c
  <1>1. a \in Nat /\ a % kOctets = a
    BY SMT DEF Byte, kOctets
  <1>2. x \in Nat /\ x \div kOctets = a /\ x % kOctets = b
    BY <1>1, Shifted
  <1>3. v = y * kOctets + d /\ d \in Byte
    BY DEF BigEndian
  <1> HIDE DEF x
  <1>4. y \in Nat /\ y \div kOctets = x /\ y % kOctets = c
    BY <1>2, Shifted
  <1> HIDE DEF y
  <1>5. v \in Nat /\ v \div kOctets = y /\ v % kOctets = d
    BY <1>3, <1>4, Shifted
  <1> QED
    BY <1>1, <1>2, <1>4, <1>5, ShiftTwice

(* Two sequences put together, element by element. *)
LEMMA Joined ==
    ASSUME NEW S, NEW a \in Seq(S), NEW b \in Seq(S)
    PROVE  /\ a \o b \in Seq(S) /\ Len(a \o b) = Len(a) + Len(b)
           /\ \A i \in 1..Len(a) : (a \o b)[i] = a[i]
           /\ \A i \in 1..Len(b) : (a \o b)[i + Len(a)] = b[i]
  <1>1. Len(a) \in Nat /\ Len(b) \in Nat
    OBVIOUS
  <1>2. /\ a \o b \in Seq(S) /\ Len(a \o b) = Len(a) + Len(b)
        /\ \A i \in 1..(Len(a) + Len(b)) :
               (a \o b)[i] = IF i <= Len(a) THEN a[i] ELSE b[i - Len(a)]
    BY ConcatProperties
  <1>3. ASSUME NEW i \in 1..Len(b) PROVE (a \o b)[i + Len(a)] = b[i]
    <2>1. i + Len(a) \in 1..(Len(a) + Len(b)) /\ ~(i + Len(a) <= Len(a)) /\ (i + Len(a)) - Len(a) = i
      BY <1>1
    <2> QED
      BY <1>2, <2>1
  <1> QED
    BY <1>1, <1>2, <1>3

(* The message that encode_unary_message writes, byte by byte. *)
LEMMA Encoded ==
    ASSUME NEW p \in Seq(Byte)
    PROVE  LET m == encode_unary_message(p)
               n == Len(p)
           IN  /\ m \in Seq(Byte) /\ Len(m) = n + 5
               /\ m[1] = 0
               /\ m[2] = (n \div K3) % kOctets /\ m[3] = (n \div K2) % kOctets
               /\ m[4] = (n \div kOctets) % kOctets /\ m[5] = n % kOctets
               /\ \A i \in 1..n : m[i + 5] = p[i]
  <1> DEFINE n == Len(p)
             four == << (n \div K3) % kOctets, (n \div K2) % kOctets,
                        (n \div kOctets) % kOctets, n % kOctets >>
  <1>1. n \in Nat
    OBVIOUS
  <1>2. four \in Seq(Byte) /\ Len(four) = 4
    BY <1>1, FourBytes
  <1>3. <<0>> \in Seq(Byte)
    BY DEF Byte
  <1>4. encode_unary_message(p) = (<<0>> \o four) \o p
    BY <1>1, SMT DEF encode_unary_message, append_big_endian_u32, kUncompressedFlag, kOctets, K2, K3
  <1>5. /\ four[1] = (n \div K3) % kOctets /\ four[2] = (n \div K2) % kOctets
        /\ four[3] = (n \div kOctets) % kOctets /\ four[4] = n % kOctets
    OBVIOUS
  <1> HIDE DEF four
  <1> DEFINE h == <<0>> \o four
  <1>6. /\ h \in Seq(Byte) /\ Len(h) = 5 /\ h[1] = 0
        /\ h[2] = four[1] /\ h[3] = four[2] /\ h[4] = four[3] /\ h[5] = four[4]
    <2> DEFINE z == <<0>>
    <2>1. z \in Seq(Byte) /\ Len(z) = 1 /\ z[1] = 0
      BY <1>3
    <2> HIDE DEF z
    <2>2. /\ z \o four \in Seq(Byte) /\ Len(z \o four) = Len(z) + Len(four)
          /\ \A i \in 1..Len(z) : (z \o four)[i] = z[i]
          /\ \A i \in 1..Len(four) : (z \o four)[i + Len(z)] = four[i]
      <3>1. z \in Seq(Byte)
        BY <2>1
      <3>2. four \in Seq(Byte)
        BY <1>2
      <3> QED
        BY <3>1, <3>2, Joined
    <2>3. /\ z \o four \in Seq(Byte) /\ Len(z \o four) = 5 /\ (z \o four)[1] = 0
          /\ \A i \in 1..4 : (z \o four)[i + 1] = four[i]
      BY <1>2, <2>1, <2>2
    <2>4. /\ (z \o four)[1 + 1] = four[1] /\ (z \o four)[2 + 1] = four[2]
          /\ (z \o four)[3 + 1] = four[3] /\ (z \o four)[4 + 1] = four[4]
      BY <2>3
    <2>5. h = z \o four
      BY DEF z
    <2> HIDE DEF h
    <2> QED
      BY <2>3, <2>4, <2>5
  <1> HIDE DEF h
  <1>7. /\ h \o p \in Seq(Byte) /\ Len(h \o p) = n + 5
        /\ \A i \in 1..5 : (h \o p)[i] = h[i]
        /\ \A i \in 1..n : (h \o p)[i + 5] = p[i]
    <2>1. h \in Seq(Byte) /\ p \in Seq(Byte)
      BY <1>6
    <2>2. /\ h \o p \in Seq(Byte) /\ Len(h \o p) = Len(h) + Len(p)
          /\ \A i \in 1..Len(h) : (h \o p)[i] = h[i]
          /\ \A i \in 1..Len(p) : (h \o p)[i + Len(h)] = p[i]
      BY <2>1, Joined
    <2> QED
      BY <1>1, <1>6, <2>2
  <1>8. encode_unary_message(p) = h \o p
    BY <1>4 DEF h
  <1> QED
    BY <1>5, <1>6, <1>7, <1>8

(* The length field of a message that has an envelope. *)
LEMMA LengthField ==
    ASSUME NEW b \in Seq(Byte), Len(b) >= 5
    PROVE  /\ b[1] \in Byte /\ b[2] \in Byte /\ b[3] \in Byte /\ b[4] \in Byte /\ b[5] \in Byte
           /\ read_big_endian_u32(SubSeq(b, 2, 5)) = BigEndian(b[2], b[3], b[4], b[5])
           /\ read_big_endian_u32(SubSeq(b, 2, 5)) \in Nat
  <1>1. /\ b[1] \in Byte /\ b[2] \in Byte /\ b[3] \in Byte /\ b[4] \in Byte /\ b[5] \in Byte
    OBVIOUS
  <1>2. LET f == SubSeq(b, 2, 5) IN f[1] = b[2] /\ f[2] = b[3] /\ f[3] = b[4] /\ f[4] = b[5]
    OBVIOUS
  <1>3. read_big_endian_u32(SubSeq(b, 2, 5)) = BigEndian(b[2], b[3], b[4], b[5])
    BY <1>2 DEF read_big_endian_u32, BigEndian
  <1>4. \A a, b1, c, d \in Byte : \A v : v = BigEndian(a, b1, c, d) => v \in Nat
    BY BytesOfFour
  <1>5. read_big_endian_u32(SubSeq(b, 2, 5)) \in Nat
    BY <1>1, <1>3, <1>4, Zenon
  <1> QED
    BY <1>1, <1>3, <1>5

(* What a handler returns within the limit reaches the client as it was: the  *)
(* message that encode_unary_message writes is one that decode_unary_message  *)
(* accepts, and its payload is the one that went in.                          *)
THEOREM EnvelopeRoundTrip ==
    ASSUME NEW p \in Bytes, NEW max \in Nat,
           max \div (kOctets * kOctets * kOctets) < kOctets,
           encode_error(p, max) = "none"
    PROVE  /\ decode_error(encode_unary_message(p), max) = "none"
           /\ decode_unary_message(encode_unary_message(p)) = p
  <1> DEFINE m == encode_unary_message(p)
             n == Len(p)
  <1>1. p \in Seq(Byte) /\ n \in Nat /\ n <= max /\ max \div K3 < kOctets
    BY ByteFacts DEF encode_error, K3
  <1>2. n \div K3 < kOctets
    BY <1>1, SMT DEF K3, kOctets
  <1>3. /\ m \in Seq(Byte) /\ Len(m) = n + 5 /\ m[1] = 0
        /\ m[2] = (n \div K3) % kOctets /\ m[3] = (n \div K2) % kOctets
        /\ m[4] = (n \div kOctets) % kOctets /\ m[5] = n % kOctets
        /\ \A i \in 1..n : m[i + 5] = p[i]
    BY <1>1, Encoded
  <1> HIDE DEF m
  <1>4. read_big_endian_u32(SubSeq(m, 2, 5)) = n
    <2>1. Len(m) >= 5
      BY <1>1, <1>3
    <2>2. read_big_endian_u32(SubSeq(m, 2, 5)) = BigEndian(m[2], m[3], m[4], m[5])
      BY <1>3, <2>1, LengthField
    <2> QED
      BY <1>1, <1>2, <1>3, <2>2, FourBytes
  <1>5. decode_error(m, max) = "none"
    BY <1>1, <1>3, <1>4 DEF decode_error, kEnvelopeSize, kUncompressedFlag
  <1>6. SubSeq(m, 6, Len(m)) = p
    <2>1. SubSeq(m, 6, n + 5) \in Seq(Byte) /\ Len(SubSeq(m, 6, n + 5)) = n
      BY <1>1, <1>3
    <2>2. \A i \in 1..n : SubSeq(m, 6, n + 5)[i] = p[i]
      BY <1>1, <1>3
    <2> QED
      BY <1>1, <1>3, <2>1, <2>2
  <1> QED
    BY <1>5, <1>6 DEF decode_unary_message, kEnvelopeSize, m

(* A message that decode_unary_message accepts is the encoding of its body. *)
LEMMA AcceptedIsEncoded ==
    ASSUME NEW b \in Seq(Byte), NEW max \in Nat, decode_error(b, max) = "none"
    PROVE  /\ Len(b) >= 5
           /\ b = encode_unary_message(SubSeq(b, 6, Len(b)))
           /\ Len(SubSeq(b, 6, Len(b))) <= max
  <1> DEFINE p == SubSeq(b, 6, Len(b))
             m == encode_unary_message(p)
             v == read_big_endian_u32(SubSeq(b, 2, 5))
  <1>1. Len(b) >= 5 /\ b[1] = 0 /\ ~(v > max) /\ Len(b) = 5 + v
    BY DEF decode_error, kEnvelopeSize, kUncompressedFlag
  <1>2. /\ v \in Nat /\ v = BigEndian(b[2], b[3], b[4], b[5])
        /\ b[2] \in Byte /\ b[3] \in Byte /\ b[4] \in Byte /\ b[5] \in Byte
    BY <1>1, LengthField
  <1> HIDE DEF v
  <1>3. p \in Seq(Byte) /\ Len(p) = v /\ \A i \in 1..v : p[i] = b[i + 5]
    BY <1>1, <1>2
  <1> HIDE DEF p
  <1>4. /\ m \in Seq(Byte) /\ Len(m) = v + 5 /\ m[1] = 0
        /\ m[2] = (v \div K3) % kOctets /\ m[3] = (v \div K2) % kOctets
        /\ m[4] = (v \div kOctets) % kOctets /\ m[5] = v % kOctets
        /\ \A i \in 1..v : m[i + 5] = p[i]
    <2>1. /\ m \in Seq(Byte) /\ Len(m) = Len(p) + 5 /\ m[1] = 0
          /\ m[2] = (Len(p) \div K3) % kOctets /\ m[3] = (Len(p) \div K2) % kOctets
          /\ m[4] = (Len(p) \div kOctets) % kOctets /\ m[5] = Len(p) % kOctets
          /\ \A i \in 1..Len(p) : m[i + 5] = p[i]
      BY <1>3, Encoded, Zenon
    <2> QED
      BY <1>3, <2>1, Zenon
  <1> HIDE DEF m
  <1>5. m[2] = b[2] /\ m[3] = b[3] /\ m[4] = b[4] /\ m[5] = b[5]
    <2>2. /\ (v \div K3) % kOctets = b[2] /\ (v \div K2) % kOctets = b[3]
          /\ (v \div kOctets) % kOctets = b[4] /\ v % kOctets = b[5]
      <3> DEFINE x2 == b[2]
                 x3 == b[3]
                 x4 == b[4]
                 x5 == b[5]
      <3>1. /\ v = BigEndian(x2, x3, x4, x5)
            /\ x2 \in Byte /\ x3 \in Byte /\ x4 \in Byte /\ x5 \in Byte
        BY <1>2
      <3> HIDE DEF x2, x3, x4, x5
      <3>2. /\ (v \div K3) % kOctets = x2 /\ (v \div K2) % kOctets = x3
            /\ (v \div kOctets) % kOctets = x4 /\ v % kOctets = x5
        BY <3>1, BytesOfFour
      <3> QED
        BY <3>2 DEF x2, x3, x4, x5
    <2> QED
      BY <1>4, <2>2
  <1>6. \A i \in 6..Len(b) : m[i] = b[i]
    <2> SUFFICES ASSUME NEW i \in 6..Len(b) PROVE m[i] = b[i]
      OBVIOUS
    <2>1. i - 5 \in 1..v /\ (i - 5) + 5 = i
      BY <1>1, <1>2
    <2> QED
      BY <1>3, <1>4, <2>1
  <1>7. \A i \in 1..Len(b) : m[i] = b[i]
    <2>1. \A i \in 1..Len(b) : i = 1 \/ i = 2 \/ i = 3 \/ i = 4 \/ i = 5 \/ i \in 6..Len(b)
      BY <1>1
    <2> QED
      BY <1>1, <1>4, <1>5, <1>6, <2>1, Zenon
  <1>8. m = b
    <2>1. m \in Seq(Byte) /\ b \in Seq(Byte) /\ Len(m) = Len(b)
      BY <1>1, <1>2, <1>4
    <2> QED
      BY <1>7, <2>1
  <1> QED
    BY <1>1, <1>2, <1>3, <1>8 DEF m, p

(* The verdict on a message is the one its bytes call for. *)
LEMMA EnvelopeVerdict ==
    ASSUME NEW req, req.bytes \in Seq(Byte)
    PROVE  LET e == decode_error(req.bytes, MaxMessage)
           IN  (IF e = "none" THEN "none" ELSE status_for_decode_error(e))
                 = IF WellFormed(req) THEN "none"
                   ELSE IF Len(req.bytes) >= kEnvelopeSize /\ req.bytes[1] # 0 THEN "Unimplemented"
                   ELSE IF Len(req.bytes) >= kEnvelopeSize /\ Announced(req) > MaxMessage
                   THEN "ResourceExhausted" ELSE "Internal"
  <1> DEFINE b == req.bytes
             e == decode_error(b, MaxMessage)
             v == read_big_endian_u32(SubSeq(b, 2, 5))
  <1>1. MaxMessage \in Nat /\ MaxMessage \div (kOctets * kOctets * kOctets) < kOctets
    BY SessionAssumption, MessageAssumption
  <1>2. b \in Seq(Byte) /\ Len(b) \in Nat
    OBVIOUS
  <1>3. Body(req) = SubSeq(b, 6, Len(b)) /\ Body(req) \in Seq(Byte)
    <2>1. Body(req) = SubSeq(b, 6, Len(b))
      BY DEF Body, kEnvelopeSize
    <2> QED
      BY <1>2, <2>1
  <1>4. e = "none" <=> WellFormed(req)
    <2>1. ASSUME e = "none" PROVE WellFormed(req)
      BY <1>1, <1>2, <1>3, <2>1, AcceptedIsEncoded DEF WellFormed
    <2>2. ASSUME WellFormed(req) PROVE e = "none"
      <3>1. b = encode_unary_message(Body(req)) /\ Len(Body(req)) <= MaxMessage /\ Len(Body(req)) \in Nat
        BY <1>3, <2>2 DEF WellFormed
      <3>2. Body(req) \in Bytes /\ encode_error(Body(req), MaxMessage) = "none"
        BY <1>1, <1>3, <3>1, ByteFacts DEF encode_error
      <3> QED
        BY <1>1, <3>1, <3>2, EnvelopeRoundTrip
    <2> QED
      BY <2>1, <2>2
  <1>5. ASSUME Len(b) >= 5 PROVE Announced(req) = v /\ v \in Nat
    <2>1. /\ b[2] \in Byte /\ b[3] \in Byte /\ b[4] \in Byte /\ b[5] \in Byte
          /\ v = BigEndian(b[2], b[3], b[4], b[5]) /\ v \in Nat
      BY <1>2, <1>5, LengthField
    <2>2. \A a, c, d, x \in Byte : BigEndian(a, c, d, x)
              = a * (kOctets * kOctets * kOctets) + c * (kOctets * kOctets) + d * kOctets + x
      BY SMT DEF BigEndian, Byte, kOctets
    <2> QED
      BY <2>1, <2>2 DEF Announced
  <1>6. /\ Len(b) < 5 => e = "ProtocolError"
        /\ Len(b) >= 5 /\ b[1] # 0 => e = "CompressionUnsupported"
        /\ Len(b) >= 5 /\ b[1] = 0 /\ v > MaxMessage => e = "MessageTooLarge"
        /\ Len(b) >= 5 /\ b[1] = 0 /\ ~(v > MaxMessage) => e \in {"none", "ProtocolError"}
    BY <1>2 DEF decode_error, kEnvelopeSize, kUncompressedFlag
  <1> HIDE DEF e, v
  <1>7. CASE WellFormed(req)
    BY <1>4, <1>7 DEF e
  <1>8. CASE ~WellFormed(req)
    <2>1. e # "none"
      BY <1>4, <1>8
    <2>2. CASE Len(b) < 5
      BY <1>2, <1>6, <1>8, <2>1, <2>2 DEF status_for_decode_error, kEnvelopeSize, e
    <2>3. CASE Len(b) >= 5 /\ b[1] # 0
      BY <1>2, <1>6, <1>8, <2>1, <2>3 DEF status_for_decode_error, kEnvelopeSize, e
    <2>4. CASE Len(b) >= 5 /\ b[1] = 0 /\ v > MaxMessage
      BY <1>2, <1>5, <1>6, <1>8, <2>1, <2>4 DEF status_for_decode_error, kEnvelopeSize, e
    <2>5. CASE Len(b) >= 5 /\ b[1] = 0 /\ ~(v > MaxMessage)
      BY <1>2, <1>5, <1>6, <1>8, <2>1, <2>5 DEF status_for_decode_error, kEnvelopeSize, e
    <2> QED
      BY <1>2, <2>2, <2>3, <2>4, <2>5
  <1> QED
    BY <1>7, <1>8

-----------------------------------------------------------------------------
(* The header callbacks: what on_header leaves after the last header. *)

LEMMA LeastNumber ==
    ASSUME NEW T, T \subseteq Nat, T # {}
    PROVE  \E k \in T : \A j \in T : k <= j
  <1> DEFINE R == OpToRel(<, Nat)
  <1>1. IsWellFoundedOn(R, Nat)
    BY NatLessThanWellFounded
  <1>2. \A i, j \in Nat : j < i => <<j, i>> \in R
    BY DEF OpToRel
  <1> HIDE DEF R
  <1>3. PICK i \in T : \A j \in T : ~(<<j, i>> \in R)
    BY <1>1, WFMin
  <1>4. ASSUME NEW j \in T PROVE i <= j
    <2>1. i \in Nat /\ j \in Nat
      OBVIOUS
    <2>2. ~(j < i)
      BY <1>2, <1>3, <2>1
    <2> QED
      BY <2>1, <2>2
  <1> QED
    BY <1>4

Field == [name : STRING, value : STRING]
Fresh == [StreamState EXCEPT !.known = TRUE]

(* g[i] is the state after i headers. *)
Runs(g, h, n) == g[0] = Fresh /\ \A i \in 1..n : g[i] = on_header(g[i - 1], h[i])

(* The callbacks of any number of headers have an outcome. *)
LEMMA RunExists ==
    ASSUME NEW h, NEW n \in Nat
    PROVE  \E g : Runs(g, h, n)
  <1> SUFFICES ASSUME ~(\E g : Runs(g, h, n)) PROVE FALSE
    OBVIOUS
  <1> DEFINE Bad == {k \in Nat : ~(\E g : Runs(g, h, k))}
  <1>1. PICK k \in Bad : \A j \in Bad : k <= j
    <2>1. n \in Bad /\ Bad \subseteq Nat
      OBVIOUS
    <2> HIDE DEF Bad
    <2> QED
      BY <2>1, LeastNumber
  <1>2. k \in Nat /\ ~(\E g : Runs(g, h, k))
    OBVIOUS
  <1>3. k # 0
    <2>1. Runs([i \in {0} |-> Fresh], h, 0)
      BY DEF Runs
    <2> QED
      BY <1>2, <2>1
  <1>4. k - 1 \in Nat /\ ~(k <= k - 1)
    BY <1>2, <1>3
  <1>5. k - 1 \notin Bad
    BY <1>1, <1>4
  <1>6. PICK g : Runs(g, h, k - 1)
    BY <1>4, <1>5
  <1> DEFINE f == [i \in 0..k |-> IF i = k THEN on_header(g[k - 1], h[k]) ELSE g[i]]
  <1>7. f[0] = Fresh
    BY <1>2, <1>3, <1>6 DEF Runs
  <1>8. ASSUME NEW i \in 1..k PROVE f[i] = on_header(f[i - 1], h[i])
    <2>1. i \in 0..k /\ i - 1 \in 0..k /\ i - 1 # k
      BY <1>2
    <2>2. f[i - 1] = g[i - 1]
      BY <2>1
    <2>3. CASE i = k
      BY <2>1, <2>2, <2>3
    <2>4. CASE i # k
      <3>1. i \in 1..(k - 1)
        BY <1>2, <2>4
      <3> QED
        BY <1>6, <2>1, <2>2, <2>4, <3>1 DEF Runs
    <2> QED
      BY <2>3, <2>4
  <1> HIDE DEF f
  <1>9. Runs(f, h, k)
    BY <1>7, <1>8 DEF Runs
  <1> QED
    BY <1>2, <1>9

(* on_begin_headers is the state after the last of them. *)
LEMMA HeadersRun ==
    ASSUME NEW h \in Seq(Field)
    PROVE  \E g : Runs(g, h, Len(h)) /\ on_begin_headers(h) = g[Len(h)]
  <1> DEFINE n == Len(h)
             Rec(f) == f = [i \in 0..n |-> IF i = 0 THEN Fresh ELSE on_header(f[i - 1], h[i])]
  <1>1. n \in Nat
    OBVIOUS
  <1>2. PICK g : Runs(g, h, n)
    BY <1>1, RunExists
  <1> DEFINE f == [i \in 0..n |-> g[i]]
  <1>3. \A i \in 0..n : f[i] = IF i = 0 THEN Fresh ELSE on_header(f[i - 1], h[i])
    <2> SUFFICES ASSUME NEW i \in 0..n
                 PROVE  f[i] = IF i = 0 THEN Fresh ELSE on_header(f[i - 1], h[i])
      OBVIOUS
    <2>1. CASE i = 0
      BY <1>1, <1>2, <2>1 DEF Runs
    <2>2. CASE i # 0
      <3>1. i \in 1..n /\ i - 1 \in 0..n
        BY <1>1, <2>2
      <3>2. f[i - 1] = g[i - 1] /\ f[i] = g[i]
        BY <3>1
      <3> QED
        BY <1>2, <2>2, <3>1, <3>2 DEF Runs
    <2> QED
      BY <2>1, <2>2
  <1>4. f = [i \in 0..n |-> f[i]]
    OBVIOUS
  <1> HIDE DEF f
  <1>5. Rec(f)
    BY <1>3, <1>4
  <1> DEFINE a == CHOOSE x : Rec(x)
  <1>6. Rec(a)
    BY <1>5
  <1>7. on_begin_headers(h) = a[n]
    BY DEF on_begin_headers, Fresh
  <1> HIDE DEF a
  <1>8. \A i \in 0..n : a[i] = IF i = 0 THEN Fresh ELSE on_header(a[i - 1], h[i])
    BY <1>6
  <1>9. Runs(a, h, n)
    <2>1. 0 \in 0..n /\ \A i \in 1..n : i \in 0..n /\ i # 0
      BY <1>1
    <2> QED
      BY <1>8, <2>1 DEF Runs
  <1> QED
    BY <1>7, <1>9


Text == STRING \cup {"", "grpc-status", "grpc-message", "Ok", "ResourceExhausted",
                     "Internal", "Unimplemented"}
Line == [name : Text, value : Text]

StreamRec ==
    [known : BOOLEAN, http_method : Text, method : Text, content_type : Text,
     payload : Seq(Byte), metadata : Seq(Field), early_status : {"none", "ResourceExhausted"},
     end_stream : BOOLEAN, submitted : BOOLEAN, response : Seq(Byte), offset : Nat,
     trailers : Seq(Line), trailers_submitted : BOOLEAN]

(* Nothing was received after the headers, and nothing answered. *)
Untouched(st) ==
    /\ st.payload = <<>> /\ st.early_status = "none" /\ ~st.end_stream /\ ~st.submitted
    /\ st.response = <<>> /\ st.offset = 0 /\ st.trailers = <<>> /\ ~st.trailers_submitted

(* x is the value of the last of the first n headers with that name. *)
IsLast(x, h, n, name) ==
    \/ x = "" /\ \A j \in 1..n : h[j].name # name
    \/ \E j \in 1..n : /\ h[j].name = name /\ h[j].value = x
                       /\ \A l \in 1..n : l > j => h[l].name # name

IsMetadata(f) == ~is_pseudo(f.name) /\ ~is_reserved_metadata(f.name)

Holds(seq, x) == \E i \in DOMAIN seq : seq[i] = x

(* What the first n headers leave in the state of a stream. *)
HeadersRead(st, h, n) ==
    /\ st \in StreamRec /\ Untouched(st)
    /\ IsLast(st.http_method, h, n, ":method") /\ IsLast(st.method, h, n, ":path")
    /\ IsLast(st.content_type, h, n, "content-type")
    /\ \A x : Holds(st.metadata, x) <=> \E j \in 1..n : h[j] = x /\ IsMetadata(x)

LEMMA NoElements == \A S : <<>> \in Seq(S)
  OBVIOUS

LEMMA FreshState == StreamState \in StreamRec /\ Untouched(StreamState)
  <1>1. "" \in Text
    BY DEF Text
  <1>2. <<>> \in Seq(Byte) /\ <<>> \in Seq(Field) /\ <<>> \in Seq(Line)
    BY NoElements
  <1> HIDE DEF Text, Byte, Field, Line
  <1>3. StreamState \in StreamRec
    BY <1>1, <1>2 DEF StreamState, StreamRec
  <1>4. Untouched(StreamState)
    BY DEF StreamState, Untouched
  <1> QED
    BY <1>3, <1>4

LEMMA FreshRead ==
    ASSUME NEW h
    PROVE  HeadersRead(Fresh, h, 0)
  <1>1. Fresh \in StreamRec /\ Untouched(Fresh)
    <2>1. StreamState \in StreamRec /\ Untouched(StreamState)
      BY FreshState
    <2> QED
      BY <2>1 DEF Fresh, StreamRec, Untouched
  <1>2. Fresh.http_method = "" /\ Fresh.method = "" /\ Fresh.content_type = ""
    BY DEF Fresh, StreamState
  <1>3. \A name : IsLast("", h, 0, name)
    BY DEF IsLast
  <1>4. \A x : ~Holds(Fresh.metadata, x)
    BY DEF Fresh, StreamState, Holds
  <1>5. \A x : ~(\E j \in 1..0 : h[j] = x /\ IsMetadata(x))
    OBVIOUS
  <1> HIDE DEF Fresh
  <1> QED
    BY <1>1, <1>2, <1>3, <1>4, <1>5, Zenon DEF HeadersRead

(* One more header replaces the value of its name and of no other. *)
LEMMA LastOfMore ==
    ASSUME NEW h, NEW n \in Nat, NEW name, NEW x
    PROVE  /\ h[n + 1].name = name => IsLast(h[n + 1].value, h, n + 1, name)
           /\ h[n + 1].name # name /\ IsLast(x, h, n, name) => IsLast(x, h, n + 1, name)
  <1>1. /\ n + 1 \in 1..(n + 1) /\ \A l \in 1..(n + 1) : ~(l > n + 1)
        /\ \A l \in 1..(n + 1) : l \in 1..n \/ l = n + 1
        /\ \A l \in 1..n : l \in 1..(n + 1)
    OBVIOUS
  <1>2. ASSUME h[n + 1].name = name PROVE IsLast(h[n + 1].value, h, n + 1, name)
    BY <1>1, <1>2 DEF IsLast
  <1>3. ASSUME h[n + 1].name # name, IsLast(x, h, n, name) PROVE IsLast(x, h, n + 1, name)
    <2>1. CASE x = "" /\ \A j \in 1..n : h[j].name # name
      BY <1>1, <1>3, <2>1 DEF IsLast
    <2>2. CASE \E j \in 1..n : /\ h[j].name = name /\ h[j].value = x
                               /\ \A l \in 1..n : l > j => h[l].name # name
      BY <1>1, <1>3, <2>2 DEF IsLast
    <2> QED
      BY <1>3, <2>1, <2>2 DEF IsLast
  <1> QED
    BY <1>2, <1>3

LEMMA HoldsAppend ==
    ASSUME NEW S, NEW s \in Seq(S), NEW e \in S
    PROVE  /\ Append(s, e) \in Seq(S)
           /\ \A x : Holds(Append(s, e), x) <=> Holds(s, x) \/ x = e
  <1>1. /\ Append(s, e) \in Seq(S) /\ Len(s) \in Nat
        /\ DOMAIN s = 1..Len(s) /\ DOMAIN Append(s, e) = 1..(Len(s) + 1)
        /\ \A i \in 1..Len(s) : Append(s, e)[i] = s[i]
        /\ Append(s, e)[Len(s) + 1] = e
    OBVIOUS
  <1>2. /\ Len(s) + 1 \in 1..(Len(s) + 1) /\ \A i \in 1..Len(s) : i \in 1..(Len(s) + 1)
        /\ \A i \in 1..(Len(s) + 1) : i \in 1..Len(s) \/ i = Len(s) + 1
    BY <1>1
  <1> QED
    BY <1>1, <1>2 DEF Holds

(* The fields on_header may change, and those it does not. *)
LEMMA OnHeader ==
    ASSUME NEW st \in StreamRec, NEW f \in Field
    PROVE  LET r == on_header(st, f)
           IN  /\ r \in StreamRec
               /\ Untouched(st) => Untouched(r)
               /\ r.http_method = IF f.name = ":method" THEN f.value ELSE st.http_method
               /\ r.method = IF f.name = ":path" THEN f.value ELSE st.method
               /\ r.content_type = IF f.name = "content-type" THEN f.value ELSE st.content_type
               /\ r.metadata = IF IsMetadata(f) THEN Append(st.metadata, f) ELSE st.metadata
  <1>1. f.value \in Text /\ st.metadata \in Seq(Field) /\ Append(st.metadata, f) \in Seq(Field)
    <2>1. f.value \in STRING /\ st.metadata \in Seq(Field)
      BY DEF Field, StreamRec
    <2>2. Append(st.metadata, f) \in Seq(Field)
      BY <2>1
    <2> QED
      BY <2>1, <2>2 DEF Text
  <1>2. CASE f.name = ":method"
    <2>1. on_header(st, f) = [st EXCEPT !.http_method = f.value]
      BY <1>2 DEF on_header
    <2>2. ~IsMetadata(f) /\ f.name # ":path" /\ f.name # "content-type"
      BY <1>2 DEF IsMetadata, is_pseudo
    <2> QED
      BY <1>1, <1>2, <2>1, <2>2 DEF StreamRec, Untouched
  <1>3. CASE f.name = ":path"
    <2>1. on_header(st, f) = [st EXCEPT !.method = f.value]
      BY <1>3 DEF on_header
    <2>2. ~IsMetadata(f) /\ f.name # ":method" /\ f.name # "content-type"
      BY <1>3 DEF IsMetadata, is_pseudo
    <2> QED
      BY <1>1, <1>3, <2>1, <2>2 DEF StreamRec, Untouched
  <1>4. CASE f.name = "content-type"
    <2>1. on_header(st, f) = [st EXCEPT !.content_type = f.value]
      BY <1>4 DEF on_header
    <2>2. ~IsMetadata(f) /\ f.name # ":method" /\ f.name # ":path"
      BY <1>4 DEF IsMetadata, is_reserved_metadata
    <2> QED
      BY <1>1, <1>4, <2>1, <2>2 DEF StreamRec, Untouched
  <1>5. CASE f.name \notin {":method", ":path", "content-type"} /\ IsMetadata(f)
    <2>1. on_header(st, f) = [st EXCEPT !.metadata = Append(@, f)]
      BY <1>5 DEF on_header, IsMetadata
    <2> QED
      BY <1>1, <1>5, <2>1 DEF StreamRec, Untouched
  <1>6. CASE f.name \notin {":method", ":path", "content-type"} /\ ~IsMetadata(f)
    <2>1. on_header(st, f) = st
      BY <1>6 DEF on_header, IsMetadata
    <2> QED
      BY <1>6, <2>1
  <1> QED
    BY <1>2, <1>3, <1>4, <1>5, <1>6

LEMMA OneMoreHeader ==
    ASSUME NEW h, NEW n \in Nat, h[n + 1] \in Field, NEW st, HeadersRead(st, h, n)
    PROVE  HeadersRead(on_header(st, h[n + 1]), h, n + 1)
  <1> DEFINE f == h[n + 1]
             r == on_header(st, f)
  <1>1. st \in StreamRec /\ Untouched(st) /\ f \in Field /\ st.metadata \in Seq(Field)
    BY DEF HeadersRead, StreamRec
  <1>2. /\ r \in StreamRec /\ Untouched(r)
        /\ r.http_method = IF f.name = ":method" THEN f.value ELSE st.http_method
        /\ r.method = IF f.name = ":path" THEN f.value ELSE st.method
        /\ r.content_type = IF f.name = "content-type" THEN f.value ELSE st.content_type
        /\ r.metadata = IF IsMetadata(f) THEN Append(st.metadata, f) ELSE st.metadata
    BY <1>1, OnHeader
  <1> HIDE DEF r
  <1>3. /\ IsLast(r.http_method, h, n + 1, ":method") /\ IsLast(r.method, h, n + 1, ":path")
        /\ IsLast(r.content_type, h, n + 1, "content-type")
    BY <1>2, LastOfMore DEF HeadersRead
  <1>4. \A x : Holds(r.metadata, x) <=> \E j \in 1..(n + 1) : h[j] = x /\ IsMetadata(x)
    <2>1. \A x : Holds(st.metadata, x) <=> \E j \in 1..n : h[j] = x /\ IsMetadata(x)
      BY DEF HeadersRead
    <2>2. /\ n + 1 \in 1..(n + 1) /\ \A l \in 1..n : l \in 1..(n + 1)
          /\ \A l \in 1..(n + 1) : l \in 1..n \/ l = n + 1
      OBVIOUS
    <2>3. CASE IsMetadata(f)
      <3>1. \A x : Holds(r.metadata, x) <=> Holds(st.metadata, x) \/ x = f
        BY <1>1, <1>2, <2>3, HoldsAppend
      <3> QED
        BY <2>1, <2>2, <2>3, <3>1, Zenon
    <2>4. CASE ~IsMetadata(f)
      <3>1. r.metadata = st.metadata
        BY <1>2, <2>4
      <3> QED
        BY <2>1, <2>2, <2>4, <3>1, Zenon
    <2> QED
      BY <2>3, <2>4
  <1> QED
    BY <1>2, <1>3, <1>4 DEF HeadersRead, r

(* After the last header the state holds what the headers say. *)
LEMMA AllHeadersRead ==
    ASSUME NEW h \in Seq(Field)
    PROVE  HeadersRead(on_begin_headers(h), h, Len(h))
  <1> DEFINE n == Len(h)
  <1>1. n \in Nat /\ \A i \in 1..n : h[i] \in Field
    OBVIOUS
  <1>2. PICK g : Runs(g, h, n) /\ on_begin_headers(h) = g[n]
    BY HeadersRun
  <1> DEFINE Bad == {k \in Nat : k <= n /\ ~HeadersRead(g[k], h, k)}
  <1>3. Bad = {}
    <2> SUFFICES ASSUME Bad # {} PROVE FALSE
      OBVIOUS
    <2>1. PICK k \in Bad : \A j \in Bad : k <= j
      <3>1. Bad \subseteq Nat
        OBVIOUS
      <3> HIDE DEF Bad
      <3> QED
        BY <3>1, LeastNumber
    <2>2. k \in Nat /\ k <= n /\ ~HeadersRead(g[k], h, k)
      OBVIOUS
    <2>3. k # 0
      BY <1>2, <2>2, FreshRead DEF Runs
    <2>4. /\ k - 1 \in Nat /\ k - 1 <= n /\ ~(k <= k - 1) /\ k \in 1..n /\ (k - 1) + 1 = k
      BY <1>1, <2>2, <2>3
    <2>5. HeadersRead(g[k - 1], h, k - 1)
      BY <2>1, <2>4
    <2>6. g[k] = on_header(g[k - 1], h[k])
      BY <1>2, <2>4 DEF Runs
    <2>7. h[k] \in Field
      BY <1>1, <2>4
    <2>8. HeadersRead(on_header(g[k - 1], h[k]), h, k)
      <3> DEFINE m == k - 1
      <3>1. m \in Nat /\ m + 1 = k /\ HeadersRead(g[m], h, m) /\ h[m + 1] \in Field
        BY <2>4, <2>5, <2>7
      <3> HIDE DEF m
      <3>2. HeadersRead(on_header(g[m], h[m + 1]), h, m + 1)
        BY <3>1, OneMoreHeader
      <3>3. g[m] = g[k - 1]
        BY DEF m
      <3> QED
        BY <3>1, <3>2, <3>3, Zenon
    <2> QED
      BY <2>2, <2>6, <2>8
  <1> HIDE DEF Bad
  <1>4. n \notin Bad
    BY <1>3
  <1> QED
    BY <1>1, <1>2, <1>4 DEF Bad

-----------------------------------------------------------------------------
(* The inductive invariant.  A stream is described by its state, its request, *)
(* the bytes sent of it, its link and what went out; no action relates two    *)
(* streams.                                                                   *)

WireRec == [headers : BOOLEAN, data : Seq(Byte), trailers : Seq(Line)]

StreamType(st, req, n, l, w) ==
    /\ st \in StreamRec /\ n \in Nat /\ w \in WireRec
    /\ l \in {"idle", "open", "half", "closed"}
    /\ l # "idle" => req \in Requests

(* Before its headers nothing is known of a stream. *)
IdleOK(st, n, w) == Untouched(st) /\ n = 0 /\ w = Silent

(* The state holds what the headers said ... *)
ReadOK(st, req) ==
    /\ st.http_method = Header(req, ":method") /\ st.method = Header(req, ":path")
    /\ st.content_type = Header(req, "content-type")
    /\ ToSet(st.metadata) = Metadata(req)

(* ... and the bytes sent so far, unless they pass the limit. *)
BodyOK(st, req, n, l) ==
    /\ n <= Len(req.bytes) /\ Len(st.payload) <= MaxMessage + 5
    /\ st.early_status = "none" => st.payload = SubSeq(req.bytes, 1, n)
    /\ st.early_status # "none" => Len(req.bytes) > MaxMessage + 5
    /\ st.end_stream => n = Len(req.bytes)
    /\ l = "open" => ~st.end_stream
    /\ st.submitted => st.end_stream

(* Until the answer is decided nothing goes out. *)
UnansweredOK(st, w) ==
    st.trailers = <<>> =>
        st.response = <<>> /\ st.offset = 0 /\ ~st.trailers_submitted /\ w = Silent

(* i is the one status line of the trailers. *)
IsStatus(trailers, i) ==
    /\ i \in DOMAIN trailers /\ trailers[i].name = "grpc-status"
    /\ \A j \in DOMAIN trailers : trailers[j].name = "grpc-status" => j = i

(* The answer that is decided is the one the request calls for. *)
Deserved(trailers, response, req) ==
    \E i \in DOMAIN trailers :
        /\ IsStatus(trailers, i)
        /\ trailers[i].value = "Ok" => decode_error(response, MaxMessage) = "none"
        /\ Expected(req) # "none" => trailers[i].value = Expected(req) /\ response = <<>>

AnsweredOK(st, req) ==
    st.trailers # <<>> => st.submitted /\ Deserved(st.trailers, st.response, req)

(* What went out is the part of it that on_data_read has handed over. *)
WireOK(st, w) ==
    /\ st.offset <= Len(st.response) /\ w.data = SubSeq(st.response, 1, st.offset)
    /\ w.data # <<>> => w.headers
    /\ st.trailers_submitted => st.offset = Len(st.response) /\ w.headers
    /\ w.trailers # <<>> => st.trailers_submitted /\ w.trailers = st.trailers

StreamOK(st, req, n, l, w) ==
    /\ StreamType(st, req, n, l, w)
    /\ l = "idle" => IdleOK(st, n, w)
    /\ l # "idle" => ReadOK(st, req) /\ BodyOK(st, req, n, l)
    /\ UnansweredOK(st, w) /\ AnsweredOK(st, req) /\ WireOK(st, w)

Call == Streams \X Seq(Byte) \X Seq(Field)

TypeOK ==
    /\ pc \in {"read", "recv", "process", "handler", "flush", "ended"}
    /\ ready \in Seq(Streams) /\ current \in Streams
    /\ broken \in BOOLEAN /\ calls \in Seq(Call)
    /\ DOMAIN streams = Streams /\ DOMAIN request = Streams /\ DOMAIN sent = Streams
    /\ DOMAIN link = Streams /\ DOMAIN wire = Streams
    /\ window \in [Streams -> Nat]

EveryStream ==
    \A s \in Streams : StreamOK(streams[s], request[s], sent[s], link[s], wire[s])

(* The handler that is awaited belongs to a stream without an answer. *)
CurrentOK ==
    pc = "handler" =>
        /\ streams[current].submitted /\ streams[current].trailers = <<>>
        /\ Expected(request[current]) = "none"

(* A call was made for a stream that is submitted, with its request. *)
CallOK(c, sts, reqs) ==
    /\ sts[c[1]].submitted /\ Expected(reqs[c[1]]) = "none"
    /\ c[2] = Body(reqs[c[1]])
    /\ ToSet(c[3]) = Metadata(reqs[c[1]])

CallsOK ==
    \A i \in DOMAIN calls :
        /\ CallOK(calls[i], streams, request)
        /\ \A j \in DOMAIN calls : calls[j][1] = calls[i][1] => j = i

IInv == TypeOK /\ EveryStream /\ CurrentOK /\ CallsOK

-----------------------------------------------------------------------------
(* What the operations do to one stream. *)

LEMMA RequestType ==
    ASSUME NEW req \in Requests
    PROVE  req.headers \in Seq(Field) /\ req.bytes \in Seq(Byte)
  BY MessageAssumption, ByteFacts DEF FieldList, Field

LEMMA ResultType ==
    ASSUME NEW r \in Results
    PROVE  r.status \in Text /\ r.trailers \in Seq(Field) /\ r.payload \in Seq(Byte)
  <1>1. r \in [status : STRING, trailers : FieldList, payload : Bytes]
    BY MessageAssumption
  <1>2. r.status \in STRING /\ r.trailers \in Seq(Field) /\ r.payload \in Seq(Byte)
    BY <1>1, ByteFacts DEF FieldList, Field
  <1> QED
    BY <1>2 DEF Text

(* The last value of a name is the one the reference takes. *)
LEMMA LastIsHeader ==
    ASSUME NEW req, req.headers \in Seq(Field), NEW x, NEW name,
           IsLast(x, req.headers, Len(req.headers), name)
    PROVE  x = Header(req, name)
  <1> DEFINE h == req.headers
             at == {i \in DOMAIN h : h[i].name = name}
  <1>1. DOMAIN h = 1..Len(h) /\ Len(h) \in Nat
    OBVIOUS
  <1>2. Header(req, name)
          = IF at = {} THEN "" ELSE h[CHOOSE i \in at : \A j \in at : j <= i].value
    BY DEF Header
  <1>3. CASE x = "" /\ \A j \in 1..Len(h) : h[j].name # name
    BY <1>1, <1>2, <1>3
  <1>4. ASSUME NEW j \in 1..Len(h), h[j].name = name, h[j].value = x,
               \A l \in 1..Len(h) : l > j => h[l].name # name
        PROVE  x = Header(req, name)
    <2>1. j \in at /\ \A l \in at : l <= j
      BY <1>1, <1>4
    <2>2. \A i \in at : (\A l \in at : l <= i) => i = j
      BY <1>1, <2>1
    <2> HIDE DEF at
    <2>3. (CHOOSE i \in at : \A l \in at : l <= i) = j
      BY <2>1, <2>2
    <2> QED
      BY <1>2, <1>4, <2>1, <2>3
  <1> QED
    BY <1>3, <1>4 DEF IsLast

LEMMA ReadFromHeaders ==
    ASSUME NEW req \in Requests
    PROVE  LET st == on_begin_headers(req.headers)
           IN  st \in StreamRec /\ Untouched(st) /\ ReadOK(st, req)
  <1> DEFINE st == on_begin_headers(req.headers)
             h == req.headers
  <1>1. h \in Seq(Field) /\ DOMAIN h = 1..Len(h)
    BY RequestType
  <1>2. HeadersRead(st, h, Len(h))
    BY <1>1, AllHeadersRead
  <1> HIDE DEF st
  <1>3. /\ st.http_method = Header(req, ":method") /\ st.method = Header(req, ":path")
        /\ st.content_type = Header(req, "content-type")
    BY <1>1, <1>2, LastIsHeader DEF HeadersRead
  <1>4. ToSet(st.metadata) = Metadata(req)
    <2>1. \A x : x \in ToSet(st.metadata) <=> Holds(st.metadata, x)
      BY DEF ToSet, Holds
    <2>2. \A x : x \in ToSet(h) <=> \E j \in 1..Len(h) : h[j] = x
      BY <1>1 DEF ToSet
    <2>3. \A x : x \in Metadata(req) <=> x \in ToSet(h) /\ IsMetadata(x)
      BY DEF Metadata, IsMetadata
    <2>4. \A x : Holds(st.metadata, x) <=> \E j \in 1..Len(h) : h[j] = x /\ IsMetadata(x)
      BY <1>2 DEF HeadersRead
    <2>5. \A x : x \in ToSet(st.metadata) <=> x \in Metadata(req)
      BY <2>1, <2>2, <2>3, <2>4, Zenon
    <2> QED
      BY <2>5
  <1> QED
    BY <1>2, <1>3, <1>4 DEF HeadersRead, ReadOK, st

(* Untouched covers everything the answer is made of. *)
LEMMA UntouchedOK ==
    ASSUME NEW st \in StreamRec, Untouched(st), NEW req
    PROVE  UnansweredOK(st, Silent) /\ AnsweredOK(st, req) /\ WireOK(st, Silent)
  <1>1. /\ st.response = <<>> /\ st.offset = 0 /\ st.trailers = <<>> /\ ~st.trailers_submitted
    BY DEF Untouched
  <1>2. /\ Silent.data = <<>> /\ Silent.trailers = <<>> /\ ~Silent.headers
    BY DEF Silent
  <1>3. SubSeq(<<>>, 1, 0) = <<>> /\ Len(<<>>) = 0
    OBVIOUS
  <1>4. UnansweredOK(st, Silent) /\ AnsweredOK(st, req)
    BY <1>1 DEF UnansweredOK, AnsweredOK
  <1>5. st.offset <= Len(st.response) /\ Silent.data = SubSeq(st.response, 1, st.offset)
    BY <1>1, <1>2, <1>3
  <1> QED
    BY <1>1, <1>2, <1>4, <1>5 DEF WireOK

LEMMA SilentType == Silent \in WireRec
  BY NoElements DEF Silent, WireRec

(* The headers of a request arrive. *)
LEMMA HeadersKeep ==
    ASSUME NEW st, NEW old, NEW n, NEW w, StreamOK(st, old, n, "idle", w),
           NEW req \in Requests, NEW end \in BOOLEAN, end <=> (req.bytes = <<>>)
    PROVE  StreamOK(on_frame_recv(on_begin_headers(req.headers), end), req, n,
                    IF end THEN "half" ELSE "open", w)
  <1> DEFINE b == on_begin_headers(req.headers)
             r == on_frame_recv(b, end)
             l == IF end THEN "half" ELSE "open"
  <1>1. n = 0 /\ w = Silent /\ w \in WireRec
    BY SilentType DEF StreamOK, IdleOK
  <1>2. b \in StreamRec /\ Untouched(b) /\ ReadOK(b, req)
    BY ReadFromHeaders
  <1>3. req.bytes \in Seq(Byte) /\ (end => Len(req.bytes) = 0) /\ Len(req.bytes) \in Nat
    BY RequestType
  <1>4. UnansweredOK(b, Silent) /\ AnsweredOK(b, req) /\ WireOK(b, Silent)
    BY <1>2, UntouchedOK
  <1> HIDE DEF b
  <1>5. /\ r \in StreamRec /\ (r.end_stream <=> end) /\ ~r.submitted
        /\ r.payload = <<>> /\ r.early_status = "none"
        /\ r.http_method = b.http_method /\ r.method = b.method
        /\ r.content_type = b.content_type /\ r.metadata = b.metadata
        /\ r.response = b.response /\ r.offset = b.offset /\ r.trailers = b.trailers
        /\ r.trailers_submitted = b.trailers_submitted
    <2>1. CASE end
      BY <1>2, <2>1 DEF on_frame_recv, StreamRec, Untouched
    <2>2. CASE ~end
      BY <1>2, <2>2 DEF on_frame_recv, StreamRec, Untouched
    <2> QED
      BY <2>1, <2>2
  <1> HIDE DEF r
  <1>6. b.trailers = <<>>
    BY <1>2 DEF Untouched
  <1>7. ReadOK(r, req)
    BY <1>2, <1>5 DEF ReadOK
  <1>8. BodyOK(r, req, n, l)
    <2>1. Len(<<>>) = 0 /\ SubSeq(req.bytes, 1, 0) = <<>> /\ 0 <= Len(req.bytes)
          /\ 0 <= MaxMessage + 5
      BY <1>3, SessionAssumption
    <2> QED
      BY <1>1, <1>3, <1>5, <2>1 DEF BodyOK
  <1>9. UnansweredOK(r, w) /\ AnsweredOK(r, req) /\ WireOK(r, w)
    BY <1>1, <1>4, <1>5, <1>6 DEF UnansweredOK, AnsweredOK, WireOK
  <1>10. StreamType(r, req, n, l, w) /\ l # "idle"
    BY <1>1, <1>5 DEF StreamType
  <1> QED
    BY <1>7, <1>8, <1>9, <1>10 DEF StreamOK, r, b


(* A prefix and the piece after it are the longer prefix. *)
LEMMA NextPiece ==
    ASSUME NEW S, NEW q \in Seq(S), NEW i \in Nat, NEW m \in Nat, i + m <= Len(q)
    PROVE  /\ SubSeq(q, i + 1, i + m) \in Seq(S) /\ Len(SubSeq(q, i + 1, i + m)) = m
           /\ SubSeq(q, 1, i) \o SubSeq(q, i + 1, i + m) = SubSeq(q, 1, i + m)
           /\ Len(SubSeq(q, 1, i)) = i
  <1> DEFINE a == SubSeq(q, 1, i)
             c == SubSeq(q, i + 1, i + m)
             z == SubSeq(q, 1, i + m)
  <1>0. Len(q) \in Nat
    OBVIOUS
  <1>1. a \in Seq(S) /\ Len(a) = i /\ \A j \in 1..i : a[j] = q[j]
    BY <1>0
  <1>2. c \in Seq(S) /\ Len(c) = m /\ \A j \in 1..m : c[j] = q[j + i]
    BY <1>0
  <1>3. z \in Seq(S) /\ Len(z) = i + m /\ \A j \in 1..(i + m) : z[j] = q[j]
    BY <1>0
  <1> HIDE DEF a, c, z
  <1>4. /\ a \o c \in Seq(S) /\ Len(a \o c) = i + m
        /\ \A j \in 1..i : (a \o c)[j] = a[j]
        /\ \A j \in 1..m : (a \o c)[j + i] = c[j]
    <2>1. a \in Seq(S) /\ c \in Seq(S)
      BY <1>1, <1>2
    <2>2. /\ a \o c \in Seq(S) /\ Len(a \o c) = Len(a) + Len(c)
          /\ \A j \in 1..Len(a) : (a \o c)[j] = a[j]
          /\ \A j \in 1..Len(c) : (a \o c)[j + Len(a)] = c[j]
      BY <2>1, Joined
    <2> QED
      BY <1>1, <1>2, <2>2
  <1>5. ASSUME NEW j \in 1..(i + m) PROVE (a \o c)[j] = z[j]
    <2>1. CASE j \in 1..i
      BY <1>1, <1>3, <1>4, <2>1
    <2>2. CASE j \notin 1..i
      <3>1. j - i \in 1..m /\ (j - i) + i = j
        BY <2>2
      <3> QED
        BY <1>2, <1>3, <1>4, <3>1
    <2> QED
      BY <2>1, <2>2
  <1>6. a \o c = z
    BY <1>3, <1>4, <1>5
  <1> QED
    BY <1>1, <1>2, <1>6 DEF a, c, z

LEMMA NextBytes ==
    \A q \in Seq(Byte), i, m \in Nat : i + m <= Len(q) =>
        /\ SubSeq(q, i + 1, i + m) \in Seq(Byte)
        /\ SubSeq(q, 1, i) \o SubSeq(q, i + 1, i + m) = SubSeq(q, 1, i + m)
  BY NextPiece

(* A DATA frame arrives, whole or dropped. *)
LEMMA DataKeeps ==
    ASSUME NEW st, NEW req, NEW n, NEW w, StreamOK(st, req, n, "open", w),
           NEW m \in 1..(Len(req.bytes) - n), NEW end, end <=> (n + m = Len(req.bytes)),
           NEW chunk, chunk = SubSeq(req.bytes, n + 1, n + m)
    PROVE  StreamOK(on_frame_recv(on_data_chunk_recv(st, chunk), end), req, n + m,
                    IF end THEN "half" ELSE "open", w)
  <1> DEFINE d == on_data_chunk_recv(st, chunk)
             r == on_frame_recv(d, end)
             l == IF end THEN "half" ELSE "open"
             b == req.bytes
  <1>1. /\ st \in StreamRec /\ n \in Nat /\ w \in WireRec /\ req \in Requests
        /\ ReadOK(st, req) /\ BodyOK(st, req, n, "open")
        /\ UnansweredOK(st, w) /\ AnsweredOK(st, req) /\ WireOK(st, w)
    BY DEF StreamOK, StreamType
  <1>2. b \in Seq(Byte) /\ Len(b) \in Nat /\ MaxMessage \in Nat
    BY <1>1, RequestType, SessionAssumption
  <1>3. m \in Nat /\ n + m \in Nat /\ n + m <= Len(b)
    BY <1>1, <1>2
  <1>4. /\ chunk \in Seq(Byte) /\ Len(chunk) = m
        /\ SubSeq(b, 1, n) \o chunk = SubSeq(b, 1, n + m) /\ Len(SubSeq(b, 1, n)) = n
    BY <1>1, <1>2, <1>3, NextPiece
  <1>5. st.payload \in Seq(Byte) /\ Len(st.payload) \in Nat
    BY <1>1 DEF StreamRec
  <1>6. /\ ~st.end_stream /\ ~st.submitted
        /\ st.early_status = "none" => st.payload = SubSeq(b, 1, n)
        /\ st.early_status # "none" => Len(b) > MaxMessage + 5
        /\ Len(st.payload) <= MaxMessage + 5
    BY <1>1 DEF BodyOK
  <1>7. st.payload \o chunk \in Seq(Byte) /\ Len(st.payload \o chunk) = Len(st.payload) + m
    <2>1. st.payload \in Seq(Byte) /\ chunk \in Seq(Byte)
      BY <1>4, <1>5
    <2>2. st.payload \o chunk \in Seq(Byte) /\ Len(st.payload \o chunk) = Len(st.payload) + Len(chunk)
      BY <2>1, Joined
    <2> QED
      BY <1>4, <2>2
  <1>8. /\ d \in StreamRec
        /\ d.http_method = st.http_method /\ d.method = st.method
        /\ d.content_type = st.content_type /\ d.metadata = st.metadata
        /\ d.response = st.response /\ d.offset = st.offset /\ d.trailers = st.trailers
        /\ d.trailers_submitted = st.trailers_submitted
        /\ d.end_stream = st.end_stream /\ d.submitted = st.submitted
        /\ Len(d.payload) <= MaxMessage + 5
        /\ d.early_status = "none" => d.payload = SubSeq(b, 1, n + m)
        /\ d.early_status # "none" => Len(b) > MaxMessage + 5
    <2>1. CASE Len(st.payload) + Len(chunk) > MaxMessage + 5
      <3>1. d = [st EXCEPT !.early_status = "ResourceExhausted"]
        BY <2>1 DEF on_data_chunk_recv, kEnvelopeSize
      <3>2. Len(b) > MaxMessage + 5
        <4>1. CASE st.early_status = "none"
          BY <1>2, <1>3, <1>4, <1>6, <2>1, <4>1, <1>1
        <4>2. CASE st.early_status # "none"
          BY <1>6, <4>2
        <4> QED
          BY <4>1, <4>2
      <3> HIDE DEF d
      <3> QED
        BY <1>1, <1>6, <3>1, <3>2 DEF StreamRec
    <2>2. CASE ~(Len(st.payload) + Len(chunk) > MaxMessage + 5)
      <3>1. d = [st EXCEPT !.payload = st.payload \o chunk]
        BY <2>2 DEF on_data_chunk_recv, kEnvelopeSize
      <3>2. Len(st.payload \o chunk) <= MaxMessage + 5
        BY <1>2, <1>3, <1>4, <1>5, <1>7, <2>2
      <3> DEFINE y == st.payload \o chunk
      <3>3. st.early_status = "none" => y = SubSeq(b, 1, n + m)
        BY <1>4, <1>6
      <3>4. y \in Seq(Byte)
        BY <1>7
      <3> HIDE DEF d, y
      <3>5. d = [st EXCEPT !.payload = y] /\ Len(y) <= MaxMessage + 5
        BY <3>1, <3>2 DEF y
      <3> QED
        BY <1>1, <1>6, <3>3, <3>4, <3>5 DEF StreamRec
    <2> QED
      BY <2>1, <2>2
  <1> HIDE DEF d
  <1>9. /\ r \in StreamRec /\ (r.end_stream <=> end) /\ ~r.submitted
        /\ r.http_method = st.http_method /\ r.method = st.method
        /\ r.content_type = st.content_type /\ r.metadata = st.metadata
        /\ r.response = st.response /\ r.offset = st.offset /\ r.trailers = st.trailers
        /\ r.trailers_submitted = st.trailers_submitted
        /\ r.payload = d.payload /\ r.early_status = d.early_status
    <2>1. CASE end
      BY <1>6, <1>8, <2>1 DEF on_frame_recv, StreamRec
    <2>2. CASE ~end
      BY <1>6, <1>8, <2>2 DEF on_frame_recv, StreamRec
    <2> QED
      BY <2>1, <2>2
  <1> HIDE DEF r
  <1>10. ReadOK(r, req)
    BY <1>1, <1>9 DEF ReadOK
  <1>11. BodyOK(r, req, n + m, l)
    BY <1>3, <1>8, <1>9 DEF BodyOK
  <1>12. UnansweredOK(r, w) /\ WireOK(r, w)
    BY <1>1, <1>9 DEF UnansweredOK, WireOK
  <1>13. AnsweredOK(r, req)
    BY <1>1, <1>6, <1>9 DEF AnsweredOK
  <1>14. StreamType(r, req, n + m, l, w) /\ l # "idle"
    BY <1>1, <1>3, <1>9 DEF StreamType
  <1> QED
    BY <1>10, <1>11, <1>12, <1>13, <1>14 DEF StreamOK, r, d

(* The stream is reset by the client, or ended with the trailers. *)
LEMMA ClosingKeeps ==
    ASSUME NEW st, NEW req, NEW n, NEW l, NEW w, StreamOK(st, req, n, l, w), l # "idle"
    PROVE  StreamOK(st, req, n, "closed", w)
  BY DEF StreamOK, StreamType, BodyOK

(* The tests of process_ready_streams on a complete stream decide what its    *)
(* request calls for, and what they let pass is its body.                     *)
LEMMA RefusalAsExpected ==
    ASSUME NEW st \in StreamRec, NEW req \in Requests, NEW n, NEW l,
           ReadOK(st, req), BodyOK(st, req, n, l), st.end_stream
    PROVE  /\ refusal(st) = Expected(req)
           /\ refusal(st) \in {"none", "ResourceExhausted", "Internal", "Unimplemented"}
           /\ Expected(req) = "none" => decode_unary_message(st.payload) = Body(req)
  <1> DEFINE b == req.bytes
             e == decode_error(b, MaxMessage)
             verdict == IF e = "none" THEN "none" ELSE status_for_decode_error(e)
  <1>1. b \in Seq(Byte) /\ Len(b) \in Nat /\ MaxMessage \in Nat
    BY RequestType, SessionAssumption
  <1>2. n = Len(b)
    BY DEF BodyOK
  <1>3. /\ st.early_status \in {"none", "ResourceExhausted"}
        /\ st.early_status = "none" => st.payload = b /\ ~(Len(b) > MaxMessage + 5)
        /\ st.early_status # "none" => Len(b) > MaxMessage + 5
    <2>1. SubSeq(b, 1, Len(b)) = b
      BY <1>1
    <2>2. st.early_status \in {"none", "ResourceExhausted"} /\ st.payload \in Seq(Byte)
      BY DEF StreamRec
    <2>3. /\ Len(st.payload) <= MaxMessage + 5
          /\ st.early_status = "none" => st.payload = b
          /\ st.early_status # "none" => Len(b) > MaxMessage + 5
      BY <1>2, <2>1 DEF BodyOK
    <2>4. Len(b) <= MaxMessage + 5 => ~(Len(b) > MaxMessage + 5)
      BY <1>1
    <2> QED
      BY <2>2, <2>3, <2>4
  <1>4. verdict = IF WellFormed(req) THEN "none"
                  ELSE IF Len(b) >= kEnvelopeSize /\ b[1] # 0 THEN "Unimplemented"
                  ELSE IF Len(b) >= kEnvelopeSize /\ Announced(req) > MaxMessage
                  THEN "ResourceExhausted" ELSE "Internal"
    BY <1>1, EnvelopeVerdict
  <1>5. verdict \in {"none", "ResourceExhausted", "Internal", "Unimplemented"}
    BY DEF status_for_decode_error
  <1> HIDE DEF verdict
  <1>6. CASE st.early_status # "none"
    BY <1>3, <1>6 DEF refusal, Expected, kEnvelopeSize
  <1>7. CASE st.early_status = "none"
    <2>1. /\ refusal(st) = IF st.http_method # "POST" THEN "Internal"
                           ELSE IF ~starts_with_grpc_content_type(st.content_type) THEN "Internal"
                           ELSE IF st.method \notin Known THEN "Unimplemented" ELSE verdict
      BY <1>3, <1>7 DEF refusal, verdict
    <2>2. Expected(req) = IF \/ Header(req, ":method") # "POST"
                             \/ ~starts_with_grpc_content_type(Header(req, "content-type"))
                          THEN "Internal"
                          ELSE IF Header(req, ":path") \notin Known THEN "Unimplemented" ELSE verdict
      BY <1>3, <1>4, <1>7 DEF Expected, kEnvelopeSize
    <2>3. refusal(st) = Expected(req)
      BY <2>1, <2>2 DEF ReadOK
    <2>4. refusal(st) \in {"none", "ResourceExhausted", "Internal", "Unimplemented"}
      BY <1>5, <2>1
    <2>5. decode_unary_message(st.payload) = Body(req)
      BY <1>3, <1>7 DEF decode_unary_message, Body
    <2> QED
      BY <2>3, <2>4, <2>5
  <1> QED
    BY <1>6, <1>7


(* process_ready_streams takes a stream that has no answer yet. *)
LEMMA TakingKeeps ==
    ASSUME NEW st, NEW req, NEW n, NEW l, NEW w, StreamOK(st, req, n, l, w), st.end_stream
    PROVE  StreamOK([st EXCEPT !.submitted = TRUE], req, n, l, w)
  <1> DEFINE r == [st EXCEPT !.submitted = TRUE]
  <1>1. st \in StreamRec /\ l # "idle"
    BY DEF StreamOK, StreamType, IdleOK, Untouched
  <1>2. /\ r \in StreamRec /\ r.submitted /\ r.end_stream
        /\ r.http_method = st.http_method /\ r.method = st.method
        /\ r.content_type = st.content_type /\ r.metadata = st.metadata
        /\ r.payload = st.payload /\ r.early_status = st.early_status
        /\ r.end_stream = st.end_stream
        /\ r.response = st.response /\ r.offset = st.offset /\ r.trailers = st.trailers
        /\ r.trailers_submitted = st.trailers_submitted
    BY <1>1 DEF StreamRec
  <1> HIDE DEF r
  <1>3. ReadOK(r, req) /\ BodyOK(r, req, n, l)
    BY <1>1, <1>2 DEF StreamOK, ReadOK, BodyOK
  <1>4. UnansweredOK(r, w) /\ AnsweredOK(r, req) /\ WireOK(r, w)
    BY <1>2 DEF StreamOK, UnansweredOK, AnsweredOK, WireOK
  <1>5. StreamType(r, req, n, l, w)
    BY <1>2 DEF StreamOK, StreamType
  <1> QED
    BY <1>1, <1>3, <1>4, <1>5 DEF StreamOK, r

(* An answer is decided for a stream that has none. *)
LEMMA DecidingKeeps ==
    ASSUME NEW st, NEW req, NEW n, NEW l, NEW w, StreamOK(st, req, n, l, w),
           st.submitted, st.trailers = <<>>,
           NEW T \in Seq(Line), NEW R \in Seq(Byte), Deserved(T, R, req),
           NEW r, r = [st EXCEPT !.response = R, !.offset = 0, !.trailers = T,
                                 !.trailers_submitted = FALSE]
    PROVE  StreamOK(r, req, n, l, w)
  <1>1. st \in StreamRec /\ l # "idle"
    BY DEF StreamOK, StreamType, IdleOK, Untouched
  <1>2. /\ r \in StreamRec /\ r.submitted
        /\ r.http_method = st.http_method /\ r.method = st.method
        /\ r.content_type = st.content_type /\ r.metadata = st.metadata
        /\ r.payload = st.payload /\ r.early_status = st.early_status
        /\ r.end_stream = st.end_stream /\ r.submitted = st.submitted
        /\ r.response = R /\ r.offset = 0 /\ r.trailers = T /\ ~r.trailers_submitted
    BY <1>1 DEF StreamRec
  <1>3. ReadOK(r, req) /\ BodyOK(r, req, n, l)
    BY <1>1, <1>2 DEF StreamOK, ReadOK, BodyOK
  <1>4. w = Silent
    BY DEF StreamOK, UnansweredOK
  <1>5. T # <<>>
    <2>1. PICK i \in DOMAIN T : IsStatus(T, i)
      BY DEF Deserved
    <2> QED
      BY <2>1
  <1>6. UnansweredOK(r, w) /\ AnsweredOK(r, req)
    BY <1>2, <1>5 DEF UnansweredOK, AnsweredOK
  <1>7. WireOK(r, w)
    <2>1. Silent.data = <<>> /\ Silent.trailers = <<>>
      BY DEF Silent
    <2>2. SubSeq(R, 1, 0) = <<>> /\ 0 <= Len(R)
      OBVIOUS
    <2> QED
      BY <1>2, <1>4, <2>1, <2>2 DEF WireOK
  <1>8. StreamType(r, req, n, l, w)
    BY <1>2 DEF StreamOK, StreamType
  <1> QED
    BY <1>1, <1>3, <1>6, <1>7, <1>8 DEF StreamOK

StatusLine(status)  == [name |-> "grpc-status", value |-> status]
MessageLine(status) == [name |-> "grpc-message", value |-> status]

(* The trailers of an answer: the handler's own, one status, perhaps a message. *)
Trailers(own, status) ==
    Append(own, StatusLine(status)) \o (IF status = "Ok" THEN <<>> ELSE <<MessageLine(status)>>)

LEMMA OneStatus ==
    ASSUME NEW own \in Seq(Line), NEW status \in Text,
           \A i \in 1..Len(own) : own[i].name # "grpc-status"
    PROVE  LET T == Trailers(own, status)
               i == Len(own) + 1
           IN  T \in Seq(Line) /\ IsStatus(T, i) /\ T[i].value = status
  <1> DEFINE x == StatusLine(status)
             y == MessageLine(status)
             rest == IF status = "Ok" THEN <<>> ELSE <<y>>
             a == Append(own, x)
             T == Trailers(own, status)
             n == Len(own)
  <1>1. "grpc-status" \in Text /\ "grpc-message" \in Text
    BY DEF Text
  <1>2. /\ x \in Line /\ x.name = "grpc-status" /\ x.value = status
        /\ y \in Line /\ y.name = "grpc-message"
    BY <1>1 DEF Line, StatusLine, MessageLine
  <1>3. T = a \o rest
    BY DEF Trailers
  <1> HIDE DEF x, y, T
  <1>4. n \in Nat
    OBVIOUS
  <1>5. /\ a \in Seq(Line) /\ Len(a) = n + 1 /\ a[n + 1] = x
        /\ \A i \in 1..n : a[i] = own[i]
    BY <1>2, <1>4
  <1>6. /\ rest \in Seq(Line) /\ Len(rest) \in Nat /\ \A i \in 1..Len(rest) : rest[i] = y
    <2>1. CASE status = "Ok"
      BY <2>1
    <2>2. CASE status # "Ok"
      BY <1>2, <2>2
    <2> QED
      BY <2>1, <2>2
  <1> HIDE DEF a, rest
  <1>7. /\ a \o rest \in Seq(Line) /\ Len(a \o rest) = Len(a) + Len(rest)
        /\ \A i \in 1..Len(a) : (a \o rest)[i] = a[i]
        /\ \A i \in 1..Len(rest) : (a \o rest)[i + Len(a)] = rest[i]
    <2>1. a \in Seq(Line) /\ rest \in Seq(Line)
      BY <1>5, <1>6
    <2> QED
      BY <2>1, Joined
  <1> DEFINE m == Len(rest)
  <1>8. /\ T \in Seq(Line) /\ Len(T) = n + 1 + m /\ T[n + 1] = x
        /\ \A i \in 1..n : T[i].name # "grpc-status"
        /\ \A i \in 1..m : T[i + (n + 1)].name = "grpc-message"
    <2>1. T \in Seq(Line) /\ Len(T) = n + 1 + m
      BY <1>3, <1>5, <1>7
    <2>2. n + 1 \in 1..(n + 1) /\ \A i \in 1..n : i \in 1..(n + 1)
      BY <1>4
    <2>3. T[n + 1] = x /\ \A i \in 1..n : T[i] = own[i]
      BY <1>3, <1>5, <1>7, <2>2
    <2>4. \A i \in 1..m : T[i + (n + 1)] = y
      BY <1>3, <1>5, <1>6, <1>7
    <2> QED
      BY <1>2, <2>1, <2>3, <2>4
  <1> HIDE DEF m
  <1>9. ASSUME NEW j \in 1..(n + 1 + m), T[j].name = "grpc-status" PROVE j = n + 1
    <2>1. m \in Nat
      BY <1>6 DEF m
    <2>2. j \notin 1..n
      BY <1>8, <1>9
    <2>3. ASSUME j > n + 1 PROVE FALSE
      <3>1. j - (n + 1) \in 1..m /\ (j - (n + 1)) + (n + 1) = j
        BY <1>4, <2>1, <2>3
      <3>2. T[j].name = "grpc-message"
        BY <1>8, <3>1
      <3> QED
        BY <1>9, <3>2
    <2> QED
      BY <1>4, <2>1, <2>2, <2>3
  <1>10. n + 1 \in DOMAIN T /\ DOMAIN T = 1..(n + 1 + m)
    BY <1>4, <1>6, <1>8 DEF m
  <1>11. IsStatus(T, n + 1)
    BY <1>2, <1>8, <1>9, <1>10 DEF IsStatus
  <1> QED
    BY <1>2, <1>8, <1>11 DEF T

(* A status without a response. *)
LEMMA StatusKeeps ==
    ASSUME NEW st, NEW req, NEW n, NEW l, NEW w, StreamOK(st, req, n, l, w),
           st.submitted, st.trailers = <<>>,
           NEW status \in Text, status # "Ok",
           Expected(req) # "none" => status = Expected(req)
    PROVE  StreamOK(submit_status(st, status), req, n, l, w)
  <1> DEFINE T == Trailers(<<>>, status)
  <1>1. <<>> \in Seq(Line) /\ Len(<<>>) = 0 /\ \A i \in 1..Len(<<>>) : <<>>[i].name # "grpc-status"
    OBVIOUS
  <1>2. T \in Seq(Line) /\ IsStatus(T, 1) /\ T[1].value = status
    <2>1. LET i == Len(<<>>) + 1
          IN  T \in Seq(Line) /\ IsStatus(T, i) /\ T[i].value = status
      BY <1>1, OneStatus
    <2>2. Len(<<>>) + 1 = 1
      OBVIOUS
    <2> QED
      BY <2>1, <2>2
  <1> HIDE DEF T
  <1>3. Deserved(T, <<>>, req)
    <2>1. 1 \in DOMAIN T
      BY <1>2 DEF IsStatus
    <2> QED
      BY <1>2, <2>1 DEF Deserved
  <1>4. st \in StreamRec
    BY DEF StreamOK, StreamType
  <1>5. submit_status(st, status)
          = [st EXCEPT !.response = <<>>, !.offset = 0, !.trailers = T, !.trailers_submitted = FALSE]
    <2>1. submit_status(st, status)
            = [[st EXCEPT !.response = <<>>, !.offset = 0]
                 EXCEPT !.trailers = T, !.trailers_submitted = FALSE]
      BY DEF submit_status, submit_response, T, Trailers, StatusLine, MessageLine
    <2> QED
      BY <1>4, <2>1 DEF StreamRec
  <1>6. <<>> \in Seq(Byte)
    BY NoElements
  <1> DEFINE r == submit_status(st, status)
             R == <<>>
  <1>7. /\ R \in Seq(Byte) /\ Deserved(T, R, req)
        /\ r = [st EXCEPT !.response = R, !.offset = 0, !.trailers = T, !.trailers_submitted = FALSE]
    BY <1>3, <1>5, <1>6
  <1> HIDE DEF r, R
  <1>8. StreamOK(r, req, n, l, w)
    BY <1>2, <1>7, DecidingKeeps
  <1> QED
    BY <1>8 DEF r


(* The handler's own trailers, as they are sent. *)
LEMMA OwnTrailers ==
    ASSUME NEW md \in Seq(Field),
           \A i \in DOMAIN md : ~is_reserved_trailer(to_lower_ascii(md[i].name))
    PROVE  LET own == [i \in DOMAIN md |-> [md[i] EXCEPT !.name = to_lower_ascii(@)]]
           IN  own \in Seq(Line) /\ \A i \in 1..Len(own) : own[i].name # "grpc-status"
  <1> DEFINE own == [i \in DOMAIN md |-> [md[i] EXCEPT !.name = to_lower_ascii(@)]]
  <1>1. DOMAIN md = 1..Len(md) /\ Len(md) \in Nat /\ \A i \in 1..Len(md) : md[i] \in Field
    OBVIOUS
  <1>2. ASSUME NEW i \in 1..Len(md)
        PROVE  own[i] \in Line /\ own[i].name # "grpc-status"
    <2>1. md[i] \in Field /\ i \in DOMAIN md
      BY <1>1
    <2>2. own[i] = [md[i] EXCEPT !.name = to_lower_ascii(md[i].name)]
      BY <2>1
    <2>3. to_lower_ascii(md[i].name) \in Text /\ md[i].value \in Text
      BY <2>1 DEF Field, to_lower_ascii, Text
    <2>4. to_lower_ascii(md[i].name) # "grpc-status"
      BY <2>1 DEF is_reserved_trailer
    <2> DEFINE nm == to_lower_ascii(md[i].name)
    <2> HIDE DEF nm
    <2>5. own[i] = [md[i] EXCEPT !.name = nm] /\ nm \in Text /\ nm # "grpc-status"
      BY <2>2, <2>3, <2>4 DEF nm
    <2> HIDE DEF own
    <2> QED
      BY <2>1, <2>3, <2>5 DEF Field, Line
  <1>3. own \in [1..Len(md) -> Line]
    BY <1>1, <1>2
  <1>4. own \in Seq(Line) /\ Len(own) = Len(md)
    <2> HIDE DEF own
    <2> QED
      BY <1>1, <1>3
  <1> QED
    BY <1>2, <1>4

(* The handler's answer, whichever it is. *)
LEMMA AnswerKeeps ==
    ASSUME NEW st, NEW req, NEW n, NEW l, NEW w, StreamOK(st, req, n, l, w),
           st.submitted, st.trailers = <<>>, Expected(req) = "none", NEW a \in Results
    PROVE  StreamOK(answer(st, a), req, n, l, w)
  <1>1. a.status \in Text /\ a.trailers \in Seq(Field) /\ a.payload \in Seq(Byte)
    BY ResultType
  <1>2. st \in StreamRec /\ st.offset = 0
    BY DEF StreamOK, StreamType, UnansweredOK
  <1>3. \A v \in Text : v # "Ok" => StreamOK(submit_status(st, v), req, n, l, w)
    BY StatusKeeps
  <1>4. CASE a.status # "Ok"
    <2>1. answer(st, a) = submit_status(st, a.status)
      BY <1>4 DEF answer
    <2> QED
      BY <1>1, <1>3, <1>4, <2>1
  <1> DEFINE reserved == \E i \in DOMAIN a.trailers :
                             is_reserved_trailer(to_lower_ascii(a.trailers[i].name))
             e == encode_error(a.payload, MaxMessage)
  <1>5. CASE a.status = "Ok" /\ reserved
    <2>1. answer(st, a) = submit_status(st, "Internal")
      BY <1>5 DEF answer
    <2>2. "Internal" \in Text /\ "Internal" # "Ok"
      BY DEF Text
    <2> QED
      BY <1>3, <2>1, <2>2
  <1>6. CASE a.status = "Ok" /\ ~reserved /\ e # "none"
    <2>1. answer(st, a) = submit_status(st, status_for_decode_error(e))
      BY <1>6 DEF answer
    <2>2. status_for_decode_error(e) \in {"ResourceExhausted", "Unimplemented", "Internal"}
      BY DEF status_for_decode_error
    <2>3. status_for_decode_error(e) \in Text /\ status_for_decode_error(e) # "Ok"
      BY <2>2 DEF Text
    <2> QED
      BY <1>3, <2>1, <2>3
  <1>7. CASE a.status = "Ok" /\ ~reserved /\ e = "none"
    <2> DEFINE R == encode_unary_message(a.payload)
               own == [i \in DOMAIN a.trailers |->
                          [a.trailers[i] EXCEPT !.name = to_lower_ascii(@)]]
               T == Trailers(own, "Ok")
               r == answer(st, a)
    <2>1. R \in Seq(Byte)
      BY <1>1, Encoded
    <2>2. decode_error(R, MaxMessage) = "none"
      <3>1. MaxMessage \in Nat /\ MaxMessage \div (kOctets * kOctets * kOctets) < kOctets
        BY SessionAssumption, MessageAssumption
      <3>2. a.payload \in Bytes
        BY <1>1, ByteFacts
      <3> QED
        BY <1>7, <3>1, <3>2, EnvelopeRoundTrip
    <2>3. own \in Seq(Line) /\ \A i \in 1..Len(own) : own[i].name # "grpc-status"
      BY <1>1, <1>7, OwnTrailers
    <2>4. r = submit_response([st EXCEPT !.response = R], "Ok", a.trailers)
      BY <1>7 DEF answer
    <2>5. submit_response([st EXCEPT !.response = R], "Ok", a.trailers)
            = [[st EXCEPT !.response = R] EXCEPT !.trailers = T, !.trailers_submitted = FALSE]
      BY DEF submit_response, Trailers, StatusLine, MessageLine
    <2> HIDE DEF own, R, r
    <2>6. "Ok" \in Text
      BY DEF Text
    <2>7. T \in Seq(Line) /\ IsStatus(T, Len(own) + 1) /\ T[Len(own) + 1].value = "Ok"
      BY <2>3, <2>6, OneStatus
    <2> HIDE DEF T
    <2>8. Deserved(T, R, req)
      <3>1. Len(own) + 1 \in DOMAIN T
        BY <2>7 DEF IsStatus
      <3> QED
        BY <2>2, <2>7, <3>1 DEF Deserved
    <2>9. r = [st EXCEPT !.response = R, !.offset = 0, !.trailers = T, !.trailers_submitted = FALSE]
      BY <1>2, <2>4, <2>5 DEF StreamRec
    <2>10. StreamOK(r, req, n, l, w)
      BY <2>1, <2>7, <2>8, <2>9, DecidingKeeps
    <2> QED
      BY <2>10 DEF r
  <1> QED
    BY <1>4, <1>5, <1>6, <1>7

(* The response headers go out once an answer is decided. *)
LEMMA SendHeadersKeeps ==
    ASSUME NEW st, NEW req, NEW n, NEW l, NEW w, StreamOK(st, req, n, l, w), st.trailers # <<>>
    PROVE  StreamOK(st, req, n, l, [w EXCEPT !.headers = TRUE])
  <1> DEFINE v == [w EXCEPT !.headers = TRUE]
  <1>1. w \in WireRec
    BY DEF StreamOK, StreamType
  <1>2. v \in WireRec /\ v.headers /\ v.data = w.data /\ v.trailers = w.trailers
    BY <1>1 DEF WireRec
  <1> HIDE DEF v
  <1>3. l # "idle"
    BY DEF StreamOK, IdleOK, Untouched
  <1>4. UnansweredOK(st, v) /\ WireOK(st, v) /\ StreamType(st, req, n, l, v)
    BY <1>2 DEF StreamOK, UnansweredOK, WireOK, StreamType
  <1> QED
    BY <1>3, <1>4 DEF StreamOK, v

LEMMA LesserOfTwo ==
    ASSUME NEW a \in Nat, NEW b \in Nat
    PROVE  Min({a, b}) = IF a <= b THEN a ELSE b
  <1>1. \A x \in {a, b} : (\A y \in {a, b} : x <= y) <=> x = IF a <= b THEN a ELSE b
    OBVIOUS
  <1>2. (IF a <= b THEN a ELSE b) \in {a, b}
    OBVIOUS
  <1> QED
    BY <1>1, <1>2 DEF Min

(* The bytes on_data_read hands over, and the wire with them. *)
PieceLength(st, length) == on_data_read(st, length).offset - st.offset
WithPiece(st, w, length) ==
    LET next == on_data_read(st, length)
        m    == PieceLength(st, length)
    IN  [w EXCEPT !.data = @ \o SubSeq(st.response, next.offset - m + 1, next.offset)]

(* on_data_read hands over the next piece of the response, and the trailers   *)
(* with the last one.                                                         *)
LEMMA SendDataKeeps ==
    ASSUME NEW st, NEW req, NEW n, NEW l, NEW w, StreamOK(st, req, n, l, w),
           w.headers, ~st.trailers_submitted, NEW length \in Nat
    PROVE  /\ StreamOK(on_data_read(st, length), req, n, l, WithPiece(st, w, length))
           /\ PieceLength(st, length) \in Nat /\ PieceLength(st, length) <= length
           /\ on_data_read(st, length).submitted = st.submitted
  <1> DEFINE next == on_data_read(st, length)
             m == PieceLength(st, length)
             v == WithPiece(st, w, length)
  <1>a. m = next.offset - st.offset
    BY DEF PieceLength
  <1>b. v = [w EXCEPT !.data = w.data \o SubSeq(st.response, next.offset - m + 1, next.offset)]
    BY DEF WithPiece
  <1> DEFINE len == Len(st.response)
             left == len - st.offset
             c == Min({length, left})
             o == st.offset + c
             done == st.trailers_submitted \/ o >= len
  <1>1. /\ st \in StreamRec /\ w \in WireRec
        /\ st.response \in Seq(Byte) /\ st.offset \in Nat /\ len \in Nat
        /\ w.data \in Seq(Byte)
    BY DEF StreamOK, StreamType, StreamRec, WireRec
  <1>2. st.offset <= len /\ w.data = SubSeq(st.response, 1, st.offset) /\ left \in Nat
    BY <1>1 DEF StreamOK, WireOK
  <1>3. /\ c = IF length <= left THEN length ELSE left
        /\ c \in Nat /\ c <= length /\ o \in Nat /\ o <= len
    <2>1. c = IF length <= left THEN length ELSE left
      BY <1>2, LesserOfTwo
    <2> HIDE DEF c
    <2> QED
      BY <1>1, <1>2, <2>1
  <1>4. next = [st EXCEPT !.offset = o, !.trailers_submitted = done]
    BY DEF on_data_read
  <1> HIDE DEF next, m, v
  <1>5. done \in BOOLEAN /\ (done => o = len)
    BY <1>1, <1>3
  <1> HIDE DEF c, o, done
  <1>6. /\ next \in StreamRec /\ next.offset = o /\ next.trailers_submitted = done
        /\ next.submitted = st.submitted
        /\ next.http_method = st.http_method /\ next.method = st.method
        /\ next.content_type = st.content_type /\ next.metadata = st.metadata
        /\ next.payload = st.payload /\ next.early_status = st.early_status
        /\ next.end_stream = st.end_stream
        /\ next.response = st.response /\ next.trailers = st.trailers
    BY <1>1, <1>3, <1>4, <1>5 DEF StreamRec
  <1>7. m = c /\ next.offset - m + 1 = st.offset + 1 /\ next.offset = st.offset + c
    <2>1. next.offset = st.offset + c
      BY <1>6 DEF o
    <2>2. \A x, y \in Nat : (x + y) - x = y /\ (x + y) - y + 1 = x + 1
      OBVIOUS
    <2>3. m = c
      BY <1>a, <1>1, <1>3, <2>1, <2>2
    <2> QED
      BY <1>1, <1>3, <2>1, <2>2, <2>3
  <1> DEFINE piece == SubSeq(st.response, st.offset + 1, st.offset + c)
  <1>8. /\ piece \in Seq(Byte) /\ w.data \o piece = SubSeq(st.response, 1, o)
        /\ SubSeq(st.response, 1, o) \in Seq(Byte)
    <2>1. st.offset + c <= len
      BY <1>3 DEF o
    <2>2. /\ piece \in Seq(Byte)
          /\ SubSeq(st.response, 1, st.offset) \o piece = SubSeq(st.response, 1, st.offset + c)
      <3> DEFINE q == st.response
                 i == st.offset
      <3>1. q \in Seq(Byte) /\ i \in Nat /\ c \in Nat /\ i + c <= Len(q)
        BY <1>1, <1>3, <2>1
      <3> HIDE DEF q, i
      <3>2. /\ SubSeq(q, i + 1, i + c) \in Seq(Byte)
            /\ SubSeq(q, 1, i) \o SubSeq(q, i + 1, i + c) = SubSeq(q, 1, i + c)
        BY <3>1, NextBytes, Zenon
      <3> QED
        BY <3>2 DEF q, i
    <2>3. SubSeq(st.response, 1, o) \in Seq(Byte)
      BY <1>1, <1>3
    <2> QED
      BY <1>2, <2>2, <2>3 DEF o
  <1>9. v = [w EXCEPT !.data = SubSeq(st.response, 1, o)]
    BY <1>b, <1>7, <1>8
  <1>10. /\ v \in WireRec /\ v.data = SubSeq(st.response, 1, o) /\ v.headers
         /\ v.trailers = w.trailers
    BY <1>1, <1>8, <1>9 DEF WireRec
  <1>11. w # Silent
    BY DEF Silent
  <1>12. l # "idle" /\ st.trailers # <<>>
    BY <1>11 DEF StreamOK, IdleOK, UnansweredOK
  <1>13. ReadOK(next, req) /\ BodyOK(next, req, n, l)
    BY <1>6, <1>12 DEF StreamOK, ReadOK, BodyOK
  <1>14. UnansweredOK(next, v) /\ AnsweredOK(next, req)
    BY <1>6, <1>12 DEF StreamOK, UnansweredOK, AnsweredOK
  <1>15. WireOK(next, v)
    <2>1. w.trailers = <<>>
      BY DEF StreamOK, WireOK
    <2> QED
      BY <1>3, <1>5, <1>6, <1>10, <2>1 DEF WireOK
  <1>16. StreamType(next, req, n, l, v)
    BY <1>6, <1>10 DEF StreamOK, StreamType
  <1>17. StreamOK(next, req, n, l, v)
    BY <1>12, <1>13, <1>14, <1>15, <1>16 DEF StreamOK
  <1> QED
    BY <1>3, <1>6, <1>7, <1>17 DEF next, m, v

(* The trailers end the stream. *)
LEMMA SendTrailersKeeps ==
    ASSUME NEW st, NEW req, NEW n, NEW l, NEW w, StreamOK(st, req, n, l, w), l # "idle",
           st.trailers_submitted
    PROVE  StreamOK(st, req, n, "closed", [w EXCEPT !.trailers = st.trailers])
  <1> DEFINE v == [w EXCEPT !.trailers = st.trailers]
  <1>1. w \in WireRec /\ st.trailers \in Seq(Line)
    BY DEF StreamOK, StreamType, StreamRec
  <1>2. v \in WireRec /\ v.headers = w.headers /\ v.data = w.data /\ v.trailers = st.trailers
    BY <1>1 DEF WireRec
  <1> HIDE DEF v
  <1>3. st.trailers # <<>>
    BY DEF StreamOK, UnansweredOK
  <1>4. UnansweredOK(st, v) /\ WireOK(st, v) /\ StreamType(st, req, n, l, v)
    BY <1>2, <1>3 DEF StreamOK, UnansweredOK, WireOK, StreamType
  <1>5. StreamOK(st, req, n, l, v)
    BY <1>4 DEF StreamOK
  <1> QED
    BY <1>5, ClosingKeeps DEF v


-----------------------------------------------------------------------------
(* Every action keeps the invariant. *)

LEMMA InitIInv == Init => IInv
  <1> SUFFICES ASSUME Init PROVE IInv
    OBVIOUS
  <1>1. current \in Streams
    BY MessageAssumption DEF Init
  <1>2. TypeOK
    <2>1. window \in [Streams -> Nat]
      BY SessionAssumption DEF Init
    <2>2. ready \in Seq(Streams) /\ calls \in Seq(Call)
      BY NoElements DEF Init
    <2> QED
      BY <1>1, <2>1, <2>2 DEF Init, TypeOK
  <1>3. ASSUME NEW s \in Streams
        PROVE  StreamOK(streams[s], request[s], sent[s], link[s], wire[s])
    <2>1. /\ streams[s] = StreamState /\ sent[s] = 0 /\ link[s] = "idle" /\ wire[s] = Silent
      BY DEF Init
    <2>2. StreamState \in StreamRec /\ Untouched(StreamState)
      BY FreshState
    <2>3. /\ UnansweredOK(StreamState, Silent) /\ AnsweredOK(StreamState, request[s])
          /\ WireOK(StreamState, Silent)
      BY <2>2, UntouchedOK
    <2>4. StreamType(StreamState, request[s], 0, "idle", Silent)
      BY <2>2, SilentType DEF StreamType
    <2> QED
      BY <2>1, <2>2, <2>3, <2>4 DEF StreamOK, IdleOK
  <1>4. CurrentOK /\ CallsOK
    BY DEF Init, CurrentOK, CallsOK
  <1> QED
    BY <1>2, <1>3, <1>4 DEF IInv, EveryStream

(* Nothing but stream s changes. *)
Others(s) ==
    \A t \in Streams \ {s} :
        /\ streams'[t] = streams[t] /\ request'[t] = request[t] /\ sent'[t] = sent[t]
        /\ link'[t] = link[t] /\ wire'[t] = wire[t]

(* Then every stream is as the invariant says, if s is. *)
LEMMA StreamsKept ==
    ASSUME IInv, NEW s \in Streams, Others(s),
           StreamOK(streams[s], request[s], sent[s], link[s], wire[s])'
    PROVE  EveryStream'
  <1> SUFFICES ASSUME NEW t \in Streams
               PROVE  StreamOK(streams'[t], request'[t], sent'[t], link'[t], wire'[t])
    BY DEF EveryStream
  <1>1. CASE t = s
    BY <1>1
  <1>2. CASE t # s
    <2>1. StreamOK(streams[t], request[t], sent[t], link[t], wire[t])
      BY DEF IInv, EveryStream
    <2>2. /\ streams'[t] = streams[t] /\ request'[t] = request[t] /\ sent'[t] = sent[t]
          /\ link'[t] = link[t] /\ wire'[t] = wire[t]
      BY <1>2 DEF Others
    <2> QED
      BY <2>1, <2>2
  <1> QED
    BY <1>1, <1>2

(* And a call made before stays what it was. *)
LEMMA CallKept ==
    ASSUME NEW s \in Streams, Others(s),
           streams[s].submitted => streams'[s].submitted /\ request'[s] = request[s]
    PROVE  \A c : c[1] \in Streams /\ CallOK(c, streams, request) => CallOK(c, streams', request')
  <1>1. \A t \in Streams : streams[t].submitted => streams'[t].submitted /\ request'[t] = request[t]
    BY DEF Others
  <1> QED
    BY <1>1 DEF CallOK

(* A step on one stream that makes no call keeps the calls and the streams. *)
LEMMA StreamStep ==
    ASSUME IInv, NEW s \in Streams, Others(s), TypeOK', calls' = calls, pc' # "handler",
           StreamOK(streams[s], request[s], sent[s], link[s], wire[s])',
           streams[s].submitted => streams'[s].submitted /\ request'[s] = request[s]
    PROVE  IInv'
  <1>1. EveryStream'
    BY StreamsKept
  <1>2. \A c : c[1] \in Streams /\ CallOK(c, streams, request) => CallOK(c, streams', request')
    BY CallKept
  <1>3. \A i \in DOMAIN calls : calls[i][1] \in Streams
    BY DEF IInv, TypeOK, Call
  <1>4. CallsOK'
    BY <1>2, <1>3 DEF IInv, CallsOK
  <1>5. CurrentOK'
    BY DEF CurrentOK
  <1> QED
    BY <1>1, <1>4, <1>5 DEF IInv

(* A step of run() that touches no stream. *)
LEMMA QuietStep ==
    ASSUME IInv, TypeOK', pc' # "handler",
           UNCHANGED <<streams, request, sent, link, wire, calls>>
    PROVE  IInv'
  <1>1. PICK s \in Streams : TRUE
    BY MessageAssumption
  <1>2. Others(s)
    BY DEF Others
  <1>3. StreamOK(streams[s], request[s], sent[s], link[s], wire[s])'
    BY DEF IInv, EveryStream
  <1> QED
    BY <1>1, <1>2, <1>3, StreamStep

LEMMA StepHeaders ==
    ASSUME IInv, NEW s \in Streams, NEW req \in Requests, NEW end \in BOOLEAN,
           Headers(s, req, end)
    PROVE  IInv'
  <1>1. TypeOK /\ StreamOK(streams[s], request[s], sent[s], link[s], wire[s])
    BY DEF IInv, EveryStream
  <1>2. TypeOK' /\ pc' # "handler" /\ calls' = calls
    <2>1. ready' \in Seq(Streams)
      BY <1>1 DEF Headers, TypeOK
    <2> QED
      BY <1>1, <2>1 DEF Headers, TypeOK
  <1>3. Others(s)
    BY <1>1 DEF Headers, Others, TypeOK
  <1>4. /\ streams'[s] = on_frame_recv(on_begin_headers(req.headers), end)
        /\ request'[s] = req /\ sent'[s] = sent[s] /\ wire'[s] = wire[s]
        /\ link'[s] = IF end THEN "half" ELSE "open"
        /\ link[s] = "idle" /\ (end <=> (req.bytes = <<>>))
    BY <1>1 DEF Headers, TypeOK
  <1>5. StreamOK(streams[s], request[s], sent[s], link[s], wire[s])'
    BY <1>1, <1>4, HeadersKeep
  <1>6. ~streams[s].submitted
    BY <1>1, <1>4 DEF StreamOK, IdleOK, Untouched
  <1> QED
    BY <1>2, <1>3, <1>5, <1>6, StreamStep

LEMMA StepData ==
    ASSUME IInv, NEW s \in Streams, NEW n, Data(s, n)
    PROVE  IInv'
  <1> DEFINE chunk == SubSeq(request[s].bytes, sent[s] + 1, sent[s] + n)
             end == sent[s] + n = Len(request[s].bytes)
  <1>1. TypeOK /\ StreamOK(streams[s], request[s], sent[s], link[s], wire[s])
    BY DEF IInv, EveryStream
  <1>2. TypeOK' /\ pc' # "handler" /\ calls' = calls
    <2>1. ready' \in Seq(Streams)
      BY <1>1 DEF Data, TypeOK
    <2> QED
      BY <1>1, <2>1 DEF Data, TypeOK
  <1>3. Others(s)
    BY <1>1 DEF Data, Others, TypeOK
  <1>4. /\ streams'[s] = on_frame_recv(on_data_chunk_recv(streams[s], chunk), end)
        /\ request'[s] = request[s] /\ sent'[s] = sent[s] + n /\ wire'[s] = wire[s]
        /\ link'[s] = IF end THEN "half" ELSE "open"
        /\ link[s] = "open" /\ n \in 1..(Len(request[s].bytes) - sent[s])
    BY <1>1 DEF Data, TypeOK
  <1>5. StreamOK(on_frame_recv(on_data_chunk_recv(streams[s], chunk), end), request[s], sent[s] + n,
                 IF end THEN "half" ELSE "open", wire[s])
    BY <1>1, <1>4, DataKeeps
  <1>6. StreamOK(streams[s], request[s], sent[s], link[s], wire[s])'
    BY <1>4, <1>5
  <1>7. ~streams[s].submitted
    BY <1>1, <1>4 DEF StreamOK, BodyOK
  <1> QED
    BY <1>2, <1>3, <1>6, <1>7, StreamStep

LEMMA StepRstStream ==
    ASSUME IInv, NEW s \in Streams, RstStream(s)
    PROVE  IInv'
  <1>1. TypeOK /\ StreamOK(streams[s], request[s], sent[s], link[s], wire[s])
    BY DEF IInv, EveryStream
  <1>2. TypeOK' /\ pc' # "handler" /\ calls' = calls /\ Others(s)
    BY <1>1 DEF RstStream, TypeOK, Others
  <1>3. /\ streams'[s] = streams[s] /\ request'[s] = request[s] /\ sent'[s] = sent[s]
        /\ wire'[s] = wire[s] /\ link'[s] = "closed" /\ link[s] # "idle"
    BY <1>1 DEF RstStream, TypeOK
  <1>4. StreamOK(streams[s], request[s], sent[s], link[s], wire[s])'
    BY <1>1, <1>3, ClosingKeeps
  <1> QED
    BY <1>2, <1>3, <1>4, StreamStep

LEMMA StepWindowUpdate ==
    ASSUME IInv, NEW s \in Streams, WindowUpdate(s)
    PROVE  IInv'
  <1>1. TypeOK'
    <2>1. TypeOK /\ Window + 1 \in Nat
      BY SessionAssumption DEF IInv
    <2> QED
      BY <2>1 DEF WindowUpdate, TypeOK
  <1> QED
    BY <1>1, QuietStep DEF WindowUpdate

LEMMA StepRun ==
    ASSUME IInv, ReadSome \/ ReadEnds \/ RecvFails \/ RecvDone \/ ProcessDone \/ FlushDone \/ PeerGone
    PROVE  IInv'
  <1>1. TypeOK
    BY DEF IInv
  <1>2. /\ UNCHANGED <<streams, ready, current, request, sent, link, window, wire, calls>>
        /\ pc' \in {"recv", "ended", "process", "flush", "read"} /\ broken' \in BOOLEAN
    BY <1>1 DEF ReadSome, ReadEnds, RecvFails, RecvDone, ProcessDone, FlushDone, PeerGone,
                client, TypeOK
  <1>3. TypeOK'
    BY <1>1, <1>2 DEF TypeOK
  <1> QED
    BY <1>2, <1>3, QuietStep


(* process_ready_streams: a stream in the queue is passed over, refused or    *)
(* given to its handler.                                                      *)
LEMMA StepProcess ==
    ASSUME IInv, Process
    PROVE  IInv'
  <1>1. TypeOK /\ ready' \in Seq(Streams) /\ pc = "process" /\ Head(ready) \in Streams
    BY DEF IInv, TypeOK, Process
  <1>2. PICK s \in Streams : s = Head(ready)
    BY <1>1
  <1>3. StreamOK(streams[s], request[s], sent[s], link[s], wire[s])
    BY DEF IInv, EveryStream
  <1>4. UNCHANGED <<request, sent, link, window, wire, broken>>
    BY DEF Process, client
  <1>5. CASE streams[s].submitted \/ ~streams[s].end_stream
    <2>1. UNCHANGED <<streams, current, pc, calls>>
      BY <1>2, <1>5 DEF Process
    <2>2. TypeOK' /\ pc' # "handler"
      BY <1>1, <1>4, <2>1 DEF TypeOK
    <2> QED
      BY <1>4, <2>1, <2>2, QuietStep
  <1>6. ASSUME ~streams[s].submitted, streams[s].end_stream PROVE IInv'
    <2> DEFINE taken == [streams[s] EXCEPT !.submitted = TRUE]
    <2>1. /\ streams[s] \in StreamRec /\ link[s] # "idle" /\ request[s] \in Requests
          /\ streams[s].trailers = <<>>
      BY <1>3, <1>6 DEF StreamOK, StreamType, IdleOK, Untouched, AnsweredOK
    <2>2. StreamOK(taken, request[s], sent[s], link[s], wire[s])
      BY <1>3, <1>6, TakingKeeps
    <2>3. taken.submitted /\ taken.trailers = <<>> /\ taken.end_stream /\ taken \in StreamRec
      BY <1>6, <2>1 DEF StreamRec
    <2>4. ReadOK(taken, request[s]) /\ BodyOK(taken, request[s], sent[s], link[s])
      BY <2>1, <2>2 DEF StreamOK
    <2>5. /\ refusal(taken) # "none" =>
                /\ streams' = [streams EXCEPT ![s] = submit_status(taken, refusal(taken))]
                /\ UNCHANGED <<current, pc, calls>>
          /\ refusal(taken) = "none" =>
                /\ streams' = [streams EXCEPT ![s] = taken]
                /\ calls' = Append(calls, <<s, decode_unary_message(taken.payload), taken.metadata>>)
                /\ current' = s /\ pc' = "handler"
      BY <1>2, <1>6 DEF Process
    <2> HIDE DEF taken
    <2>6. /\ refusal(taken) = Expected(request[s])
          /\ refusal(taken) \in {"none", "ResourceExhausted", "Internal", "Unimplemented"}
          /\ Expected(request[s]) = "none" => decode_unary_message(taken.payload) = Body(request[s])
      BY <2>1, <2>3, <2>4, RefusalAsExpected
    <2>7. CASE refusal(taken) # "none"
      <3> DEFINE r == submit_status(taken, refusal(taken))
      <3>1. streams' = [streams EXCEPT ![s] = r] /\ UNCHANGED <<current, pc, calls>>
        BY <2>5, <2>7
      <3>2. refusal(taken) \in Text /\ refusal(taken) # "Ok"
        BY <2>6, <2>7 DEF Text
      <3>3. StreamOK(r, request[s], sent[s], link[s], wire[s])
        BY <2>2, <2>3, <2>6, <3>2, StatusKeeps
      <3> HIDE DEF r
      <3>4. streams'[s] = r
        BY <1>1, <3>1 DEF TypeOK
      <3>5. TypeOK' /\ pc' # "handler" /\ Others(s)
        BY <1>1, <1>4, <3>1 DEF TypeOK, Others
      <3>6. StreamOK(streams[s], request[s], sent[s], link[s], wire[s])'
        BY <1>4, <3>3, <3>4
      <3> QED
        BY <1>6, <3>1, <3>5, <3>6, StreamStep
    <2>8. CASE refusal(taken) = "none"
      <3> DEFINE c == <<s, decode_unary_message(taken.payload), taken.metadata>>
      <3>1. /\ streams' = [streams EXCEPT ![s] = taken] /\ calls' = Append(calls, c)
            /\ current' = s /\ pc' = "handler"
        BY <2>5, <2>8
      <3>2. /\ c \in Call /\ c[1] = s /\ c[2] = decode_unary_message(taken.payload)
            /\ c[3] = taken.metadata
        <4>1. taken.payload \in Seq(Byte) /\ taken.metadata \in Seq(Field)
          BY <2>3 DEF StreamRec
        <4>2. decode_unary_message(taken.payload) \in Seq(Byte)
          BY <4>1 DEF decode_unary_message, kEnvelopeSize
        <4> QED
          BY <4>1, <4>2 DEF Call
      <3> HIDE DEF c
      <3>3. streams'[s] = taken
        BY <1>1, <3>1 DEF TypeOK
      <3>4. Others(s)
        BY <1>1, <1>4, <3>1 DEF TypeOK, Others
      <3>5. TypeOK'
        BY <1>1, <1>4, <3>1, <3>2 DEF TypeOK
      <3>6. StreamOK(streams[s], request[s], sent[s], link[s], wire[s])'
        BY <1>4, <2>2, <3>3
      <3>7. EveryStream'
        BY <3>4, <3>6, StreamsKept
      <3>8. CurrentOK'
        BY <1>4, <2>3, <2>6, <2>8, <3>1, <3>3 DEF CurrentOK
      <3>9. CallOK(c, streams', request')
        BY <1>4, <2>3, <2>4, <2>6, <2>8, <3>2, <3>3 DEF CallOK, ReadOK
      <3>10. \A x : x[1] \in Streams /\ CallOK(x, streams, request) => CallOK(x, streams', request')
        BY <1>6, <3>4, CallKept
      <3>11. \A i \in DOMAIN calls : calls[i] \in Call /\ calls[i][1] \in Streams /\ calls[i][1] # s
        BY <1>1, <1>6 DEF IInv, TypeOK, Call, CallsOK, CallOK
      <3>12. /\ DOMAIN calls = 1..Len(calls) /\ DOMAIN calls' = 1..(Len(calls) + 1)
             /\ Len(calls) \in Nat /\ calls'[Len(calls) + 1] = c
             /\ \A i \in DOMAIN calls : calls'[i] = calls[i]
        BY <1>1, <3>1, <3>2 DEF TypeOK
      <3>13. \A i \in DOMAIN calls' : i \in DOMAIN calls \/ i = Len(calls) + 1
        BY <3>12
      <3>14. CallsOK'
        <4>1. \A i \in DOMAIN calls :
                  /\ CallOK(calls[i], streams, request)
        /\ \A j \in DOMAIN calls : calls[j][1] = calls[i][1] => j = i
          BY DEF IInv, CallsOK
        <4>2. \A i \in DOMAIN calls' : CallOK(calls'[i], streams', request')
          BY <3>9, <3>10, <3>11, <3>12, <3>13, <4>1
        <4>3. \A i, j \in DOMAIN calls' : calls'[j][1] = calls'[i][1] => j = i
          BY <3>2, <3>11, <3>12, <3>13, <4>1
        <4> QED
          BY <4>2, <4>3 DEF CallsOK
      <3> QED
        BY <3>5, <3>7, <3>8, <3>14 DEF IInv
    <2> QED
      BY <2>7, <2>8
  <1> QED
    BY <1>5, <1>6

(* An answer does not undo that the stream was taken. *)
LEMMA AnswerSubmitted ==
    ASSUME NEW st \in StreamRec, NEW r
    PROVE  answer(st, r).submitted = st.submitted
  <1>1. DOMAIN st = DOMAIN StreamState
    BY DEF StreamRec, StreamState
  <1>2. \A x, y : /\ DOMAIN [st EXCEPT !.response = x] = DOMAIN st
                  /\ DOMAIN [st EXCEPT !.response = x, !.offset = y] = DOMAIN st
                  /\ [st EXCEPT !.response = x].submitted = st.submitted
                  /\ [st EXCEPT !.response = x, !.offset = y].submitted = st.submitted
    BY <1>1 DEF StreamState
  <1>3. \A u, x, y : DOMAIN u = DOMAIN StreamState =>
                        [u EXCEPT !.trailers = x, !.trailers_submitted = y].submitted = u.submitted
    BY DEF StreamState
  <1>4. \A u, status, md : DOMAIN u = DOMAIN StreamState =>
                              submit_response(u, status, md).submitted = u.submitted
    BY <1>3 DEF submit_response
  <1>5. \A status : submit_status(st, status).submitted = st.submitted
    <2> DEFINE u == [st EXCEPT !.response = <<>>, !.offset = 0]
    <2>1. DOMAIN u = DOMAIN StreamState /\ u.submitted = st.submitted
      BY <1>1, <1>2
    <2>2. \A status : submit_status(st, status) = submit_response(u, status, <<>>)
      BY DEF submit_status
    <2> HIDE DEF u
    <2> QED
      BY <1>4, <2>1, <2>2
  <1>6. ASSUME NEW x, NEW status, NEW md
        PROVE  submit_response([st EXCEPT !.response = x], status, md).submitted = st.submitted
    <2> DEFINE u == [st EXCEPT !.response = x]
    <2>1. DOMAIN u = DOMAIN StreamState /\ u.submitted = st.submitted
      BY <1>1, <1>2
    <2> HIDE DEF u
    <2>2. submit_response(u, status, md).submitted = st.submitted
      BY <1>4, <2>1
    <2> QED
      BY <2>2 DEF u
  <1> QED
    BY <1>5, <1>6 DEF answer

LEMMA StepHandlerReturns ==
    ASSUME IInv, NEW r \in Results, HandlerReturns(r)
    PROVE  IInv'
  <1>1. PICK s \in Streams : s = current
    BY DEF IInv, TypeOK
  <1>2. TypeOK /\ StreamOK(streams[s], request[s], sent[s], link[s], wire[s])
    BY DEF IInv, EveryStream
  <1>3. /\ streams' = [streams EXCEPT ![s] = answer(streams[s], r)]
        /\ UNCHANGED <<ready, current, request, sent, link, window, wire, broken, calls>>
        /\ pc = "handler" /\ pc' = "process"
    BY <1>1 DEF HandlerReturns, client
  <1>4. streams[s].submitted /\ streams[s].trailers = <<>> /\ Expected(request[s]) = "none"
    BY <1>1, <1>3 DEF IInv, CurrentOK
  <1>5. streams'[s] = answer(streams[s], r)
    BY <1>2, <1>3 DEF TypeOK
  <1>6. StreamOK(answer(streams[s], r), request[s], sent[s], link[s], wire[s])
    BY <1>2, <1>4, AnswerKeeps
  <1>7. StreamOK(streams[s], request[s], sent[s], link[s], wire[s])'
    BY <1>3, <1>5, <1>6
  <1>8. TypeOK' /\ Others(s) /\ pc' # "handler"
    BY <1>2, <1>3 DEF TypeOK, Others
  <1>9. streams'[s].submitted
    <2>1. streams[s] \in StreamRec
      BY <1>2 DEF StreamOK, StreamType
    <2> QED
      BY <1>4, <1>5, <2>1, AnswerSubmitted
  <1> QED
    BY <1>3, <1>7, <1>8, <1>9, StreamStep

LEMMA StepSendHeaders ==
    ASSUME IInv, NEW s \in Streams, SendHeaders(s)
    PROVE  IInv'
  <1>1. TypeOK /\ StreamOK(streams[s], request[s], sent[s], link[s], wire[s])
    BY DEF IInv, EveryStream
  <1>2. /\ wire' = [wire EXCEPT ![s].headers = TRUE] /\ streams[s].trailers # <<>>
        /\ UNCHANGED <<pc, streams, ready, current, request, sent, link, window, broken, calls>>
        /\ pc = "flush"
    BY DEF SendHeaders, HeadersDue, client
  <1>3. wire'[s] = [wire[s] EXCEPT !.headers = TRUE]
    BY <1>1, <1>2 DEF TypeOK
  <1>4. StreamOK(streams[s], request[s], sent[s], link[s], [wire[s] EXCEPT !.headers = TRUE])
    BY <1>1, <1>2, SendHeadersKeeps
  <1>5. StreamOK(streams[s], request[s], sent[s], link[s], wire[s])'
    BY <1>2, <1>3, <1>4
  <1>6. TypeOK' /\ Others(s) /\ pc' # "handler"
    BY <1>1, <1>2 DEF TypeOK, Others
  <1> QED
    BY <1>2, <1>5, <1>6, StreamStep

LEMMA StepSendData ==
    ASSUME IInv, NEW s \in Streams, SendData(s)
    PROVE  IInv'
  <1> DEFINE next == on_data_read(streams[s], window[s])
             n == next.offset - streams[s].offset
             v == [wire[s] EXCEPT !.data =
                     wire[s].data \o SubSeq(streams[s].response, next.offset - n + 1, next.offset)]
  <1>1. TypeOK /\ StreamOK(streams[s], request[s], sent[s], link[s], wire[s])
    BY DEF IInv, EveryStream
  <1>2. /\ streams' = [streams EXCEPT ![s] = next]
        /\ window' = [window EXCEPT ![s] = @ - n]
        /\ wire' = [wire EXCEPT ![s].data =
                      @ \o SubSeq(streams[s].response, next.offset - n + 1, next.offset)]
        /\ UNCHANGED <<pc, ready, current, request, sent, link, broken, calls>>
        /\ pc = "flush" /\ wire[s].headers /\ ~streams[s].trailers_submitted
    BY DEF SendData, DataDue
  <1>3. window[s] \in Nat
    BY <1>1 DEF TypeOK
  <1>4. /\ StreamOK(next, request[s], sent[s], link[s], v)
        /\ n \in Nat /\ n <= window[s] /\ next.submitted = streams[s].submitted
    <2>1. wire[s].headers /\ ~streams[s].trailers_submitted
      BY <1>2
    <2>2. n = PieceLength(streams[s], window[s]) /\ v = WithPiece(streams[s], wire[s], window[s])
      BY DEF PieceLength, WithPiece
    <2>3. /\ StreamOK(next, request[s], sent[s], link[s], WithPiece(streams[s], wire[s], window[s]))
          /\ PieceLength(streams[s], window[s]) \in Nat
          /\ PieceLength(streams[s], window[s]) <= window[s]
          /\ next.submitted = streams[s].submitted
      BY <1>1, <1>3, <2>1, SendDataKeeps
    <2> HIDE DEF next, n, v
    <2> QED
      BY <2>2, <2>3
  <1>5. streams'[s] = next /\ wire'[s] = v
    BY <1>1, <1>2 DEF TypeOK
  <1>6. /\ DOMAIN wire' = Streams /\ DOMAIN streams' = Streams
        /\ \A t \in Streams \ {s} : wire'[t] = wire[t] /\ streams'[t] = streams[t]
    BY <1>1, <1>2 DEF TypeOK
  <1>7. window' \in [Streams -> Nat]
    <2>1. window[s] - n \in Nat
      BY <1>3, <1>4
    <2> HIDE DEF n
    <2> QED
      BY <1>1, <1>2, <2>1 DEF TypeOK
  <1> HIDE DEF next, n, v
  <1>8. StreamOK(streams[s], request[s], sent[s], link[s], wire[s])'
    BY <1>2, <1>4, <1>5
  <1>9. TypeOK' /\ Others(s) /\ pc' # "handler"
    BY <1>1, <1>2, <1>6, <1>7 DEF TypeOK, Others
  <1> QED
    BY <1>2, <1>4, <1>5, <1>8, <1>9, StreamStep

LEMMA StepSendTrailers ==
    ASSUME IInv, NEW s \in Streams, SendTrailers(s)
    PROVE  IInv'
  <1>1. TypeOK /\ StreamOK(streams[s], request[s], sent[s], link[s], wire[s])
    BY DEF IInv, EveryStream
  <1>2. /\ wire' = [wire EXCEPT ![s].trailers = streams[s].trailers]
        /\ link' = [link EXCEPT ![s] = "closed"]
        /\ UNCHANGED <<pc, streams, ready, current, request, sent, window, broken, calls>>
        /\ pc = "flush" /\ streams[s].trailers_submitted /\ link[s] # "idle"
    BY DEF SendTrailers, TrailersDue, Sendable
  <1>3. wire'[s] = [wire[s] EXCEPT !.trailers = streams[s].trailers] /\ link'[s] = "closed"
    BY <1>1, <1>2 DEF TypeOK
  <1>4. StreamOK(streams[s], request[s], sent[s], "closed",
                 [wire[s] EXCEPT !.trailers = streams[s].trailers])
    BY <1>1, <1>2, SendTrailersKeeps
  <1>5. StreamOK(streams[s], request[s], sent[s], link[s], wire[s])'
    BY <1>2, <1>3, <1>4
  <1>6. TypeOK' /\ Others(s) /\ pc' # "handler"
    BY <1>1, <1>2 DEF TypeOK, Others
  <1> QED
    BY <1>2, <1>5, <1>6, StreamStep

LEMMA StutterKeeps == IInv /\ UNCHANGED vars => IInv'
  <1> SUFFICES ASSUME IInv, UNCHANGED vars PROVE IInv'
    OBVIOUS
  <1>1. UNCHANGED <<pc, streams, ready, current, request, sent, link, window, wire, broken, calls>>
    BY DEF vars
  <1> QED
    BY <1>1 DEF IInv, TypeOK, EveryStream, CurrentOK, CallsOK, CallOK

LEMMA NextKeeps == IInv /\ [Next]_vars => IInv'
  <1> SUFFICES ASSUME IInv, Next PROVE IInv'
    BY StutterKeeps
  <1>1. CASE ClientStep
    BY <1>1, StepHeaders, StepData, StepRstStream, StepWindowUpdate, StepRun DEF ClientStep
  <1>2. CASE ServerStep
    BY <1>2, StepRun, StepProcess, StepHandlerReturns, StepSendHeaders, StepSendData,
       StepSendTrailers DEF ServerStep
  <1>3. CASE ReadSome \/ ReadEnds \/ RecvFails
    BY <1>3, StepRun
  <1> QED
    BY <1>1, <1>2, <1>3 DEF Next

(* The session keeps the inductive invariant, whatever the client sends, the  *)
(* handlers return and the pieces come in.                                    *)
THEOREM SessionInvariant == Spec => []IInv
  <1> QED
    BY InitIInv, NextKeeps, PTL DEF Spec

-----------------------------------------------------------------------------
LEMMA SeenFromIInv == IInv => HandlerSeesRequest
  BY DEF IInv, CallsOK, CallOK, HandlerSeesRequest

(* process_ready_streams calls a handler at most once per stream, only for a  *)
(* request that is complete and well formed, and with the bytes and metadata  *)
(* the client sent, however the client cut them into DATA frames.             *)
THEOREM HandlerSees == Spec => []HandlerSeesRequest
  <1> QED
    BY SessionInvariant, SeenFromIInv, PTL

(* One stream's part of the ordering property. *)
LEMMA OrderedStream ==
    ASSUME IInv, NEW s \in Streams
    PROVE  /\ wire[s].data # <<>> => wire[s].headers /\ IsPrefix(wire[s].data, streams[s].response)
           /\ wire[s].trailers # <<>> =>
                  /\ wire[s].headers /\ wire[s].data = streams[s].response
                  /\ Cardinality(StatusLines(s)) = 1
                  /\ Status(s) = "Ok" => decode_error(wire[s].data, MaxMessage) = "none"
                  /\ Expected(request[s]) # "none" =>
                         Status(s) = Expected(request[s]) /\ wire[s].data = <<>>
  <1> DEFINE st == streams[s]
             w == wire[s]
             req == request[s]
  <1>1. /\ st \in StreamRec /\ AnsweredOK(st, req) /\ WireOK(st, w) /\ UnansweredOK(st, w)
    BY DEF IInv, EveryStream, StreamOK, StreamType
  <1>2. st.response \in Seq(Byte) /\ st.offset \in Nat
    BY <1>1 DEF StreamRec
  <1> HIDE DEF st, w, req
  <1>3. ASSUME w.data # <<>> PROVE w.headers /\ IsPrefix(w.data, st.response)
    <2>1. w.headers /\ w.data = SubSeq(st.response, 1, st.offset) /\ st.offset <= Len(st.response)
      BY <1>1, <1>3 DEF WireOK
    <2>2. Len(w.data) = st.offset /\ SubSeq(st.response, 1, Len(w.data)) = w.data
      BY <1>2, <2>1
    <2> QED
      BY <1>2, <2>1, <2>2 DEF IsPrefix
  <1>4. ASSUME w.trailers # <<>>
        PROVE  /\ w.headers /\ w.data = st.response
               /\ Cardinality(StatusLines(s)) = 1
               /\ Status(s) = "Ok" => decode_error(w.data, MaxMessage) = "none"
               /\ Expected(req) # "none" => Status(s) = Expected(req) /\ w.data = <<>>
    <2>1. /\ st.trailers_submitted /\ w.trailers = st.trailers /\ w.headers
          /\ st.offset = Len(st.response) /\ w.data = SubSeq(st.response, 1, st.offset)
      BY <1>1, <1>4 DEF WireOK
    <2>2. w.data = st.response
      BY <1>2, <2>1
    <2>3. Deserved(w.trailers, w.data, req)
      BY <1>1, <1>4, <2>1, <2>2 DEF AnsweredOK
    <2>4. PICK i \in DOMAIN w.trailers :
             /\ IsStatus(w.trailers, i)
             /\ w.trailers[i].value = "Ok" => decode_error(w.data, MaxMessage) = "none"
             /\ Expected(req) # "none" => w.trailers[i].value = Expected(req) /\ w.data = <<>>
      BY <2>3 DEF Deserved
    <2>5. StatusLines(s) = {i}
      BY <2>4 DEF StatusLines, IsStatus, w
    <2>6. Cardinality(StatusLines(s)) = 1
      BY <2>5, FS_Singleton
    <2>7. Status(s) = w.trailers[i].value
      BY <2>5 DEF Status, w
    <2> QED
      BY <2>1, <2>2, <2>4, <2>6, <2>7
  <1> QED
    BY <1>3, <1>4 DEF st, w, req

LEMMA OrderFromIInv == IInv => AnswerInOrder
  BY OrderedStream DEF AnswerInOrder

(* flush() and on_data_read send the headers, then the whole message, then    *)
(* trailers with one status, and nothing after them; a refused request gets   *)
(* the status that its contents call for and no data.                         *)
THEOREM OrderedAnswers == Spec => []AnswerInOrder
  <1> QED
    BY SessionInvariant, OrderFromIInv, PTL

=============================================================================
