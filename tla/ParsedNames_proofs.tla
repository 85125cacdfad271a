------------------------- MODULE ParsedNames_proofs -------------------------
(***************************************************************************)
(* A name or an answer that is reported of a frame is what its whole       *)
(* payload reads as, wherever the capture is cut: no decoder takes the     *)
(* first bytes of a name for the name, and none reads on past the message  *)
(* into what happens to be next.                                           *)
(*                                                                         *)
(* Of every reading it is proved that more bytes change nothing that was   *)
(* read: the message that is cut reads as the whole one does, or as        *)
(* nothing. What is left is to follow the decoders to the payload, with    *)
(* the headers between them and it, and to see that the one that reads it  *)
(* is the one of the protocol and the ports that the frame has.            *)
(***************************************************************************)
EXTENDS PacketParser_proofs
LOCAL INSTANCE FiniteSetsExt

---------------------------------------------------------------------------
(* Bytes of which there may be more.                                       *)
Byte == 0 .. 255

(* a is the first bytes of b.                                              *)
Begins(a, b) ==
  /\ a \in Seq(Byte) /\ b \in Seq(Byte) /\ Len(a) <= Len(b)
  /\ \A i \in 1 .. Len(a) : a[i] = b[i]

LEMMA ByteIsNat == ASSUME NEW x \in Byte PROVE x \in Nat /\ x <= 255
  BY DEF Byte

(* A number is one.                                                        *)
LEMMA NumberIs ==
  ASSUME NEW s \in Seq(Byte)
  PROVE  Number(s) \in Nat
<1> DEFINE n == Len(s)
           step == [k \in 1 .. n |-> [v \in Nat |-> v * 256 + s[k]]]
           Rule(h) == h = [k \in 0 .. n |-> IF k = 0 THEN 0 ELSE h[k - 1] * 256 + s[k]]
           value == CHOOSE h : Rule(h)
<1>1. n \in Nat /\ \A k \in 1 .. n : s[k] \in Byte
  OBVIOUS
<1>2. Number(s) = value[n]
  BY DEF Number
<1>3. \A k \in 1 .. n : \A v \in Nat : step[k][v] = v * 256 + s[k]
  OBVIOUS
<1>4. step \in [1 .. n -> [Nat -> Nat]]
  <2>1. \A v \in Nat : \A x \in Nat : v * 256 + x \in Nat
    OBVIOUS
  <2>2. \A k \in 1 .. n : s[k] \in Nat
    BY <1>1, ByteIsNat
  <2> HIDE DEF n
  <2>3. \A k \in 1 .. n : \A v \in Nat : v * 256 + s[k] \in Nat
    BY <2>1, <2>2, Zenon
  <2>. QED
    BY <2>3
<1> HIDE DEF n, step
<1>5. PICK g \in [0 .. n -> Nat] : StepByStep(g, n, 0, step)
  BY <1>1, <1>4, StepsAreThere
<1>6. \A k \in 1 .. n : g[k - 1] \in Nat
  BY <1>1
<1>7. Rule(g)
  <2>1. g = [k \in 0 .. n |-> g[k]]
    OBVIOUS
  <2>2. ASSUME NEW k \in 0 .. n PROVE g[k] = IF k = 0 THEN 0 ELSE g[k - 1] * 256 + s[k]
    <3>1. CASE k = 0
      BY <1>5, <3>1 DEF StepByStep
    <3>2. CASE k # 0
      <4>1. k \in 1 .. n
        BY <1>1, <3>2
      <4>2. g[k] = step[k][g[k - 1]]
        BY <1>5, <4>1 DEF StepByStep
      <4>. QED
        BY <1>3, <1>6, <4>1, <4>2, <3>2, ZenonT(60)
    <3>. QED
      BY <3>1, <3>2
  <2>. QED
    BY <2>1, <2>2
<1> HIDE DEF Rule
<1>8. Rule(value)
  BY <1>7
<1> HIDE DEF value
<1>9. \A k \in 0 .. n : value[k] = IF k = 0 THEN 0 ELSE value[k - 1] * 256 + s[k]
  <2>1. value = [k \in 0 .. n |-> IF k = 0 THEN 0 ELSE value[k - 1] * 256 + s[k]]
    BY <1>8 DEF Rule
  <2>. QED
    BY <2>1
<1>10. value[n] \in Nat
  <2> DEFINE T == {k \in 0 .. n : value[k] \in Nat}
  <2>1. 0 \in T
    <3>1. 0 \in 0 .. n
      BY <1>1
    <3>. QED
      BY <3>1, <1>9
  <2>2. ASSUME NEW k \in 0 .. n - 1, k \in T PROVE k + 1 \in T
    <3>1. k + 1 \in 1 .. n /\ k + 1 \in 0 .. n /\ (k + 1) - 1 = k /\ k + 1 # 0
      BY <1>1
    <3>2. value[k + 1] = value[k] * 256 + s[k + 1]
      BY <1>9, <3>1
    <3>3. value[k] \in Nat
      BY <2>2 DEF T
    <3>4. s[k + 1] \in Nat
      BY <1>1, <3>1, ByteIsNat
    <3>. QED
      BY <3>1, <3>2, <3>3, <3>4 DEF T
  <2> HIDE DEF T
  <2>3. \A k \in 0 .. n : k \in T
    BY ONLY <1>1, <2>1, <2>2, Induction
  <2>4. n \in T
    BY <1>1, <2>3
  <2>. QED
    BY <2>4 DEF T
<1>. QED
  BY <1>2, <1>10

(* What is within the first bytes is the same there.                       *)
LEMMA SameBytes ==
  ASSUME NEW a, NEW b, Begins(a, b), NEW i \in Nat, NEW j \in Int, j <= Len(a)
  PROVE  Bytes(a, i, j) = Bytes(b, i, j) /\ Bytes(a, i, j) \in Seq(Byte)
<1>1. a \in Seq(Byte) /\ b \in Seq(Byte) /\ Len(a) <= Len(b) /\ Len(a) \in Nat /\ Len(b) \in Nat
  BY DEF Begins
<1>2. CASE i + 1 <= j
  <2>1. i + 1 \in 1 .. Len(a) + 1 /\ j \in i .. Len(a) /\ i + 1 \in 1 .. Len(b) + 1 /\ j \in i .. Len(b)
    BY <1>1, <1>2
  <2>. DEFINE x == SubSeq(a, i + 1, j)
              y == SubSeq(b, i + 1, j)
  <2>2. x \in Seq(Byte) /\ x = [k \in 1 .. j - i |-> a[i + k]]
    <3>1. SubSeq(a, i + 1, j) = [k \in 1 .. (j - (i + 1) + 1) |-> a[k + (i + 1) - 1]]
      BY <1>1
    <3>2. \A k \in 1 .. j - i : i + k \in 1 .. Len(a) /\ k + (i + 1) - 1 = i + k
      BY <2>1
    <3>3. j - (i + 1) + 1 = j - i /\ j - i \in Nat
      BY <2>1
    <3>4. x = [k \in 1 .. j - i |-> a[i + k]]
      BY <3>1, <3>2, <3>3
    <3>5. \A k \in 1 .. j - i : a[i + k] \in Byte
      BY <3>2, <1>1
    <3> HIDE DEF x
    <3>. QED
      BY <3>3, <3>4, <3>5
  <2>3. y \in Seq(Byte) /\ y = [k \in 1 .. j - i |-> b[i + k]]
    <3>1. SubSeq(b, i + 1, j) = [k \in 1 .. (j - (i + 1) + 1) |-> b[k + (i + 1) - 1]]
      BY <1>1
    <3>2. \A k \in 1 .. j - i : i + k \in 1 .. Len(b) /\ k + (i + 1) - 1 = i + k
      BY <2>1
    <3>3. j - (i + 1) + 1 = j - i /\ j - i \in Nat
      BY <2>1
    <3>4. y = [k \in 1 .. j - i |-> b[i + k]]
      BY <3>1, <3>2, <3>3
    <3>5. \A k \in 1 .. j - i : b[i + k] \in Byte
      BY <3>2, <1>1
    <3> HIDE DEF y
    <3>. QED
      BY <3>3, <3>4, <3>5
  <2>4. \A k \in 1 .. j - i : a[i + k] = b[i + k]
    <3>1. \A k \in 1 .. j - i : i + k \in 1 .. Len(a)
      BY <2>1
    <3>. QED
      BY <3>1 DEF Begins
  <2> HIDE DEF x, y
  <2>5. x = y
    BY <2>2, <2>3, <2>4
  <2>. QED
    BY <2>2, <2>5 DEF Bytes, x, y
<1>3. CASE ~(i + 1 <= j)
  <2>1. SubSeq(a, i + 1, j) = <<>> /\ SubSeq(b, i + 1, j) = <<>>
    BY <1>1, <1>3
  <2>. QED
    BY <2>1, EmptySeq DEF Bytes
<1>. QED
  BY <1>2, <1>3

LEMMA OctetSame ==
  ASSUME NEW a, NEW b, Begins(a, b), NEW i \in Nat, i < Len(a)
  PROVE  Octet(a, i) = Octet(b, i) /\ Octet(a, i) \in Byte
<1>1. a \in Seq(Byte) /\ Len(a) \in Nat
  BY DEF Begins
<1>2. i + 1 \in 1 .. Len(a)
  BY <1>1
<1>. QED
  BY <1>1, <1>2 DEF Begins, Octet

LEMMA LongerThan ==
  ASSUME NEW a, NEW b, Begins(a, b)
  PROVE  Len(a) \in Nat /\ Len(b) \in Nat /\ Len(a) <= Len(b)
  BY DEF Begins

LEMMA UIntSame ==
  ASSUME NEW a, NEW b, Begins(a, b), NEW i \in Nat, NEW w \in Nat, i + w <= Len(a)
  PROVE  UInt(a, i, w) = UInt(b, i, w) /\ UInt(a, i, w) \in Nat
<1>1. i + w \in Int
  OBVIOUS
<1>2. Bytes(a, i, i + w) = Bytes(b, i, i + w) /\ Bytes(a, i, i + w) \in Seq(Byte)
  BY <1>1, SameBytes
<1>3. Number(Bytes(a, i, i + w)) \in Nat
  BY <1>2, NumberIs
<1>. QED
  BY <1>2, <1>3 DEF UInt

(* A vector that ends in what there is, is the same in more.               *)
VectorIs(V, e) == \E v : V = {v} /\ v.from \in Nat /\ v.to \in Nat /\ v.to <= e

LEMMA VectorGrows ==
  ASSUME NEW a, NEW b, Begins(a, b), NEW i \in Nat, NEW w \in Nat,
         Vector(a, i, Len(a), w) # {}
  PROVE  Vector(b, i, Len(b), w) = Vector(a, i, Len(a), w) /\ VectorIs(Vector(a, i, Len(a), w), Len(a))
<1>1. Len(a) \in Nat /\ Len(b) \in Nat /\ Len(a) <= Len(b)
  BY LongerThan
<1>2. i + w <= Len(a) /\ i + w + UInt(a, i, w) <= Len(a)
  <2>1. ~(i + w > Len(a) \/ i + w + UInt(a, i, w) > Len(a))
    BY Zenon DEF Vector
  <2>2. i + w <= Len(a)
    BY <2>1, <1>1
  <2>3. UInt(a, i, w) \in Nat
    BY <2>2, UIntSame
  <2>. QED
    BY <2>1, <2>2, <2>3, <1>1
<1>3. UInt(a, i, w) = UInt(b, i, w) /\ UInt(a, i, w) \in Nat
  BY <1>2, UIntSame
<1> DEFINE u == UInt(a, i, w)
           v == [from |-> i + w, to |-> i + w + u]
<1>4. Vector(a, i, Len(a), w) = {v}
  BY <1>1, <1>2, <1>3 DEF Vector
<1>5. Vector(b, i, Len(b), w) = {v}
  BY <1>1, <1>2, <1>3 DEF Vector
<1>6. v.from \in Nat /\ v.to \in Nat /\ v.to <= Len(a)
  <2>1. u \in Nat /\ i + w + u <= Len(a)
    BY <1>2, <1>3
  <2> HIDE DEF u
  <2>. QED
    BY <2>1
<1> HIDE DEF v
<1>. QED
  BY <1>4, <1>5, <1>6 DEF VectorIs

(* A TLS record that is all there is read alike whatever follows it.       *)
LEMMA TlsNameStays ==
  ASSUME NEW a, NEW b, Begins(a, b), TlsName(a) # {}
  PROVE  TlsName(b) = TlsName(a)
<1>1. Len(a) \in Nat /\ Len(b) \in Nat /\ Len(a) <= Len(b)
  BY LongerThan
<1>2. LooksLikeTlsHandshake(a) /\ SniFromRecord(a) # {}
  BY DEF TlsName
<1>3. LooksLikeTlsHandshake(b)
  <2>1. Len(a) >= 5
    BY <1>2 DEF LooksLikeTlsHandshake
  <2>2. Octet(a, 0) = Octet(b, 0) /\ Octet(a, 1) = Octet(b, 1) /\ Octet(a, 2) = Octet(b, 2)
    BY <1>1, <2>1, OctetSame
  <2>. QED
    BY <1>1, <1>2, <2>1, <2>2 DEF LooksLikeTlsHandshake
<1>4. Vector(a, 3, Len(a), 2) # {}
  BY <1>2 DEF SniFromRecord, RecordEnd
<1>5. Vector(b, 3, Len(b), 2) = Vector(a, 3, Len(a), 2) /\ VectorIs(Vector(a, 3, Len(a), 2), Len(a))
  BY <1>4, VectorGrows
<1>6. PICK v : Vector(a, 3, Len(a), 2) = {v} /\ v.to \in Nat /\ v.to <= Len(a)
  BY <1>5 DEF VectorIs
<1>7. RecordEnd(a) = {v.to} /\ RecordEnd(b) = {v.to}
  BY <1>5, <1>6 DEF RecordEnd
<1>8. Bytes(a, 0, v.to) = Bytes(b, 0, v.to)
  BY <1>6, SameBytes
<1>9. SniFromRecord(a) = SniOf(Bytes(a, 0, v.to)) /\ SniFromRecord(b) = SniOf(Bytes(b, 0, v.to))
  BY <1>7 DEF SniFromRecord
<1>. QED
  BY <1>2, <1>3, <1>8, <1>9 DEF TlsName

---------------------------------------------------------------------------
VarintIs(V, e) == \E v : V = {v} /\ v.value \in Nat /\ v.to \in Nat /\ v.to <= e

LEMMA VarintGrows ==
  ASSUME NEW a, NEW b, Begins(a, b), NEW p \in Nat, Varint(a, p) # {}
  PROVE  Varint(b, p) = Varint(a, p) /\ VarintIs(Varint(a, p), Len(a))
<1>1. Len(a) \in Nat /\ Len(b) \in Nat /\ Len(a) <= Len(b)
  BY LongerThan
<1>2. p < Len(a)
  BY <1>1 DEF Varint
<1>3. Octet(a, p) = Octet(b, p) /\ Octet(a, p) \in Byte
  BY <1>2, OctetSame
<1> DEFINE o == Octet(a, p)
           w == <<1, 2, 4, 8>>[1 + (o \div 64)]
           s == Bytes(a, p + 1, p + w)
           v == [value |-> Number(<<o % 64>> \o s), to |-> p + w]
<1>4. w \in Nat \ {0} /\ o % 64 \in Byte
  <2>1. o \in 0 .. 255
    BY <1>3 DEF Byte
  <2> HIDE DEF o
  <2>2. o \div 64 \in 0 .. 3 /\ o % 64 \in 0 .. 255
    BY <2>1
  <2>3. 1 + (o \div 64) \in 1 .. 4
    BY <2>2
  <2> DEFINE d == 1 + (o \div 64)
  <2>4. d = 1 \/ d = 2 \/ d = 3 \/ d = 4
    BY <2>3
  <2> HIDE DEF d
  <2>5. <<1, 2, 4, 8>>[d] \in Nat \ {0}
    BY <2>4
  <2>. QED
    BY <2>2, <2>5 DEF d, Byte
<1>5. p + w <= Len(a)
  <2>1. ~(p >= Len(a))
    BY <1>1, <1>2
  <2>2. ~(p + w > Len(a))
    BY <2>1, Zenon DEF Varint
  <2> HIDE DEF w
  <2>. QED
    BY <2>2, <1>1, <1>4
<1>6. Varint(a, p) = {v}
  <2>1. ~(p >= Len(a))
    BY <1>1, <1>2
  <2>2. ~(p + w > Len(a))
    <3> HIDE DEF w
    <3>. QED
      BY <1>1, <1>4, <1>5
  <2>. QED
    BY <2>1, <2>2, Zenon DEF Varint
<1>7. s = Bytes(b, p + 1, p + w) /\ s \in Seq(Byte)
  <2> HIDE DEF w
  <2>1. p + 1 \in Nat /\ p + w \in Int
    BY <1>4
  <2>. QED
    BY <1>5, <2>1, SameBytes
<1>8. Varint(b, p) = {v}
  <2>1. ~(p >= Len(b)) /\ ~(p + w > Len(b))
    <3> HIDE DEF w
    <3>. QED
      BY <1>1, <1>2, <1>4, <1>5
  <2>2. Octet(b, p) = o
    BY <1>3
  <2>. QED
    BY <2>1, <2>2, <1>7, Zenon DEF Varint
<1>9. v.value \in Nat /\ v.to \in Nat /\ v.to <= Len(a)
  <2> HIDE DEF w, s, o
  <2>1. <<o % 64>> \o s \in Seq(Byte)
    <3>1. <<o % 64>> \in Seq(Byte)
      BY <1>4
    <3>. QED
      BY <3>1, <1>7, ConcatProperties
  <2>2. Number(<<o % 64>> \o s) \in Nat
    BY <2>1, NumberIs
  <2>3. p + w \in Nat
    BY <1>4
  <2>. QED
    BY <2>2, <2>3, <1>5
<1> HIDE DEF v
<1>. QED
  BY <1>6, <1>8, <1>9 DEF VarintIs

LEMMA ConnectionIdGrows ==
  ASSUME NEW a, NEW b, Begins(a, b), NEW p \in Nat, ConnectionId(a, p) # {}
  PROVE  ConnectionId(b, p) = ConnectionId(a, p) /\ VectorIs(ConnectionId(a, p), Len(a))
<1>1. Vector(a, p, Len(a), 1) # {}
  BY DEF ConnectionId
<1>2. Vector(b, p, Len(b), 1) = Vector(a, p, Len(a), 1) /\ VectorIs(Vector(a, p, Len(a), 1), Len(a))
  BY <1>1, VectorGrows
<1>3. ConnectionId(b, p) = ConnectionId(a, p)
  BY <1>2, Zenon DEF ConnectionId
<1>4. PICK v : Vector(a, p, Len(a), 1) = {v} /\ v.from \in Nat /\ v.to \in Nat /\ v.to <= Len(a)
  BY <1>2 DEF VectorIs
<1>5. ConnectionId(a, p) = {v}
  BY <1>4 DEF ConnectionId
<1>. QED
  BY <1>3, <1>4, <1>5 DEF VectorIs

(* The token after the connection IDs, if it is there.                     *)
Token(b, p) == {t \in Varint(b, p) : t.to + t.value <= Len(b)}

LEMMA TokenGrows ==
  ASSUME NEW a, NEW b, Begins(a, b), NEW p \in Nat, Token(a, p) # {}
  PROVE  Token(b, p) = Token(a, p) /\ VarintIs(Token(a, p), Len(a))
<1>1. Len(a) \in Nat /\ Len(b) \in Nat /\ Len(a) <= Len(b)
  BY LongerThan
<1>2. Varint(a, p) # {}
  BY DEF Token
<1>3. Varint(b, p) = Varint(a, p) /\ VarintIs(Varint(a, p), Len(a))
  BY <1>2, VarintGrows
<1>4. PICK t : Varint(a, p) = {t} /\ t.value \in Nat /\ t.to \in Nat /\ t.to <= Len(a)
  BY <1>3 DEF VarintIs
<1>5. t.to + t.value <= Len(a)
  BY <1>4 DEF Token
<1>6. t.to + t.value <= Len(b)
  <2> DEFINE x == t.to
             y == t.value
  <2>1. x \in Nat /\ y \in Nat /\ x + y <= Len(a)
    BY <1>4, <1>5
  <2> HIDE DEF x, y
  <2>2. x + y <= Len(b)
    BY <2>1, <1>1
  <2>. QED
    BY <2>2 DEF x, y
<1>7. Token(a, p) = {t} /\ Token(b, p) = {t}
  BY <1>3, <1>4, <1>5, <1>6 DEF Token
<1>. QED
  BY <1>4, <1>7 DEF VarintIs

(* What follows the IDs d and s and the token t.                           *)
LEMMA NumberedThere ==
  ASSUME NEW b, NEW d, NEW s, NEW t,
         ConnectionId(b, 5) = {d}, ConnectionId(b, d.to) = {s}, Token(b, s.to) = {t}
  PROVE  Numbered(b) = Varint(b, t.to + t.value)
  BY DEF Numbered, Token

LEMMA NumberedGrows ==
  ASSUME NEW a, NEW b, Begins(a, b), Numbered(a) # {}
  PROVE  Numbered(b) = Numbered(a) /\ VarintIs(Numbered(a), Len(a))
<1>1. PICK d \in ConnectionId(a, 5) :
        \E s \in ConnectionId(a, d.to) : Token(a, s.to) # {}
  BY DEF Numbered, Token
<1>2. ConnectionId(b, 5) = ConnectionId(a, 5) /\ VectorIs(ConnectionId(a, 5), Len(a))
  BY <1>1, ConnectionIdGrows
<1>3. ConnectionId(a, 5) = {d} /\ d.to \in Nat
  BY <1>1, <1>2 DEF VectorIs
<1>4. PICK s \in ConnectionId(a, d.to) : Token(a, s.to) # {}
  BY <1>1
<1>5. ConnectionId(b, d.to) = ConnectionId(a, d.to) /\ VectorIs(ConnectionId(a, d.to), Len(a))
  BY <1>3, <1>4, ConnectionIdGrows
<1>6. ConnectionId(a, d.to) = {s} /\ s.to \in Nat
  BY <1>4, <1>5 DEF VectorIs
<1>7. Token(b, s.to) = Token(a, s.to) /\ VarintIs(Token(a, s.to), Len(a))
  BY <1>4, <1>6, TokenGrows
<1>8. PICK t : Token(a, s.to) = {t} /\ t.to \in Nat /\ t.value \in Nat
  BY <1>7 DEF VarintIs
<1>9. Numbered(a) = Varint(a, t.to + t.value)
  BY <1>3, <1>6, <1>8, NumberedThere
<1>10. Numbered(b) = Varint(b, t.to + t.value)
  BY <1>2, <1>3, <1>5, <1>6, <1>7, <1>8, NumberedThere
<1>11. t.to + t.value \in Nat
  BY <1>8
<1>12. Varint(b, t.to + t.value) = Varint(a, t.to + t.value)
       /\ VarintIs(Varint(a, t.to + t.value), Len(a))
  BY <1>9, <1>11, VarintGrows
<1>. QED
  BY <1>9, <1>10, <1>12

(* What is read of the packet whose number is at l.to.                     *)
InitialOf(b, l) ==
  LET e     == l.to + l.value
      start == l.to + 1 + (Octet(b, 0) % 4)
  IN IF \/ e > Len(b) \/ l.value < TagLength + 1 \/ l.to + 20 > Len(b)
        \/ (Octet(b, 0) \div 16) % 4 # (IF UInt(b, 1, 4) = 1 THEN 0 ELSE 1)
        \/ start + TagLength >= e \/ ~Decrypts(b, e)
     THEN {} ELSE CryptoFrames(Bytes(b, start, e - TagLength))

(* An Initial packet that is all there is read alike whatever follows it   *)
(* in the datagram.                                                        *)
LEMMA InitialGrows ==
  ASSUME NEW a, NEW b, Begins(a, b), ParseInitial(a) # {}
  PROVE  ParseInitial(b) = ParseInitial(a)
<1>1. Len(a) \in Nat /\ Len(b) \in Nat /\ Len(a) <= Len(b)
  BY LongerThan
<1>2. ~(Len(a) < 20 \/ ~LooksLikeLongHeader(a))
  BY Zenon DEF ParseInitial
<1>3. Len(a) >= 20 /\ LooksLikeLongHeader(a)
  BY <1>1, <1>2
<1>4. Octet(a, 0) = Octet(b, 0) /\ Octet(a, 0) \in Byte
  BY <1>1, <1>3, OctetSame
<1>5. UInt(a, 1, 4) = UInt(b, 1, 4)
  BY <1>1, <1>3, UIntSame
<1>6. LooksLikeLongHeader(b) /\ ~(Len(b) < 20)
  BY <1>1, <1>3, <1>4, <1>5 DEF LooksLikeLongHeader
<1>7. ParseInitial(a) = UNION {InitialOf(a, l) : l \in Numbered(a)}
  BY <1>2, Zenon DEF ParseInitial, InitialOf
<1>8. ParseInitial(b) = UNION {InitialOf(b, l) : l \in Numbered(b)}
  BY <1>6, Zenon DEF ParseInitial, InitialOf
<1>9. Numbered(a) # {}
  BY <1>7
<1>10. Numbered(b) = Numbered(a) /\ VarintIs(Numbered(a), Len(a))
  BY <1>9, NumberedGrows
<1>11. PICK l : Numbered(a) = {l} /\ l.value \in Nat /\ l.to \in Nat
  BY <1>10 DEF VarintIs
<1>12. InitialOf(a, l) # {} /\ ParseInitial(a) = InitialOf(a, l) /\ ParseInitial(b) = InitialOf(b, l)
  BY <1>7, <1>8, <1>10, <1>11
<1> DEFINE e     == l.to + l.value
           start == l.to + 1 + (Octet(a, 0) % 4)
<1>13. ~(\/ e > Len(a) \/ l.value < TagLength + 1 \/ l.to + 20 > Len(a)
         \/ (Octet(a, 0) \div 16) % 4 # (IF UInt(a, 1, 4) = 1 THEN 0 ELSE 1)
         \/ start + TagLength >= e \/ ~Decrypts(a, e))
  BY <1>12, Zenon DEF InitialOf
<1>14. InitialOf(a, l) = CryptoFrames(Bytes(a, start, e - TagLength))
  BY <1>13, Zenon DEF InitialOf
<1>15. e \in Nat /\ start \in Nat /\ e <= Len(a) /\ e <= Len(b) /\ l.to + 20 <= Len(b)
       /\ e - 16 \in Nat /\ e - 16 < Len(a)
  <2> DEFINE o == Octet(a, 0)
             x == l.to
             y == l.value
  <2>1. o \in 0 .. 255
    BY <1>4 DEF Byte
  <2>2. ~(x + y > Len(a)) /\ ~(y < 17) /\ ~(x + 20 > Len(a)) /\ x \in Nat /\ y \in Nat
    BY <1>11, <1>13 DEF TagLength
  <2> HIDE DEF o, x, y
  <2>3. o % 4 \in Nat
    BY <2>1
  <2>4. x + 1 + (o % 4) \in Nat
    BY <2>2, <2>3
  <2>5. /\ x + y \in Nat /\ x + y <= Len(a) /\ x + y <= Len(b) /\ x + 20 <= Len(b)
        /\ (x + y) - 16 \in Nat /\ (x + y) - 16 < Len(a)
    BY <2>2, <1>1
  <2>. QED
    BY <2>4, <2>5 DEF o, x, y
<1>16. Decrypts(b, e) = Decrypts(a, e)
  <2>1. Octet(a, e - 16) = Octet(b, e - 16)
    BY <1>15, OctetSame
  <2>. QED
    BY <2>1 DEF Decrypts, TagLength
<1>17. Bytes(b, start, e - TagLength) = Bytes(a, start, e - TagLength)
  <2>1. e - TagLength \in Int /\ e - TagLength <= Len(a)
    BY <1>1, <1>15 DEF TagLength
  <2>. QED
    BY <1>15, <2>1, SameBytes
<1>18. start = l.to + 1 + (Octet(b, 0) % 4)
  BY <1>4
<1>19. ~(\/ e > Len(b) \/ l.value < TagLength + 1 \/ l.to + 20 > Len(b)
         \/ (Octet(b, 0) \div 16) % 4 # (IF UInt(b, 1, 4) = 1 THEN 0 ELSE 1)
         \/ start + TagLength >= e \/ ~Decrypts(b, e))
  <2>1. ~(e > Len(b)) /\ ~(l.to + 20 > Len(b))
    <3> DEFINE x == l.to
    <3>1. x \in Nat /\ x + 20 <= Len(b) /\ e \in Nat /\ e <= Len(b)
      BY <1>11, <1>15
    <3> HIDE DEF x, e
    <3>2. ~(e > Len(b)) /\ ~(x + 20 > Len(b))
      BY <3>1, <1>1
    <3>. QED
      BY <3>2 DEF x
  <2>. QED
    BY <2>1, <1>4, <1>5, <1>13, <1>16, Zenon
<1>20. InitialOf(b, l) = CryptoFrames(Bytes(b, start, e - TagLength))
  BY <1>18, <1>19, Zenon DEF InitialOf
<1>. QED
  BY <1>12, <1>14, <1>17, <1>20

LEMMA QuicNameStays ==
  ASSUME NEW a, NEW b, Begins(a, b), QuicName(a) # {}
  PROVE  QuicName(b) = QuicName(a)
<1>1. ParseInitial(a) # {}
  BY DEF QuicName, ExtractInitialSni
<1>2. ParseInitial(b) = ParseInitial(a)
  BY <1>1, InitialGrows
<1>. QED
  BY <1>2, Zenon DEF QuicName, ExtractInitialSni
---------------------------------------------------------------------------
(* Lines end one after the other.                                          *)
Lines(lines) ==
  /\ Len(lines) \in Nat
  /\ \A i \in 1 .. Len(lines) : lines[i].len \in Nat
  /\ lines # <<>> => lines[1].told \in Nat \ {0}

LEMMA LinesEnd ==
  ASSUME NEW lines, Lines(lines)
  PROVE  \A i, j \in 1 .. Len(lines) :
           LineEnd(lines, i) \in Nat /\ (i <= j => LineEnd(lines, i) <= LineEnd(lines, j))
<1> DEFINE n == Len(lines)
           s == [i \in 1 .. n |-> lines[i].len]
           Rule(h) == h = [j \in 0 .. n |-> IF j = 0 THEN 0 ELSE h[j - 1] + lines[j].len]
           ends == CHOOSE h : Rule(h)
<1>1. n \in Nat /\ s \in [1 .. n -> Nat]
  BY DEF Lines
<1>2. \A i : LineEnd(lines, i) = ends[i]
  BY DEF LineEnd
<1>3. \A j \in 1 .. n : s[j] = lines[j].len
  OBVIOUS
<1> HIDE DEF n, s
<1>4. PICK g : SumsOf(s, n, g)
  BY <1>1, SumsAreThere
<1>5. g \in [0 .. n -> Nat] /\ g[0] = 0 /\ \A i \in 1 .. n : g[i] = g[i - 1] + s[i]
  BY <1>4 DEF SumsOf
<1>6. Rule(g)
  <2>1. g = [i \in 0 .. n |-> g[i]]
    BY <1>5
  <2>2. \A i \in 0 .. n : g[i] = IF i = 0 THEN 0 ELSE g[i - 1] + lines[i].len
    BY <1>3, <1>5
  <2> QED
    BY <2>1, <2>2
<1> HIDE DEF Rule
<1>7. Rule(ends)
  BY <1>6
<1> HIDE DEF ends
<1>8. \A j \in 0 .. n : ends[j] = IF j = 0 THEN 0 ELSE ends[j - 1] + lines[j].len
  <2>1. ends = [j \in 0 .. n |-> IF j = 0 THEN 0 ELSE ends[j - 1] + lines[j].len]
    BY <1>7 DEF Rule
  <2>. QED
    BY <2>1
<1>9. AddsUp(ends, s, n)
  <2>1. ends[0] = 0
    BY <1>1, <1>8
  <2>2. ASSUME NEW i \in 1 .. n PROVE ends[i] = ends[i - 1] + s[i]
    <3>1. i \in 0 .. n /\ i # 0
      BY <1>1
    <3> QED
      BY <1>3, <1>8, <3>1
  <2> QED
    BY <2>1, <2>2 DEF AddsUp
<1>10. \A i \in 0 .. n : ends[i] = g[i]
  BY <1>1, <1>4, <1>9, SumsAgree
<1>11. ASSUME NEW i \in 0 .. n PROVE \A j \in 0 .. n : i <= j => g[i] <= g[j]
  <2> DEFINE T == {j \in 0 .. n : i <= j => g[i] <= g[j]}
  <2>1. 0 \in T
    <3>1. 0 \in 0 .. n /\ (i <= 0 => i = 0) /\ g[0] <= g[0]
      BY <1>1, <1>5
    <3>. QED
      BY <3>1
  <2>2. ASSUME NEW j \in 0 .. n - 1, j \in T PROVE j + 1 \in T
    <3>1. j + 1 \in 1 .. n /\ (j + 1) - 1 = j /\ j + 1 \in 0 .. n /\ j \in 0 .. n
      BY <1>1
    <3>2. g[j + 1] = g[j] + s[j + 1] /\ g[j] \in Nat /\ s[j + 1] \in Nat /\ g[i] \in Nat
      BY <1>1, <1>5, <3>1
    <3>3. CASE i <= j
      <4>1. g[i] <= g[j]
        BY <2>2, <3>3
      <4>. QED
        BY <3>1, <3>2, <4>1
    <3>4. CASE ~(i <= j)
      <4>1. i <= j + 1 => i = j + 1
        BY <3>4
      <4>. QED
        BY <3>1, <3>2, <4>1
    <3>. QED
      BY <3>3, <3>4
  <2> HIDE DEF T
  <2>3. \A j \in 0 .. n : j \in T
    BY ONLY <1>1, <2>1, <2>2, Induction
  <2>. QED
    BY <2>3 DEF T
<1>12. ASSUME NEW i \in 1 .. n, NEW j \in 1 .. n
       PROVE  LineEnd(lines, i) \in Nat /\ (i <= j => LineEnd(lines, i) <= LineEnd(lines, j))
  <2>1. i \in 0 .. n /\ j \in 0 .. n
    BY <1>1
  <2>2. LineEnd(lines, i) = g[i] /\ LineEnd(lines, j) = g[j]
    BY <1>2, <1>10, <2>1
  <2>. QED
    BY <1>5, <1>11, <2>1, <2>2
<1>. QED
  BY <1>12 DEF n

(* The name in the head of a request stays when more of it is there.       *)
LEMMA HttpNameStays ==
  ASSUME NEW lines, Lines(lines), NEW m \in Nat, NEW n \in Nat, m <= n, HttpName(lines, m) # {}
  PROVE  HttpName(lines, n) = HttpName(lines, m)
<1>1. Scanned(m) \in Nat /\ Scanned(n) \in Nat /\ Scanned(m) <= Scanned(n)
  BY DEF Scanned, Lesser, MaxScanned
<1>2. IsHttp(lines, m) /\ HostLines(lines, m) # {}
  <2>1. ~(~IsHttp(lines, m) \/ HostLines(lines, m) = {})
    BY Zenon DEF HttpName
  <2>. QED
    BY <2>1
<1>3. IsHttp(lines, n)
  <2> DEFINE t == lines[1].told
  <2>1. t \in Nat /\ lines # <<>> /\ Scanned(m) >= t
    BY <1>2 DEF IsHttp, Lines
  <2> HIDE DEF t
  <2>2. Scanned(n) >= t
    BY <2>1, <1>1
  <2>. QED
    BY <2>1, <2>2 DEF IsHttp, t
<1>4. Len(lines) \in Nat
  BY DEF Lines
<1>5. HostLines(lines, m) \subseteq 1 .. Len(lines) /\ HostLines(lines, n) \subseteq 1 .. Len(lines)
  BY DEF HostLines
<1>6. PICK i \in HostLines(lines, m) : \A j \in HostLines(lines, m) : i <= j
  BY <1>2, <1>4, <1>5, LeastIsThere
<1>7. i \in 1 .. Len(lines) /\ LineEnd(lines, i) \in Nat /\ LineEnd(lines, i) <= Scanned(m)
  BY <1>5, LinesEnd DEF HostLines
<1>8. i \in HostLines(lines, n)
  <2>1. LineEnd(lines, i) <= Scanned(n)
    BY <1>1, <1>7
  <2>. QED
    BY <2>1 DEF HostLines
<1>9. ASSUME NEW j \in HostLines(lines, n) PROVE i <= j
  <2>1. j \in 1 .. Len(lines)
    BY <1>5
  <2>2. CASE j <= i
    <3>1. LineEnd(lines, j) \in Nat /\ LineEnd(lines, j) <= LineEnd(lines, i)
      BY <1>7, <2>1, <2>2, LinesEnd
    <3>2. LineEnd(lines, j) <= Scanned(m)
      BY <1>1, <1>7, <3>1
    <3>3. j \in HostLines(lines, m)
      BY <3>2 DEF HostLines
    <3>. QED
      BY <1>6, <3>3
  <2>. QED
    BY <1>7, <2>1, <2>2
<1>10. Min(HostLines(lines, m)) = i /\ Min(HostLines(lines, n)) = i
  <2>1. IsLeast(i, HostLines(lines, m)) /\ IsLeast(i, HostLines(lines, n))
    BY <1>6, <1>8, <1>9 DEF IsLeast
  <2>2. HostLines(lines, m) \subseteq Nat /\ HostLines(lines, n) \subseteq Nat
    BY <1>4, <1>5
  <2>. QED
    BY <2>1, <2>2, LeastIsMin
<1>11. HttpName(lines, m) = {lines[i].value} \ {None}
  BY <1>2, <1>10 DEF HttpName
<1>12. HttpName(lines, n) = {lines[i].value} \ {None}
  BY <1>3, <1>8, <1>10 DEF HttpName
<1>. QED
  BY <1>11, <1>12

(* There is none in no bytes, and beyond those looked at none is read.     *)
LEMMA HttpNameEnds ==
  ASSUME NEW lines, Lines(lines)
  PROVE  /\ HttpName(lines, 0) = {}
         /\ \A n \in Nat : n >= MaxScanned => HttpName(lines, n) = HttpName(lines, MaxScanned)
<1>1. HttpName(lines, 0) = {}
  <2>1. Scanned(0) = 0
    BY DEF Scanned, Lesser, MaxScanned
  <2>2. ~IsHttp(lines, 0)
    <3> DEFINE t == lines[1].told
    <3>1. lines # <<>> => t \in Nat \ {0}
      BY DEF Lines
    <3> HIDE DEF t
    <3>2. lines # <<>> => ~(0 >= t)
      BY <3>1
    <3>. QED
      BY <2>1, <3>2 DEF IsHttp, t
  <2>. QED
    BY <2>2 DEF HttpName
<1>2. ASSUME NEW n \in Nat, n >= MaxScanned PROVE HttpName(lines, n) = HttpName(lines, MaxScanned)
  <2>1. Scanned(n) = Scanned(MaxScanned)
    BY <1>2 DEF Scanned, Lesser, MaxScanned
  <2>2. IsHttp(lines, n) = IsHttp(lines, MaxScanned) /\ HostLines(lines, n) = HostLines(lines, MaxScanned)
    BY <2>1 DEF IsHttp, HostLines
  <2>. QED
    BY <2>2, Zenon DEF HttpName
<1>. QED
  BY <1>1, <1>2
---------------------------------------------------------------------------
(* Names.  What a step of reading does: it ends, it goes to where a        *)
(* pointer points, or it goes on after a label.                            *)
Jumps(m, c, k) ==
  /\ c < Len(m) /\ IsPointer(Octet(m, c))
  /\ c + 1 < Len(m) /\ PointerAllowed(m, k) /\ Target(m, c) < Len(m)

GoesOn(m, c) ==
  c < Len(m) /\ Octet(m, c) # 0 /\ Octet(m, c) < 64 /\ c + 1 + Octet(m, c) <= Len(m)

NameStops(m, x) == ~Jumps(m, x[1], x[2]) /\ ~GoesOn(m, x[1])

LastName(m, x) ==
  IF x[1] < Len(m) /\ Octet(m, x[1]) = 0 THEN {[labels |-> <<>>, to |-> x[1] + 1]} ELSE {}

NextPlace(m, x) ==
  IF Jumps(m, x[1], x[2]) THEN <<Target(m, x[1]), x[2] + 1>>
  ELSE <<x[1] + 1 + Octet(m, x[1]), x[2]>>

Longer(m, x, n) ==
  IF Jumps(m, x[1], x[2]) THEN [labels |-> n.labels, to |-> x[1] + 2]
  ELSE [labels |-> <<Bytes(m, x[1] + 1, x[1] + 1 + Octet(m, x[1]))>> \o n.labels, to |-> n.to]

WalkStep(m, h, x) ==
  LET c == x[1]
      k == x[2]
      b == Octet(m, c)
  IN IF c = Len(m) THEN {}
     ELSE IF b = 0 THEN {[labels |-> <<>>, to |-> c + 1]}
     ELSE IF IsPointer(b) THEN
       IF c + 1 < Len(m) /\ PointerAllowed(m, k) /\ Target(m, c) < Len(m)
       THEN {[labels |-> n.labels, to |-> c + 2] : n \in h[<<Target(m, c), k + 1>>]}
       ELSE {}
     ELSE IF b < 64 /\ c + 1 + b <= Len(m)
     THEN {[labels |-> <<Bytes(m, c + 1, c + 1 + b)>> \o n.labels, to |-> n.to] :
             n \in h[<<c + 1 + b, k>>]}
     ELSE {}

Places(m) == (0 .. Len(m)) \X (0 .. Len(m))

WalkRule(m, h) == h = [x \in (0 .. Len(m)) \X (0 .. Len(m)) |-> WalkStep(m, h, x)]

LEMMA NamesAreWalked ==
  ASSUME NEW m
  PROVE  \A p : ReadName(m, p) = IF p > Len(m) THEN {} ELSE (CHOOSE h : WalkRule(m, h))[<<p, 0>>]
  BY DEF ReadName, WalkRule, WalkStep

LEMMA OctetIs ==
  ASSUME NEW m \in Seq(Byte), NEW c \in Nat, c < Len(m)
  PROVE  Octet(m, c) \in Nat /\ Octet(m, c) \in Byte
<1>1. c + 1 \in 1 .. Len(m)
  OBVIOUS
<1>2. m[c + 1] \in Byte
  BY <1>1
<1>. QED
  BY <1>2, ByteIsNat DEF Octet

(* What is read at a place, from what h reads at the next.                 *)
Walked(m, h, x) ==
  IF NameStops(m, x) THEN LastName(m, x) ELSE {Longer(m, x, n) : n \in h[NextPlace(m, x)]}

LEMMA WalkSteps ==
  ASSUME NEW m \in Seq(Byte), NEW h, NEW x \in Places(m)
  PROVE  WalkStep(m, h, x) = Walked(m, h, x)
<1> USE DEF Walked
<1> DEFINE c == x[1]
           k == x[2]
           b == Octet(m, c)
<1>1. x[1] = c /\ x[2] = k
  OBVIOUS
<1>2. Len(m) \in Nat /\ c \in Nat /\ k \in Nat /\ c \in 0 .. Len(m)
  BY DEF Places
<1> HIDE DEF c, k
<1>3. CASE c = Len(m)
  <2>1. ~(c < Len(m))
    BY <1>3, <1>2
  <2>2. NameStops(m, x) /\ LastName(m, x) = {}
    BY <1>1, <2>1 DEF NameStops, LastName, Jumps, GoesOn
  <2>. QED
    BY <1>3, <2>2 DEF WalkStep, c
<1>4. CASE c # Len(m)
  <2>1. c < Len(m) /\ b \in Nat
    BY <1>2, <1>4, OctetIs
  <2>2. CASE b = 0
    <3>1. ~IsPointer(b)
      BY <2>2 DEF IsPointer
    <3>2. NameStops(m, x) /\ LastName(m, x) = {[labels |-> <<>>, to |-> c + 1]}
      BY <1>1, <2>1, <2>2, <3>1 DEF NameStops, LastName, Jumps, GoesOn
    <3>3. WalkStep(m, h, x) = {[labels |-> <<>>, to |-> c + 1]}
      BY <1>4, <2>2, Zenon DEF WalkStep, c, k
    <3>. QED
      BY <3>2, <3>3
  <2>3. CASE b # 0 /\ IsPointer(b)
    <3>1. ~(b < 64)
      BY <2>1, <2>3 DEF IsPointer
    <3>2. ~GoesOn(m, c) /\ LastName(m, x) = {}
      BY <1>1, <2>3, <3>1 DEF GoesOn, LastName
    <3>3. CASE Jumps(m, c, k)
      <4>1. c + 1 < Len(m) /\ PointerAllowed(m, k) /\ Target(m, c) < Len(m)
        BY <3>3 DEF Jumps
      <4>2. WalkStep(m, h, x)
              = {[labels |-> n.labels, to |-> c + 2] : n \in h[<<Target(m, c), k + 1>>]}
        BY <1>4, <2>3, <4>1, Zenon DEF WalkStep, c, k
      <4>3. ~NameStops(m, x) /\ NextPlace(m, x) = <<Target(m, c), k + 1>>
        BY <1>1, <3>3 DEF NameStops, NextPlace
      <4>4. \A n : Longer(m, x, n) = [labels |-> n.labels, to |-> c + 2]
        BY <1>1, <3>3, Zenon DEF Longer
      <4>. QED
        BY <4>2, <4>3, <4>4
    <3>4. CASE ~Jumps(m, c, k)
      <4>1. ~(c + 1 < Len(m) /\ PointerAllowed(m, k) /\ Target(m, c) < Len(m))
        BY <2>1, <2>3, <3>4 DEF Jumps
      <4>2. WalkStep(m, h, x) = {}
        BY <1>4, <2>3, <4>1, Zenon DEF WalkStep, c, k
      <4>3. NameStops(m, x)
        BY <1>1, <3>2, <3>4 DEF NameStops
      <4>. QED
        BY <3>2, <4>2, <4>3
    <3>. QED
      BY <3>3, <3>4
  <2>4. CASE b # 0 /\ ~IsPointer(b)
    <3>1. ~Jumps(m, c, k) /\ LastName(m, x) = {}
      BY <1>1, <2>4 DEF Jumps, LastName
    <3>2. CASE GoesOn(m, c)
      <4>1. b < 64 /\ c + 1 + b <= Len(m)
        BY <3>2 DEF GoesOn
      <4> DEFINE R(n) == [labels |-> <<Bytes(m, c + 1, c + 1 + b)>> \o n.labels, to |-> n.to]
      <4>2. WalkStep(m, h, x) = {R(n) : n \in h[<<c + 1 + b, k>>]}
        BY <1>4, <2>4, <4>1, Zenon DEF WalkStep, c, k
      <4>3. ~NameStops(m, x) /\ NextPlace(m, x) = <<c + 1 + b, k>>
        BY <1>1, <3>1, <3>2 DEF NameStops, NextPlace
      <4>4. \A n : Longer(m, x, n) = R(n)
        BY <1>1, <3>1, Zenon DEF Longer
      <4> HIDE DEF R
      <4>. QED
        BY <4>2, <4>3, <4>4
    <3>3. CASE ~GoesOn(m, c)
      <4>1. ~(b < 64 /\ c + 1 + b <= Len(m))
        BY <2>1, <2>4, <3>3 DEF GoesOn
      <4>2. WalkStep(m, h, x) = {}
        BY <1>4, <2>4, <4>1, Zenon DEF WalkStep, c, k
      <4>3. NameStops(m, x)
        BY <1>1, <3>1, <3>3 DEF NameStops
      <4>. QED
        BY <3>1, <4>2, <4>3
    <3>. QED
      BY <3>2, <3>3
  <2>. QED
    BY <2>2, <2>3, <2>4
<1>. QED
  BY <1>3, <1>4

(* A name is one, of so many bytes, or none.                               *)
NamesIn(L) == [labels : Seq(Seq(Byte)), to : 0 .. L]
OneName(L) == {{}} \union {{n} : n \in NamesIn(L)}

(* A later place is nearer to the end.                                     *)
Left(m) == [x \in Places(m) |-> (Len(m) - x[2]) * (Len(m) + 1) + (Len(m) - x[1])]
MostLeft(m) == (Len(m) + 1) * (Len(m) + 1)

LEMMA LeftIs ==
  ASSUME NEW m \in Seq(Byte)
  PROVE  MostLeft(m) \in Nat /\ Left(m) \in [Places(m) -> 0 .. MostLeft(m)]
<1>1. MostLeft(m) \in Nat
  BY DEF MostLeft
<1>2. ASSUME NEW x \in Places(m)
      PROVE  (Len(m) - x[2]) * (Len(m) + 1) + (Len(m) - x[1]) \in 0 .. MostLeft(m)
  <2> DEFINE L == Len(m)
             c == x[1]
             k == x[2]
  <2>1. L \in Nat /\ c \in 0 .. L /\ k \in 0 .. L
    BY DEF Places
  <2> HIDE DEF L, c, k
  <2> DEFINE d == L - k
             u == L + 1
  <2>2. d \in 0 .. L /\ L - c \in 0 .. L /\ u \in Nat
    BY <2>1
  <2> HIDE DEF d
  <2>3. d * u >= 0 /\ d * u <= L * u /\ d * u \in Nat
    BY <2>1, <2>2
  <2>4. u * u = L * u + u
    BY <2>1
  <2>5. L * u \in Nat
    BY <2>1
  <2> DEFINE du == d * u
             Lu == L * u
             uu == u * u
  <2>6. du + (L - c) \in 0 .. uu
    <3>1. du \in Nat /\ Lu \in Nat /\ du <= Lu /\ uu = Lu + u
      BY <2>3, <2>4, <2>5
    <3> HIDE DEF du, Lu, uu
    <3>. QED
      BY <2>1, <2>2, <3>1
  <2>. QED
    BY <2>6 DEF MostLeft, d, L, c, k
<1>. QED
  BY <1>1, <1>2 DEF Left

LEMMA NextPlaceIs ==
  ASSUME NEW m \in Seq(Byte), NEW x \in Places(m), ~NameStops(m, x)
  PROVE  NextPlace(m, x) \in Places(m) /\ Left(m)[NextPlace(m, x)] < Left(m)[x]
<1> DEFINE L == Len(m)
           c == x[1]
           k == x[2]
           u == L + 1
<1>1. L \in Nat /\ c \in 0 .. L /\ k \in 0 .. L /\ x = <<c, k>>
  BY DEF Places
<1>2. CASE Jumps(m, c, k)
  <2> DEFINE t == Target(m, c)
  <2>1. c < L /\ c + 1 < L /\ k < L /\ t < L
    BY <1>2 DEF Jumps, PointerAllowed
  <2>2. t \in Nat
    <3>1. Octet(m, c) \in Nat /\ Octet(m, c + 1) \in Nat
      BY <1>1, <2>1, OctetIs
    <3> DEFINE o == Octet(m, c)
               r == Octet(m, c + 1)
    <3>2. (o % 64) * 256 + r \in Nat
      <4> HIDE DEF o, r
      <4>1. o \in Nat /\ r \in Nat
        BY <3>1 DEF o, r
      <4>2. o % 64 \in Nat
        BY <4>1
      <4>. QED
        BY <4>1, <4>2
    <3>. QED
      BY <3>2 DEF Target
  <2> HIDE DEF t
  <2>3. NextPlace(m, x) = <<t, k + 1>> /\ <<t, k + 1>> \in Places(m)
    <3>1. NextPlace(m, x) = <<t, k + 1>>
      BY <1>2 DEF NextPlace, t
    <3>2. t \in 0 .. L /\ k + 1 \in 0 .. L
      BY <1>1, <2>1, <2>2
    <3>. QED
      BY <3>1, <3>2 DEF Places
  <2>4. Left(m)[<<t, k + 1>>] = (L - (k + 1)) * u + (L - t)
    BY <2>3 DEF Left
  <2>5. Left(m)[x] = (L - k) * u + (L - c)
    BY DEF Left
  <2>6. (L - (k + 1)) * u + (L - t) < (L - k) * u + (L - c)
    <3> HIDE DEF L, c, k
    <3>1. (L - (k + 1)) * u = (L - k) * u - u /\ (L - k) * u \in Int
      BY <1>1
    <3> DEFINE p == (L - k) * u
    <3>2. p \in Int /\ (L - (k + 1)) * u = p - u
      BY <3>1
    <3> HIDE DEF p
    <3>3. p - u + (L - t) < p + (L - c)
      BY <1>1, <2>1, <2>2, <3>2
    <3>. QED
      BY <3>2, <3>3 DEF p
  <2>. QED
    BY <2>3, <2>4, <2>5, <2>6
<1>3. CASE ~Jumps(m, c, k)
  <2> DEFINE b == Octet(m, c)
             t == c + 1 + b
  <2>1. c < L /\ t <= L
    BY <1>3 DEF NameStops, GoesOn
  <2>2. b \in Nat
    BY <1>1, <2>1, OctetIs
  <2>3. NextPlace(m, x) = <<t, k>>
    BY <1>3 DEF NextPlace
  <2> HIDE DEF b
  <2>4. t \in 0 .. L /\ c < t
    BY <1>1, <2>1, <2>2
  <2> HIDE DEF t
  <2>5. <<t, k>> \in Places(m)
    BY <1>1, <2>4 DEF Places
  <2>6. Left(m)[<<t, k>>] = (L - k) * u + (L - t)
    BY <2>5 DEF Left
  <2>7. Left(m)[x] = (L - k) * u + (L - c)
    BY DEF Left
  <2>8. (L - k) * u + (L - t) < (L - k) * u + (L - c)
    <3> HIDE DEF L, c, k
    <3> DEFINE p == (L - k) * u
    <3>1. p \in Int
      BY <1>1
    <3> HIDE DEF p
    <3>2. p + (L - t) < p + (L - c)
      BY <1>1, <2>1, <2>4, <3>1
    <3>. QED
      BY <3>2 DEF p
  <2>. QED
    BY <2>3, <2>5, <2>6, <2>7, <2>8
<1>. QED
  BY <1>2, <1>3

LEMMA LastNameIs ==
  ASSUME NEW m \in Seq(Byte), NEW x \in Places(m)
  PROVE  LastName(m, x) \in OneName(Len(m))
<1> DEFINE c == x[1]
           n == [labels |-> <<>>, to |-> c + 1]
<1>1. Len(m) \in Nat /\ c \in 0 .. Len(m)
  BY DEF Places
<1>2. CASE c < Len(m) /\ Octet(m, c) = 0
  <2>1. c + 1 \in 0 .. Len(m)
    BY <1>1, <1>2
  <2>2. <<>> \in Seq(Seq(Byte))
    OBVIOUS
  <2>3. n \in NamesIn(Len(m))
    BY <2>1, <2>2 DEF NamesIn
  <2>4. LastName(m, x) = {n}
    BY <1>2 DEF LastName
  <2>. QED
    BY <2>3, <2>4 DEF OneName
<1>3. CASE ~(c < Len(m) /\ Octet(m, c) = 0)
  <2>1. LastName(m, x) = {}
    BY <1>3 DEF LastName
  <2>. QED
    BY <2>1 DEF OneName
<1>. QED
  BY <1>2, <1>3

LEMMA LongerIs ==
  ASSUME NEW m \in Seq(Byte), NEW x \in Places(m), ~NameStops(m, x), NEW s \in OneName(Len(m))
  PROVE  {Longer(m, x, n) : n \in s} \in OneName(Len(m))
<1> DEFINE L == Len(m)
           c == x[1]
           k == x[2]
           b == Octet(m, c)
<1>1. L \in Nat /\ c \in 0 .. L /\ k \in 0 .. L
  BY DEF Places
<1>2. ASSUME NEW n \in NamesIn(L) PROVE Longer(m, x, n) \in NamesIn(L)
  <2>1. n.labels \in Seq(Seq(Byte)) /\ n.to \in 0 .. L
    BY DEF NamesIn
  <2>2. CASE Jumps(m, c, k)
    <3>1. c + 2 \in 0 .. L
      BY <1>1, <2>2 DEF Jumps
    <3>2. Longer(m, x, n) = [labels |-> n.labels, to |-> c + 2]
      BY <2>2 DEF Longer
    <3>. QED
      BY <2>1, <3>1, <3>2 DEF NamesIn
  <2>3. CASE ~Jumps(m, c, k)
    <3> DEFINE l == Bytes(m, c + 1, c + 1 + b)
    <3>1. c < L /\ c + 1 + b <= L
      BY <2>3 DEF NameStops, GoesOn
    <3>2. b \in Nat
      BY <1>1, <3>1, OctetIs
    <3>3. l \in Seq(Byte)
      <4>1. Begins(m, m)
        BY DEF Begins
      <4> HIDE DEF b
      <4>2. c + 1 \in Nat /\ c + 1 + b \in Int
        BY <1>1, <3>2
      <4>. QED
        BY <3>1, <4>1, <4>2, SameBytes
    <3> HIDE DEF l
    <3>4. <<l>> \o n.labels \in Seq(Seq(Byte))
      <4>1. <<l>> \in Seq(Seq(Byte))
        BY <3>3
      <4>. QED
        BY <2>1, <4>1, ConcatProperties
    <3>5. Longer(m, x, n) = [labels |-> <<l>> \o n.labels, to |-> n.to]
      BY <2>3 DEF Longer, l
    <3>. QED
      BY <2>1, <3>4, <3>5 DEF NamesIn
  <2>. QED
    BY <2>2, <2>3
<1>3. CASE s = {}
  <2>1. {Longer(m, x, n) : n \in s} = {}
    BY <1>3
  <2>. QED
    BY <2>1 DEF OneName
<1>4. CASE s # {}
  <2>1. PICK n \in NamesIn(L) : s = {n}
    BY <1>4 DEF OneName
  <2>2. {Longer(m, x, z) : z \in s} = {Longer(m, x, n)}
    BY <2>1
  <2>. QED
    BY <1>2, <2>1, <2>2 DEF OneName
<1>. QED
  BY <1>3, <1>4

(* What the walk reads, place by place.                                    *)
WalkIs(m, w) ==
  \A x \in Places(m) : w[x] = Walked(m, w, x) /\ w[x] \in OneName(Len(m))

LEMMA ReadNameWalks ==
  ASSUME NEW m \in Seq(Byte)
  PROVE  \E w : WalkIs(m, w) /\ \A p : ReadName(m, p) = IF p > Len(m) THEN {} ELSE w[<<p, 0>>]
<1> DEFINE S == Places(m)
           V == OneName(Len(m))
           ends == {x \in S : NameStops(m, x)}
           base == [x \in S |-> LastName(m, x)]
           next == [x \in S |-> NextPlace(m, x)]
           step == [x \in S |-> [s \in V |-> IF NameStops(m, x) THEN {} ELSE {Longer(m, x, n) : n \in s}]]
           walk == CHOOSE h : WalkRule(m, h)
<1>1. base \in [S -> V]
  BY LastNameIs
<1>2. step \in [S -> [V -> V]]
  <2>1. ASSUME NEW x \in S, NEW s \in V
        PROVE  (IF NameStops(m, x) THEN {} ELSE {Longer(m, x, n) : n \in s}) \in V
    <3>1. CASE NameStops(m, x)
      <4>1. {} \in V
        BY DEF OneName
      <4>. QED
        BY <3>1, <4>1
    <3>2. CASE ~NameStops(m, x)
      BY <3>2, LongerIs
    <3>. QED
      BY <3>1, <3>2
  <2> HIDE DEF V
  <2>. QED
    BY <2>1
<1>3. MostLeft(m) \in Nat /\ Left(m) \in [S -> 0 .. MostLeft(m)]
  BY LeftIs
<1>4. \A x \in S : x \notin ends => next[x] \in S /\ Left(m)[next[x]] < Left(m)[x]
  BY NextPlaceIs
<1> HIDE DEF S, V
<1>5. PICK g \in [S -> V] : Recurs(g, S, ends, base, next, step)
  <2> HIDE DEF ends, base, next, step
  <2>. QED
    BY <1>1, <1>2, <1>3, <1>4, RecursionIsThere
<1>6. ASSUME NEW x \in S PROVE g[x] = Walked(m, g, x)
  <2>1. g[x] = IF x \in ends THEN base[x] ELSE step[x][g[next[x]]]
    BY <1>5 DEF Recurs
  <2>2. CASE NameStops(m, x)
    BY <2>1, <2>2 DEF Walked
  <2>3. CASE ~NameStops(m, x)
    <3>1. g[NextPlace(m, x)] \in V
      BY <1>4, <2>3
    <3>2. x \notin ends /\ next[x] = NextPlace(m, x)
      BY <2>3
    <3>3. step[x][g[NextPlace(m, x)]] = {Longer(m, x, n) : n \in g[NextPlace(m, x)]}
      BY <2>3, <3>1
    <3>. QED
      BY <2>1, <2>3, <3>2, <3>3 DEF Walked
  <2>. QED
    BY <2>2, <2>3
<1> DEFINE L == Len(m)
<1>7. WalkRule(m, g)
  <2>1. g = [x \in S |-> g[x]]
    OBVIOUS
  <2>2. \A x \in S : g[x] = WalkStep(m, g, x)
    <3>1. \A x \in S : WalkStep(m, g, x) = Walked(m, g, x)
      BY WalkSteps DEF S
    <3>. QED
      BY <1>6, <3>1
  <2>. QED
    BY <2>1, <2>2 DEF WalkRule, S, Places
<1>8. WalkRule(m, walk)
  BY <1>7
<1> HIDE DEF walk
<1>9. ASSUME NEW x \in S PROVE walk[x] = Walked(m, walk, x)
  <2>1. walk = [y \in S |-> WalkStep(m, walk, y)]
    BY <1>8 DEF WalkRule, S, Places
  <2>2. walk[x] = WalkStep(m, walk, x)
    BY <2>1
  <2>3. WalkStep(m, walk, x) = Walked(m, walk, x)
    BY WalkSteps DEF S
  <2>. QED
    BY <2>2, <2>3
<1> DEFINE T == {x \in S : walk[x] \in V}
<1>10. ASSUME NEW x \in S, \A y \in S : Left(m)[y] < Left(m)[x] => y \in T PROVE x \in T
  <2>1. walk[x] = Walked(m, walk, x)
    BY <1>9
  <2>2. CASE NameStops(m, x)
    <3>1. LastName(m, x) \in V
      BY <1>1
    <3>. QED
      BY <2>1, <2>2, <3>1 DEF Walked
  <2>3. CASE ~NameStops(m, x)
    <3>1. NextPlace(m, x) \in T
      BY <1>4, <1>10, <2>3
    <3>2. {Longer(m, x, n) : n \in walk[NextPlace(m, x)]} \in V
      BY <2>3, <3>1, LongerIs DEF S, V
    <3>. QED
      BY <2>1, <2>3, <3>2 DEF Walked
  <2>. QED
    BY <2>2, <2>3
<1> HIDE DEF T
<1>11. \A x \in S : x \in T
  BY ONLY <1>3, <1>10, RankInduction
<1>12. WalkIs(m, walk)
  BY <1>9, <1>11 DEF WalkIs, T, S, V
<1>13. \A p : ReadName(m, p) = IF p > Len(m) THEN {} ELSE walk[<<p, 0>>]
  BY NamesAreWalked DEF walk
<1>. QED
  BY <1>12, <1>13

(* Where the bytes there are lead on, more bytes lead on alike.            *)
LEMMA SameSteps ==
  ASSUME NEW a, NEW b, Begins(a, b), NEW x \in Places(a), ~NameStops(a, x)
  PROVE  /\ ~NameStops(b, x) /\ NextPlace(b, x) = NextPlace(a, x)
         /\ \A n : Longer(b, x, n) = Longer(a, x, n)
<1> DEFINE c == x[1]
           k == x[2]
<1>1. Len(a) \in Nat /\ Len(b) \in Nat /\ Len(a) <= Len(b) /\ c \in Nat /\ k \in Nat
  BY LongerThan DEF Places
<1>2. c < Len(a)
  BY DEF NameStops, Jumps, GoesOn
<1>3. Octet(a, c) = Octet(b, c) /\ Octet(a, c) \in Byte /\ Octet(a, c) \in Nat
  BY <1>1, <1>2, OctetSame, ByteIsNat
<1>4. CASE Jumps(a, c, k)
  <2>1. IsPointer(Octet(a, c)) /\ c + 1 < Len(a) /\ k < Len(a) /\ Target(a, c) < Len(a)
    BY <1>4 DEF Jumps, PointerAllowed
  <2>2. Octet(a, c + 1) = Octet(b, c + 1) /\ Octet(a, c + 1) \in Nat
    BY <1>1, <2>1, OctetSame, ByteIsNat
  <2>3. Target(b, c) = Target(a, c) /\ Target(a, c) \in Nat
    <3>1. Target(b, c) = Target(a, c)
      BY <1>3, <2>2 DEF Target
    <3> DEFINE o == Octet(a, c)
               r == Octet(a, c + 1)
    <3>2. (o % 64) * 256 + r \in Nat
      <4>1. o \in Nat /\ r \in Nat
        BY <1>3, <2>2
      <4> HIDE DEF o, r
      <4>2. o % 64 \in Nat
        BY <4>1
      <4>. QED
        BY <4>1, <4>2
    <3>. QED
      BY <3>1, <3>2 DEF Target
  <2>4. Jumps(b, c, k)
    <3> DEFINE t == Target(a, c)
    <3>1. t \in Nat /\ t < Len(a)
      BY <2>1, <2>3
    <3> HIDE DEF t
    <3>2. c < Len(b) /\ c + 1 < Len(b) /\ k < Len(b) /\ t < Len(b)
      BY <1>1, <1>2, <2>1, <3>1
    <3>. QED
      BY <1>3, <2>1, <2>3, <3>2 DEF Jumps, PointerAllowed, t
  <2>5. NextPlace(a, x) = <<Target(a, c), k + 1>> /\ NextPlace(b, x) = <<Target(a, c), k + 1>>
    BY <1>4, <2>3, <2>4 DEF NextPlace
  <2>6. \A n : Longer(b, x, n) = Longer(a, x, n)
    BY <1>4, <2>4, Zenon DEF Longer
  <2>. QED
    BY <2>4, <2>5, <2>6 DEF NameStops
<1>5. CASE ~Jumps(a, c, k)
  <2> DEFINE o == Octet(a, c)
  <2>1. o # 0 /\ o < 64 /\ c + 1 + o <= Len(a)
    BY <1>5 DEF NameStops, GoesOn
  <2>2. ~IsPointer(o)
    <3> HIDE DEF o
    <3>1. o \in Nat
      BY <1>3 DEF o
    <3>. QED
      BY <2>1, <3>1 DEF IsPointer
  <2>3. ~Jumps(b, c, k)
    BY <1>3, <2>2 DEF Jumps
  <2>4. GoesOn(b, c)
    <3>1. o \in Nat
      BY <1>3
    <3> HIDE DEF o
    <3>2. c + 1 + o <= Len(b) /\ c < Len(b)
      BY <1>1, <1>2, <2>1, <3>1
    <3>. QED
      BY <1>3, <2>1, <3>2 DEF GoesOn, o
  <2>5. NextPlace(a, x) = <<c + 1 + o, k>> /\ NextPlace(b, x) = <<c + 1 + o, k>>
    BY <1>3, <1>5, <2>3 DEF NextPlace
  <2>6. Bytes(a, c + 1, c + 1 + o) = Bytes(b, c + 1, c + 1 + o)
    <3>1. o \in Nat
      BY <1>3
    <3> HIDE DEF o
    <3>2. c + 1 \in Nat /\ c + 1 + o \in Int
      BY <1>1, <3>1
    <3>. QED
      BY <2>1, <3>2, SameBytes
  <2>7. \A n : Longer(b, x, n) = Longer(a, x, n)
    <3> DEFINE l == Bytes(a, c + 1, c + 1 + o)
    <3>1. \A n : Longer(a, x, n) = [labels |-> <<l>> \o n.labels, to |-> n.to]
      BY <1>5, Zenon DEF Longer
    <3>2. \A n : Longer(b, x, n) = [labels |-> <<Bytes(b, c + 1, c + 1 + Octet(b, c))>> \o n.labels, to |-> n.to]
      BY <2>3, Zenon DEF Longer
    <3>3. Bytes(b, c + 1, c + 1 + Octet(b, c)) = l
      BY <1>3, <2>6
    <3> HIDE DEF l
    <3>. QED
      BY <3>1, <3>2, <3>3, Zenon
  <2>. QED
    BY <2>4, <2>5, <2>7 DEF NameStops
<1>. QED
  BY <1>4, <1>5

LEMMA SameLast ==
  ASSUME NEW a, NEW b, Begins(a, b), NEW x \in Places(a), LastName(a, x) # {}
  PROVE  NameStops(b, x) /\ LastName(b, x) = LastName(a, x)
<1> DEFINE c == x[1]
           k == x[2]
<1>1. Len(a) \in Nat /\ Len(b) \in Nat /\ Len(a) <= Len(b) /\ c \in Nat /\ k \in Nat
  BY LongerThan DEF Places
<1>2. c < Len(a) /\ Octet(a, c) = 0
  BY DEF LastName
<1>3. Octet(b, c) = 0 /\ c < Len(b)
  BY <1>1, <1>2, OctetSame
<1>4. NameStops(b, x)
  BY <1>3 DEF NameStops, Jumps, GoesOn, IsPointer
<1>. QED
  BY <1>2, <1>3, <1>4 DEF LastName

(* A name that can be read is the same however much follows; there is one  *)
(* at most.                                                                *)
LEMMA NameIs ==
  ASSUME NEW m \in Seq(Byte), NEW p \in Nat
  PROVE  ReadName(m, p) \in OneName(Len(m))
<1>1. PICK w : WalkIs(m, w) /\ \A q : ReadName(m, q) = IF q > Len(m) THEN {} ELSE w[<<q, 0>>]
  BY ReadNameWalks
<1>2. CASE p > Len(m)
  BY <1>1, <1>2 DEF OneName
<1>3. CASE ~(p > Len(m))
  <2>1. <<p, 0>> \in Places(m)
    BY <1>3 DEF Places
  <2>2. w[<<p, 0>>] \in OneName(Len(m))
    BY <1>1, <2>1 DEF WalkIs
  <2>. QED
    BY <1>1, <1>3, <2>2
<1>. QED
  BY <1>2, <1>3

LEMMA NameStays ==
  ASSUME NEW a, NEW b, Begins(a, b), NEW p \in Nat, ReadName(a, p) # {}
  PROVE  ReadName(b, p) = ReadName(a, p)
<1>1. Len(a) \in Nat /\ Len(b) \in Nat /\ Len(a) <= Len(b) /\ a \in Seq(Byte) /\ b \in Seq(Byte)
  BY DEF Begins
<1>2. PICK w : WalkIs(a, w) /\ \A q : ReadName(a, q) = IF q > Len(a) THEN {} ELSE w[<<q, 0>>]
  BY <1>1, ReadNameWalks
<1>3. PICK h : WalkIs(b, h) /\ \A q : ReadName(b, q) = IF q > Len(b) THEN {} ELSE h[<<q, 0>>]
  BY <1>1, ReadNameWalks
<1> DEFINE S == Places(a)
           T == {x \in S : w[x] # {} => h[x] = w[x]}
<1>4. ASSUME NEW x \in S, \A y \in S : Left(a)[y] < Left(a)[x] => y \in T PROVE x \in T
  <2>1. x \in Places(b)
    BY <1>1 DEF Places
  <2>2. w[x] = Walked(a, w, x) /\ h[x] = Walked(b, h, x)
    BY <1>2, <1>3, <2>1 DEF WalkIs
  <2>3. CASE NameStops(a, x)
    <3>1. w[x] = LastName(a, x)
      BY <2>2, <2>3 DEF Walked
    <3>2. LastName(a, x) # {} => h[x] = LastName(a, x)
      BY <2>2, SameLast DEF Walked
    <3>. QED
      BY <3>1, <3>2
  <2>4. CASE ~NameStops(a, x)
    <3> DEFINE z == NextPlace(a, x)
    <3>1. z \in T
      BY <1>1, <1>4, <2>4, NextPlaceIs
    <3>2. w[x] = {Longer(a, x, n) : n \in w[z]}
      BY <2>2, <2>4 DEF Walked
    <3>3. ~NameStops(b, x) /\ NextPlace(b, x) = z /\ \A n : Longer(b, x, n) = Longer(a, x, n)
      BY <2>4, SameSteps
    <3>4. h[x] = {Longer(b, x, n) : n \in h[z]}
      BY <2>2, <3>3 DEF Walked
    <3> HIDE DEF z
    <3>5. SUFFICES ASSUME w[x] # {} PROVE h[x] = w[x]
      OBVIOUS
    <3>6. w[z] # {}
      BY <3>2, <3>5
    <3>7. h[z] = w[z]
      BY <3>1, <3>6
    <3>8. h[x] = {Longer(a, x, n) : n \in w[z]}
      BY <3>3, <3>4, <3>7
    <3>. QED
      BY <3>2, <3>8
  <2>. QED
    BY <2>3, <2>4
<1> HIDE DEF T
<1>5. MostLeft(a) \in Nat /\ Left(a) \in [S -> 0 .. MostLeft(a)]
  BY <1>1, LeftIs
<1>6. \A x \in S : x \in T
  BY ONLY <1>4, <1>5, RankInduction
<1>7. ~(p > Len(a)) /\ ~(p > Len(b))
  <2>1. ReadName(a, p) = IF p > Len(a) THEN {} ELSE w[<<p, 0>>]
    BY <1>2
  <2>2. ~(p > Len(a))
    BY <2>1
  <2>. QED
    BY <1>1, <2>2
<1>8. <<p, 0>> \in S
  BY <1>1, <1>7 DEF Places
<1>9. <<p, 0>> \in T
  BY <1>6, <1>8
<1>. QED
  BY <1>2, <1>3, <1>7, <1>9 DEF T

LEMMA SameU16 ==
  ASSUME NEW a, NEW b, Begins(a, b), NEW i \in Nat, i + 2 <= Len(a)
  PROVE  U16(b, i) = U16(a, i) /\ U16(a, i) \in Nat
<1>1. Len(a) \in Nat
  BY LongerThan
<1>2. i < Len(a) /\ i + 1 < Len(a) /\ i + 1 \in Nat
  BY <1>1
<1>3. Octet(a, i) = Octet(b, i) /\ Octet(a, i) \in Nat
  BY <1>2, OctetSame, ByteIsNat
<1>4. Octet(a, i + 1) = Octet(b, i + 1) /\ Octet(a, i + 1) \in Nat
  BY <1>2, OctetSame, ByteIsNat
<1> DEFINE o == Octet(a, i)
           r == Octet(a, i + 1)
<1>5. o * 256 + r \in Nat
  <2>1. o \in Nat /\ r \in Nat
    BY <1>3, <1>4
  <2> HIDE DEF o, r
  <2>. QED
    BY <2>1
<1>. QED
  BY <1>3, <1>4, <1>5 DEF U16

(* The record after its owner's name, if it can be read.                   *)
Says(m, labels, t) ==
  IF IsInternet(U16(m, t + 2))
  THEN Answer(Bytes(m, 0, t + RecordFixed + U16(m, t + 8)), U16(m, t), labels, t + RecordFixed,
              ReadName(m, NameAt(U16(m, t), t + RecordFixed)))
  ELSE {}

RecordFits(m, t) ==
  ~(t + RecordFixed > Len(m) \/ t + RecordFixed + U16(m, t + 8) > Len(m))

LEMMA RecordOf ==
  ASSUME NEW m, NEW p, NEW labels, NEW t, ReadName(m, p) = {[labels |-> labels, to |-> t]}
  PROVE  RecordAt(m, p) = IF RecordFits(m, t)
                          THEN {[said |-> Says(m, labels, t), to |-> t + RecordFixed + U16(m, t + 8)]}
                          ELSE {}
<1> DEFINE owner == [labels |-> labels, to |-> t]
           Read(o) ==
             LET fixed == o.to
                 data  == fixed + RecordFixed
                 e     == data + U16(m, fixed + 8)
                 kind  == U16(m, fixed)
             IN IF data > Len(m) \/ e > Len(m) THEN {}
                ELSE {[said |-> IF IsInternet(U16(m, fixed + 2))
                                THEN Answer(Bytes(m, 0, e), kind, o.labels, data,
                                            ReadName(m, NameAt(kind, data)))
                                ELSE {},
                       to   |-> e]}
<1>1. RecordAt(m, p) = UNION {Read(o) : o \in ReadName(m, p)}
  BY Zenon DEF RecordAt
<1>2. RecordAt(m, p) = Read(owner)
  <2> HIDE DEF Read
  <2>. QED
    BY <1>1
<1>3. owner.to = t /\ owner.labels = labels
  OBVIOUS
<1> HIDE DEF owner
<1>4. CASE RecordFits(m, t)
  BY <1>2, <1>3, <1>4, Zenon DEF RecordFits, Says
<1>5. CASE ~RecordFits(m, t)
  BY <1>2, <1>3, <1>5, Zenon DEF RecordFits
<1>. QED
  BY <1>4, <1>5

(* A record of a kind that is for its name says nothing without it.        *)
LEMMA WithoutName ==
  ASSUME NEW r, NEW kind, NEW owner, NEW p, kind = 5 \/ kind = 12 \/ kind = 33
  PROVE  Answer(r, kind, owner, p, {}) = {}
<1> DEFINE inside(ns) == {n.labels : n \in {x \in ns : x.to <= Len(r)}}
           Is(t, v)   == [type |-> t, name |-> owner, value |-> v]
<1>1. inside({}) = {}
  OBVIOUS
<1>2. CASE kind = 5
  <2>1. kind # 1 /\ kind # 28 /\ kind # 12 /\ kind # 33 /\ kind # 16 /\ kind \notin {64, 65}
    BY <1>2
  <2>2. \A ns : Answer(r, kind, owner, p, ns) = {Is("CNAME", n) : n \in inside(ns)}
    BY <1>2, <2>1, Zenon DEF Answer
  <2> HIDE DEF inside, Is
  <2>. QED
    BY <1>1, <2>2
<1>3. CASE kind = 12
  <2>1. kind # 1 /\ kind # 28 /\ kind # 5 /\ kind # 33 /\ kind # 16 /\ kind \notin {64, 65}
    BY <1>3
  <2>2. \A ns : Answer(r, kind, owner, p, ns) = {Is("PTR", n) : n \in inside(ns) \ {<<>>}}
    BY <1>3, <2>1, Zenon DEF Answer
  <2> HIDE DEF inside, Is
  <2>. QED
    BY <1>1, <2>2
<1>4. CASE kind = 33
  <2>1. kind # 1 /\ kind # 28 /\ kind # 5 /\ kind # 12 /\ kind # 16 /\ kind \notin {64, 65}
    BY <1>4
  <2> DEFINE all(ns) == {Is("SRV", <<U16(r, p), n, U16(r, p + 4)>>) : n \in inside(ns) \ {<<>>}}
  <2>2. \A ns : Answer(r, kind, owner, p, ns) = IF Len(r) - p < 7 THEN {} ELSE all(ns)
    BY <1>4, <2>1, Zenon DEF Answer
  <2> HIDE DEF inside, Is
  <2>3. all({}) = {}
    BY <1>1
  <2> HIDE DEF all
  <2>. QED
    BY <2>2, <2>3
<1>. QED
  BY <1>2, <1>3, <1>4

(* A record says more only if it is given a name it did not have.          *)
LEMMA AnswerGrows ==
  ASSUME NEW r, NEW kind, NEW owner, NEW p, NEW names, Answer(r, kind, owner, p, {}) # {}
  PROVE  Answer(r, kind, owner, p, names) # {}
<1>1. CASE kind = 1
  <2>1. \A s : Answer(r, kind, owner, p, s) = IF Len(r) - p = 4
                 THEN {[type |-> "A", name |-> owner, value |-> Bytes(r, p, Len(r))]} ELSE {}
    BY <1>1 DEF Answer
  <2>. QED
    BY <2>1
<1>2. CASE kind = 28
  <2>1. \A s : Answer(r, kind, owner, p, s) = IF Len(r) - p = 16
                 THEN {[type |-> "AAAA", name |-> owner, value |-> Bytes(r, p, Len(r))]} ELSE {}
    BY <1>2 DEF Answer
  <2>. QED
    BY <2>1
<1>3. CASE kind = 16
  <2>1. kind # 1 /\ kind # 28 /\ kind # 5 /\ kind # 12 /\ kind # 33 /\ kind \notin {64, 65}
    BY <1>3
  <2>2. \A s : Answer(r, kind, owner, p, s) =
          {[type |-> "TXT", name |-> owner, value |-> t] : t \in {Text(Chunks(r, p))} \ {<<>>}}
    BY <1>3, <2>1, Zenon DEF Answer
  <2>. QED
    BY <2>2
<1>4. CASE kind = 5 \/ kind = 12 \/ kind = 33
  BY <1>4, WithoutName
<1>5. CASE kind = 64 \/ kind = 65
  <2>1. /\ kind # 1 /\ kind # 28 /\ kind # 5 /\ kind # 12 /\ kind # 33 /\ kind # 16
        /\ kind \in {64, 65}
    BY <1>5
  <2> DEFINE named(ns) == {n.labels : n \in ns} \ {<<>>}
             all(ns)   == IF named(ns) = {} THEN {owner} ELSE named(ns)
             V(ns, n)  == [type  |-> IF kind = 65 THEN "HTTPS" ELSE "SVCB", name |-> owner,
                           value |-> <<U16(r, p), n, \E s \in ns : AdvertisesEch(r, s.to)>>]
  <2>2. \A ns : Answer(r, kind, owner, p, ns)
                  = IF Len(r) - p < 2 THEN {} ELSE {V(ns, n) : n \in all(ns)}
    BY <2>1, Zenon DEF Answer
  <2>3. all(names) # {}
    OBVIOUS
  <2> HIDE DEF V, all
  <2>. QED
    BY <2>2, <2>3
<1>6. CASE kind \notin {1, 28, 16, 5, 12, 33, 64, 65}
  <2>1. Answer(r, kind, owner, p, {}) = {}
    BY <1>6 DEF Answer
  <2>. QED
    BY <2>1
<1>. QED
  BY <1>1, <1>2, <1>3, <1>4, <1>5, <1>6

(* All that the records of a message say.                                  *)
Said(m) == UNION {r.said : r \in UNION {RecordAt(m, p) : p \in Nat}}

ARecord(R, s, t) == R = {[said |-> s, to |-> t]}

LEMMA RecordNeedsName ==
  ASSUME NEW m, NEW p, RecordAt(m, p) # {}
  PROVE  ReadName(m, p) # {}
  BY DEF RecordAt

LEMMA OneNameIs ==
  ASSUME NEW m \in Seq(Byte), NEW p \in Nat, ReadName(m, p) # {}
  PROVE  \E labels, t : t \in Nat /\ ReadName(m, p) = {[labels |-> labels, to |-> t]}
<1>1. PICK n \in NamesIn(Len(m)) : ReadName(m, p) = {n}
  BY NameIs DEF OneName
<1>2. n = [labels |-> n.labels, to |-> n.to] /\ n.to \in Nat
  BY DEF NamesIn
<1>. QED
  BY <1>1, <1>2

LEMMA FitsGrows ==
  ASSUME NEW a, NEW b, Begins(a, b), NEW t \in Nat, RecordFits(a, t)
  PROVE  /\ RecordFits(b, t)
         /\ U16(b, t) = U16(a, t) /\ U16(b, t + 2) = U16(a, t + 2) /\ U16(b, t + 8) = U16(a, t + 8)
         /\ U16(a, t) \in Nat /\ U16(a, t + 8) \in Nat
         /\ t + RecordFixed + U16(a, t + 8) \in Nat /\ t + RecordFixed + U16(a, t + 8) <= Len(a)
<1>1. Len(a) \in Nat /\ Len(b) \in Nat /\ Len(a) <= Len(b)
  BY LongerThan
<1>2. t + 10 <= Len(a)
  BY <1>1 DEF RecordFits, RecordFixed
<1>3. U16(b, t) = U16(a, t) /\ U16(a, t) \in Nat
  <2>1. t + 2 <= Len(a)
    BY <1>1, <1>2
  <2>. QED
    BY <2>1, SameU16
<1>4. U16(b, t + 2) = U16(a, t + 2)
  <2>1. t + 2 \in Nat /\ (t + 2) + 2 <= Len(a)
    BY <1>1, <1>2
  <2>. QED
    BY <2>1, SameU16
<1>5. U16(b, t + 8) = U16(a, t + 8) /\ U16(a, t + 8) \in Nat
  <2>1. t + 8 \in Nat /\ (t + 8) + 2 <= Len(a)
    BY <1>1, <1>2
  <2>. QED
    BY <2>1, SameU16
<1> DEFINE u == U16(a, t + 8)
<1>6. t + RecordFixed + u \in Nat /\ t + RecordFixed + u <= Len(a)
  <2>1. u \in Nat /\ ~(t + RecordFixed + u > Len(a))
    BY <1>5 DEF RecordFits
  <2> HIDE DEF u
  <2>. QED
    BY <1>1, <2>1 DEF RecordFixed
<1>7. RecordFits(b, t)
  <2>1. ~(t + RecordFixed > Len(b))
    BY <1>1, <1>2 DEF RecordFixed
  <2>2. ~(t + RecordFixed + u > Len(b))
    <3>1. u \in Nat
      BY <1>5
    <3> HIDE DEF u
    <3>. QED
      BY <1>1, <1>6, <3>1 DEF RecordFixed
  <2>. QED
    BY <1>5, <2>1, <2>2 DEF RecordFits
<1>. QED
  BY <1>3, <1>4, <1>5, <1>6, <1>7

LEMMA BeginsSelf == ASSUME NEW m \in Seq(Byte) PROVE Begins(m, m)
  BY DEF Begins

LEMMA RecordIs ==
  ASSUME NEW m \in Seq(Byte), NEW p \in Nat, RecordAt(m, p) # {}
  PROVE  \E s, t : ARecord(RecordAt(m, p), s, t) /\ s \subseteq Said(m) /\ t \in Nat
<1>1. PICK labels, t : t \in Nat /\ ReadName(m, p) = {[labels |-> labels, to |-> t]}
  <2>1. ReadName(m, p) # {}
    BY RecordNeedsName
  <2>. QED
    BY <2>1, OneNameIs
<1> DEFINE s == Says(m, labels, t)
           e == t + RecordFixed + U16(m, t + 8)
<1>2. RecordFits(m, t) /\ RecordAt(m, p) = {[said |-> s, to |-> e]}
  BY <1>1, RecordOf
<1>3. e \in Nat
  BY <1>1, <1>2, BeginsSelf, FitsGrows
<1> HIDE DEF s, e
<1>4. s \subseteq Said(m)
  <2> DEFINE r == [said |-> s, to |-> e]
             R == UNION {RecordAt(m, q) : q \in Nat}
  <2>1. r \in R /\ r.said = s
    BY <1>2
  <2> HIDE DEF r, R
  <2>2. s \subseteq UNION {x.said : x \in R}
    BY <2>1
  <2>. QED
    BY <2>2 DEF Said, R
<1>. QED
  BY <1>2, <1>3, <1>4 DEF ARecord

(* A record read of all of three messages, each the start of the next.     *)
Nested(a, b, c) == Begins(a, b) /\ Begins(b, c) /\ Begins(a, c)

RecordsAlike(p, q, r) ==
  \E x, y, z, t : /\ ARecord(p, x, t) /\ ARecord(q, y, t) /\ ARecord(r, z, t) /\ t \in Nat
                  /\ x # {} => z # {}
                  /\ y = x \/ y = z

LEMMA RecordStays ==
  ASSUME NEW a, NEW b, NEW c, Nested(a, b, c), NEW p \in Nat, RecordAt(a, p) # {}
  PROVE  RecordsAlike(RecordAt(a, p), RecordAt(b, p), RecordAt(c, p))
<1>1. a \in Seq(Byte) /\ Begins(a, b) /\ Begins(b, c) /\ Begins(a, c)
  BY DEF Nested, Begins
<1>2. PICK labels, t : t \in Nat /\ ReadName(a, p) = {[labels |-> labels, to |-> t]}
  <2>1. ReadName(a, p) # {}
    BY RecordNeedsName
  <2>. QED
    BY <1>1, <2>1, OneNameIs
<1>3. ReadName(b, p) = ReadName(a, p) /\ ReadName(c, p) = ReadName(a, p)
  BY <1>1, <1>2, NameStays, ZenonT(60)
<1> DEFINE e == t + RecordFixed + U16(a, t + 8)
           kind == U16(a, t)
           q == NameAt(kind, t + RecordFixed)
<1>4. RecordFits(a, t) /\ RecordAt(a, p) = {[said |-> Says(a, labels, t), to |-> e]}
  BY <1>2, RecordOf
<1>5. /\ RecordFits(b, t) /\ U16(b, t) = kind /\ U16(b, t + 2) = U16(a, t + 2)
      /\ U16(b, t + 8) = U16(a, t + 8) /\ e \in Nat /\ e <= Len(a)
  BY <1>1, <1>2, <1>4, FitsGrows
<1>6. /\ RecordFits(c, t) /\ U16(c, t) = kind /\ U16(c, t + 2) = U16(a, t + 2)
      /\ U16(c, t + 8) = U16(a, t + 8)
  BY <1>1, <1>2, <1>4, FitsGrows
<1>7. RecordAt(b, p) = {[said |-> Says(b, labels, t), to |-> e]}
  BY <1>2, <1>3, <1>5, RecordOf
<1>8. RecordAt(c, p) = {[said |-> Says(c, labels, t), to |-> e]}
  BY <1>2, <1>3, <1>6, RecordOf
<1>9. Bytes(b, 0, e) = Bytes(a, 0, e) /\ Bytes(c, 0, e) = Bytes(a, 0, e)
  <2>1. e \in Int /\ 0 \in Nat
    BY <1>5
  <2>. QED
    BY <1>1, <1>5, <2>1, SameBytes
<1>10. q \in Nat
  BY <1>2 DEF NameAt, RecordFixed
<1> DEFINE A(ns) == IF IsInternet(U16(a, t + 2))
                    THEN Answer(Bytes(a, 0, e), kind, labels, t + RecordFixed, ns) ELSE {}
<1>11. /\ Says(a, labels, t) = A(ReadName(a, q))
       /\ Says(b, labels, t) = A(ReadName(b, q))
       /\ Says(c, labels, t) = A(ReadName(c, q))
  <2>1. Says(a, labels, t) = A(ReadName(a, q))
    BY Zenon DEF Says
  <2>2. Says(b, labels, t) = A(ReadName(b, q))
    BY <1>5, <1>9, Zenon DEF Says
  <2>3. Says(c, labels, t) = A(ReadName(c, q))
    BY <1>6, <1>9, Zenon DEF Says
  <2>. QED
    BY <2>1, <2>2, <2>3
<1>12. ASSUME A(ReadName(a, q)) # {} PROVE A(ReadName(c, q)) # {}
  <2>1. CASE ReadName(a, q) # {}
    <3>1. ReadName(c, q) = ReadName(a, q)
      BY <1>1, <1>10, <2>1, NameStays
    <3>. QED
      BY <1>12, <3>1, Zenon
  <2>2. CASE ReadName(a, q) = {}
    <3>1. IsInternet(U16(a, t + 2)) /\ Answer(Bytes(a, 0, e), kind, labels, t + RecordFixed, {}) # {}
      BY <1>12, <2>2, Zenon
    <3>2. Answer(Bytes(a, 0, e), kind, labels, t + RecordFixed, ReadName(c, q)) # {}
      <4> HIDE DEF e, kind, q
      <4>. QED
        BY <3>1, AnswerGrows
    <3>. QED
      BY <3>1, <3>2, Zenon
  <2>. QED
    BY <2>1, <2>2
<1>13. ReadName(b, q) = ReadName(a, q) \/ ReadName(b, q) = ReadName(c, q)
  <2>1. CASE ReadName(a, q) # {}
    BY <1>1, <1>10, <2>1, NameStays
  <2>2. CASE ReadName(b, q) # {}
    BY <1>1, <1>10, <2>2, NameStays
  <2>3. CASE ReadName(a, q) = {} /\ ReadName(b, q) = {}
    BY <2>3
  <2>. QED
    BY <2>1, <2>2, <2>3
<1> HIDE DEF A, e, q, kind
<1>14. A(ReadName(b, q)) = A(ReadName(a, q)) \/ A(ReadName(b, q)) = A(ReadName(c, q))
  BY <1>13, Zenon
<1>15. /\ ARecord(RecordAt(a, p), A(ReadName(a, q)), e)
       /\ ARecord(RecordAt(b, p), A(ReadName(b, q)), e)
       /\ ARecord(RecordAt(c, p), A(ReadName(c, q)), e)
  BY <1>4, <1>7, <1>8, <1>11 DEF ARecord
<1>. QED
  BY <1>5, <1>12, <1>14, <1>15 DEF RecordsAlike

(* The questions, skipped one by one.                                      *)
Skip(m, s) == {p \in {q.to + 4 : q \in UNION {ReadName(m, p) : p \in s}} : p <= Len(m)}
Spots == {{}} \union {{p} : p \in Nat}

SkipIs(m, h) ==
  /\ h[0] = {HeaderLength}
  /\ \A n \in 0 .. U16(m, 4) : h[n] \in Spots
  /\ \A n \in 1 .. U16(m, 4) : h[n] = Skip(m, h[n - 1])

LEMMA SkipSpot ==
  ASSUME NEW m \in Seq(Byte), NEW s \in Spots
  PROVE  Skip(m, s) \in Spots
<1>1. CASE s = {}
  <2>1. Skip(m, s) = {}
    BY <1>1 DEF Skip
  <2>. QED
    BY <2>1 DEF Spots
<1>2. CASE s # {}
  <2>1. PICK p \in Nat : s = {p}
    BY <1>2 DEF Spots
  <2>2. Skip(m, s) = {r \in {q.to + 4 : q \in ReadName(m, p)} : r <= Len(m)}
    BY <2>1 DEF Skip
  <2>3. CASE ReadName(m, p) = {}
    <3>1. Skip(m, s) = {}
      BY <2>2, <2>3
    <3>. QED
      BY <3>1 DEF Spots
  <2>4. CASE ReadName(m, p) # {}
    <3>1. PICK labels, t : t \in Nat /\ ReadName(m, p) = {[labels |-> labels, to |-> t]}
      BY <2>4, OneNameIs
    <3>2. {q.to + 4 : q \in ReadName(m, p)} = {t + 4}
      BY <3>1
    <3>3. Skip(m, s) = {} \/ Skip(m, s) = {t + 4}
      BY <2>2, <3>2
    <3>4. t + 4 \in Nat
      BY <3>1
    <3>. QED
      BY <3>3, <3>4 DEF Spots
  <2>. QED
    BY <2>3, <2>4
<1>. QED
  BY <1>1, <1>2

LEMMA QuestionsSkipped ==
  ASSUME NEW m \in Seq(Byte), Len(m) >= HeaderLength
  PROVE  \E h : SkipIs(m, h) /\ AfterQuestions(m) = h[U16(m, 4)]
<1> DEFINE N == U16(m, 4)
           step == [k \in 1 .. N |-> [s \in Spots |-> Skip(m, s)]]
           Rule(h) == h = [n \in 0 .. N |->
             IF n = 0 THEN {HeaderLength}
             ELSE {p \in {q.to + 4 : q \in UNION {ReadName(m, p) : p \in h[n - 1]}} : p <= Len(m)}]
           after == CHOOSE h : Rule(h)
<1>1. N \in Nat
  <2>1. 4 + 2 <= Len(m)
    BY DEF HeaderLength
  <2>. QED
    BY <2>1, BeginsSelf, SameU16
<1>2. AfterQuestions(m) = after[N]
  BY DEF AfterQuestions
<1> HIDE DEF N
<1>3. \A k \in 1 .. N : \A s \in Spots : step[k][s] = Skip(m, s)
  OBVIOUS
<1>4. step \in [1 .. N -> [Spots -> Spots]]
  <2>1. \A s \in Spots : Skip(m, s) \in Spots
    BY SkipSpot
  <2>. QED
    BY <2>1
<1> HIDE DEF step
<1>5. {HeaderLength} \in Spots
  BY DEF Spots, HeaderLength
<1>6. PICK g \in [0 .. N -> Spots] : StepByStep(g, N, {HeaderLength}, step)
  BY <1>1, <1>4, <1>5, StepsAreThere
<1>7. Rule(g)
  <2>1. g = [k \in 0 .. N |-> g[k]]
    OBVIOUS
  <2>2. ASSUME NEW k \in 0 .. N PROVE g[k] = IF k = 0 THEN {HeaderLength} ELSE Skip(m, g[k - 1])
    <3>1. CASE k = 0
      BY <1>6, <3>1 DEF StepByStep
    <3>2. CASE k # 0
      <4>1. k \in 1 .. N /\ k - 1 \in 0 .. N
        BY <1>1, <3>2
      <4>2. g[k] = step[k][g[k - 1]] /\ g[k - 1] \in Spots
        BY <1>6, <4>1 DEF StepByStep
      <4>. QED
        BY <1>3, <4>1, <4>2, <3>2
    <3>. QED
      BY <3>1, <3>2
  <2>3. g = [k \in 0 .. N |-> IF k = 0 THEN {HeaderLength} ELSE Skip(m, g[k - 1])]
    BY <2>1, <2>2
  <2>. QED
    BY <2>3 DEF Skip
<1> HIDE DEF Rule
<1>8. Rule(after)
  BY <1>7
<1> HIDE DEF after
<1>9. \A k \in 0 .. N : after[k] = IF k = 0 THEN {HeaderLength} ELSE Skip(m, after[k - 1])
  <2>1. after = [k \in 0 .. N |-> IF k = 0 THEN {HeaderLength} ELSE Skip(m, after[k - 1])]
    BY <1>8 DEF Rule, Skip
  <2>. QED
    BY <2>1
<1>10. after[0] = {HeaderLength} /\ \A k \in 1 .. N : after[k] = Skip(m, after[k - 1])
  <2>1. 0 \in 0 .. N /\ \A k \in 1 .. N : k \in 0 .. N /\ k # 0
    BY <1>1
  <2>. QED
    BY <1>9, <2>1
<1> DEFINE T == {k \in 0 .. N : after[k] \in Spots}
<1>11. 0 \in T
  BY <1>1, <1>5, <1>10
<1>12. ASSUME NEW k \in 0 .. N - 1, k \in T PROVE k + 1 \in T
  <2>1. k + 1 \in 1 .. N /\ k + 1 \in 0 .. N /\ (k + 1) - 1 = k
    BY <1>1
  <2>2. after[k + 1] = Skip(m, after[k]) /\ after[k] \in Spots
    BY <1>10, <1>12, <2>1
  <2>. QED
    BY <2>1, <2>2, SkipSpot
<1> HIDE DEF T
<1>13. \A k \in 0 .. N : k \in T
  BY ONLY <1>1, <1>11, <1>12, Induction
<1>14. SkipIs(m, after)
  BY <1>10, <1>13 DEF SkipIs, T, N
<1>. QED
  BY <1>2, <1>14 DEF N

(* Questions that can be skipped end at the same place in a longer message.*)
LEMMA SkipGrows ==
  ASSUME NEW a, NEW b, Begins(a, b), NEW s \in Spots, Skip(a, s) # {}
  PROVE  Skip(b, s) = Skip(a, s)
<1>1. Len(a) \in Nat /\ Len(b) \in Nat /\ Len(a) <= Len(b) /\ a \in Seq(Byte)
  BY DEF Begins
<1>2. s # {}
  BY DEF Skip
<1>3. PICK p \in Nat : s = {p}
  BY <1>2 DEF Spots
<1>4. Skip(a, s) = {r \in {q.to + 4 : q \in ReadName(a, p)} : r <= Len(a)}
  BY <1>3 DEF Skip
<1>5. ReadName(a, p) # {}
  BY <1>4
<1>6. ReadName(b, p) = ReadName(a, p)
  BY <1>5, NameStays
<1>7. Skip(b, s) = {r \in {q.to + 4 : q \in ReadName(a, p)} : r <= Len(b)}
  BY <1>3, <1>6 DEF Skip
<1>8. PICK labels, t : t \in Nat /\ ReadName(a, p) = {[labels |-> labels, to |-> t]}
  BY <1>1, <1>5, OneNameIs
<1>9. {q.to + 4 : q \in ReadName(a, p)} = {t + 4}
  BY <1>8
<1>10. t + 4 <= Len(a) /\ t + 4 <= Len(b)
  BY <1>1, <1>4, <1>8, <1>9
<1>. QED
  BY <1>4, <1>7, <1>9, <1>10

LEMMA QuestionsStay ==
  ASSUME NEW a, NEW b, Begins(a, b), Len(a) >= HeaderLength, AfterQuestions(a) # {}
  PROVE  AfterQuestions(b) = AfterQuestions(a) /\ AfterQuestions(a) \in Spots
<1>1. Len(a) \in Nat /\ Len(b) \in Nat /\ Len(a) <= Len(b) /\ a \in Seq(Byte) /\ b \in Seq(Byte)
  BY DEF Begins
<1> DEFINE N == U16(a, 4)
<1>2. U16(b, 4) = N /\ N \in Nat
  <2>1. 4 + 2 <= Len(a)
    BY <1>1 DEF HeaderLength
  <2>. QED
    BY <2>1, SameU16
<1>3. PICK h : SkipIs(a, h) /\ AfterQuestions(a) = h[N]
  BY <1>1, QuestionsSkipped
<1>4. Len(b) >= HeaderLength
  BY <1>1 DEF HeaderLength
<1>5. PICK g : SkipIs(b, g) /\ AfterQuestions(b) = g[N]
  BY <1>1, <1>2, <1>4, QuestionsSkipped
<1> HIDE DEF N
<1> DEFINE T == {n \in 0 .. N : h[n] # {} => g[n] = h[n]}
<1>6. 0 \in T
  <2>1. g[0] = h[0]
    BY <1>3, <1>5 DEF SkipIs
  <2>2. 0 \in 0 .. N
    BY <1>2
  <2>. QED
    BY <2>1, <2>2
<1>7. ASSUME NEW n \in 0 .. N - 1, n \in T PROVE n + 1 \in T
  <2>1. n + 1 \in 1 .. N /\ n + 1 \in 0 .. N /\ (n + 1) - 1 = n /\ n \in 0 .. N
    BY <1>2
  <2>2. h[n + 1] = Skip(a, h[n]) /\ h[n] \in Spots
    BY <1>3, <2>1 DEF SkipIs, N
  <2>3. g[n + 1] = Skip(b, g[n])
    BY <1>2, <1>5, <2>1 DEF SkipIs, N
  <2>4. ASSUME h[n + 1] # {} PROVE g[n + 1] = h[n + 1]
    <3>1. h[n] # {}
      BY <2>2, <2>4 DEF Skip
    <3>2. g[n] = h[n]
      BY <1>7, <3>1
    <3>3. Skip(b, h[n]) = Skip(a, h[n])
      BY <2>2, <2>4, SkipGrows
    <3>. QED
      BY <2>2, <2>3, <3>2, <3>3
  <2>. QED
    BY <2>1, <2>4
<1> HIDE DEF T
<1>8. \A n \in 0 .. N : n \in T
  BY ONLY <1>2, <1>6, <1>7, Induction
<1>9. N \in 0 .. N
  BY <1>2
<1>10. N \in T
  BY <1>8, <1>9
<1>11. h[N] \in Spots
  BY <1>3, <1>9 DEF SkipIs, N
<1>. QED
  BY <1>3, <1>5, <1>10, <1>11 DEF T

(* The answers, record by record.                                          *)
AList(s, x, t) == s = {[said |-> x, to |-> t]}

Take(m, s) ==
  UNION {{[said |-> before.said \o Listed(r.said), to |-> r.to] : r \in RecordAt(m, before.to)}
         : before \in s}

Lists(A) == {{}} \union {{x} : x \in [said : Seq(A), to : Nat]}

LEMMA ListsHas ==
  ASSUME NEW A, NEW s \in Lists(A), s # {}
  PROVE  \E x \in Seq(A), t \in Nat : AList(s, x, t)
<1>1. PICK l \in [said : Seq(A), to : Nat] : s = {l}
  BY DEF Lists
<1>2. l = [said |-> l.said, to |-> l.to] /\ l.said \in Seq(A) /\ l.to \in Nat
  OBVIOUS
<1>. QED
  BY <1>1, <1>2 DEF AList

LEMMA ListsGets ==
  ASSUME NEW A, NEW x \in Seq(A), NEW t \in Nat, NEW s, AList(s, x, t)
  PROVE  s \in Lists(A)
<1> DEFINE l == [said |-> x, to |-> t]
<1>1. l \in [said : Seq(A), to : Nat] /\ s = {l}
  BY DEF AList
<1> HIDE DEF l
<1>. QED
  BY <1>1 DEF Lists

LEMMA TakeNone ==
  ASSUME NEW m, NEW s, NEW x, NEW t, AList(s, x, t), RecordAt(m, t) = {}
  PROVE  Take(m, s) = {}
  BY DEF Take, AList

LEMMA TakeOne ==
  ASSUME NEW m, NEW s, NEW x, NEW t, AList(s, x, t), NEW said, NEW u, ARecord(RecordAt(m, t), said, u)
  PROVE  AList(Take(m, s), x \o Listed(said), u)
<1> DEFINE l == [said |-> x, to |-> t]
           r == [said |-> said, to |-> u]
           Next(k, q) == [said |-> k.said \o Listed(q.said), to |-> q.to]
<1>1. s = {l} /\ RecordAt(m, t) = {r} /\ l.to = t
  BY DEF AList, ARecord
<1>2. Take(m, s) = UNION {{Next(k, q) : q \in RecordAt(m, k.to)} : k \in s}
  BY Zenon DEF Take
<1>3. Next(l, r) = [said |-> x \o Listed(said), to |-> u]
  OBVIOUS
<1> HIDE DEF l, r, Next
<1>4. Take(m, s) = {Next(l, r)}
  BY <1>1, <1>2
<1>. QED
  BY <1>3, <1>4 DEF AList

LEMMA ListedIs ==
  ASSUME NEW A, NEW said, said \subseteq A
  PROVE  Listed(said) \in Seq(A) /\ Len(Listed(said)) = IF said = {} THEN 0 ELSE 1
<1>1. CASE said = {}
  BY <1>1 DEF Listed
<1>2. CASE said # {}
  <2> DEFINE c == CHOOSE a \in said : TRUE
  <2>1. c \in A
    BY <1>2
  <2>2. Listed(said) = <<c>>
    BY <1>2, Zenon DEF Listed
  <2> HIDE DEF c
  <2>. QED
    BY <1>2, <2>1, <2>2
<1>. QED
  BY <1>1, <1>2

(* What is appended cannot make up for what was missing before.            *)
LEMMA Cancels ==
  ASSUME NEW A, NEW x \in Seq(A), NEW u \in Seq(A), NEW z \in Seq(A), NEW v \in Seq(A),
         x \o u = z \o v, Len(x) <= Len(z), Len(u) <= Len(v)
  PROVE  x = z /\ u = v
<1>1. Len(x \o u) = Len(x) + Len(u) /\ Len(z \o v) = Len(z) + Len(v)
  BY ConcatProperties
<1>2. Len(x) = Len(z) /\ Len(u) = Len(v) /\ Len(x) \in Nat /\ Len(u) \in Nat
  BY <1>1
<1> DEFINE n == Len(x)
           k == Len(u)
<1>3. \A i \in 1 .. n : x[i] = (x \o u)[i] /\ z[i] = (z \o v)[i]
  BY <1>2
<1>4. ASSUME NEW j \in 1 .. k PROVE u[j] = (x \o u)[n + j] /\ v[j] = (z \o v)[n + j]
  <2>1. n + j \in 1 .. n + k /\ ~(n + j <= n) /\ (n + j) - n = j
    BY <1>2
  <2>2. (x \o u)[n + j] = u[(n + j) - n]
    BY <1>2, <2>1
  <2>3. (z \o v)[n + j] = v[(n + j) - n]
    BY <1>2, <2>1
  <2>. QED
    BY <2>1, <2>2, <2>3
<1>5. x = [i \in 1 .. n |-> x[i]] /\ z = [i \in 1 .. n |-> z[i]]
  BY <1>2
<1>6. u = [j \in 1 .. k |-> u[j]] /\ v = [j \in 1 .. k |-> v[j]]
  BY <1>2
<1> DEFINE w == x \o u
<1>7. w = z \o v
  OBVIOUS
<1>8. \A i \in 1 .. n : x[i] = w[i] /\ z[i] = w[i]
  BY <1>3
<1>9. \A j \in 1 .. k : u[j] = w[n + j] /\ v[j] = w[n + j]
  BY <1>4
<1> HIDE DEF n, k, w
<1>10. x = z
  BY <1>5, <1>8
<1>11. u = v
  BY <1>6, <1>9
<1>. QED
  BY <1>10, <1>11

TakeIs(m, p, h) ==
  /\ AList(h[0], <<>>, p)
  /\ \A n \in 0 .. U16(m, 6) : h[n] \in Lists(Said(m))
  /\ \A n \in 1 .. U16(m, 6) : h[n] = Take(m, h[n - 1])

LEMMA TakeIn ==
  ASSUME NEW m \in Seq(Byte), NEW s \in Lists(Said(m))
  PROVE  Take(m, s) \in Lists(Said(m))
<1>1. {} \in Lists(Said(m))
  BY DEF Lists
<1>2. CASE s = {}
  <2>1. Take(m, s) = {}
    BY <1>2 DEF Take
  <2>. QED
    BY <1>1, <2>1
<1>3. CASE s # {}
  <2>1. PICK x \in Seq(Said(m)), t \in Nat : AList(s, x, t)
    BY <1>3, ListsHas
  <2>2. CASE RecordAt(m, t) = {}
    BY <1>1, <2>1, <2>2, TakeNone
  <2>3. CASE RecordAt(m, t) # {}
    <3>1. PICK said, u : ARecord(RecordAt(m, t), said, u) /\ said \subseteq Said(m) /\ u \in Nat
      BY <2>1, <2>3, RecordIs
    <3>2. AList(Take(m, s), x \o Listed(said), u)
      BY <2>1, <3>1, TakeOne
    <3>3. Listed(said) \in Seq(Said(m))
      BY <3>1, ListedIs
    <3>4. x \o Listed(said) \in Seq(Said(m))
      BY <2>1, <3>3, ConcatProperties
    <3>. QED
      BY <3>1, <3>2, <3>4, ListsGets
  <2>. QED
    BY <2>2, <2>3
<1>. QED
  BY <1>2, <1>3

LEMMA AnswersTaken ==
  ASSUME NEW m \in Seq(Byte), Len(m) >= HeaderLength, NEW p0 \in Nat
  PROVE  \E h : TakeIs(m, p0, h) /\ Answers(m, p0) = {done.said : done \in h[U16(m, 6)]}
<1> DEFINE N == U16(m, 6)
           V == Lists(Said(m))
           first == {[said |-> <<>>, to |-> p0]}
           step == [k \in 1 .. N |-> [s \in V |-> Take(m, s)]]
           Rule(h) == h = [n \in 0 .. N |->
             IF n = 0 THEN {[said |-> <<>>, to |-> p0]}
             ELSE UNION {{[said |-> before.said \o Listed(r.said), to |-> r.to] :
                            r \in RecordAt(m, before.to)} : before \in h[n - 1]}]
           read == CHOOSE h : Rule(h)
<1>1. N \in Nat
  <2>1. 6 + 2 <= Len(m)
    BY DEF HeaderLength
  <2>. QED
    BY <2>1, BeginsSelf, SameU16
<1>2. Answers(m, p0) = {done.said : done \in read[N]}
  BY DEF Answers
<1> HIDE DEF N, V
<1>3. \A k \in 1 .. N : \A s \in V : step[k][s] = Take(m, s)
  OBVIOUS
<1>4. step \in [1 .. N -> [V -> V]]
  <2>1. \A s \in V : Take(m, s) \in V
    BY TakeIn DEF V
  <2>. QED
    BY <2>1
<1> HIDE DEF step
<1>5. first \in V /\ AList(first, <<>>, p0)
  <2>1. AList(first, <<>>, p0)
    BY DEF AList
  <2>2. <<>> \in Seq(Said(m))
    OBVIOUS
  <2>. QED
    BY <2>1, <2>2, ListsGets DEF V
<1>6. PICK g \in [0 .. N -> V] : StepByStep(g, N, first, step)
  BY <1>1, <1>4, <1>5, StepsAreThere
<1>7. \A h : Rule(h) <=> h = [k \in 0 .. N |-> IF k = 0 THEN first ELSE Take(m, h[k - 1])]
  BY Zenon DEF Take
<1> HIDE DEF Rule, first
<1>8. Rule(g)
  <2>1. g = [k \in 0 .. N |-> g[k]]
    OBVIOUS
  <2>2. ASSUME NEW k \in 0 .. N PROVE g[k] = IF k = 0 THEN first ELSE Take(m, g[k - 1])
    <3>1. CASE k = 0
      BY <1>6, <3>1 DEF StepByStep
    <3>2. CASE k # 0
      <4>1. k \in 1 .. N /\ k - 1 \in 0 .. N
        BY <1>1, <3>2
      <4>2. g[k] = step[k][g[k - 1]] /\ g[k - 1] \in V
        BY <1>6, <4>1 DEF StepByStep
      <4>. QED
        BY <1>3, <4>1, <4>2, <3>2
    <3>. QED
      BY <3>1, <3>2
  <2>3. g = [k \in 0 .. N |-> IF k = 0 THEN first ELSE Take(m, g[k - 1])]
    BY <2>1, <2>2
  <2>. QED
    BY <1>7, <2>3
<1>9. Rule(read)
  BY <1>8
<1> HIDE DEF read
<1>10. \A k \in 0 .. N : read[k] = IF k = 0 THEN first ELSE Take(m, read[k - 1])
  <2>1. read = [k \in 0 .. N |-> IF k = 0 THEN first ELSE Take(m, read[k - 1])]
    BY <1>7, <1>9
  <2>. QED
    BY <2>1
<1>11. read[0] = first /\ \A k \in 1 .. N : read[k] = Take(m, read[k - 1])
  <2>1. 0 \in 0 .. N /\ \A k \in 1 .. N : k \in 0 .. N /\ k # 0
    BY <1>1
  <2>. QED
    BY <1>10, <2>1
<1> DEFINE T == {k \in 0 .. N : read[k] \in V}
<1>12. 0 \in T
  BY <1>1, <1>5, <1>11
<1>13. ASSUME NEW k \in 0 .. N - 1, k \in T PROVE k + 1 \in T
  <2>1. k + 1 \in 1 .. N /\ k + 1 \in 0 .. N /\ (k + 1) - 1 = k
    BY <1>1
  <2>2. read[k + 1] = Take(m, read[k]) /\ read[k] \in V
    BY <1>11, <1>13, <2>1
  <2>3. Take(m, read[k]) \in V
    BY <2>2, TakeIn DEF V
  <2>. QED
    BY <2>1, <2>2, <2>3
<1> HIDE DEF T
<1>14. \A k \in 0 .. N : k \in T
  BY ONLY <1>1, <1>12, <1>13, Induction
<1>15. TakeIs(m, p0, read)
  BY <1>5, <1>11, <1>14 DEF TakeIs, T, N, V
<1>. QED
  BY <1>2, <1>15 DEF N

(* What the answers of three messages have in common, one by one.          *)
AllTaken(A, p, q, r) ==
  \E x, y, z \in Seq(A) : \E t \in Nat :
    /\ AList(p, x, t) /\ AList(q, y, t) /\ AList(r, z, t)
    /\ Len(x) <= Len(z)
    /\ x = z => y = x

LEMMA TakenOn ==
  ASSUME NEW a, NEW b, NEW c, Nested(a, b, c), NEW A,
         Said(a) \subseteq A, Said(b) \subseteq A, Said(c) \subseteq A,
         NEW p, NEW q, NEW r, AllTaken(A, p, q, r), Take(a, p) # {}
  PROVE  AllTaken(A, Take(a, p), Take(b, q), Take(c, r))
<1>1. PICK x \in Seq(A), y \in Seq(A), z \in Seq(A), t \in Nat :
        /\ AList(p, x, t) /\ AList(q, y, t) /\ AList(r, z, t)
        /\ Len(x) <= Len(z)
        /\ x = z => y = x
  BY DEF AllTaken
<1>2. a \in Seq(Byte) /\ b \in Seq(Byte) /\ c \in Seq(Byte)
  BY DEF Nested, Begins
<1>3. RecordAt(a, t) # {}
  BY <1>1, TakeNone
<1>4. PICK f, g, h, u :
        /\ ARecord(RecordAt(a, t), f, u) /\ ARecord(RecordAt(b, t), g, u)
        /\ ARecord(RecordAt(c, t), h, u) /\ u \in Nat
        /\ f # {} => h # {}
        /\ g = f \/ g = h
  <2>1. RecordsAlike(RecordAt(a, t), RecordAt(b, t), RecordAt(c, t))
    BY <1>1, <1>3, RecordStays
  <2>. QED
    BY <2>1 DEF RecordsAlike
<1>5. f \subseteq A /\ g \subseteq A /\ h \subseteq A
  <2>1. \A m, s : m \in Seq(Byte) /\ ARecord(RecordAt(m, t), s, u) => s \subseteq Said(m)
    <3>1. ASSUME NEW m \in Seq(Byte), NEW s, ARecord(RecordAt(m, t), s, u) PROVE s \subseteq Said(m)
      <4>1. RecordAt(m, t) # {}
        BY <3>1 DEF ARecord
      <4>2. PICK s2, u2 : ARecord(RecordAt(m, t), s2, u2) /\ s2 \subseteq Said(m)
        BY <1>1, <4>1, RecordIs
      <4>3. [said |-> s, to |-> u] = [said |-> s2, to |-> u2]
        BY <3>1, <4>2 DEF ARecord
      <4>4. s = s2
        BY <4>3
      <4>. QED
        BY <4>2, <4>4
    <3>. QED
      BY <3>1
  <2>. QED
    BY <1>2, <1>4, <2>1
<1> DEFINE lf == Listed(f)
           lg == Listed(g)
           lh == Listed(h)
<1>6. lf \in Seq(A) /\ lg \in Seq(A) /\ lh \in Seq(A) /\ Len(lf) <= Len(lh)
  <2>1. lf \in Seq(A) /\ Len(lf) = IF f = {} THEN 0 ELSE 1
    BY <1>5, ListedIs
  <2>2. lh \in Seq(A) /\ Len(lh) = IF h = {} THEN 0 ELSE 1
    BY <1>5, ListedIs
  <2>3. lg \in Seq(A)
    BY <1>5, ListedIs
  <2> HIDE DEF lf, lh, lg
  <2>. QED
    BY <1>4, <2>1, <2>2, <2>3
<1>7. lg = lf \/ lg = lh
  BY <1>4
<1>8. /\ AList(Take(a, p), x \o lf, u) /\ AList(Take(b, q), y \o lg, u)
      /\ AList(Take(c, r), z \o lh, u)
  <2>1. AList(Take(a, p), x \o lf, u)
    BY <1>1, <1>4, TakeOne
  <2>2. AList(Take(b, q), y \o lg, u)
    BY <1>1, <1>4, TakeOne
  <2>3. AList(Take(c, r), z \o lh, u)
    BY <1>1, <1>4, TakeOne
  <2>. QED
    BY <2>1, <2>2, <2>3
<1> HIDE DEF lf, lg, lh
<1>9. /\ x \o lf \in Seq(A) /\ y \o lg \in Seq(A) /\ z \o lh \in Seq(A)
      /\ Len(x \o lf) <= Len(z \o lh)
  <2>1. x \o lf \in Seq(A) /\ Len(x \o lf) = Len(x) + Len(lf)
    BY <1>6, ConcatProperties
  <2>2. z \o lh \in Seq(A) /\ Len(z \o lh) = Len(z) + Len(lh)
    BY <1>6, ConcatProperties
  <2>3. y \o lg \in Seq(A)
    BY <1>6, ConcatProperties
  <2>4. Len(x) + Len(lf) <= Len(z) + Len(lh)
    <3>1. Len(x) \in Nat /\ Len(lf) \in Nat /\ Len(z) \in Nat /\ Len(lh) \in Nat
      BY <1>6
    <3>. QED
      BY <1>1, <1>6, <3>1
  <2>. QED
    BY <2>1, <2>2, <2>3, <2>4
<1>10. ASSUME x \o lf = z \o lh PROVE y \o lg = x \o lf
  <2>1. x = z /\ lf = lh
    BY <1>1, <1>6, <1>10, Cancels
  <2>. QED
    BY <1>1, <1>7, <2>1
<1>. QED
  BY <1>4, <1>8, <1>9, <1>10 DEF AllTaken

(* Answers that can be read, can be in longer messages; and if those of a  *)
(* message are those of one that it starts, they are those in between.     *)
AnswersAlike(p, q, r) ==
  \E x, y, z : p = {x} /\ q = {y} /\ r = {z} /\ (x = z => y = x)

LEMMA AnswersStay ==
  ASSUME NEW a, NEW b, NEW c, Nested(a, b, c), Len(a) >= HeaderLength,
         NEW p \in Nat, Answers(a, p) # {}
  PROVE  AnswersAlike(Answers(a, p), Answers(b, p), Answers(c, p))
<1>1. /\ a \in Seq(Byte) /\ b \in Seq(Byte) /\ c \in Seq(Byte)
      /\ Len(a) \in Nat /\ Len(b) \in Nat /\ Len(c) \in Nat
      /\ Len(a) <= Len(b) /\ Len(a) <= Len(c)
      /\ Begins(a, b) /\ Begins(a, c)
  BY DEF Nested, Begins
<1> DEFINE N == U16(a, 6)
           A == Said(a) \union Said(b) \union Said(c)
<1>2. U16(b, 6) = N /\ U16(c, 6) = N /\ N \in Nat
  <2>1. 6 + 2 <= Len(a)
    BY <1>1 DEF HeaderLength
  <2>. QED
    BY <1>1, <2>1, SameU16
<1>3. Len(b) >= HeaderLength /\ Len(c) >= HeaderLength
  BY <1>1 DEF HeaderLength
<1>4. PICK f : TakeIs(a, p, f) /\ Answers(a, p) = {done.said : done \in f[N]}
  BY <1>1, AnswersTaken
<1>5. PICK g : TakeIs(b, p, g) /\ Answers(b, p) = {done.said : done \in g[U16(b, 6)]}
  BY <1>1, <1>3, AnswersTaken
<1>6. PICK h : TakeIs(c, p, h) /\ Answers(c, p) = {done.said : done \in h[U16(c, 6)]}
  BY <1>1, <1>3, AnswersTaken
<1>7. Said(a) \subseteq A /\ Said(b) \subseteq A /\ Said(c) \subseteq A
  OBVIOUS
<1> HIDE DEF N, A
<1> DEFINE T == {n \in 0 .. N : f[n] # {} => AllTaken(A, f[n], g[n], h[n])}
<1>8. 0 \in T
  <2>1. <<>> \in Seq(A) /\ Len(<<>>) <= Len(<<>>)
    OBVIOUS
  <2>2. AList(f[0], <<>>, p) /\ AList(g[0], <<>>, p) /\ AList(h[0], <<>>, p)
    BY <1>4, <1>5, <1>6 DEF TakeIs
  <2>3. AllTaken(A, f[0], g[0], h[0])
    BY <2>1, <2>2 DEF AllTaken
  <2>4. 0 \in 0 .. N
    BY <1>2
  <2>. QED
    BY <2>3, <2>4
<1>9. ASSUME NEW n \in 0 .. N - 1, n \in T PROVE n + 1 \in T
  <2>1. n + 1 \in 1 .. N /\ n + 1 \in 0 .. N /\ (n + 1) - 1 = n
    BY <1>2
  <2>2. f[n + 1] = Take(a, f[n])
    BY <1>4, <2>1 DEF TakeIs, N
  <2>3. g[n + 1] = Take(b, g[n])
    BY <1>2, <1>5, <2>1 DEF TakeIs
  <2>4. h[n + 1] = Take(c, h[n])
    BY <1>2, <1>6, <2>1 DEF TakeIs
  <2>5. ASSUME f[n + 1] # {} PROVE AllTaken(A, f[n + 1], g[n + 1], h[n + 1])
    <3>1. f[n] # {}
      BY <2>2, <2>5 DEF Take
    <3>2. AllTaken(A, f[n], g[n], h[n])
      BY <1>9, <3>1
    <3>3. AllTaken(A, Take(a, f[n]), Take(b, g[n]), Take(c, h[n]))
      BY <1>7, <2>2, <2>5, <3>2, TakenOn
    <3>. QED
      BY <2>2, <2>3, <2>4, <3>3
  <2>. QED
    BY <2>1, <2>5
<1> HIDE DEF T
<1>10. \A n \in 0 .. N : n \in T
  BY ONLY <1>2, <1>8, <1>9, Induction
<1>11. N \in T
  BY <1>2, <1>10
<1>12. f[N] # {}
  BY <1>4
<1>13. AllTaken(A, f[N], g[N], h[N])
  BY <1>11, <1>12 DEF T
<1>14. PICK x, y, z : \E t : /\ AList(f[N], x, t) /\ AList(g[N], y, t) /\ AList(h[N], z, t)
                             /\ x = z => y = x
  BY <1>13 DEF AllTaken
<1>15. \A s, v, t : AList(s, v, t) => {done.said : done \in s} = {v}
  BY DEF AList
<1>16. Answers(a, p) = {x}
  BY <1>4, <1>14, <1>15
<1>17. Answers(b, p) = {y}
  BY <1>2, <1>5, <1>14, <1>15
<1>18. Answers(c, p) = {z}
  BY <1>2, <1>6, <1>14, <1>15
<1>. QED
  BY <1>14, <1>16, <1>17, <1>18 DEF AnswersAlike

(* Questions that can be skipped start with one.                           *)
LEMMA FirstQuestion ==
  ASSUME NEW m \in Seq(Byte), Len(m) >= HeaderLength, U16(m, 4) # 0, AfterQuestions(m) # {}
  PROVE  ReadName(m, HeaderLength) # {}
<1> DEFINE N == U16(m, 4)
<1>1. N \in Nat
  <2>1. 4 + 2 <= Len(m)
    BY DEF HeaderLength
  <2>. QED
    BY <2>1, BeginsSelf, SameU16
<1>2. PICK h : SkipIs(m, h) /\ AfterQuestions(m) = h[N]
  BY QuestionsSkipped
<1>3. h[0] = {HeaderLength} /\ \A n \in 1 .. N : h[n] = Skip(m, h[n - 1])
  BY <1>2 DEF SkipIs
<1> HIDE DEF N
<1>4. ASSUME ReadName(m, HeaderLength) = {} PROVE FALSE
  <2> DEFINE T == {n \in 0 .. N : n = 0 \/ h[n] = {}}
  <2>1. 0 \in T
    BY <1>1
  <2>2. ASSUME NEW n \in 0 .. N - 1, n \in T PROVE n + 1 \in T
    <3>1. n + 1 \in 1 .. N /\ n + 1 \in 0 .. N /\ (n + 1) - 1 = n
      BY <1>1
    <3>2. h[n + 1] = Skip(m, h[n])
      BY <1>3, <3>1
    <3>3. CASE n = 0
      <4>1. h[n] = {HeaderLength}
        BY <1>3, <3>3
      <4>2. UNION {ReadName(m, p) : p \in h[n]} = {}
        BY <1>4, <4>1
      <4>. QED
        BY <3>1, <3>2, <4>2 DEF Skip
    <3>4. CASE h[n] = {}
      BY <3>1, <3>2, <3>4 DEF Skip
    <3>. QED
      BY <2>2, <3>3, <3>4
  <2> HIDE DEF T
  <2>3. \A n \in 0 .. N : n \in T
    BY ONLY <1>1, <2>1, <2>2, Induction
  <2>4. N \in T
    BY <1>1, <2>3
  <2>. QED
    BY <1>2, <2>4 DEF T, N
<1>. QED
  BY <1>4

LEMMA ParseMessageStays ==
  ASSUME NEW a, NEW b, NEW c, Nested(a, b, c), ParseMessage(a) # {}
  PROVE  /\ ParseMessage(b) # {}
         /\ ParseMessage(c) = ParseMessage(a) => ParseMessage(b) = ParseMessage(a)
<1>1. /\ a \in Seq(Byte) /\ b \in Seq(Byte) /\ c \in Seq(Byte)
      /\ Len(a) \in Nat /\ Len(b) \in Nat /\ Len(c) \in Nat
      /\ Len(a) <= Len(b) /\ Len(a) <= Len(c)
      /\ Begins(a, b) /\ Begins(a, c)
  BY DEF Nested, Begins
<1> DEFINE All(m) == {[query |-> QueryName(m), answers |-> s] :
                        s \in UNION {Answers(m, p) : p \in AfterQuestions(m)}}
<1>2. ~(Len(a) < HeaderLength \/ Octet(a, 2) < 128)
  BY Zenon DEF ParseMessage
<1>3. Len(a) >= HeaderLength
  BY <1>1, <1>2 DEF HeaderLength
<1>4. Octet(b, 2) = Octet(a, 2) /\ Octet(c, 2) = Octet(a, 2)
  <2>1. 2 < Len(a)
    BY <1>1, <1>3 DEF HeaderLength
  <2>. QED
    BY <1>1, <2>1, OctetSame
<1>5. /\ ~(Len(b) < HeaderLength \/ Octet(b, 2) < 128)
      /\ ~(Len(c) < HeaderLength \/ Octet(c, 2) < 128)
  <2>1. ~(Len(b) < HeaderLength) /\ ~(Len(c) < HeaderLength)
    BY <1>1, <1>3 DEF HeaderLength
  <2>. QED
    BY <1>2, <1>4, <2>1
<1>6. ParseMessage(a) = All(a) /\ ParseMessage(b) = All(b) /\ ParseMessage(c) = All(c)
  BY <1>2, <1>5, Zenon DEF ParseMessage
<1>7. \E p \in AfterQuestions(a) : Answers(a, p) # {}
  BY <1>6
<1>8. /\ AfterQuestions(b) = AfterQuestions(a) /\ AfterQuestions(c) = AfterQuestions(a)
      /\ AfterQuestions(a) \in Spots
  BY <1>1, <1>3, <1>7, QuestionsStay
<1>9. PICK p \in Nat : AfterQuestions(a) = {p}
  BY <1>7, <1>8 DEF Spots
<1>10. PICK x, y, z : /\ Answers(a, p) = {x} /\ Answers(b, p) = {y} /\ Answers(c, p) = {z}
                      /\ x = z => y = x
  <2>1. Answers(a, p) # {}
    BY <1>7, <1>9
  <2>2. AnswersAlike(Answers(a, p), Answers(b, p), Answers(c, p))
    BY <1>3, <2>1, AnswersStay
  <2>. QED
    BY <2>2 DEF AnswersAlike
<1>11. QueryName(b) = QueryName(a)
  <2>1. U16(b, 4) = U16(a, 4)
    <3>1. 4 + 2 <= Len(a)
      BY <1>1, <1>3 DEF HeaderLength
    <3>. QED
      BY <1>1, <3>1, SameU16
  <2>2. CASE U16(a, 4) = 0
    BY <2>1, <2>2 DEF QueryName
  <2>3. CASE U16(a, 4) # 0
    <3>1. ReadName(a, HeaderLength) # {}
      BY <1>1, <1>3, <1>7, <2>3, FirstQuestion
    <3>2. ReadName(b, HeaderLength) = ReadName(a, HeaderLength)
      <4>1. HeaderLength \in Nat
        BY DEF HeaderLength
      <4>. QED
        BY <1>1, <3>1, <4>1, NameStays
    <3>3. /\ QueryName(a) = (CHOOSE n \in ReadName(a, HeaderLength) : TRUE).labels
          /\ QueryName(b) = (CHOOSE n \in ReadName(b, HeaderLength) : TRUE).labels
      BY <2>1, <2>3, Zenon DEF QueryName
    <3>. QED
      BY <3>2, <3>3
  <2>. QED
    BY <2>2, <2>3
<1>12. /\ ParseMessage(a) = {[query |-> QueryName(a), answers |-> x]}
       /\ ParseMessage(b) = {[query |-> QueryName(b), answers |-> y]}
       /\ ParseMessage(c) = {[query |-> QueryName(c), answers |-> z]}
  BY <1>6, <1>8, <1>9, <1>10
<1> HIDE DEF All
<1>13. ASSUME ParseMessage(c) = ParseMessage(a) PROVE ParseMessage(b) = ParseMessage(a)
  <2>1. [query |-> QueryName(a), answers |-> x] = [query |-> QueryName(c), answers |-> z]
    BY <1>12, <1>13
  <2>2. x = z
    BY <2>1
  <2>. QED
    BY <1>10, <1>11, <1>12, <2>2
<1>. QED
  BY <1>12, <1>13

---------------------------------------------------------------------------
(* Readings of data of which so many bytes are there.                      *)
Data(d) ==
  /\ d.bytes \in Seq(Byte) /\ Lines(d.lines)
  /\ d.bytes = <<>> \/ d.lines = <<>>

LEMMA DataIs ==
  ASSUME NEW f \in Frames
  PROVE  Data(f.data)
  BY DataAssumption DEF Data, Lines, Byte

LEMMA FirstIs ==
  ASSUME NEW d, Data(d), NEW n \in Nat
  PROVE  /\ FirstBytes(d, n) \in Seq(Byte)
         /\ Len(FirstBytes(d, n)) = Lesser(n, Len(d.bytes))
         /\ \A i \in 1 .. Lesser(n, Len(d.bytes)) : FirstBytes(d, n)[i] = d.bytes[i]
<1> DEFINE s == d.bytes
           k == Lesser(n, Len(s))
<1>1. s \in Seq(Byte) /\ Len(s) \in Nat
  BY DEF Data
<1>2. k \in 0 .. Len(s)
  BY <1>1 DEF Lesser
<1>3. FirstBytes(d, n) = SubSeq(s, 1, k)
  BY DEF FirstBytes
<1> HIDE DEF s, k
<1>4. SubSeq(s, 1, k) \in Seq(Byte) /\ Len(SubSeq(s, 1, k)) = k
      /\ \A i \in 1 .. k : SubSeq(s, 1, k)[i] = s[i]
  BY <1>1, <1>2
<1> QED
  BY <1>3, <1>4 DEF s, k

LEMMA FirstBegins ==
  ASSUME NEW d, Data(d), NEW m \in Nat, NEW n \in Nat, m <= n
  PROVE  Begins(FirstBytes(d, m), FirstBytes(d, n))
<1> DEFINE s == d.bytes
           j == Lesser(m, Len(s))
           k == Lesser(n, Len(s))
           a == FirstBytes(d, m)
           b == FirstBytes(d, n)
<1>1. j \in Nat /\ k \in Nat /\ j <= k
  <2>1. Len(s) \in Nat
    BY DEF Data
  <2> HIDE DEF s
  <2> QED
    BY <2>1 DEF Lesser
<1>2. a \in Seq(Byte) /\ Len(a) = j /\ \A i \in 1 .. j : a[i] = s[i]
  BY FirstIs
<1>3. b \in Seq(Byte) /\ Len(b) = k /\ \A i \in 1 .. k : b[i] = s[i]
  BY FirstIs
<1> HIDE DEF s, j, k, a, b
<1>4. Begins(a, b)
  BY <1>1, <1>2, <1>3 DEF Begins
<1> QED
  BY <1>4 DEF a, b

LEMMA FirstNone ==
  ASSUME NEW d, Data(d)
  PROVE  Len(FirstBytes(d, 0)) = 0
<1>1. Len(d.bytes) \in Nat
  BY DEF Data
<1>2. Lesser(0, Len(d.bytes)) = 0
  BY <1>1 DEF Lesser
<1> QED
  BY <1>2, FirstIs

(* What grows only once, and no more after W, does so where one less does  *)
(* not do.                                                                 *)
Grows(F) ==
  \A k, m, n \in Nat : k <= m /\ m <= n /\ F[k] # {} =>
    F[m] # {} /\ (F[n] = F[k] => F[m] = F[k])

LEMMA Settles ==
  ASSUME NEW F, NEW by \in Nat, NEW W \in Nat, Grows(F), F[W] = F[by],
         \A n \in Nat : n >= W => F[n] = F[W], by > 0 => F[by - 1] = {}
  PROVE  \A n \in Nat : F[n] = IF n >= by THEN F[by] ELSE {}
<1> SUFFICES ASSUME NEW n \in Nat PROVE F[n] = IF n >= by THEN F[by] ELSE {}
  OBVIOUS
<1>1. CASE n < by
  <2>1. by - 1 \in Nat /\ n <= by - 1 /\ F[by - 1] = {}
    BY <1>1
  <2>2. F[n] = {}
    BY <2>1 DEF Grows
  <2> QED
    BY <1>1, <2>2
<1>2. CASE n >= by /\ n >= W
  BY <1>2
<1>3. CASE n >= by /\ n < W
  <2>1. CASE F[by] = {}
    <3>1. F[n] = {}
      BY <1>3, <2>1 DEF Grows
    <3> QED
      BY <1>3, <2>1, <3>1
  <2>2. CASE F[by] # {}
    <3>1. F[n] = F[by]
      BY <1>3, <2>2 DEF Grows
    <3> QED
      BY <1>3, <3>1
  <2> QED
    BY <2>1, <2>2
<1> QED
  BY <1>1, <1>2, <1>3

SniOfData(h, d) == [n \in Nat |-> Reading(h, d, n).sni]
HostOfData(h, d) == [n \in Nat |-> Reading(h, d, n).host]
DnsOfData(h, d) == [n \in Nat |-> Reading(h, d, n).dns]

LEMMA SniGrows == ASSUME NEW h, NEW d, Data(d) PROVE Grows(SniOfData(h, d))
<1> DEFINE F == SniOfData(h, d)
<1>1. \A n \in Nat : F[n] = IF h.kind = "TCP" THEN TlsName(FirstBytes(d, n)) ELSE QuicName(FirstBytes(d, n))
  BY DEF SniOfData, Reading
<1> HIDE DEF F
<1>2. ASSUME NEW k \in Nat, NEW m \in Nat, k <= m, F[k] # {} PROVE F[m] = F[k]
  <2>1. Begins(FirstBytes(d, k), FirstBytes(d, m))
    BY <1>2, FirstBegins
  <2>2. CASE h.kind = "TCP"
    <3>1. TlsName(FirstBytes(d, k)) # {}
      BY <1>1, <1>2, <2>2
    <3>2. TlsName(FirstBytes(d, m)) = TlsName(FirstBytes(d, k))
      BY <2>1, <3>1, TlsNameStays
    <3> QED
      BY <1>1, <2>2, <3>2
  <2>3. CASE h.kind # "TCP"
    <3>1. QuicName(FirstBytes(d, k)) # {}
      BY <1>1, <1>2, <2>3
    <3>2. QuicName(FirstBytes(d, m)) = QuicName(FirstBytes(d, k))
      BY <2>1, <3>1, QuicNameStays
    <3> QED
      BY <1>1, <2>3, <3>2
  <2> QED
    BY <2>2, <2>3
<1>3. Grows(F)
  BY <1>2 DEF Grows
<1> QED
  BY <1>3 DEF F

LEMMA HostGrows == ASSUME NEW h, NEW d, Data(d) PROVE Grows(HostOfData(h, d))
<1> DEFINE F == HostOfData(h, d)
<1>1. \A n \in Nat : F[n] = IF h.kind = "TCP" THEN HttpName(d.lines, n) ELSE {}
  BY DEF HostOfData, Reading
<1> HIDE DEF F
<1>2. ASSUME NEW k \in Nat, NEW m \in Nat, k <= m, F[k] # {} PROVE F[m] = F[k]
  <2>1. h.kind = "TCP" /\ HttpName(d.lines, k) # {}
    BY <1>1, <1>2
  <2>2. HttpName(d.lines, m) = HttpName(d.lines, k)
    BY <1>2, <2>1, HttpNameStays DEF Data
  <2> QED
    BY <1>1, <2>1, <2>2
<1>3. Grows(F)
  BY <1>2 DEF Grows
<1> QED
  BY <1>3 DEF F

LEMMA DnsGrows == ASSUME NEW h, NEW d, Data(d) PROVE Grows(DnsOfData(h, d))
<1> DEFINE F == DnsOfData(h, d)
           Is == h.kind = "UDP" /\ {h.src, h.dst} \cap DnsPorts # {}
<1>1. \A n \in Nat : F[n] = IF Is THEN ParseMessage(FirstBytes(d, n)) ELSE {}
  BY DEF DnsOfData, Reading
<1> HIDE DEF F, Is
<1>2. ASSUME NEW k \in Nat, NEW m \in Nat, NEW n \in Nat, k <= m, m <= n, F[k] # {}
      PROVE  F[m] # {} /\ (F[n] = F[k] => F[m] = F[k])
  <2>1. Is /\ ParseMessage(FirstBytes(d, k)) # {}
    BY <1>1, <1>2
  <2>2. Nested(FirstBytes(d, k), FirstBytes(d, m), FirstBytes(d, n))
    <3>1. Begins(FirstBytes(d, k), FirstBytes(d, m))
      BY <1>2, FirstBegins
    <3>2. Begins(FirstBytes(d, m), FirstBytes(d, n))
      BY <1>2, FirstBegins
    <3>3. Begins(FirstBytes(d, k), FirstBytes(d, n))
      <4>1. k <= n
        BY <1>2
      <4> QED
        BY <4>1, FirstBegins
    <3> QED
      BY <3>1, <3>2, <3>3 DEF Nested
  <2>3. /\ ParseMessage(FirstBytes(d, m)) # {}
        /\ ParseMessage(FirstBytes(d, n)) = ParseMessage(FirstBytes(d, k))
             => ParseMessage(FirstBytes(d, m)) = ParseMessage(FirstBytes(d, k))
    BY <2>1, <2>2, ParseMessageStays
  <2> QED
    BY <1>1, <2>1, <2>3
<1>3. Grows(F)
  BY <1>2 DEF Grows
<1> QED
  BY <1>3 DEF F

(* More than all of it cannot be read.                                     *)
LEMMA ReadingEnds ==
  ASSUME NEW h, NEW d, Data(d), NEW n \in Nat, n >= Len(d.bytes) + MaxScanned
  PROVE  Reading(h, d, n) = Reading(h, d, Len(d.bytes) + MaxScanned)
<1> DEFINE W == Len(d.bytes) + MaxScanned
<1>1. Len(d.bytes) \in Nat /\ MaxScanned \in Nat
  BY DEF Data, MaxScanned
<1>2. W \in Nat /\ n >= Len(d.bytes) /\ W >= Len(d.bytes) /\ n >= MaxScanned /\ W >= MaxScanned
  BY <1>1
<1>3. FirstBytes(d, n) = FirstBytes(d, W)
  <2>1. Lesser(n, Len(d.bytes)) = Len(d.bytes) /\ Lesser(W, Len(d.bytes)) = Len(d.bytes)
    BY <1>1, <1>2 DEF Lesser
  <2> QED
    BY <2>1 DEF FirstBytes
<1>4. HttpName(d.lines, n) = HttpName(d.lines, W)
  <2>1. Lines(d.lines)
    BY DEF Data
  <2>2. \A x \in Nat : x >= MaxScanned => HttpName(d.lines, x) = HttpName(d.lines, MaxScanned)
    BY <2>1, HttpNameEnds
  <2> HIDE DEF W
  <2> QED
    BY <1>2, <2>2
<1> HIDE DEF W
<1>5. Reading(h, d, n) = Reading(h, d, W)
  BY <1>3, <1>4 DEF Reading
<1> QED
  BY <1>5 DEF W

LEMMA ReadingNothing ==
  ASSUME NEW d, Data(d)
  PROVE  /\ TlsName(FirstBytes(d, 0)) = {} /\ QuicName(FirstBytes(d, 0)) = {}
         /\ ParseMessage(FirstBytes(d, 0)) = {} /\ HttpName(d.lines, 0) = {}
<1> DEFINE b == FirstBytes(d, 0)
<1>1. Len(b) = 0
  BY FirstNone
<1> HIDE DEF b
<1>2. TlsName(b) = {}
  BY <1>1 DEF TlsName, LooksLikeTlsHandshake
<1>3. QuicName(b) = {}
  BY <1>1 DEF QuicName, ExtractInitialSni, ParseInitial
<1>4. ParseMessage(b) = {}
  BY <1>1 DEF ParseMessage, HeaderLength
<1>5. HttpName(d.lines, 0) = {}
  BY HttpNameEnds DEF Data
<1> QED
  BY <1>2, <1>3, <1>4, <1>5 DEF b

(* What the data is said to say is read of by of its bytes or more, and of *)
(* fewer nothing is.                                                       *)
LEMMA ReadingIs ==
  ASSUME NEW h, NEW d, Data(d), SaysWhatIsRead(h, d), NEW n \in Nat
  PROVE  LET told == n >= d.says.by
             r    == Reading(h, d, n)
         IN /\ Field(r.sni)  = IF told THEN d.says.sni ELSE None
            /\ Field(r.host) = IF told THEN d.says.host ELSE None
            /\ r.dns = IF told THEN d.says.dns ELSE {}
<1> DEFINE by == d.says.by
           W == Len(d.bytes) + MaxScanned
           R(x) == Reading(h, d, x)
<1>1. by \in Nat /\ W \in Nat
  BY DEF SaysWhatIsRead, Data, MaxScanned
<1>2. /\ Field(R(by).sni) = d.says.sni /\ Field(R(by).host) = d.says.host
      /\ R(by).dns = d.says.dns /\ R(W) = R(by) /\ (by > 0 => R(by - 1) = Nothing)
  BY DEF SaysWhatIsRead
<1>3. \A x \in Nat : x >= W => R(x) = R(W)
  BY ReadingEnds
<1> HIDE DEF by, W, R
<1>4. Nothing.sni = {} /\ Nothing.host = {} /\ Nothing.dns = {}
  BY DEF Nothing
<1>5. ASSUME NEW F, Grows(F), \A x, y \in Nat : R(x) = R(y) => F[x] = F[y],
             \A x \in Nat : R(x) = Nothing => F[x] = {}
      PROVE  F[n] = IF n >= by THEN F[by] ELSE {}
  <2>1. F[W] = F[by] /\ \A x \in Nat : x >= W => F[x] = F[W]
    BY <1>1, <1>2, <1>3, <1>5
  <2>2. by > 0 => F[by - 1] = {}
    BY <1>1, <1>2, <1>5
  <2> QED
    BY <1>1, <1>5, <2>1, <2>2, Settles
<1>6. R(n).sni = IF n >= by THEN R(by).sni ELSE {}
  <2> DEFINE F == SniOfData(h, d)
  <2>1. \A x \in Nat : F[x] = R(x).sni
    BY DEF SniOfData, R
  <2>2. Grows(F)
    BY SniGrows
  <2> HIDE DEF F
  <2>3. F[n] = IF n >= by THEN F[by] ELSE {}
    BY <1>4, <1>5, <2>1, <2>2
  <2> QED
    BY <1>1, <2>1, <2>3
<1>7. R(n).host = IF n >= by THEN R(by).host ELSE {}
  <2> DEFINE F == HostOfData(h, d)
  <2>1. \A x \in Nat : F[x] = R(x).host
    BY DEF HostOfData, R
  <2>2. Grows(F)
    BY HostGrows
  <2> HIDE DEF F
  <2>3. F[n] = IF n >= by THEN F[by] ELSE {}
    BY <1>4, <1>5, <2>1, <2>2
  <2> QED
    BY <1>1, <2>1, <2>3
<1>8. R(n).dns = IF n >= by THEN R(by).dns ELSE {}
  <2> DEFINE F == DnsOfData(h, d)
  <2>1. \A x \in Nat : F[x] = R(x).dns
    BY DEF DnsOfData, R
  <2>2. Grows(F)
    BY DnsGrows
  <2> HIDE DEF F
  <2>3. F[n] = IF n >= by THEN F[by] ELSE {}
    BY <1>4, <1>5, <2>1, <2>2
  <2> QED
    BY <1>1, <2>1, <2>3
<1>9. Field({}) = None
  BY DEF Field
<1>10. /\ Field(R(n).sni)  = IF n >= by THEN d.says.sni ELSE None
       /\ Field(R(n).host) = IF n >= by THEN d.says.host ELSE None
       /\ R(n).dns = IF n >= by THEN d.says.dns ELSE {}
  BY <1>2, <1>6, <1>7, <1>8, <1>9
<1> QED
  BY <1>10 DEF by, R

---------------------------------------------------------------------------
(* While headers are read, a payload that is reported begins at a tunnel's *)
(* header.                                                                 *)
TunnelAt(f, j) == j \in 1 .. Len(f.layers) /\ f.layers[j].kind \in UdpTunnels
Behind(f, q) ==
  q.payloadLength = 0 \/ \E j \in 1 .. Len(f.layers) :
                          TunnelAt(f, j) /\ q.payloadOffset = Start(f, j)

Unread(q) == q.sni = None /\ q.hostname = None

(* The ports reported are those of header i, with the data after it.       *)
PortsOf(f, q, i) ==
  /\ f.layers[i].kind = q.protocol /\ q.protocol \in {"TCP", "UDP"}
  /\ Start(f, i + 1) = DataStart(f) /\ q.payloadOffset = DataStart(f)
  /\ q.sport = f.layers[i].src /\ q.dport = f.layers[i].dst

Borne(f, q) == \E i \in 1 .. Len(f.layers) : PortsOf(f, q, i)

Sought ==
  /\ Behind(frame, parsed) \/ (decoder = "dpi" /\ Borne(frame, parsed))
  /\ Unread(parsed)

SameNames(q, r) == q.sni = r.sni /\ q.hostname = r.hostname

LEMMA OtherNames ==
  ASSUME NEW q, DOMAIN q = DOMAIN Unparsed, NEW v, NEW w
  PROVE  /\ SameNames([q EXCEPT !.protocol = v], q)
         /\ SameNames(PushTunnel(q, v), q) /\ DOMAIN PushTunnel(q, v) = DOMAIN Unparsed
         /\ SameNames([q EXCEPT !.src = v, !.dst = w], q)
         /\ SameNames(Ports(q), q) /\ DOMAIN Ports(q) = DOMAIN Unparsed
         /\ DOMAIN [q EXCEPT !.protocol = v] = DOMAIN Unparsed
         /\ DOMAIN [q EXCEPT !.src = v, !.dst = w] = DOMAIN Unparsed
<1>1. SameNames([q EXCEPT !.protocol = v], q) /\ DOMAIN [q EXCEPT !.protocol = v] = DOMAIN Unparsed
  BY DEF SameNames, Unparsed
<1>2. SameNames(PushTunnel(q, v), q) /\ DOMAIN PushTunnel(q, v) = DOMAIN Unparsed
  BY DEF SameNames, PushTunnel, Unparsed
<1>3. /\ SameNames([q EXCEPT !.src = v, !.dst = w], q)
      /\ DOMAIN [q EXCEPT !.src = v, !.dst = w] = DOMAIN Unparsed
  BY DEF SameNames, Unparsed
<1>4. SameNames(Ports(q), q) /\ DOMAIN Ports(q) = DOMAIN Unparsed
  BY DEF SameNames, Ports, Unparsed
<1> QED
  BY <1>1, <1>2, <1>3, <1>4

LEMMA NamesReturned ==
  ASSUME NEW q, DOMAIN q = DOMAIN Unparsed, NEW name, ReturnNamed(q, name)
  PROVE  SameNames(parsed', q)
<1>1. \/ parsed' = q
      \/ parsed' = [q EXCEPT !.protocol = name]
  BY DEF ReturnNamed
<1> QED
  BY <1>1 DEF SameNames, Unparsed

(* No decoder of headers reports a name.                                   *)
LEMMA DecodersKeepNames ==
  ASSUME IInv, Decode
  PROVE  SameNames(parsed', parsed)
<1>1. DOMAIN parsed = DOMAIN Unparsed
  BY Held DEF Sound
<1>2. \A name : SameNames(PushTunnel(parsed, name), parsed)
                /\ DOMAIN PushTunnel(parsed, name) = DOMAIN Unparsed
  BY <1>1, OtherNames
<1>3. SameNames(parsed, parsed) /\ SameNames(Addressed, parsed) /\ DOMAIN Addressed = DOMAIN Unparsed
  BY <1>1, OtherNames DEF SameNames, Addressed
<1>4. ASSUME NEW q, DOMAIN q = DOMAIN Unparsed, SameNames(q, parsed), NEW name, ReturnNamed(q, name)
      PROVE  SameNames(parsed', parsed)
  BY <1>4, NamesReturned DEF SameNames
<1>5. ASSUME NEW v
      PROVE  LET q == [parsed EXCEPT !.protocol = v] IN
             DOMAIN q = DOMAIN Unparsed /\ SameNames(q, parsed)
  BY <1>1, OtherNames
<1>6. CASE LinkFails
  BY <1>1, <1>6 DEF LinkFails, SameNames, Unparsed
<1>7. CASE LinkLayer
  BY <1>3, <1>7 DEF LinkLayer, Proceed
<1>8. CASE TooDeep \/ IPv4Refused
  BY <1>1, <1>3, <1>4, <1>8 DEF TooDeep, IPv4Refused, Return
<1>9. CASE Mpls
  <2>1. \/ ReturnNamed(parsed, "MPLS")
        \/ parsed' = PushTunnel(parsed, "MPLS")
    BY <1>9 DEF Mpls, Descend
  <2> QED
    BY <1>1, <1>2, <1>3, <1>4, <2>1
<1>10. CASE Pppoe
  <2>1. \/ ReturnNamed(parsed, "PPPoE")
        \/ parsed' = PushTunnel(parsed, "PPPoE")
    BY <1>10 DEF Pppoe, Descend
  <2> QED
    BY <1>1, <1>2, <1>3, <1>4, <2>1
<1>11. CASE IPv4
  <2> DEFINE q == [Addressed EXCEPT !.protocol = "IPv4 Fragment"]
  <2>1. parsed' = Addressed \/ ReturnNamed(q, fallback)
    BY <1>11 DEF IPv4, Proceed, Return
  <2>2. DOMAIN q = DOMAIN Unparsed /\ SameNames(q, parsed)
    BY <1>3 DEF SameNames, Unparsed
  <2> HIDE DEF q
  <2> QED
    BY <1>3, <1>4, <2>1, <2>2
<1>12. CASE IPv6
  <2>1. parsed' = Addressed \/ ReturnNamed(parsed, fallback)
    BY <1>12 DEF IPv6, Proceed, Return
  <2> QED
    BY <1>1, <1>3, <1>4, <2>1
<1>13. CASE Extension
  BY <1>3, <1>13 DEF Extension, Proceed
<1>14. CASE Arp
  <2> DEFINE arp == [parsed EXCEPT !.protocol = "ARP", !.service = "ARP"]
             p == [arp EXCEPT !.service = parsed.service]
             r == [arp EXCEPT !.src = Here.src, !.dst = Here.dst]
  <2>1. Return(p) \/ Return(r) \/ Return(arp)
    BY <1>14 DEF Arp
  <2>2. /\ DOMAIN arp = DOMAIN Unparsed /\ SameNames(arp, parsed)
        /\ DOMAIN p = DOMAIN Unparsed /\ SameNames(p, parsed)
        /\ DOMAIN r = DOMAIN Unparsed /\ SameNames(r, parsed)
    BY <1>1 DEF SameNames, Unparsed
  <2> HIDE DEF arp, p, r
  <2> QED
    BY <1>4, <2>1, <2>2 DEF Return
<1>15. CASE OtherEtherType
  BY <1>4, <1>5, <1>15 DEF OtherEtherType, Return
<1>16. CASE Icmp
  <2> DEFINE q == [parsed EXCEPT !.protocol = type,
                                 !.service = IF Fits(2) THEN type ELSE @]
  <2>1. Return(q)
    BY <1>16 DEF Icmp
  <2>2. DOMAIN q = DOMAIN Unparsed /\ SameNames(q, parsed)
    BY <1>1 DEF SameNames, Unparsed
  <2> HIDE DEF q
  <2> QED
    BY <1>4, <2>1, <2>2 DEF Return
<1>17. CASE OtherTransport
  <2> DEFINE q == [parsed EXCEPT !.protocol = type, !.service = "IPsec (encrypted)",
                                 !.encrypted = TRUE]
             r == [parsed EXCEPT !.protocol = type]
  <2>1. Return(q) \/ Return(r)
    BY <1>17 DEF OtherTransport
  <2>2. /\ DOMAIN q = DOMAIN Unparsed /\ SameNames(q, parsed)
        /\ DOMAIN r = DOMAIN Unparsed /\ SameNames(r, parsed)
    BY <1>1 DEF SameNames, Unparsed
  <2> HIDE DEF q, r
  <2> QED
    BY <1>4, <2>1, <2>2 DEF Return
<1>18. CASE IpInIp
  <2>1. \/ Return([parsed EXCEPT !.protocol = "IP proto"])
        \/ \E name : parsed' = PushTunnel(parsed, name)
    BY <1>18 DEF IpInIp
  <2> QED
    BY <1>2, <1>4, <1>5, <2>1 DEF Return
<1>19. ASSUME NEW name, NEW back, Carries(name, back) PROVE SameNames(parsed', parsed)
  <2>1. \/ parsed' = PushTunnel(parsed, name)
        \/ ReturnNamed(PushTunnel(parsed, name), back)
    BY <1>19 DEF Carries, Descend
  <2> QED
    BY <1>2, <1>4, <2>1
<1>20. CASE Gre
  <2>1. \/ Return([parsed EXCEPT !.protocol = "IP proto"])
        \/ Carries("GRE", "GRE") \/ ReturnNamed(parsed, "GRE")
    BY <1>20 DEF Gre
  <2> QED
    BY <1>1, <1>3, <1>4, <1>5, <1>19, <2>1 DEF Return
<1>21. CASE Vxlan \/ Geneve \/ InnerEthernet
  <2>1. \/ Return(parsed) \/ parsed' = PushTunnel(parsed, "VXLAN")
        \/ Carries("GENEVE", fallback) \/ parsed' = parsed
    BY <1>21 DEF Vxlan, Geneve, InnerEthernet, Proceed, Descend
  <2> QED
    BY <1>1, <1>2, <1>3, <1>4, <1>19, <2>1 DEF Return
<1>22. ASSUME NEW q, DOMAIN q = DOMAIN Unparsed, SameNames(q, parsed), NEW from, NEW to
       PROVE  /\ SameNames(Ports(q), parsed) /\ DOMAIN Ports(q) = DOMAIN Unparsed
              /\ SameNames(Located(Ports(q), from, to), parsed)
              /\ DOMAIN Located(Ports(q), from, to) = DOMAIN Unparsed
  <2>1. SameNames(Ports(q), parsed) /\ DOMAIN Ports(q) = DOMAIN Unparsed
    BY <1>22, OtherNames DEF SameNames
  <2> DEFINE p == Ports(q)
  <2> HIDE DEF p
  <2>2. SameNames(p, parsed) /\ DOMAIN p = DOMAIN Unparsed
    BY <2>1 DEF p
  <2>3. SameNames(Located(p, from, to), parsed) /\ DOMAIN Located(p, from, to) = DOMAIN Unparsed
    BY <2>2 DEF Located, SameNames, Unparsed
  <2> QED
    BY <2>1, <2>3 DEF p
<1>23. CASE Tcp
  <2> DEFINE q == [parsed EXCEPT !.protocol = "TCP"]
             r == Located(Ports(q), offset + Here.len, end)
  <2>1. Return(q) \/ Return(Ports(q)) \/ Return(r)
    BY <1>23 DEF Tcp
  <2>2. DOMAIN q = DOMAIN Unparsed /\ SameNames(q, parsed)
    BY <1>5
  <2> HIDE DEF q
  <2>3. /\ SameNames(Ports(q), parsed) /\ DOMAIN Ports(q) = DOMAIN Unparsed
        /\ SameNames(r, parsed) /\ DOMAIN r = DOMAIN Unparsed
    BY <1>22, <2>2
  <2> HIDE DEF r
  <2> QED
    BY <1>4, <2>1, <2>2, <2>3 DEF Return
<1>24. CASE Udp
  <2> DEFINE q == [parsed EXCEPT !.protocol = "UDP"]
             r == Located(Ports(q), offset + 8, UdpEnd)
  <2>1. Return(q) \/ Return(r) \/ parsed' = r
    BY <1>24 DEF Udp, Proceed
  <2>2. DOMAIN q = DOMAIN Unparsed /\ SameNames(q, parsed)
    BY <1>5
  <2> HIDE DEF q
  <2>3. SameNames(r, parsed) /\ DOMAIN r = DOMAIN Unparsed
    BY <1>22, <2>2
  <2> HIDE DEF r
  <2> QED
    BY <1>4, <2>1, <2>2, <2>3 DEF Return
<1> QED
  BY <1>6, <1>7, <1>8, <1>9, <1>10, <1>11, <1>12, <1>13, <1>14, <1>15, <1>16, <1>17, <1>18,
     <1>20, <1>21, <1>23, <1>24 DEF Decode

LEMMA BehindSame ==
  ASSUME NEW q, NEW r, SamePayload(q, r), NEW f, Behind(f, r)
  PROVE  Behind(f, q)
  BY DEF SamePayload, Behind

(* After TCP and UDP there is data, or the header of a tunnel.             *)
LEMMA TunnelNext ==
  ASSUME IInv, at \in 1 .. Len(frame.layers), Here.kind \in {"TCP", "UDP"}
  PROVE  at = Len(frame.layers) \/ TunnelAt(frame, at + 1)
<1>1. frame \in Frames /\ at \in DOMAIN frame.layers
  BY Held, FramesAssumption DEF DTypes
<1>2. Here.kind = "TCP" \/ (Here.kind = "UDP" /\ Promised(Here) = None) => at = Len(frame.layers)
  BY <1>1, TunnelsAssumption DEF Here
<1>3. CASE Here.kind = "UDP" /\ Promised(Here) # None
  <2>1. Promised(Here) \in UdpTunnels
    BY <1>3 DEF Promised, UdpTunnels
  <2>2. at < Len(frame.layers) /\ frame.layers[at + 1].kind = Promised(Here)
    BY <1>1, <1>3, FramesAssumption DEF Here
  <2>3. Len(frame.layers) \in Nat
    BY <1>1, FramesAssumption
  <2> QED
    BY <2>1, <2>2, <2>3 DEF TunnelAt
<1> QED
  BY <1>2, <1>3

(* What a TCP or UDP header reports.                                       *)
LEMMA HeaderBears ==
  ASSUME IInv, at \in 1 .. Len(frame.layers), Behind(frame, parsed),
         NEW v \in {"TCP", "UDP"}, Here.kind = v,
         NEW from \in Nat, from = Start(frame, at + 1), NEW to
  PROVE  LET q == [parsed EXCEPT !.protocol = v] IN
         /\ Behind(frame, q) /\ Behind(frame, Ports(q))
         /\ \/ Behind(frame, Located(Ports(q), from, to))
            \/ PortsOf(frame, Located(Ports(q), from, to), at)
         /\ TunnelAt(frame, at + 1) => Behind(frame, Located(Ports(q), from, to))
         /\ DOMAIN q = DOMAIN Unparsed /\ DOMAIN Ports(q) = DOMAIN Unparsed
         /\ DOMAIN Located(Ports(q), from, to) = DOMAIN Unparsed
<1> DEFINE q == [parsed EXCEPT !.protocol = v]
           p == Ports(q)
           r == Located(p, from, to)
<1>1. /\ DOMAIN q = DOMAIN Unparsed /\ DOMAIN p = DOMAIN Unparsed
      /\ SamePayload(q, parsed) /\ SamePayload(p, parsed)
  BY PortsPayload
<1>2. Behind(frame, q) /\ Behind(frame, p)
  BY <1>1, BehindSame
<1>3. p.protocol = v /\ p.sport = Here.src /\ p.dport = Here.dst
  BY Held DEF Ports, Sound, Unparsed
<1> HIDE DEF q, p
<1>4. /\ r.protocol = v /\ r.sport = Here.src /\ r.dport = Here.dst /\ DOMAIN r = DOMAIN Unparsed
      /\ \/ SamePayload(r, p)
         \/ r.payloadOffset = from
  BY <1>1, <1>3 DEF Located, SamePayload, Unparsed
<1> HIDE DEF r
<1>5. at = Len(frame.layers) \/ TunnelAt(frame, at + 1)
  BY TunnelNext
<1>6. TunnelAt(frame, at + 1) => Behind(frame, r)
  BY <1>2, <1>4, BehindSame DEF Behind, TunnelAt
<1>7. ASSUME at = Len(frame.layers) PROVE Behind(frame, r) \/ PortsOf(frame, r, at)
  <2>1. from = DataStart(frame)
    BY <1>7 DEF DataStart
  <2>2. CASE SamePayload(r, p)
    BY <1>2, <2>2, BehindSame
  <2>3. CASE r.payloadOffset = from
    BY <1>4, <2>1, <2>3 DEF PortsOf, Here
  <2> QED
    BY <1>4, <2>2, <2>3
<1>8. Behind(frame, r) \/ PortsOf(frame, r, at)
  BY <1>5, <1>6, <1>7
<1> QED
  BY <1>1, <1>2, <1>4, <1>6, <1>8 DEF q, p, r

LEMMA BorneSame ==
  ASSUME NEW q, DOMAIN q = DOMAIN Unparsed, NEW i \in 1 .. Len(frame.layers),
         PortsOf(frame, q, i), NEW name, ReturnNamed(q, name)
  PROVE  Borne(frame, parsed')
<1>1. q.protocol # "Unknown"
  BY DEF PortsOf
<1>2. parsed' = q
  BY <1>1 DEF ReturnNamed
<1> QED
  BY <1>2 DEF Borne

LEMMA BehindReturned ==
  ASSUME NEW q, DOMAIN q = DOMAIN Unparsed, Behind(frame, q), NEW name, ReturnNamed(q, name)
  PROVE  Behind(frame, parsed')
  BY ReturnedPayload, BehindSame

LEMMA TcpSought ==
  ASSUME IInv, Place, Behind(frame, parsed), Tcp
  PROVE  decoder' = "dpi" /\ frame' = frame /\ (Behind(frame, parsed') \/ Borne(frame, parsed'))
<1> DEFINE q == [parsed EXCEPT !.protocol = "TCP"]
           r == Located(Ports(q), offset + Here.len, end)
<1>1. Transport("TCP") /\ "TCP" \in Decoded /\ Running
  BY DEF Tcp, Decoded, Running, Transport
<1>2. at \in 1 .. Len(frame.layers) /\ Here.kind = "TCP"
  BY <1>1, TransportReads
<1>3. offset + Here.len \in Nat /\ offset + Here.len = Start(frame, at + 1)
  BY <1>1, <1>2, PastHeader
<1>4. Return(q) \/ Return(Ports(q)) \/ Return(r)
  BY DEF Tcp
<1>5. /\ Behind(frame, q) /\ Behind(frame, Ports(q))
      /\ Behind(frame, r) \/ PortsOf(frame, r, at)
      /\ DOMAIN q = DOMAIN Unparsed /\ DOMAIN Ports(q) = DOMAIN Unparsed /\ DOMAIN r = DOMAIN Unparsed
  BY <1>2, <1>3, HeaderBears
<1> HIDE DEF q, r
<1>6. PICK s : /\ Return(s) /\ DOMAIN s = DOMAIN Unparsed
               /\ Behind(frame, s) \/ PortsOf(frame, s, at)
  BY <1>4, <1>5
<1>7. ReturnNamed(s, fallback)
  BY <1>6 DEF Return
<1>8. decoder' = "dpi" /\ frame' = frame
  BY <1>7 DEF ReturnNamed, given
<1> QED
  BY <1>2, <1>6, <1>7, <1>8, BorneSame, BehindReturned

(* After the header that carries a tunnel there is the tunnel's.           *)
LEMMA TunnelFollows ==
  ASSUME IInv, at \in 1 .. Len(frame.layers), Here.kind = "UDP", UdpTunnel # None
  PROVE  TunnelAt(frame, at + 1)
<1>1. UdpTunnel \in UdpTunnels /\ Promised(Here) = UdpTunnel
  BY DEF UdpTunnel, UdpTunnels, Promised
<1>2. Follows(UdpTunnel)
  BY <1>1, HeaderRead, Held
<1> QED
  BY <1>1, <1>2 DEF Follows, TunnelAt

(* A tunnel's header is before the data.                                   *)
LEMMA TunnelBefore ==
  ASSUME IInv, NEW j, TunnelAt(frame, j)
  PROVE  Start(frame, j) < DataStart(frame) /\ DataStart(frame) \in Nat
<1>1. j \in 1 .. Len(frame.layers) /\ frame \in Frames
  BY Held DEF TunnelAt, DTypes
<1>2. Formed(frame.layers[j])
  BY <1>1, FramesAssumption
<1>3. frame.layers[j].len \in Nat /\ frame.layers[j].len >= 8
  BY <1>2 DEF Formed, TunnelAt, UdpTunnels
<1>4. Start(frame, j) \in Nat /\ Start(frame, j + 1) = Start(frame, j) + frame.layers[j].len
  BY <1>1, Starts
<1>5. Start(frame, j + 1) <= DataStart(frame) /\ DataStart(frame) \in Nat
  BY <1>1, StartsGrow
<1> QED
  BY <1>3, <1>4, <1>5

LEMMA UdpSought ==
  ASSUME IInv, Place, Behind(frame, parsed), Udp
  PROVE  /\ frame' = frame
         /\ \/ decoder' = "dpi" /\ (Behind(frame, parsed') \/ Borne(frame, parsed'))
            \/ decoder' \notin {"dpi", "dns", "done"} /\ Behind(frame, parsed')
<1> DEFINE q == [parsed EXCEPT !.protocol = "UDP"]
           r == Located(Ports(q), offset + 8, UdpEnd)
<1>1. Transport("UDP") /\ "UDP" \in Decoded /\ Running
  BY DEF Udp, Decoded, Running, Transport
<1>2. at \in 1 .. Len(frame.layers) /\ Here.kind = "UDP"
  BY <1>1, TransportReads
<1>3. Here.len = 8
  BY <1>2, FramesAssumption DEF IInv, DTypes, Here, Formed
<1>4. offset + 8 \in Nat /\ offset + 8 = Start(frame, at + 1)
  BY <1>1, <1>2, <1>3, PastHeader
<1>5. \/ Return(q) \/ Return(r)
      \/ UdpTunnel # None /\ Proceed(r, UdpTunnel, "frame", 8, UdpEnd)
  BY DEF Udp
<1>6. /\ Behind(frame, q) /\ (Behind(frame, r) \/ PortsOf(frame, r, at))
      /\ TunnelAt(frame, at + 1) => Behind(frame, r)
      /\ DOMAIN q = DOMAIN Unparsed /\ DOMAIN r = DOMAIN Unparsed
  BY <1>2, <1>4, HeaderBears
<1> HIDE DEF q, r
<1>7. CASE Return(q) \/ Return(r)
  <2>1. PICK s : /\ Return(s) /\ DOMAIN s = DOMAIN Unparsed
                 /\ Behind(frame, s) \/ PortsOf(frame, s, at)
    BY <1>6, <1>7
  <2>2. ReturnNamed(s, fallback)
    BY <2>1 DEF Return
  <2>3. decoder' = "dpi" /\ frame' = frame
    BY <2>2 DEF ReturnNamed, given
  <2> QED
    BY <1>2, <2>1, <2>2, <2>3, BorneSame, BehindReturned
<1>8. CASE UdpTunnel # None /\ Proceed(r, UdpTunnel, "frame", 8, UdpEnd)
  <2>1. Behind(frame, r)
    BY <1>2, <1>4, <1>6, <1>8, TunnelFollows
  <2>2. parsed' = r /\ decoder' = UdpTunnel /\ frame' = frame
    BY <1>8 DEF Proceed, given
  <2>3. UdpTunnel \in {"VXLAN", "GENEVE"}
    BY <1>8 DEF UdpTunnel
  <2> QED
    BY <2>1, <2>2, <2>3
<1> QED
  BY <1>5, <1>7, <1>8

LEMMA SoughtKept ==
  ASSUME PInv, Sought, Decode
  PROVE  Sought' /\ frame' = frame /\ decoder' # "dns"
<1>1. IInv /\ Place
  BY DEF PInv
<1>2. Running
  <2>1. Tcp \/ Udp => Running
    BY DEF Tcp, Udp, Transport, Running
  <2> QED
    BY <2>1 DEF Running, Decode, LinkFails, LinkLayer, TooDeep, Mpls, Pppoe, IPv4Refused, IPv4, IPv6,
     Extension, Arp, OtherEtherType, Icmp, IpInIp, Gre, OtherTransport, Vxlan, Geneve,
     InnerEthernet, Network, Transport
<1>3. Behind(frame, parsed) /\ Unread(parsed)
  BY <1>2 DEF Sought, Running
<1>4. Unread(parsed')
  BY <1>1, <1>3, DecodersKeepNames DEF SameNames, Unread
<1>5. frame' = frame
  BY <1>1, DecodeMoves DEF Stops, Stays, Passes, given
<1>6. decoder' # "dns"
  <2>1. Tcp \/ Udp => decoder' # "dns"
    BY <1>1, <1>3, TcpSought, UdpSought
  <2> QED
    BY <2>1 DEF Decode, LinkFails, LinkLayer, TooDeep, Mpls, Pppoe, IPv4Refused, IPv4, IPv6,
     Extension, Arp, OtherEtherType, Icmp, IpInIp, Gre, OtherTransport, Vxlan, Geneve,
     InnerEthernet, Return, ReturnNamed, Proceed, Descend, Carries
<1>7. CASE ~Tcp /\ ~Udp
  <2>1. Behind(frame, parsed')
    BY <1>1, <1>3, <1>7, OthersKeepPayload, BehindSame
  <2> QED
    BY <1>4, <1>5, <1>6, <2>1 DEF Sought
<1>8. CASE Tcp
  BY <1>1, <1>3, <1>4, <1>8, TcpSought DEF Sought
<1>9. CASE Udp
  <2>1. \/ decoder' = "dpi" /\ (Behind(frame, parsed') \/ Borne(frame, parsed'))
        \/ decoder' \notin {"dpi", "dns", "done"} /\ Behind(frame, parsed')
    BY <1>1, <1>3, <1>9, UdpSought
  <2> QED
    BY <1>4, <1>5, <1>6, <2>1 DEF Sought
<1> QED
  BY <1>5, <1>7, <1>8, <1>9, <1>6

---------------------------------------------------------------------------
(* The analysis, which reads of the payload what is there.                 *)
LEMMA AvailableIs ==
  ASSUME IInv
  PROVE  Available \in Nat /\ (Available > 0 <=> HasPayload)
<1> DEFINE l == parsed.payloadLength
           o == parsed.payloadOffset
<1>1. l \in Nat /\ o \in Nat /\ size \in Nat
  BY Held DEF Sound
<1>2. /\ HasPayload <=> l > 0 /\ o < size
      /\ Available = IF HasPayload THEN Lesser(l, size - o) ELSE 0
  BY DEF HasPayload, Available
<1> HIDE DEF l, o
<1>3. HasPayload => Lesser(l, size - o) \in Nat /\ Lesser(l, size - o) > 0
  BY <1>1, <1>2 DEF Lesser
<1> QED
  BY <1>2, <1>3

(* Where it begins there is data, or a tunnel's header.                    *)
LEMMA LeftAtIs ==
  ASSUME IInv
  PROVE  LeftAt = {i \in 1 .. Len(frame.layers) :
                     TunnelAt(frame, i) /\ Start(frame, i) = parsed.payloadOffset}
<1>1. DOMAIN frame.layers = 1 .. Len(frame.layers)
  BY FramesAssumption, Held DEF DTypes
<1> QED
  BY <1>1 DEF LeftAt, TunnelAt

LEMMA LeftIsNoData ==
  ASSUME IInv, LeftAt # {}
  PROVE  ~AtData
<1>1. PICK i \in 1 .. Len(frame.layers) :
        TunnelAt(frame, i) /\ Start(frame, i) = parsed.payloadOffset
  BY LeftAtIs
<1>2. Start(frame, i) < DataStart(frame) /\ DataStart(frame) \in Nat
  BY <1>1, TunnelBefore
<1>3. Start(frame, i) \in Nat
  BY Starts, Held DEF DTypes
<1> QED
  BY <1>1, <1>2, <1>3 DEF AtData

LEMMA BehindIs ==
  ASSUME IInv, Behind(frame, parsed)
  PROVE  ~HasPayload \/ LeftAt # {}
<1>1. CASE parsed.payloadLength = 0
  BY <1>1 DEF HasPayload
<1>2. CASE parsed.payloadLength # 0
  <2>1. PICK j \in 1 .. Len(frame.layers) :
          TunnelAt(frame, j) /\ parsed.payloadOffset = Start(frame, j)
    BY <1>2 DEF Behind
  <2>2. j \in LeftAt
    BY <2>1, LeftAtIs
  <2> QED
    BY <2>2
<1> QED
  BY <1>1, <1>2

LEMMA BehindTellsNothing ==
  ASSUME IInv, Behind(frame, parsed)
  PROVE  ~Told
<1>1. CASE ~HasPayload
  BY <1>1, AvailableIs DEF Told
<1>2. CASE LeftAt # {}
  BY <1>2, LeftIsNoData DEF Told
<1> QED
  BY <1>1, <1>2, BehindIs

LEMMA SourceIsData ==
  ASSUME IInv
  PROVE  Data(Source) /\ (LeftAt = {} => Source = frame.data)
<1>1. frame \in Frames /\ Data(frame.data)
  BY Held, DataIs DEF DTypes
<1>2. CASE LeftAt = {}
  BY <1>1, <1>2 DEF Source
<1>3. CASE LeftAt # {}
  <2>1. PICK i \in LeftAt : Source = [bytes |-> frame.layers[i].bytes, lines |-> <<>>]
    BY <1>3 DEF Source
  <2>2. i \in DOMAIN frame.layers /\ frame.layers[i].kind \in UdpTunnels
    BY <2>1 DEF LeftAt
  <2>3. frame.layers[i].bytes \in Seq(Byte)
    BY <1>1, <2>2, TunnelsAssumption DEF TunnelFormed, Byte
  <2> QED
    BY <1>3, <2>1, <2>3 DEF Data, Lines
<1> QED
  BY <1>2, <1>3

LEMMA FirstThree ==
  ASSUME NEW s \in Seq(Byte), Len(s) >= 8
  PROVE  s[1] \in Nat /\ s[2] \in Nat /\ s[3] \in Nat
<1>1. Len(s) \in Nat
  OBVIOUS
<1>2. 1 \in 1 .. Len(s) /\ 2 \in 1 .. Len(s) /\ 3 \in 1 .. Len(s)
  BY <1>1
<1>3. s[1] \in Byte /\ s[2] \in Byte /\ s[3] \in Byte
  BY <1>2
<1>4. \A b \in Byte : b \in Nat
  BY DEF Byte
<1> QED
  BY <1>3, <1>4

(* Of a tunnel's header no name is read: it begins as none of the messages *)
(* that carry one, and as a response only if its EtherType says so.        *)
LEMMA HeaderTellsNothing ==
  ASSUME IInv, LeftAt # {}
  PROVE  /\ TlsName(Payload) = {} /\ QuicName(Payload) = {}
         /\ HttpName(Source.lines, Available) = {}
         /\ HasPayload /\ ~LeftAtResponse => ParseMessage(Payload) = {}
<1>1. PICK i \in LeftAt : Source = [bytes |-> frame.layers[i].bytes, lines |-> <<>>]
  BY DEF Source
<1>2. /\ i \in DOMAIN frame.layers /\ frame.layers[i].kind \in UdpTunnels
      /\ TunnelFormed(frame.layers[i])
  BY <1>1, TunnelsAssumption, Held DEF LeftAt, DTypes
<1> DEFINE h == frame.layers[i].bytes
           m == Payload
<1>3. /\ h \in Seq(0 .. 255) /\ Len(h) >= 8 /\ h[1] < 192
      /\ h[1] = 22 => h[2] # 3
  <2>1. h \in Seq(0 .. 255) /\ Len(h) >= 8
    BY <1>2 DEF TunnelFormed, h
  <2>2. CASE frame.layers[i].kind = "VXLAN"
    BY <1>2, <2>1, <2>2 DEF TunnelFormed
  <2>3. CASE frame.layers[i].kind = "GENEVE"
    <3>1. h[1] < 192 /\ h[2] % 64 = 0
      BY <1>2, <2>3 DEF TunnelFormed
    <3> HIDE DEF h
    <3> QED
      BY <2>1, <3>1
  <2> QED
    BY <1>2, <2>2, <2>3 DEF UdpTunnels
<1>4. h[1] \in Nat /\ h[3] \in Nat
  <2>1. h \in Seq(Byte) /\ Len(h) >= 8
    BY <1>3 DEF Byte
  <2> HIDE DEF h
  <2> QED
    BY <2>1, FirstThree
<1>5. HasPayload /\ ~LeftAtResponse => h[3] < 128
  <2>1. HasPayload /\ ~LeftAtResponse => ~(h[3] >= 128)
    BY DEF LeftAtResponse
  <2> HIDE DEF h
  <2> QED
    BY <1>4, <2>1
<1>6. /\ Source.bytes = h /\ Source.lines = <<>>
      /\ Data(Source) /\ Available \in Nat
  BY <1>1, SourceIsData, AvailableIs
<1>7. HttpName(Source.lines, Available) = {}
  BY <1>6 DEF HttpName, IsHttp
<1> HIDE DEF h
<1>8. /\ m \in Seq(Byte) /\ Len(m) <= Len(h)
      /\ \A k \in 1 .. Len(m) : m[k] = h[k]
  <2> DEFINE n == Lesser(Available, Len(h))
  <2>1. m \in Seq(Byte) /\ Len(m) = Lesser(Available, Len(Source.bytes))
    BY <1>6, FirstIs DEF Payload
  <2>2. \A k \in 1 .. Lesser(Available, Len(Source.bytes)) : m[k] = Source.bytes[k]
    BY <1>6, FirstIs DEF Payload
  <2>3. Lesser(Available, Len(h)) <= Len(h) /\ Len(m) \in Nat
    BY <1>3, <1>6, <2>1 DEF Lesser
  <2> HIDE DEF m
  <2> QED
    BY <1>6, <2>1, <2>2, <2>3
<1> HIDE DEF m
<1>9. ASSUME Len(m) >= 5 PROVE m[1] = h[1] /\ m[2] = h[2] /\ m[3] = h[3]
  <2>1. 1 \in 1 .. Len(m) /\ 2 \in 1 .. Len(m) /\ 3 \in 1 .. Len(m)
    BY <1>8, <1>9
  <2> QED
    BY <1>8, <2>1
<1>10. ~LooksLikeTlsHandshake(m)
  BY <1>3, <1>9 DEF LooksLikeTlsHandshake, Octet
<1>11. ~LooksLikeLongHeader(m)
  BY <1>3, <1>4, <1>9 DEF LooksLikeLongHeader, Octet
<1>12. ASSUME HasPayload, ~LeftAtResponse PROVE ParseMessage(m) = {}
  <2>1. h[3] < 128 /\ h[3] \in Nat /\ Len(m) \in Nat
    BY <1>4, <1>5, <1>8, <1>12
  <2> QED
    BY <1>9, <2>1 DEF ParseMessage, Octet, HeaderLength
<1> QED
  BY <1>7, <1>10, <1>11, <1>12 DEF TlsName, QuicName, ExtractInitialSni, ParseInitial, m

SameEnds(q, r) ==
  /\ SamePayload(q, r)
  /\ q.protocol = r.protocol /\ q.sport = r.sport /\ q.dport = r.dport

LEMMA LabelKeeps ==
  ASSUME NEW q, DOMAIN q = DOMAIN Unparsed, NEW services
  PROVE  /\ SameNames(Marked(Classified(q, services)), q) /\ SameEnds(Marked(Classified(q, services)), q)
         /\ SameNames(Marked(q), q) /\ SameEnds(Marked(q), q)
<1>1. ASSUME NEW r, DOMAIN r = DOMAIN Unparsed PROVE SameNames(Marked(r), r) /\ SameEnds(Marked(r), r)
  <2>1. PICK v : v = (r.encrypted \/ r.service \in {"WireGuard", "OpenVPN", "IPsec"})
    OBVIOUS
  <2>2. Marked(r) = [r EXCEPT !.encrypted = v]
    BY <2>1, Zenon DEF Marked
  <2> QED
    BY <1>1, <2>2 DEF SameNames, SameEnds, SamePayload, Unparsed
<1>2. PICK v : Classified(q, services) = q \/ Classified(q, services) = [q EXCEPT !.service = v]
  BY DEF Classified
<1> DEFINE c == Classified(q, services)
<1>3. SameNames(c, q) /\ SameEnds(c, q) /\ DOMAIN c = DOMAIN Unparsed
  BY <1>2 DEF SameNames, SameEnds, SamePayload, Unparsed
<1> HIDE DEF c
<1>4. SameNames(Marked(c), c) /\ SameEnds(Marked(c), c)
  BY <1>1, <1>3
<1>5. SameNames(Marked(c), q) /\ SameEnds(Marked(c), q)
  BY <1>3, <1>4 DEF SameNames, SameEnds, SamePayload
<1> QED
  BY <1>1, <1>5 DEF c

(* q is r with the names of sni and host.                                  *)
NamedWith(q, r, sni, host) ==
  /\ q.sni = Field(sni) /\ q.hostname = Field(host) /\ SameEnds(q, r)
  /\ DOMAIN q = DOMAIN Unparsed

LEMMA NamedByTls ==
  ASSUME NEW q, DOMAIN q = DOMAIN Unparsed, Unread(q)
  PROVE  NamedWith(ParseTls(q), q, TlsName(Payload), {})
<1>1. CASE TlsName(Payload) = {}
  BY <1>1 DEF ParseTls, NamedWith, Field, Unread, SameEnds, SamePayload
<1>2. CASE TlsName(Payload) # {}
  <2> DEFINE s == CHOOSE s \in TlsName(Payload) : TRUE
             v == IdentifyService(s)
  <2>1. ParseTls(q) = [q EXCEPT !.sni = s, !.service = v]
    BY <1>2, Zenon DEF ParseTls
  <2>2. Field(TlsName(Payload)) = s /\ Field({}) = None
    BY <1>2, Zenon DEF Field
  <2> HIDE DEF s, v
  <2> QED
    BY <2>1, <2>2 DEF NamedWith, Unread, SameEnds, SamePayload, Unparsed
<1> QED
  BY <1>1, <1>2

LEMMA NamedByQuic ==
  ASSUME NEW q, DOMAIN q = DOMAIN Unparsed, Unread(q)
  PROVE  NamedWith(Quic(q), q, QuicName(Payload), {})
<1>1. CASE QuicName(Payload) = {}
  <2>1. PICK w : Quic(q) = [q EXCEPT !.service = w]
    BY <1>1 DEF Quic
  <2>2. Field(QuicName(Payload)) = None /\ Field({}) = None
    BY <1>1 DEF Field
  <2> QED
    BY <2>1, <2>2 DEF NamedWith, Unread, SameEnds, SamePayload, Unparsed
<1>2. CASE QuicName(Payload) # {}
  <2> DEFINE s == CHOOSE s \in QuicName(Payload) : TRUE
  <2>1. PICK v, w : Quic(q) = [[q EXCEPT !.sni = s, !.service = v] EXCEPT !.service = w]
    BY <1>2 DEF Quic
  <2>2. Field(QuicName(Payload)) = s /\ Field({}) = None
    BY <1>2, Zenon DEF Field
  <2> HIDE DEF s
  <2> QED
    BY <2>1, <2>2 DEF NamedWith, Unread, SameEnds, SamePayload, Unparsed
<1> QED
  BY <1>1, <1>2

LEMMA NamedByHttp ==
  ASSUME NEW q, DOMAIN q = DOMAIN Unparsed, Unread(q)
  PROVE  NamedWith(ParseHttp(q), q, {}, HttpName(Source.lines, Available))
<1> DEFINE lines == Source.lines
           N == HttpName(lines, Available)
<1> SUFFICES NamedWith(ParseHttp(q), q, {}, N)
  OBVIOUS
<1> HIDE DEF N
<1>1. CASE ~IsHttp(lines, Available)
  <2>1. N = {}
    BY <1>1 DEF HttpName, N
  <2>2. ParseHttp(q) = q
    BY <1>1 DEF ParseHttp
  <2>3. Field(N) = None /\ Field({}) = None
    BY <2>1 DEF Field
  <2> QED
    BY <2>2, <2>3 DEF NamedWith, Unread, SameEnds, SamePayload
<1>2. CASE IsHttp(lines, Available) /\ N = {}
  <2>1. PICK w : ParseHttp(q) = [q EXCEPT !.service = w]
    BY <1>2 DEF ParseHttp, N
  <2>2. Field(N) = None /\ Field({}) = None
    BY <1>2 DEF Field
  <2> QED
    BY <2>1, <2>2 DEF NamedWith, Unread, SameEnds, SamePayload, Unparsed
<1>3. CASE IsHttp(lines, Available) /\ N # {}
  <2> DEFINE s == CHOOSE h \in N : TRUE
  <2>1. PICK v, w : ParseHttp(q) = [[q EXCEPT !.service = v] EXCEPT !.hostname = s, !.service = w]
    BY <1>3 DEF ParseHttp, N
  <2>2. Field(N) = s /\ Field({}) = None
    BY <1>3, Zenon DEF Field
  <2> HIDE DEF s
  <2> QED
    BY <2>1, <2>2 DEF NamedWith, Unread, SameEnds, SamePayload, Unparsed
<1> QED
  BY <1>1, <1>2, <1>3

LEMMA NamedByLabel ==
  ASSUME NEW q, NEW r, NEW s, NEW h, NamedWith(q, r, s, h), NEW services
  PROVE  NamedWith(Marked(Classified(q, services)), r, s, h)
<1>1. DOMAIN q = DOMAIN Unparsed
  BY DEF NamedWith
<1> DEFINE c == Marked(Classified(q, services))
<1>2. SameNames(c, q) /\ SameEnds(c, q)
  BY <1>1, LabelKeeps
<1>3. DOMAIN c = DOMAIN Unparsed
  BY <1>1, MarkedAlike DEF Alike, Agrees
<1> HIDE DEF c
<1>4. NamedWith(c, r, s, h)
  BY <1>2, <1>3 DEF NamedWith, SameNames, SameEnds, SamePayload
<1> QED
  BY <1>4 DEF c

LEMMA Unnamed ==
  ASSUME NEW q, DOMAIN q = DOMAIN Unparsed, Unread(q)
  PROVE  NamedWith(q, q, {}, {})
  BY DEF NamedWith, Unread, Field, SameEnds, SamePayload

LEMMA NothingThere ==
  ASSUME IInv, ~HasPayload
  PROVE  /\ TlsName(Payload) = {} /\ QuicName(Payload) = {} /\ ParseMessage(Payload) = {}
         /\ HttpName(Source.lines, Available) = {}
<1>1. Available = 0 /\ Payload = FirstBytes(Source, 0)
  BY DEF Available, Payload
<1>2. Data(Source)
  BY SourceIsData
<1> QED
  BY <1>1, <1>2, ReadingNothing

LEMMA TcpNamed ==
  ASSUME IInv, Unread(parsed), DpiTcp
  PROVE  NamedWith(parsed', parsed, TlsName(Payload), HttpName(Source.lines, Available))
<1> DEFINE H == HttpName(Source.lines, Available)
           T == TlsName(Payload)
<1> SUFFICES NamedWith(parsed', parsed, T, H)
  OBVIOUS
<1>1. DOMAIN parsed = DOMAIN Unparsed
  BY Held DEF Sound
<1>2. PICK q : /\ q = IF ~HasPayload THEN parsed
                      ELSE IF LooksLikeTlsHandshake(Payload) THEN ParseTls(parsed)
                      ELSE ParseHttp(parsed)
               /\ parsed' = Marked(Classified(q, TcpServices))
  BY DEF DpiTcp
<1>3. CASE ~HasPayload
  <2>1. T = {} /\ H = {}
    BY <1>3, NothingThere
  <2>2. NamedWith(parsed, parsed, {}, {})
    BY <1>1, Unnamed
  <2> HIDE DEF T, H
  <2>3. NamedWith(q, parsed, T, H)
    BY <1>2, <1>3, <2>1, <2>2
  <2> QED
    BY <1>2, <2>3, NamedByLabel
<1>4. CASE HasPayload /\ LooksLikeTlsHandshake(Payload)
  <2>1. H = {}
    <3>1. Data(Source) /\ Available \in Nat
      BY SourceIsData, AvailableIs
    <3>2. Len(Payload) = Lesser(Available, Len(Source.bytes))
      BY <3>1, FirstIs DEF Payload
    <3>3. Len(Payload) >= 5
      BY <1>4 DEF LooksLikeTlsHandshake
    <3>4. Source.bytes # <<>>
      BY <3>1, <3>2, <3>3 DEF Lesser
    <3>5. Source.lines = <<>>
      BY <3>1, <3>4 DEF Data
    <3> QED
      BY <3>5 DEF HttpName, IsHttp
  <2>2. NamedWith(ParseTls(parsed), parsed, T, {})
    BY <1>1, NamedByTls
  <2> HIDE DEF T, H
  <2>3. NamedWith(q, parsed, T, H)
    BY <1>2, <1>4, <2>1, <2>2
  <2> QED
    BY <1>2, <2>3, NamedByLabel
<1>5. CASE HasPayload /\ ~LooksLikeTlsHandshake(Payload)
  <2>1. T = {}
    BY <1>5 DEF TlsName
  <2>2. NamedWith(ParseHttp(parsed), parsed, {}, H)
    BY <1>1, NamedByHttp
  <2> HIDE DEF T, H
  <2>3. NamedWith(q, parsed, T, H)
    BY <1>2, <1>5, <2>1, <2>2
  <2> QED
    BY <1>2, <2>3, NamedByLabel
<1> QED
  BY <1>3, <1>4, <1>5

LEMMA UdpNamed ==
  ASSUME IInv, Unread(parsed), DpiUdp
  PROVE  NamedWith(parsed', parsed, QuicName(Payload), {})
<1> DEFINE Q == QuicName(Payload)
<1> SUFFICES NamedWith(parsed', parsed, Q, {})
  OBVIOUS
<1>1. DOMAIN parsed = DOMAIN Unparsed
  BY Held DEF Sound
<1>2. PICK q : /\ q = IF HasPayload /\ LooksLikeLongHeader(Payload) THEN Quic(parsed) ELSE parsed
               /\ parsed' = Marked(Classified(q, UdpServices))
  BY DEF DpiUdp
<1>3. CASE HasPayload /\ LooksLikeLongHeader(Payload)
  <2>1. NamedWith(Quic(parsed), parsed, Q, {})
    BY <1>1, NamedByQuic
  <2> HIDE DEF Q
  <2>2. NamedWith(q, parsed, Q, {})
    BY <1>2, <1>3, <2>1
  <2> QED
    BY <1>2, <2>2, NamedByLabel
<1>4. CASE ~(HasPayload /\ LooksLikeLongHeader(Payload))
  <2>1. Q = {}
    <3>1. CASE ~HasPayload
      BY <3>1, NothingThere
    <3>2. CASE ~LooksLikeLongHeader(Payload)
      BY <3>2 DEF QuicName, ExtractInitialSni, ParseInitial
    <3> QED
      BY <1>4, <3>1, <3>2
  <2>2. NamedWith(parsed, parsed, {}, {})
    BY <1>1, Unnamed
  <2> HIDE DEF Q
  <2>3. NamedWith(q, parsed, Q, {})
    BY <1>2, <1>4, <2>1, <2>2
  <2> QED
    BY <1>2, <2>3, NamedByLabel
<1> QED
  BY <1>3, <1>4

(* What is read of data behind header i.                                   *)
LEMMA DataRead ==
  ASSUME IInv, NEW i \in 1 .. Len(frame.layers), PortsOf(frame, parsed, i), Available > 0
  PROVE  LET r == Reading(frame.layers[i], frame.data, Available) IN
         /\ Field(r.sni)  = IF Told THEN frame.data.says.sni ELSE None
         /\ Field(r.host) = IF Told THEN frame.data.says.host ELSE None
         /\ r.dns = IF Told THEN frame.data.says.dns ELSE {}
         /\ r.sni  = IF parsed.protocol = "TCP" THEN TlsName(Payload) ELSE QuicName(Payload)
         /\ r.host = IF parsed.protocol = "TCP" THEN HttpName(Source.lines, Available) ELSE {}
         /\ r.dns = IF parsed.protocol = "UDP" /\ {parsed.sport, parsed.dport} \cap DnsPorts # {}
                    THEN ParseMessage(Payload) ELSE {}
<1> DEFINE h == frame.layers[i]
           d == frame.data
           A == Available
           r == Reading(h, d, A)
<1>1. frame \in Frames /\ Data(d) /\ A \in Nat
  BY Held, DataIs, AvailableIs DEF DTypes
<1>2. SaysWhatIsRead(h, d)
  BY <1>1, DataAssumption DEF PortsOf
<1>3. Told <=> A >= d.says.by
  BY DEF Told, AtData, PortsOf
<1>4. h.kind = parsed.protocol /\ h.src = parsed.sport /\ h.dst = parsed.dport
  BY DEF PortsOf
<1>5. Source = d /\ Payload = FirstBytes(d, A)
  <2>1. LeftAt = {}
    BY LeftIsNoData DEF PortsOf, AtData
  <2> QED
    BY <2>1, SourceIsData DEF Payload
<1> HIDE DEF h, d, A
<1>6. /\ Field(r.sni)  = IF Told THEN d.says.sni ELSE None
      /\ Field(r.host) = IF Told THEN d.says.host ELSE None
      /\ r.dns = IF Told THEN d.says.dns ELSE {}
  BY <1>1, <1>2, <1>3, ReadingIs
<1>7. /\ r.sni  = IF parsed.protocol = "TCP" THEN TlsName(Payload) ELSE QuicName(Payload)
      /\ r.host = IF parsed.protocol = "TCP" THEN HttpName(Source.lines, A) ELSE {}
      /\ r.dns = IF parsed.protocol = "UDP" /\ {parsed.sport, parsed.dport} \cap DnsPorts # {}
                 THEN ParseMessage(Payload) ELSE {}
  BY <1>4, <1>5 DEF Reading
<1> QED
  BY <1>6, <1>7 DEF h, d, A

NamesTold ==
  /\ parsed.sni = IF Told THEN frame.data.says.sni ELSE None
  /\ parsed.hostname = IF Told THEN frame.data.says.host ELSE None

AnswersTold ==
  LeftAtResponse \/ dns = IF Told /\ parsed.protocol = "UDP" THEN frame.data.says.dns ELSE {}

Ready == Behind(frame, parsed) \/ Borne(frame, parsed)

LEMMA SameEndsSame ==
  ASSUME SameEnds(parsed', parsed), UNCHANGED given
  PROVE  /\ Available' = Available /\ Told' = Told /\ frame' = frame
         /\ LeftAtResponse' = LeftAtResponse
         /\ Ready => Ready'
<1>1. /\ frame' = frame /\ size' = size
      /\ parsed'.payloadOffset = parsed.payloadOffset /\ parsed'.payloadLength = parsed.payloadLength
      /\ parsed'.protocol = parsed.protocol /\ parsed'.sport = parsed.sport
      /\ parsed'.dport = parsed.dport
  BY DEF SameEnds, SamePayload, given
<1>2. Available' = Available
  BY <1>1 DEF Available, HasPayload
<1>3. Told' = Told /\ LeftAtResponse' = LeftAtResponse
  BY <1>1, <1>2 DEF Told, AtData, LeftAtResponse, LeftAt, HasPayload
<1>4. ASSUME Ready PROVE Ready'
  <2>1. CASE Behind(frame, parsed)
    BY <1>1, <2>1 DEF Ready, Behind, TunnelAt
  <2>2. CASE Borne(frame, parsed)
    BY <1>1, <2>2 DEF Ready, Borne, PortsOf
  <2> QED
    BY <1>4, <2>1, <2>2 DEF Ready
<1> QED
  BY <1>1, <1>2, <1>3, <1>4

LEMMA NamesFound ==
  ASSUME IInv, Sought, decoder = "dpi", DpiTcp \/ DpiUdp \/ DpiNone
  PROVE  NamesTold' /\ Ready' /\ decoder' = "dns"
<1>1. Unread(parsed) /\ Ready /\ DOMAIN parsed = DOMAIN Unparsed
  BY Held DEF Sought, Ready, Sound
<1>2. decoder' = "dns" /\ UNCHANGED given
  BY DEF DpiTcp, DpiUdp, DpiNone
<1> DEFINE S == IF parsed.protocol = "TCP" THEN TlsName(Payload)
                ELSE IF parsed.protocol = "UDP" THEN QuicName(Payload) ELSE {}
           H == IF parsed.protocol = "TCP" THEN HttpName(Source.lines, Available) ELSE {}
<1>3. NamedWith(parsed', parsed, S, H)
  <2>1. CASE DpiTcp
    <3>1. parsed.protocol = "TCP"
      BY <2>1 DEF DpiTcp
    <3> QED
      BY <1>1, <2>1, <3>1, TcpNamed
  <2>2. CASE DpiUdp
    <3>1. parsed.protocol = "UDP"
      BY <2>2 DEF DpiUdp
    <3> QED
      BY <1>1, <2>2, <3>1, UdpNamed
  <2>3. CASE DpiNone
    <3>1. parsed.protocol \notin {"TCP", "UDP"} /\ parsed' = Marked(parsed)
      BY <2>3 DEF DpiNone
    <3>2. SameNames(parsed', parsed) /\ SameEnds(parsed', parsed)
      BY <1>1, <3>1, LabelKeeps
    <3>3. DOMAIN parsed' = DOMAIN Unparsed
      BY <1>1, <3>1, MarkedAlike DEF Alike, Agrees
    <3>4. NamedWith(parsed', parsed, {}, {})
      BY <1>1, <3>2, <3>3 DEF NamedWith, SameNames, Unread, Field
    <3> QED
      BY <3>1, <3>4
  <2> QED
    BY <2>1, <2>2, <2>3
<1>4. /\ Field(S) = IF Told THEN frame.data.says.sni ELSE None
      /\ Field(H) = IF Told THEN frame.data.says.host ELSE None
  <2>1. CASE Available > 0 /\ ~Behind(frame, parsed)
    <3>2. PICK i \in 1 .. Len(frame.layers) : PortsOf(frame, parsed, i)
      BY <1>1, <2>1 DEF Ready, Borne
    <3>3. parsed.protocol \in {"TCP", "UDP"}
      BY <3>2 DEF PortsOf
    <3> DEFINE r == Reading(frame.layers[i], frame.data, Available)
    <3>4. /\ Field(r.sni)  = IF Told THEN frame.data.says.sni ELSE None
          /\ Field(r.host) = IF Told THEN frame.data.says.host ELSE None
          /\ r.sni  = IF parsed.protocol = "TCP" THEN TlsName(Payload) ELSE QuicName(Payload)
          /\ r.host = IF parsed.protocol = "TCP" THEN HttpName(Source.lines, Available) ELSE {}
      BY <2>1, <3>2, DataRead
    <3>5. r.sni = S /\ r.host = H
      BY <3>3, <3>4
    <3> HIDE DEF r, S, H
    <3> QED
      BY <3>4, <3>5
  <2>2. CASE ~(Available > 0)
    <3>1. ~Told /\ Available = 0 /\ Data(Source) /\ Payload = FirstBytes(Source, 0)
      BY <2>2, AvailableIs, SourceIsData DEF Told, Payload
    <3>2. S = {} /\ H = {}
      BY <3>1, ReadingNothing
    <3>3. Field({}) = None
      BY DEF Field
    <3> HIDE DEF S, H
    <3> QED
      BY <3>1, <3>2, <3>3
  <2>3. CASE Available > 0 /\ Behind(frame, parsed)
    <3>1. ~Told /\ LeftAt # {}
      BY <2>3, AvailableIs, BehindIs, BehindTellsNothing
    <3>2. S = {} /\ H = {}
      BY <3>1, HeaderTellsNothing
    <3>3. Field({}) = None
      BY DEF Field
    <3> HIDE DEF S, H
    <3> QED
      BY <3>1, <3>2, <3>3
  <2> QED
    BY <2>1, <2>2, <2>3
<1> HIDE DEF S, H
<1>5. SameEnds(parsed', parsed) /\ parsed'.sni = Field(S) /\ parsed'.hostname = Field(H)
  BY <1>3 DEF NamedWith
<1>6. Told' = Told /\ frame' = frame /\ Ready'
  BY <1>1, <1>2, <1>5, SameEndsSame
<1>7. NamesTold'
  BY <1>4, <1>5, <1>6 DEF NamesTold
<1> QED
  BY <1>2, <1>6, <1>7

LEMMA AnswersFound ==
  ASSUME IInv, Ready, ParseResponse
  PROVE  AnswersTold'
<1>1. UNCHANGED <<given, parsed>> /\ SameEnds(parsed', parsed)
  BY DEF ParseResponse, SameEnds, SamePayload
<1>2. /\ Told' = Told /\ frame' = frame /\ parsed' = parsed
      /\ LeftAtResponse' = LeftAtResponse
  BY <1>1, SameEndsSame
<1> DEFINE Asks == parsed.protocol = "UDP" /\ {parsed.sport, parsed.dport} \cap DnsPorts # {}
<1>3. dns' = IF Asks /\ HasPayload THEN ParseMessage(Payload) ELSE {}
  BY DEF ParseResponse
<1>4. LeftAtResponse \/
        dns' = IF Told /\ parsed.protocol = "UDP" THEN frame.data.says.dns ELSE {}
  <2>1. CASE Available > 0 /\ ~Behind(frame, parsed)
    <3>1. ~Behind(frame, parsed) /\ HasPayload
      BY <2>1, AvailableIs
    <3>2. PICK i \in 1 .. Len(frame.layers) : PortsOf(frame, parsed, i)
      BY <3>1 DEF Ready, Borne
    <3> DEFINE r == Reading(frame.layers[i], frame.data, Available)
    <3>3. /\ r.dns = IF Told THEN frame.data.says.dns ELSE {}
          /\ r.dns = IF Asks THEN ParseMessage(Payload) ELSE {}
      BY <2>1, <3>2, DataRead
    <3> HIDE DEF r
    <3> QED
      BY <1>3, <3>1, <3>3
  <2>2. CASE ~(Available > 0)
    <3>1. ~Told /\ Available = 0 /\ Data(Source) /\ Payload = FirstBytes(Source, 0)
      BY <2>2, AvailableIs, SourceIsData DEF Told, Payload
    <3>2. ParseMessage(Payload) = {}
      BY <3>1, ReadingNothing
    <3> QED
      BY <1>3, <3>1, <3>2
  <2>3. CASE Available > 0 /\ Behind(frame, parsed)
    <3>1. ~Told /\ HasPayload /\ LeftAt # {}
      BY <2>3, AvailableIs, BehindIs, BehindTellsNothing
    <3> QED
      BY <1>3, <3>1, HeaderTellsNothing
  <2> QED
    BY <2>1, <2>2, <2>3
<1> HIDE DEF Asks
<1> QED
  BY <1>2, <1>4 DEF AnswersTold

---------------------------------------------------------------------------
(* From headers to names to answers.                                       *)
Progress ==
  /\ decoder \notin {"dns", "done"} => Sought /\ dns = {}
  /\ decoder = "dns" => Ready /\ NamesTold
  /\ decoder = "done" => NamesTold /\ AnswersTold

RInv == PInv /\ Progress

LEMMA NothingTold ==
  IInv /\ Unread(parsed) /\ Behind(frame, parsed) => NamesTold /\ (dns = {} => AnswersTold)
<1> SUFFICES ASSUME IInv, Unread(parsed), Behind(frame, parsed)
             PROVE  NamesTold /\ (dns = {} => AnswersTold)
  OBVIOUS
<1>1. ~Told
  BY BehindTellsNothing
<1> QED
  BY <1>1 DEF NamesTold, AnswersTold, Unread

LEMMA RInitially == PInit => RInv
<1> SUFFICES ASSUME PInit PROVE RInv
  OBVIOUS
<1>1. PInv
  BY PInitially
<1>2. decoder = "link" /\ dns = {} /\ parsed = Unparsed
  BY DEF PInit, DInit
<1>3. Sought
  BY <1>2 DEF Sought, Behind, Unread, Unparsed
<1> QED
  BY <1>1, <1>2, <1>3 DEF RInv, Progress

LEMMA RInductive == RInv /\ [PNext]_pvars => RInv'
<1> SUFFICES ASSUME RInv, [PNext]_pvars PROVE RInv'
  OBVIOUS
<1>1. PInv /\ PInv' /\ IInv /\ IInv' /\ Progress
  BY PInductive DEF RInv, PInv
<1>2. CASE Decode /\ UNCHANGED dns
  <2>1. decoder \notin {"dpi", "dns", "done"}
    <3>1. Tcp \/ Udp => decoder \notin {"dpi", "dns", "done"}
      BY DEF Tcp, Udp, Transport
    <3> QED
      BY <1>2, <3>1 DEF Decode, LinkFails, LinkLayer, TooDeep, Mpls, Pppoe, IPv4Refused, IPv4,
         IPv6, Extension, Arp, OtherEtherType, Icmp, IpInIp, Gre, OtherTransport, Vxlan, Geneve,
         InnerEthernet, Network, Transport
  <2>2. Sought /\ dns' = {}
    BY <1>1, <1>2, <2>1 DEF Progress
  <2>3. Sought' /\ decoder' # "dns"
    BY <1>1, <1>2, <2>2, SoughtKept
  <2>4. CASE decoder' = "done"
    <3>1. Unread(parsed)' /\ Behind(frame, parsed)'
      BY <2>3, <2>4 DEF Sought
    <3>2. (NamesTold /\ (dns = {} => AnswersTold))'
      BY <1>1, <3>1, NothingTold, PTL
    <3> QED
      BY <1>1, <2>2, <2>4, <3>2 DEF RInv, Progress
  <2>5. CASE decoder' # "done"
    BY <1>1, <2>2, <2>3, <2>5 DEF RInv, Progress
  <2> QED
    BY <2>4, <2>5
<1>3. CASE DpiTcp \/ DpiUdp \/ DpiNone
  <2>1. decoder = "dpi" /\ Sought
    BY <1>1, <1>3 DEF DpiTcp, DpiUdp, DpiNone, Progress
  <2>2. NamesTold' /\ Ready' /\ decoder' = "dns"
    BY <1>1, <1>3, <2>1, NamesFound
  <2> QED
    BY <1>1, <2>2 DEF RInv, Progress
<1>4. CASE ParseResponse
  <2>1. Ready /\ NamesTold /\ decoder' = "done" /\ parsed' = parsed /\ UNCHANGED given
    BY <1>1, <1>4 DEF ParseResponse, Progress
  <2>2. AnswersTold'
    BY <1>1, <1>4, <2>1, AnswersFound
  <2>3. NamesTold'
    <3>1. SameEnds(parsed', parsed)
      BY <2>1 DEF SameEnds, SamePayload
    <3>2. Told' = Told /\ frame' = frame
      BY <2>1, <3>1, SameEndsSame
    <3> QED
      BY <2>1, <3>2 DEF NamesTold
  <2> QED
    BY <1>1, <2>1, <2>2, <2>3 DEF RInv, Progress
<1>5. CASE Returned \/ UNCHANGED pvars
  <2>1. frame' = frame /\ size' = size /\ parsed' = parsed /\ dns' = dns /\ decoder' = decoder
    BY <1>5 DEF Returned, pvars, dvars, given
  <2>2. Progress'
    BY <1>1, <2>1 DEF Progress, Sought, Ready, NamesTold, AnswersTold, Told, Available, HasPayload,
      AtData, LeftAtResponse, LeftAt
  <2> QED
    BY <1>1, <2>2 DEF RInv
<1> QED
  BY <1>2, <1>3, <1>4, <1>5 DEF PNext

(* For every frame, wherever it is cut and in whatever it is carried: the  *)
(* name that parse() reports of a TLS, QUIC or HTTP message is the one it  *)
(* says if all that says it was captured, and none if not.                 *)
THEOREM NamesAlwaysRead == PSpec => []NamesAreRead
<1>1. RInv => NamesAreRead
  BY DEF RInv, Progress, NamesTold, NamesAreRead
<1> QED
  BY <1>1, RInitially, RInductive, PTL DEF PSpec

(* And what parseResponse() returns is what the response says, question,   *)
(* answers and names spelled out, or nothing if it was cut, unless the     *)
(* payload was left at a GENEVE header that reads as a response.           *)
THEOREM AnswersAlwaysTheRecords == PSpec => []AnswersAreTheRecords
<1>1. RInv => AnswersAreTheRecords
  BY DEF RInv, Progress, AnswersTold, AnswersAreTheRecords
<1> QED
  BY <1>1, RInitially, RInductive, PTL DEF PSpec
=============================================================================
