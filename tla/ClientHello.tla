---------------------------- MODULE ClientHello ----------------------------
(***************************************************************************)
(* The server name in a TLS ClientHello, which the code reads twice:       *)
(* core::ProtocolParser::parseTlsClientHello out of a TLS record,          *)
(* core::QuicParser::sniFromClientHello out of a handshake message.  And   *)
(* the QUIC Initial packet that such a message comes in,                   *)
(* core::QuicParser::parseInitial, without its encryption.  Messages are   *)
(* sequences of bytes with offsets from 0; what may not be found is a set  *)
(* of at most one element.                                                 *)
(***************************************************************************)
EXTENDS Octets
LOCAL INSTANCE SequencesExt
LOCAL INSTANCE FiniteSetsExt

FixedLength == 34     (* of a ClientHello: version and random              *)
TagLength   == 16     (* of AES-128-GCM                                    *)
QuicVersions == {1, 1798521807}                   (* kQuicV1, kQuicV2      *)
KSaneCryptoBound == 16777216

(* The contents, [from, to), of a vector with a length of w bytes at i,    *)
(* if it ends by e.                                                        *)
Vector(b, i, e, w) ==
  IF i + w > e \/ i + w + UInt(b, i, w) > e THEN {}
  ELSE {[from |-> i + w, to |-> i + w + UInt(b, i, w)]}

(* The extensions, after session id, cipher suites and compression methods.*)
ExtensionsOf(b, i, e) ==
  LET after(ps, w) == UNION {{v.to : v \in Vector(b, p, e, w)} : p \in ps} IN
  UNION {Vector(b, p, e, 2) : p \in FoldLeft(after, {i}, <<1, 2, 1>>)}

---------------------------------------------------------------------------
(* parseTlsClientHello(): the first host_name of the list.                 *)
NameInList(b, v) ==
  LET from[p \in v.from .. v.to] ==
        IF v.to - p < 3 THEN {}
        ELSE UNION {IF Octet(b, p) = 0 THEN {Bytes(b, n.from, n.to)} ELSE from[n.to]
                    : n \in Vector(b, p + 1, v.to, 2)}
  IN from[v.from]

(* The walk over the extensions ends at the server name.                   *)
NameInExtensions(b, v) ==
  LET from[p \in v.from .. v.to] ==
        IF v.to - p < 4 THEN {}
        ELSE UNION {IF UInt(b, p, 2) = 0
                    THEN UNION {NameInList(b, l) : l \in Vector(b, x.from, x.to, 2)}
                    ELSE from[x.to]
                    : x \in Vector(b, p + 2, v.to, 2)}
  IN from[v.from]

LooksLikeTlsHandshake(b) ==
  Len(b) >= 5 /\ Octet(b, 0) = 22 /\ Octet(b, 1) = 3 /\ Octet(b, 2) <= 4

(* The end of the record, if it has arrived.                               *)
RecordEnd(b) == {v.to : v \in Vector(b, 3, Len(b), 2)}

(* In a record that is all there.                                          *)
SniOf(r) ==
  IF Len(r) < 9 \/ Octet(r, 5) # 1 THEN {}
  ELSE UNION {
    IF h.from + FixedLength > h.to THEN {}
    ELSE UNION {NameInExtensions(r, x) : x \in ExtensionsOf(r, h.from + FixedLength, h.to)}
    : h \in Vector(r, 6, Len(r), 3)}

SniFromRecord(b) == UNION {SniOf(Bytes(b, 0, e)) : e \in RecordEnd(b)}

---------------------------------------------------------------------------
(* sniFromClientHello(): only the first name of a list is looked at, and   *)
(* a list that does not do is passed over.                                 *)
FirstName(b, x) ==
  LET l == UInt(b, x.from, 2) IN
  IF x.to - x.from < 5 \/ l + 2 > x.to - x.from \/ l < 3 THEN {}
  ELSE IF Octet(b, x.from + 2) # 0 THEN {}
  ELSE {Bytes(b, n.from, n.to) : n \in Vector(b, x.from + 3, x.from + 2 + l, 2)}

FirstNameInExtensions(b, v) ==
  LET from[p \in v.from .. v.to] ==
        IF v.to - p < 4 THEN {}
        ELSE UNION {IF UInt(b, p, 2) = 0 /\ FirstName(b, x) # {} THEN FirstName(b, x)
                    ELSE from[x.to]
                    : x \in Vector(b, p + 2, v.to, 2)}
  IN from[v.from]

SniFromClientHello(b) ==
  IF Len(b) < 4 \/ Octet(b, 0) # 1 THEN {}
  ELSE UNION {
    IF h.from + FixedLength > h.to THEN {}
    ELSE UNION {FirstNameInExtensions(b, x) : x \in ExtensionsOf(b, h.from + FixedLength, h.to)}
    : h \in Vector(b, 1, Len(b), 3)}

---------------------------------------------------------------------------
(* readVarint(): the value and where it ends.                              *)
Varint(b, p) ==
  IF p >= Len(b) THEN {}
  ELSE LET w == <<1, 2, 4, 8>>[1 + (Octet(b, p) \div 64)] IN
       IF p + w > Len(b) THEN {}
       ELSE {[value |-> Number(<<Octet(b, p) % 64>> \o Bytes(b, p + 1, p + w)),
              to |-> p + w]}

(* Where n varints end.                                                    *)
SkipVarints(b, p, n) ==
  FoldLeft(LAMBDA ps, i : UNION {{v.to : v \in Varint(b, q)} : q \in ps},
           {p}, [i \in 1 .. n |-> i])

(* Where an ACK frame that starts before p ends: its third number counts   *)
(* pairs, and one with ECN counts has three more.                          *)
AckEnd(b, p, ecn) ==
  UNION {UNION {IF c.value > Len(b) THEN {}
                ELSE SkipVarints(b, c.to, 1 + 2 * c.value + (IF ecn THEN 3 ELSE 0))
                : c \in Varint(b, q)}
         : q \in SkipVarints(b, p, 2)}

(* The data of a CRYPTO frame.                                             *)
CryptoAt(b, p) ==
  UNION {{[offset |-> o.value, from |-> l.to, to |-> l.to + l.value] :
            l \in {x \in Varint(b, o.to) :
                     /\ x.to + x.value <= Len(b)
                     /\ o.value <= KSaneCryptoBound /\ x.value <= KSaneCryptoBound}}
         : o \in Varint(b, p)}

(* collectCryptoFrames(): the CRYPTO data, in the order of the frames.     *)
CryptoFrames(b) ==
  LET from[p \in 0 .. Len(b)] ==
        IF p = Len(b) THEN {<<>>}
        ELSE LET kind == Octet(b, p) IN
          CASE kind \in {0, 1} -> from[p + 1]
            [] kind \in {2, 3} -> UNION {from[q] : q \in AckEnd(b, p + 1, kind = 3)}
            [] kind = 6 ->
                 UNION {{<<[offset |-> f.offset, data |-> Bytes(b, f.from, f.to)]>> \o rest
                           : rest \in from[f.to]} : f \in CryptoAt(b, p + 1)}
            [] OTHER -> {}
  IN from[0]

(* The keys come from the connection ID in the packet and are the          *)
(* client's: a packet of the server, or of another kind, does not decrypt. *)
(* That shows in the first byte of the tag.                                *)
Decrypts(b, e) == Octet(b, e - TagLength) = 1

LooksLikeLongHeader(b) ==
  Len(b) >= 5 /\ Octet(b, 0) >= 192 /\ UInt(b, 1, 4) \in QuicVersions

(* A connection ID: at most 20 bytes.                                      *)
ConnectionId(b, p) == {v \in Vector(b, p, Len(b), 1) : v.to - v.from <= 20}

(* Where the packet number is, and how long it and what it numbers are.    *)
Numbered(b) ==
  UNION {UNION {UNION {Varint(b, t.to + t.value)
                       : t \in {x \in Varint(b, s.to) : x.to + x.value <= Len(b)}}
                : s \in ConnectionId(b, d.to)}
         : d \in ConnectionId(b, 5)}

(* parseInitial(): the fragments of a client's Initial packet; what comes  *)
(* after it in the datagram is not looked at.                              *)
ParseInitial(b) ==
  IF Len(b) < 20 \/ ~LooksLikeLongHeader(b) THEN {}
  ELSE UNION {
    LET e     == l.to + l.value
        start == l.to + 1 + (Octet(b, 0) % 4)
    IN IF \/ e > Len(b) \/ l.value < TagLength + 1 \/ l.to + 20 > Len(b)
          \/ (Octet(b, 0) \div 16) % 4 # (IF UInt(b, 1, 4) = 1 THEN 0 ELSE 1)
          \/ start + TagLength >= e \/ ~Decrypts(b, e)
       THEN {} ELSE CryptoFrames(Bytes(b, start, e - TagLength))
    : l \in Numbered(b)}

(* A buffer of zeros the fragments are copied into, in their order.        *)
Stitched(fs) ==
  LET size == Max({0} \union {fs[i].offset + Len(fs[i].data) : i \in DOMAIN fs})
      copy(s, f) == [k \in 1 .. size |->
                       IF k - f.offset \in DOMAIN f.data THEN f.data[k - f.offset] ELSE s[k]]
  IN FoldLeft(copy, [k \in 1 .. size |-> 0], fs)

(* extractInitialSni()                                                     *)
ExtractInitialSni(b) ==
  UNION {SniFromClientHello(Stitched(fs)) : fs \in ParseInitial(b)}
=============================================================================
