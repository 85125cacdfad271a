----------------------- MODULE TlsReassembler_proofs -----------------------
(* Proof that TlsReassembler reads names only from the true bytes of a     *)
(* ClientHello: for any connections, reuse of four-tuples, segmentation,   *)
(* loss, repetition and order, any table size, and sequence numbers that   *)
(* wrap.                                                                   *)
EXTENDS TlsReassembler, SharedLemmas

---------------------------------------------------------------------------
Byte == [conn : Conns, pos : Nat]

Stream == [buffer : Seq(Byte), nextSeq : Nat, needed : Nat, lastSeen : Times]

(* A buffer is the first bytes of connection c, each at its own place.     *)
IsPrefix(buffer, c) ==
  \A i \in 1 .. Len(buffer) : buffer[i] = [conn |-> c, pos |-> i - 1]

(* Stream st of four-tuple k follows connection c: it holds a prefix of    *)
(* what c sends, and expects the number with which c goes on.              *)
Follows(st, k, c) ==
  /\ KeyOf[c] = k
  /\ IsPrefix(st.buffer, c)
  /\ st.needed = Needed[c]
  /\ Len(st.buffer) < SeqMod
  /\ st.nextSeq = (Isn[c] + Len(st.buffer)) % SeqMod
  /\ st.nextSeq \in Numbers(c)

Good(st, k) == st \in Stream /\ \E c \in Conns : Follows(st, k, c)

(* The inductive invariant.                                                *)
IInv == (\A k \in DOMAIN streams : Good(streams[k], k)) /\ OnlyTrueNames

---------------------------------------------------------------------------
(* The numbers a segment begins and ends with are its connection's.        *)
LEMMA SegmentNumbers ==
  ASSUME NEW s \in Segments
  PROVE  /\ s.conn \in Conns /\ s.pos \in Nat /\ s.len \in Nat \ {0}
         /\ SeqMod \in Nat \ {0} /\ s.pos + s.len < SeqMod
         /\ Isn[s.conn] \in Nat /\ Needed[s.conn] \in Nat
         /\ Seq32(s) \in Nat /\ Seq32(s) \in Numbers(s.conn)
         /\ Seq32(s) = (Isn[s.conn] + s.pos) % SeqMod
         /\ End32(s) \in Nat /\ End32(s) \in Numbers(s.conn)
         /\ End32(s) = (Isn[s.conn] + (s.pos + s.len)) % SeqMod
<1>1. /\ s.conn \in Conns /\ s.pos \in Nat /\ s.len \in Nat \ {0}
      /\ SeqMod \in Nat \ {0} /\ s.pos + s.len < SeqMod
      /\ Isn[s.conn] \in Nat /\ Needed[s.conn] \in Nat
  BY SegmentsAssumption, LimitsAssumption, RecordsAssumption
<1> DEFINE base == Isn[s.conn] + s.pos
<1>2. base \in Nat
  BY <1>1
<1>3. Seq32(s) = base % SeqMod /\ base % SeqMod \in Nat
  BY <1>1, <1>2, DivMod DEF Seq32
<1>4. End32(s) = (base + s.len) % SeqMod /\ (base + s.len) % SeqMod \in Nat
  <2>1. ((base % SeqMod) + s.len) % SeqMod = (base + s.len) % SeqMod
    BY ONLY <1>1, <1>2, AddToRemainder
  <2>2. (base + s.len) % SeqMod \in Nat
    <3>1. base + s.len \in Nat
      BY <1>1, <1>2
    <3>. QED
      BY <1>1, <3>1, DivMod
  <2>. QED
    BY <1>3, <2>1, <2>2 DEF End32
<1>5. \A i \in 0 .. s.len : (Isn[s.conn] + s.pos + i) % SeqMod \in Numbers(s.conn)
  BY DEF Numbers
<1>6. /\ (Isn[s.conn] + s.pos + 0) % SeqMod = base % SeqMod
      /\ (Isn[s.conn] + s.pos + s.len) % SeqMod = (base + s.len) % SeqMod
      /\ base + s.len = Isn[s.conn] + (s.pos + s.len)
      /\ 0 \in 0 .. s.len /\ s.len \in 0 .. s.len
  BY <1>1
<1>. QED
  BY <1>1, <1>3, <1>4, <1>5, <1>6

(* A segment that continues a stream is of the connection the stream       *)
(* follows, and begins where the buffer ends.                              *)
LEMMA ContinuesTheConnection ==
  ASSUME NEW s \in Segments, NEW st \in Stream, NEW c \in Conns,
         Follows(st, Key(s), c), Continues(s, st)
  PROVE  s.conn = c /\ s.pos = Len(st.buffer)
<1>1. s.conn = c
  BY SegmentNumbers, DistinctNumbers DEF Follows, Continues, Key
<1>2. /\ (Isn[c] + s.pos) % SeqMod = (Isn[c] + Len(st.buffer)) % SeqMod
      /\ Isn[c] \in Nat /\ SeqMod \in Nat \ {0}
      /\ s.pos \in 0 .. SeqMod - 1
      /\ Len(st.buffer) \in 0 .. SeqMod - 1
  <2>1. Len(st.buffer) \in Nat /\ Len(st.buffer) < SeqMod
    BY DEF Stream, Follows
  <2>2. /\ Isn[c] \in Nat /\ SeqMod \in Nat \ {0}
        /\ s.pos \in Nat /\ s.len \in Nat /\ s.pos + s.len < SeqMod
        /\ Seq32(s) = (Isn[c] + s.pos) % SeqMod
    BY <1>1, SegmentNumbers
  <2>3. Seq32(s) = (Isn[c] + Len(st.buffer)) % SeqMod
    BY DEF Follows, Continues
  <2>. QED
    BY <2>1, <2>2, <2>3, SMTT(30)
<1>. QED
  BY <1>1, <1>2, SameRemainder

LEMMA SegmentBytes ==
  ASSUME NEW s \in Segments
  PROVE  /\ Bytes(s) \in Seq(Byte) /\ Len(Bytes(s)) = s.len
         /\ \A i \in 1 .. s.len : Bytes(s)[i] = [conn |-> s.conn, pos |-> s.pos + i - 1]
<1>1. s.conn \in Conns /\ s.pos \in Nat /\ s.len \in Nat
  BY SegmentNumbers
<1> DEFINE b == Bytes(s)
<1>2. \A i \in 1 .. s.len : s.pos + i - 1 \in Nat
  BY <1>1
<1>3. b \in [1 .. s.len -> Byte]
  BY <1>1, <1>2 DEF Bytes, Byte
<1>4. b \in Seq(Byte)
  BY <1>1, <1>3, SeqDef
<1>5. Len(b) = s.len
  BY <1>1, <1>3, <1>4, LenProperties
<1>. QED
  BY <1>4, <1>5 DEF Bytes

(* The bytes of a segment, behind a prefix that ends where it begins, make *)
(* a longer prefix.                                                        *)
LEMMA BytesExtendPrefix ==
  ASSUME NEW s \in Segments, NEW buf \in Seq(Byte),
         IsPrefix(buf, s.conn), s.pos = Len(buf)
  PROVE  /\ buf \o Bytes(s) \in Seq(Byte)
         /\ Len(buf \o Bytes(s)) = s.pos + s.len
         /\ IsPrefix(buf \o Bytes(s), s.conn)
<1>1. s.conn \in Conns /\ s.pos \in Nat /\ s.len \in Nat
  BY SegmentNumbers
<1> DEFINE b == Bytes(s)
<1>2. /\ b \in Seq(Byte) /\ Len(b) = s.len
      /\ \A i \in 1 .. s.len : b[i] = [conn |-> s.conn, pos |-> s.pos + i - 1]
  BY SegmentBytes
<1> HIDE DEF b
<1>3. /\ buf \o b \in Seq(Byte) /\ Len(buf \o b) = s.pos + s.len
      /\ \A i \in 1 .. Len(buf) : (buf \o b)[i] = buf[i]
      /\ \A i \in Len(buf) + 1 .. Len(buf) + s.len : (buf \o b)[i] = b[i - Len(buf)]
  BY <1>1, <1>2, SMTT(30)
<1>4. ASSUME NEW i \in 1 .. s.pos + s.len
      PROVE  (buf \o b)[i] = [conn |-> s.conn, pos |-> i - 1]
  <2>1. CASE i \in 1 .. Len(buf)
    <3>1. buf[i] = [conn |-> s.conn, pos |-> i - 1]
      BY <2>1 DEF IsPrefix
    <3>. QED
      BY <1>3, <2>1, <3>1
  <2>2. CASE i \in Len(buf) + 1 .. Len(buf) + s.len
    <3>1. i - Len(buf) \in 1 .. s.len /\ s.pos + (i - Len(buf)) - 1 = i - 1
      BY <1>1, <2>2
    <3>2. (buf \o b)[i] = b[i - Len(buf)]
      BY <1>3, <2>2
    <3>3. b[i - Len(buf)] = [conn |-> s.conn, pos |-> i - 1]
      BY <1>2, <3>1
    <3>. QED
      BY <3>2, <3>3
  <2>3. i \in 1 .. Len(buf) \/ i \in Len(buf) + 1 .. Len(buf) + s.len
    BY <1>1
  <2>. QED
    BY <2>1, <2>2, <2>3
<1>. QED
  BY <1>3, <1>4 DEF IsPrefix, b

---------------------------------------------------------------------------
LEMMA InitIInv == RInit => IInv
<1> SUFFICES ASSUME RInit PROVE IInv
  OBVIOUS
<1>1. streams = <<>> /\ reported = {}
  BY DEF RInit
<1>. QED
  BY <1>1 DEF IInv, OnlyTrueNames

(* Streams that are kept stay good.                                        *)
LEMMA KeptStreams ==
  ASSUME IInv, NEW K \in SUBSET DOMAIN streams, streams' = Only(K), UNCHANGED reported
  PROVE  IInv'
<1>1. DOMAIN streams' = K /\ \A k \in K : streams'[k] = streams[k]
  BY DEF Only
<1>2. \A k \in DOMAIN streams' : Good(streams'[k], k)
  BY <1>1 DEF IInv
<1>3. OnlyTrueNames'
  BY DEF IInv, OnlyTrueNames
<1>. QED
  BY <1>2, <1>3 DEF IInv, Good, Follows

(* The expiry of a full table leaves some of the streams.                  *)
LEMMA RemainingSome ==
  ASSUME NEW t
  PROVE  Remaining(t) \in SUBSET DOMAIN streams
  BY DEF Remaining, ExpireStale

(* The stream of the segment is replaced or added.                         *)
LEMMA NewOrChanged ==
  ASSUME IInv, NEW k0, NEW st, Good(st, k0), NEW K \in SUBSET DOMAIN streams,
         streams' = [x \in K \union {k0} |-> IF x = k0 THEN st ELSE streams[x]],
         UNCHANGED reported
  PROVE  IInv'
<1>1. /\ DOMAIN streams' = K \union {k0} /\ streams'[k0] = st
      /\ \A k \in K \ {k0} : streams'[k] = streams[k]
  OBVIOUS
<1>2. \A k \in DOMAIN streams' : Good(streams'[k], k)
  BY <1>1 DEF IInv
<1>3. OnlyTrueNames'
  BY DEF IInv, OnlyTrueNames
<1>. QED
  BY <1>2, <1>3 DEF IInv, Good, Follows

---------------------------------------------------------------------------
(* The first segment of a record opens a stream.                           *)
LEMMA OpenedStream ==
  ASSUME NEW s \in Segments, NEW t \in Times, OpenStream(s, t)
  PROVE  LET st == NewStream(s, t) IN
         /\ st \in Stream /\ Follows(st, Key(s), s.conn)
         /\ Len(st.buffer) = s.len
<1> DEFINE st == NewStream(s, t)
<1>1. s.pos = 0 /\ s.len < Needed[s.conn]
  BY SegmentNumbers DEF OpenStream, OpensRecord
<1>2. <<>> \in Seq(Byte) /\ Len(<<>>) = 0 /\ IsPrefix(<<>>, s.conn)
  BY DEF IsPrefix
<1>3. /\ <<>> \o Bytes(s) \in Seq(Byte) /\ Len(<<>> \o Bytes(s)) = s.pos + s.len
      /\ IsPrefix(<<>> \o Bytes(s), s.conn)
  BY <1>1, <1>2, BytesExtendPrefix
<1>4. Bytes(s) \in Seq(Byte)
  BY SegmentBytes
<1>5. <<>> \o Bytes(s) = Bytes(s)
  BY <1>4, ConcatEmptySeq
<1>6. st \in Stream
  BY <1>3, <1>5, SegmentNumbers DEF NewStream, Stream
<1>7. Follows(st, Key(s), s.conn)
  BY <1>1, <1>3, <1>5, SegmentNumbers DEF Follows, NewStream, Key
<1>8. Len(st.buffer) = s.len
  BY <1>1, <1>3, <1>5, SegmentNumbers DEF NewStream
<1>. QED
  BY <1>6, <1>7, <1>8

LEMMA OpenStep ==
  ASSUME IInv, NEW s \in Segments, NEW t \in Times, OpenStream(s, t)
  PROVE  IInv'
<1> DEFINE st == NewStream(s, t)
<1>1. Good(st, Key(s))
  BY OpenedStream, SegmentNumbers DEF Good
<1> HIDE DEF st
<1>. QED
  BY <1>1, NewOrChanged, RemainingSome DEF OpenStream, st

(* The stream a segment belongs to, and the connection it follows.         *)
LEMMA ContinuedStream ==
  ASSUME IInv, NEW s \in Segments, NEW t \in Times,
         Tracked(s), Continues(s, streams[Key(s)])
  PROVE  LET st == Extended(streams[Key(s)], s, t) IN
         /\ st \in Stream
         /\ KeyOf[s.conn] = Key(s) /\ IsPrefix(st.buffer, s.conn)
         /\ st.needed = Needed[s.conn]
         /\ Len(st.buffer) = s.pos + s.len
         /\ st.nextSeq = End32(s)
<1> DEFINE old == streams[Key(s)]
<1>1. PICK c \in Conns : Follows(old, Key(s), c)
  BY DEF IInv, Good, Tracked
<1>2. old \in Stream /\ Continues(s, old)
  BY DEF IInv, Good, Tracked
<1> HIDE DEF old
<1>3. s.conn = c /\ s.pos = Len(old.buffer)
  BY <1>1, <1>2, ContinuesTheConnection
<1>4. old.buffer \in Seq(Byte) /\ IsPrefix(old.buffer, s.conn)
  BY <1>1, <1>2, <1>3 DEF Stream, Follows
<1>5. /\ old.buffer \o Bytes(s) \in Seq(Byte)
      /\ Len(old.buffer \o Bytes(s)) = s.pos + s.len
      /\ IsPrefix(old.buffer \o Bytes(s), s.conn)
  BY <1>3, <1>4, BytesExtendPrefix
<1>6. (old.nextSeq + s.len) % SeqMod = End32(s)
  BY <1>2 DEF Continues, End32
<1> DEFINE st == Extended(old, s, t)
<1>7. /\ st.buffer = old.buffer \o Bytes(s) /\ st.nextSeq = End32(s)
      /\ st.needed = old.needed /\ st.lastSeen = t
      /\ st = [old EXCEPT !.buffer = old.buffer \o Bytes(s),
                          !.nextSeq = End32(s), !.lastSeen = t]
  BY <1>2, <1>6 DEF Extended, Stream
<1>8. End32(s) \in Nat
  BY SegmentNumbers
<1>9. st \in Stream
  BY <1>2, <1>5, <1>7, <1>8 DEF Stream
<1> HIDE DEF st
<1>10. KeyOf[s.conn] = Key(s) /\ old.needed = Needed[s.conn]
  BY <1>1, <1>3 DEF Key, Follows
<1>. QED
  BY <1>5, <1>7, <1>9, <1>10 DEF st, old

LEMMA ContinueStep ==
  ASSUME IInv, NEW s \in Segments, NEW t \in Times, Continue(s, t)
  PROVE  IInv'
<1> DEFINE st == Extended(streams[Key(s)], s, t)
<1>1. /\ st \in Stream
      /\ KeyOf[s.conn] = Key(s) /\ IsPrefix(st.buffer, s.conn)
      /\ st.needed = Needed[s.conn]
      /\ Len(st.buffer) = s.pos + s.len
      /\ st.nextSeq = End32(s)
  BY ContinuedStream DEF Continue
<1>2. streams' = With(Key(s), st) /\ UNCHANGED reported
  BY DEF Continue
<1> HIDE DEF st
<1>3. Follows(st, Key(s), s.conn)
  BY <1>1, SegmentNumbers DEF Follows
<1>4. Good(st, Key(s))
  BY <1>1, <1>3, SegmentNumbers DEF Good
<1>. QED
  BY <1>2, <1>4, NewOrChanged DEF With

(* A record is read to its end from a prefix of one connection.            *)
LEMMA CompleteStep ==
  ASSUME IInv, NEW s \in Segments, NEW t \in Times, Complete(s, t)
  PROVE  IInv'
<1> DEFINE st == Extended(streams[Key(s)], s, t)
<1>1. /\ st \in Stream /\ IsPrefix(st.buffer, s.conn) /\ st.needed = Needed[s.conn]
  BY ContinuedStream DEF Complete
<1>2. /\ streams' = Without(Key(s))
      /\ reported' = reported \union {[conn |-> s.conn, buffer |-> st.buffer,
                                       needed |-> st.needed]}
      /\ Len(st.buffer) >= st.needed
  BY DEF Complete, IsComplete
<1> HIDE DEF st
<1>3. /\ \A k \in DOMAIN streams' : k \in DOMAIN streams /\ streams'[k] = streams[k]
  BY <1>2 DEF Without, Only
<1>4. \A k \in DOMAIN streams' : Good(streams'[k], k)
  BY <1>3 DEF IInv
<1>5. OnlyTrueNames'
  BY <1>1, <1>2 DEF IInv, OnlyTrueNames, IsPrefix
<1>. QED
  BY <1>4, <1>5 DEF IInv

LEMMA DuplicateStep ==
  ASSUME IInv, NEW s \in Segments, NEW t \in Times, Duplicate(s, t)
  PROVE  IInv'
<1> DEFINE old == streams[Key(s)]
<1>1. Good(old, Key(s)) /\ streams' = With(Key(s), Touched(Key(s), t)) /\ UNCHANGED reported
  BY DEF Duplicate, Tracked, IInv
<1>2. Touched(Key(s), t) = [old EXCEPT !.lastSeen = t]
  BY DEF Touched
<1> DEFINE st == [old EXCEPT !.lastSeen = t]
<1> HIDE DEF old
<1>3. /\ st \in Stream /\ st.buffer = old.buffer /\ st.needed = old.needed
      /\ st.nextSeq = old.nextSeq
  BY <1>1 DEF Good, Stream
<1> HIDE DEF st
<1>4. Good(st, Key(s))
  BY <1>1, <1>3 DEF Good, Follows
<1>. QED
  BY <1>1, <1>2, <1>4, NewOrChanged DEF With, st

LEMMA DroppingStep ==
  ASSUME IInv, NEW s \in Segments, NEW t \in Times,
         Ignore(s, t) \/ Refuse(s, t) \/ GiveUp(s, t) \/ Overflow(s, t)
  PROVE  IInv'
<1>1. CASE Ignore(s, t)
  BY <1>1 DEF Ignore, IInv, OnlyTrueNames
<1>2. CASE Refuse(s, t)
  BY <1>2, RemainingSome, KeptStreams DEF Refuse
<1>3. CASE GiveUp(s, t) \/ Overflow(s, t)
  <2>1. streams' = Only(DOMAIN streams \ {Key(s)}) /\ UNCHANGED reported
    BY <1>3 DEF GiveUp, Overflow, Without
  <2>. QED
    BY <2>1, KeptStreams
<1>. QED
  BY <1>1, <1>2, <1>3

LEMMA StepIInv == IInv /\ [RNext]_rvars => IInv'
<1> SUFFICES ASSUME IInv, [RNext]_rvars PROVE IInv'
  OBVIOUS
<1>1. ASSUME NEW s \in Segments, NEW t \in Times, Feed(s, t)
      PROVE  IInv'
  BY <1>1, OpenStep, ContinueStep, CompleteStep, DuplicateStep, DroppingStep DEF Feed
<1>2. CASE ClearStreams
  <2>1. streams' = <<>> /\ reported' = reported
    BY <1>2 DEF ClearStreams
  <2>. QED
    BY <2>1 DEF IInv, OnlyTrueNames
<1>3. CASE UNCHANGED rvars
  BY <1>3 DEF rvars, IInv, OnlyTrueNames
<1>. QED
  BY <1>1, <1>2, <1>3 DEF RNext

LEMMA InductiveInvariant == RSpec => []IInv
  BY InitIInv, StepIInv, PTL DEF RSpec

---------------------------------------------------------------------------
(* Names are read only from the true bytes of the connection they are      *)
(* reported for, all of them and each at its own place.                    *)
THEOREM NamesAreTrue == RSpec => []OnlyTrueNames
<1>1. IInv => OnlyTrueNames
  BY DEF IInv
<1>. QED
  BY <1>1, InductiveInvariant, PTL

---------------------------------------------------------------------------
(* What the receiver has heard of a connection, and what its stream holds. *)
Hearing == [conn : Conns \union {"none"}, upto : Nat, last : Nat]

Received(k) ==
  /\ heard[k].conn \in Conns /\ Needed[heard[k].conn] <= MaxBuffered
  /\ Follows(streams[k], k, heard[k].conn)
  /\ Len(streams[k].buffer) = heard[k].upto
  /\ streams[k].lastSeen = heard[k].last

RecoveryInv ==
  /\ heard \in [Keys -> Hearing]
  /\ DOMAIN streams = Followed
  /\ \A k \in Followed : Received(k)
  /\ due \subseteq {r.conn : r \in reported}

LEMMA NothingHeard == Nothing \in Hearing /\ Nothing.upto = 0
  BY DEF Nothing, Hearing

(* The table finds room when the receiver does.                            *)
LEMMA SameRoom ==
  ASSUME RecoveryInv, NEW t \in Times
  PROVE  Remaining(t) = KeptInSight(t)
<1>1. \A k \in Followed : streams[k].lastSeen = heard[k].last /\ heard[k].last \in Nat
  <2>1. ASSUME NEW k \in Followed PROVE streams[k].lastSeen = heard[k].last
    BY DEF RecoveryInv, Received
  <2>2. ASSUME NEW k \in Followed PROVE heard[k].last \in Nat
    <3>1. heard[k] \in Hearing
      BY DEF RecoveryInv, Followed
    <3>. QED
      BY <3>1 DEF Hearing
  <2>. QED
    BY <2>1, <2>2
<1>2. DOMAIN streams = Followed
  BY DEF RecoveryInv
<1>3. CASE Cardinality(Followed) >= MaxStreams
  <2>1. Remaining(t) = {k \in Followed : ~Quiet(k, t)}
    BY <1>2, <1>3 DEF Remaining, Full, ExpireStale
  <2>. QED
    BY <1>1, <1>3, <2>1, LimitsAssumption DEF KeptInSight, Room, Quiet
<1>4. CASE ~(Cardinality(Followed) >= MaxStreams)
  BY <1>2, <1>4 DEF Remaining, Full, KeptInSight, Room
<1>. QED
  BY <1>3, <1>4

(* How feed() takes a segment of a connection that is followed.            *)
LEMMA KnownSegment ==
  ASSUME IInv, RecoveryInv, NEW s \in Segments, Key(s) \in Followed
  PROVE  LET st == streams[Key(s)]
             h == heard[Key(s)]
         IN
         /\ Tracked(s) /\ st \in Stream /\ Follows(st, Key(s), h.conn)
         /\ h.conn \in Conns /\ Needed[h.conn] <= MaxBuffered
         /\ Len(st.buffer) = h.upto
         /\ Continues(s, st) <=> h.conn = s.conn /\ s.pos = h.upto
         /\ Repeats(s, st) <=> h.conn = s.conn /\ s.pos + s.len = h.upto
<1> DEFINE st == streams[Key(s)]
<1> DEFINE c == heard[Key(s)].conn
<1>1. Received(Key(s)) /\ Key(s) \in DOMAIN streams
  BY DEF RecoveryInv
<1>2. /\ Tracked(s) /\ st \in Stream /\ Follows(st, Key(s), c)
      /\ c \in Conns /\ Needed[c] <= MaxBuffered /\ Len(st.buffer) = heard[Key(s)].upto
  BY <1>1 DEF Received, Tracked, IInv, Good
<1> DEFINE n == Len(st.buffer)
<1>3. /\ n \in Nat /\ n < SeqMod /\ st.nextSeq = (Isn[c] + n) % SeqMod
      /\ st.nextSeq \in Numbers(c) /\ KeyOf[c] = KeyOf[s.conn]
  BY <1>2 DEF Follows, Stream, Key
<1> HIDE DEF st, n, c
<1>4. Continues(s, st) \/ Repeats(s, st) => c = s.conn
  BY <1>2, <1>3, SegmentNumbers, DistinctNumbers DEF Continues, Repeats
<1>5. ASSUME c = s.conn
      PROVE  /\ Continues(s, st) <=> s.pos = n
             /\ Repeats(s, st) <=> s.pos + s.len = n
  <2>1. /\ Continues(s, st) <=> (Isn[s.conn] + s.pos) % SeqMod = (Isn[s.conn] + n) % SeqMod
        /\ Repeats(s, st) <=>
             (Isn[s.conn] + (s.pos + s.len)) % SeqMod = (Isn[s.conn] + n) % SeqMod
    BY <1>3, <1>5, SegmentNumbers DEF Continues, Repeats
  <2>2. /\ SeqMod \in Nat \ {0} /\ Isn[s.conn] \in Nat
        /\ s.pos \in 0 .. SeqMod - 1 /\ n \in 0 .. SeqMod - 1
        /\ s.pos + s.len \in 0 .. SeqMod - 1
    BY <1>3, SegmentNumbers
  <2>3. (Isn[s.conn] + s.pos) % SeqMod = (Isn[s.conn] + n) % SeqMod => s.pos = n
    BY ONLY <2>2, SameRemainder
  <2>4. (Isn[s.conn] + (s.pos + s.len)) % SeqMod = (Isn[s.conn] + n) % SeqMod
          => s.pos + s.len = n
    BY ONLY <2>2, SameRemainder
  <2>. QED
    BY <2>1, <2>3, <2>4
<1>6. Continues(s, st) <=> c = s.conn /\ s.pos = n
  BY <1>4, <1>5
<1>7. Repeats(s, st) <=> c = s.conn /\ s.pos + s.len = n
  BY <1>4, <1>5
<1>. QED
  BY <1>2, <1>6, <1>7 DEF st, n, c

(* What of the other streams a segment leaves.                             *)
LEMMA OtherStreams ==
  ASSUME NEW s \in Segments, NEW t \in Times, Feed(s, t), NEW k, k # Key(s)
  PROVE  /\ k \in DOMAIN streams' <=>
              /\ k \in DOMAIN streams
              /\ Key(s) \notin DOMAIN streams /\ OpensRecord(s) => k \in Remaining(t)
         /\ k \in DOMAIN streams' => streams'[k] = streams[k]
<1>1. CASE Ignore(s, t)
  BY <1>1 DEF Ignore
<1>2. CASE Refuse(s, t) \/ OpenStream(s, t)
  <2>1. k \in DOMAIN streams' <=> k \in Remaining(t)
    BY <1>2 DEF Refuse, OpenStream, Only
  <2>2. k \in DOMAIN streams' => streams'[k] = streams[k]
    BY <1>2 DEF Refuse, OpenStream, Only
  <2>. QED
    BY <1>2, <2>1, <2>2, RemainingSome DEF Refuse, OpenStream
<1>3. CASE Duplicate(s, t) \/ Continue(s, t)
  BY <1>3 DEF Duplicate, Continue, With, Tracked
<1>4. CASE GiveUp(s, t) \/ Overflow(s, t) \/ Complete(s, t)
  BY <1>4 DEF GiveUp, Overflow, Complete, Without, Only, Tracked
<1>. QED
  BY <1>1, <1>2, <1>3, <1>4 DEF Feed

---------------------------------------------------------------------------
(* The stream of the segment's own four-tuple, and what the receiver has   *)
(* of it.                                                                  *)
Agree(h, k) ==
  /\ h \in Hearing
  /\ k \in DOMAIN streams' <=> h.upto > 0
  /\ h.upto > 0 => /\ h.conn \in Conns /\ Needed[h.conn] <= MaxBuffered
                   /\ Follows(streams'[k], k, h.conn)
                   /\ Len(streams'[k].buffer) = h.upto
                   /\ streams'[k].lastSeen = h.last

LEMMA NothingAgrees ==
  ASSUME NEW k, k \notin DOMAIN streams'
  PROVE  Agree(Nothing, k)
  BY NothingHeard DEF Agree

(* A four-tuple that was not followed.                                     *)
LEMMA FirstHeard ==
  ASSUME IInv, RecoveryInv, NEW s \in Segments, NEW t \in Times,
         Feed(s, t), Key(s) \notin Followed
  PROVE  Agree(Hears(s, t), Key(s))
<1> DEFINE k == Key(s)
<1>1. /\ k \in Keys /\ s.conn \in Conns /\ s.pos \in Nat /\ s.len \in Nat \ {0}
      /\ Needed[s.conn] \in Nat /\ MaxBuffered \in Nat /\ t \in Nat /\ RecordHeader \in Nat
  BY SegmentNumbers, LimitsAssumption DEF Key, Keys
<1>2. heard[k].upto = 0
  BY <1>1 DEF Followed, RecoveryInv, Hearing
<1>3. k \notin DOMAIN streams
  BY DEF RecoveryInv
<1>4. BeginsHello(s) <=> OpensRecord(s)
  BY <1>1 DEF BeginsHello, OpensRecord
<1>5. Room(KeptInSight(t)) <=> ~Full(Remaining(t))
  BY SameRoom DEF Full, Room
<1>6. CASE OpenStream(s, t)
  <2>1. Hears(s, t) = [conn |-> s.conn, upto |-> s.pos + s.len, last |-> t]
    BY <1>2, <1>4, <1>5, <1>6 DEF Hears, Starts, OpenStream
  <2>2. /\ k \in DOMAIN streams' /\ streams'[k] = NewStream(s, t)
        /\ s.pos = 0 /\ Needed[s.conn] <= MaxBuffered
    BY <1>6 DEF OpenStream, OpensRecord
  <2>3. /\ Follows(NewStream(s, t), k, s.conn) /\ Len(NewStream(s, t).buffer) = s.len
        /\ NewStream(s, t).lastSeen = t
    BY <1>6, OpenedStream DEF NewStream
  <2>. QED
    BY <1>1, <2>1, <2>2, <2>3 DEF Agree, Hearing
<1>7. CASE ~OpenStream(s, t)
  <2>1. Ignore(s, t) \/ Refuse(s, t)
    BY <1>3, <1>7 DEF Feed, Duplicate, GiveUp, Overflow, Continue, Complete, Tracked
  <2>2. Hears(s, t) = Nothing
    BY <1>2, <1>4, <1>5, <2>1 DEF Hears, Starts, Ignore, Refuse
  <2>3. k \notin DOMAIN streams'
    <3>1. k \notin Remaining(t)
      BY <1>3, RemainingSome
    <3>. QED
      BY <1>3, <2>1, <3>1 DEF Ignore, Refuse, Only
  <2>. QED
    BY <2>2, <2>3, NothingAgrees
<1>. QED
  BY <1>6, <1>7

(* A four-tuple that is followed.                                          *)
LEMMA NextHeard ==
  ASSUME IInv, RecoveryInv, NEW s \in Segments, NEW t \in Times,
         Feed(s, t), Key(s) \in Followed
  PROVE  Agree(Hears(s, t), Key(s))
<1> DEFINE k == Key(s)
<1> DEFINE h == heard[k]
<1> DEFINE e == s.pos + s.len
<1> DEFINE old == streams[k]
<1>1. /\ k \in Keys /\ s.conn \in Conns /\ s.pos \in Nat /\ s.len \in Nat \ {0}
      /\ e \in Nat \ {0} /\ Needed[s.conn] \in Nat /\ MaxBuffered \in Nat /\ t \in Nat
  BY SegmentNumbers, LimitsAssumption DEF Key, Keys
<1>2. h \in Hearing /\ h.upto # 0 /\ h.upto \in Nat
  <2>1. h \in Hearing /\ h.upto > 0
    BY <1>1 DEF RecoveryInv, Followed
  <2>. QED
    BY <2>1 DEF Hearing
<1>3. /\ Tracked(s) /\ old \in Stream /\ Follows(old, k, h.conn)
      /\ h.conn \in Conns /\ Needed[h.conn] <= MaxBuffered
      /\ Len(old.buffer) = h.upto
      /\ Continues(s, old) <=> h.conn = s.conn /\ s.pos = h.upto
      /\ Repeats(s, old) <=> h.conn = s.conn /\ e = h.upto
  BY KnownSegment
<1>4. ~Ignore(s, t) /\ ~Refuse(s, t) /\ ~OpenStream(s, t)
  BY <1>3 DEF Tracked, Ignore, Refuse, OpenStream
<1>5. CASE Duplicate(s, t)
  <2>1. Hears(s, t) = [conn |-> s.conn, upto |-> e, last |-> t]
        /\ h.conn = s.conn /\ e = h.upto
    BY <1>2, <1>3, <1>5 DEF Hears, Duplicate
  <2>2. k \in DOMAIN streams' /\ streams'[k] = [old EXCEPT !.lastSeen = t]
    BY <1>3, <1>5 DEF Duplicate, With, Touched
  <2> DEFINE new == [old EXCEPT !.lastSeen = t]
  <2> HIDE DEF old
  <2>3. /\ new.buffer = old.buffer /\ new.needed = old.needed /\ new.nextSeq = old.nextSeq
        /\ new.lastSeen = t
    BY <1>3 DEF Stream
  <2> HIDE DEF new
  <2>4. Follows(new, k, s.conn) /\ Len(new.buffer) = e
    BY <1>3, <2>1, <2>3 DEF Follows
  <2>5. streams'[k] = new
    BY <2>2 DEF new
  <2> HIDE DEF e
  <2>. QED
    BY <1>1, <1>3, <2>1, <2>2, <2>3, <2>4, <2>5 DEF Agree, Hearing
<1>6. CASE Continue(s, t)
  <2> DEFINE st == Extended(old, s, t)
  <2>1. /\ st \in Stream /\ IsPrefix(st.buffer, s.conn) /\ KeyOf[s.conn] = k
        /\ st.needed = Needed[s.conn] /\ Len(st.buffer) = e /\ st.nextSeq = End32(s)
    BY <1>6, ContinuedStream DEF Continue
  <2>2. /\ k \in DOMAIN streams' /\ streams'[k] = st /\ ~IsComplete(st)
        /\ h.conn = s.conn /\ s.pos = h.upto
    BY <1>3, <1>6 DEF Continue, With
  <2>3. st.lastSeen = t
    <3> HIDE DEF old
    <3>. QED
      BY <1>3 DEF Extended, Stream
  <2> HIDE DEF st
  <2>4. e < Needed[s.conn]
    BY <1>1, <2>1, <2>2 DEF IsComplete
  <2>5. Hears(s, t) = [conn |-> s.conn, upto |-> e, last |-> t]
    BY <1>2, <2>2, <2>4 DEF Hears
  <2>6. Follows(st, k, s.conn)
    BY <2>1, SegmentNumbers DEF Follows
  <2> HIDE DEF e
  <2>. QED
    BY <1>1, <1>3, <2>1, <2>2, <2>3, <2>5, <2>6 DEF Agree, Hearing
<1>7. CASE GiveUp(s, t) \/ Overflow(s, t) \/ Complete(s, t)
  <2>1. k \notin DOMAIN streams'
    BY <1>7 DEF GiveUp, Overflow, Complete, Without, Only
  <2>2. Hears(s, t) = Nothing
    <3>1. CASE GiveUp(s, t)
      BY <1>2, <1>3, <3>1 DEF GiveUp, Hears
    <3>2. CASE Overflow(s, t)
      <4>1. h.conn = s.conn /\ s.pos = h.upto /\ ~(h.upto + s.len <= MaxBuffered)
        BY <1>3, <3>2 DEF Overflow, Fits
      <4>2. e # h.upto /\ ~(e < Needed[s.conn])
        BY <1>1, <1>3, <4>1
      <4>. QED
        BY <1>2, <4>1, <4>2 DEF Hears
    <3>3. CASE Complete(s, t)
      <4> DEFINE st == Extended(old, s, t)
      <4>1. /\ st.needed = Needed[s.conn] /\ Len(st.buffer) = e
        BY <3>3, ContinuedStream DEF Complete
      <4>2. h.conn = s.conn /\ s.pos = h.upto /\ IsComplete(st)
        BY <1>3, <3>3 DEF Complete
      <4> HIDE DEF st
      <4>3. e # h.upto /\ ~(e < Needed[s.conn])
        BY <1>1, <4>1, <4>2 DEF IsComplete
      <4>. QED
        BY <1>2, <4>2, <4>3 DEF Hears
    <3>. QED
      BY <1>7, <3>1, <3>2, <3>3
  <2>. QED
    BY <2>1, <2>2, NothingAgrees
<1>. QED
  BY <1>4, <1>5, <1>6, <1>7 DEF Feed

(* A record that was heard to the end is reported.                         *)
LEMMA DueIsReported ==
  ASSUME IInv, RecoveryInv, NEW s \in Segments, NEW t \in Times,
         Feed(s, t), Observe(s, t)
  PROVE  due' \subseteq {r.conn : r \in reported'}
<1> DEFINE k == Key(s)
<1> DEFINE e == s.pos + s.len
<1>1. reported \subseteq reported'
  BY DEF Feed, Ignore, Refuse, OpenStream, Duplicate, GiveUp, Overflow, Continue, Complete
<1>2. CASE due' = due
  BY <1>1, <1>2 DEF RecoveryInv
<1>3. CASE /\ k \in Followed /\ heard[k].conn = s.conn /\ s.pos = heard[k].upto
           /\ e \in Needed[s.conn] .. MaxBuffered
           /\ due' = due \union {s.conn}
  <2> DEFINE st == Extended(streams[k], s, t)
  <2>1. Tracked(s) /\ Continues(s, streams[k]) /\ Len(streams[k].buffer) = s.pos
    BY <1>3, KnownSegment
  <2>2. st.needed = Needed[s.conn] /\ Len(st.buffer) = e
    BY <2>1, ContinuedStream
  <2>3. Fits(s) /\ IsComplete(st)
    <3>1. /\ e \in Nat /\ s.pos \in Nat /\ s.len \in Nat
          /\ Needed[s.conn] \in Nat /\ MaxBuffered \in Nat
      BY SegmentNumbers, LimitsAssumption
    <3> HIDE DEF st
    <3>. QED
      BY <1>3, <2>1, <2>2, <3>1 DEF Fits, IsComplete
  <2>4. Complete(s, t)
    BY <2>1, <2>3 DEF Feed, Ignore, Refuse, OpenStream, Tracked, Duplicate, GiveUp,
                      Overflow, Continue
  <2> HIDE DEF st
  <2>5. reported' = reported \union {[conn |-> s.conn, buffer |-> st.buffer,
                                     needed |-> st.needed]}
    BY <2>4 DEF Complete, st
  <2>6. s.conn \in {r.conn : r \in reported'}
    <3> DEFINE r0 == [conn |-> s.conn, buffer |-> st.buffer, needed |-> st.needed]
    <3>1. r0 \in reported' /\ r0.conn = s.conn
      BY <2>5
    <3> HIDE DEF r0
    <3>. QED
      BY <3>1
  <2>. QED
    BY <1>1, <1>3, <2>6 DEF RecoveryInv
<1>. QED
  BY <1>2, <1>3 DEF Observe

(* Another four-tuple.                                                     *)
LEMMA OthersHeard ==
  ASSUME RecoveryInv, NEW s \in Segments, NEW t \in Times, Feed(s, t), Observe(s, t),
         NEW k \in Keys, k # Key(s)
  PROVE  Agree(heard'[k], k)
<1>1. Starts(s) <=> Key(s) \notin DOMAIN streams /\ OpensRecord(s)
  <2>1. s.len \in Nat /\ Needed[s.conn] \in Nat /\ RecordHeader \in Nat
    BY SegmentNumbers, LimitsAssumption
  <2>. QED
    BY <2>1 DEF Starts, BeginsHello, OpensRecord, RecoveryInv
<1>2. heard'[k] = IF Starts(s) /\ k \notin KeptInSight(t) THEN Nothing ELSE heard[k]
  BY DEF Observe
<1>3. heard[k] \in Hearing
  BY DEF RecoveryInv
<1>4. CASE Starts(s) /\ k \notin KeptInSight(t)
  <2>1. k \notin DOMAIN streams'
    BY <1>1, <1>4, SameRoom, OtherStreams
  <2>. QED
    BY <1>2, <1>4, <2>1, NothingAgrees
<1>5. CASE ~(Starts(s) /\ k \notin KeptInSight(t))
  <2>1. heard'[k] = heard[k]
    BY <1>2, <1>5
  <2>2. k \in DOMAIN streams' <=> k \in Followed
    BY <1>1, <1>5, SameRoom, OtherStreams DEF RecoveryInv
  <2>3. k \in Followed => Received(k) /\ streams'[k] = streams[k]
    BY <2>2, OtherStreams DEF RecoveryInv
  <2>. QED
    BY <1>3, <2>1, <2>2, <2>3 DEF Agree, Received, Followed
<1>. QED
  BY <1>4, <1>5

(* A step keeps what was received of every connection followed.            *)
LEMMA FeedRecovers ==
  ASSUME IInv, RecoveryInv, NEW s \in Segments, NEW t \in Times,
         Feed(s, t), Observe(s, t)
  PROVE  RecoveryInv'
<1>1. Key(s) \in Keys /\ heard' = [k \in Keys |-> heard'[k]] /\ heard'[Key(s)] = Hears(s, t)
  BY SegmentNumbers DEF Key, Keys, Observe
<1>2. \A k \in Keys : Agree(heard'[k], k)
  BY <1>1, FirstHeard, NextHeard, OthersHeard
<1>3. DOMAIN streams' \subseteq Keys
  <2>1. \A k \in DOMAIN streams' : k # Key(s) => k \in DOMAIN streams
    BY OtherStreams
  <2>. QED
    BY <1>1, <2>1 DEF RecoveryInv, Followed
<1>4. heard' \in [Keys -> Hearing]
  BY <1>1, <1>2 DEF Agree
<1>5. DOMAIN streams' = Followed'
  BY <1>2, <1>3 DEF Agree, Followed
<1>6. \A k \in Followed' : Received(k)'
  BY <1>2 DEF Agree, Followed, Received, Follows
<1>. QED
  BY <1>4, <1>5, <1>6, DueIsReported DEF RecoveryInv

LEMMA InitRecovery == RInit => RecoveryInv
<1> SUFFICES ASSUME RInit PROVE RecoveryInv
  OBVIOUS
<1>1. heard \in [Keys -> Hearing] /\ Followed = {} /\ DOMAIN streams = {}
  BY NothingHeard DEF RInit, Followed
<1>. QED
  BY <1>1 DEF RInit, RecoveryInv

LEMMA StepRecovery == IInv /\ RecoveryInv /\ [RNext]_rvars => RecoveryInv'
<1> SUFFICES ASSUME IInv, RecoveryInv, [RNext]_rvars PROVE RecoveryInv'
  OBVIOUS
<1>1. ASSUME NEW s \in Segments, NEW t \in Times, Feed(s, t), Observe(s, t)
      PROVE  RecoveryInv'
  BY <1>1, FeedRecovers
<1>2. CASE ClearStreams
  <2>1. heard' \in [Keys -> Hearing] /\ Followed' = {} /\ DOMAIN streams' = {}
    BY <1>2, NothingHeard DEF ClearStreams, Followed
  <2>. QED
    BY <1>2, <2>1 DEF ClearStreams, RecoveryInv
<1>3. CASE UNCHANGED rvars
  BY <1>3 DEF rvars, RecoveryInv, Received, Follows, Followed
<1>. QED
  BY <1>1, <1>2, <1>3 DEF RNext

LEMMA RecoveryHolds == RSpec => []RecoveryInv
  BY InitRecovery, StepRecovery, InductiveInvariant, PTL DEF RSpec

(* A ClientHello that came in order, its first segment with the record's   *)
(* header, is held to the byte and reported at its end while the table has *)
(* room, whatever happens on other connections of the four-tuple before    *)
(* and on other four-tuples meanwhile.                                     *)
THEOREM InOrderRecovered == RSpec => []InOrderIsRecovered
<1>1. RecoveryInv => InOrderIsRecovered
  BY DEF RecoveryInv, Received, InOrderIsRecovered
<1>. QED
  BY <1>1, RecoveryHolds, PTL

---------------------------------------------------------------------------
(* A stream leaves the table for a segment of its own, or expires.         *)
LEMMA StepLeaves == [RNext]_rvars => [Leaves]_rvars
<1> SUFFICES ASSUME RNext PROVE Leaves
  BY DEF Leaves, rvars
<1>1. ASSUME NEW s \in Segments, NEW t \in Times, Feed(s, t), Observe(s, t),
             NEW k \in DOMAIN streams \ DOMAIN streams', k # Key(s)
      PROVE  Quiet(k, t) /\ Cardinality(DOMAIN streams) >= MaxStreams
  <2>1. k \notin Remaining(t)
    BY <1>1 DEF Feed, Ignore, Refuse, OpenStream, Duplicate, GiveUp, Overflow, Continue,
                Complete, With, Without, Only
  <2>. QED
    BY <1>1, <2>1 DEF Remaining, ExpireStale, Full
<1>2. ASSUME NEW s \in Segments, NEW t \in Times, Feed(s, t), Observe(s, t)
      PROVE  Leaves
  <2>1. fed'.seg = s /\ fed'.time = t
    BY <1>2 DEF Observe
  <2>. QED
    BY <1>1, <1>2, <2>1 DEF Leaves
<1>3. CASE ClearStreams
  BY <1>3 DEF ClearStreams, Leaves
<1>. QED
  BY <1>2, <1>3 DEF RNext

(* A stream in progress is given up only for cause.                        *)
THEOREM LeavesOnlyForCause == RSpec => LeavesForCause
<1>1. RSpec => [][RNext]_rvars
  BY DEF RSpec
<1>. QED
  BY <1>1, StepLeaves, PTL DEF LeavesForCause

---------------------------------------------------------------------------
(* The limits: of one stream, and of the table.                            *)
WithinLimits(st) ==
  /\ st.nextSeq \in 0 .. SeqMod - 1 /\ st.lastSeen \in Times
  /\ Len(st.buffer) < st.needed /\ st.needed <= MaxBuffered

LimitsInv ==
  /\ DOMAIN streams \subseteq Keys
  /\ IsFiniteSet(DOMAIN streams) /\ Cardinality(DOMAIN streams) <= MaxStreams
  /\ \A k \in DOMAIN streams : WithinLimits(streams[k])

LEMMA InitLimits == RInit => LimitsInv
<1> SUFFICES ASSUME RInit PROVE LimitsInv
  OBVIOUS
<1>1. DOMAIN streams = {}
  BY DEF RInit
<1>. QED
  BY <1>1, FS_EmptySet, LimitsAssumption DEF LimitsInv

(* A table that only lost streams.                                         *)
LEMMA FewerStreams ==
  ASSUME LimitsInv, NEW K \in SUBSET DOMAIN streams, streams' = Only(K)
  PROVE  LimitsInv'
<1>1. DOMAIN streams' = K /\ \A k \in K : streams'[k] = streams[k]
  BY DEF Only
<1>2. IsFiniteSet(DOMAIN streams) /\ Cardinality(DOMAIN streams) \in Nat
      /\ Cardinality(DOMAIN streams) <= MaxStreams
  BY FS_CardinalityType DEF LimitsInv
<1>3. IsFiniteSet(K) /\ Cardinality(K) \in Nat /\ Cardinality(K) <= Cardinality(DOMAIN streams)
  BY <1>2, FS_Subset, FS_CardinalityType
<1>. QED
  BY <1>1, <1>2, <1>3, LimitsAssumption DEF LimitsInv, WithinLimits

(* A table in which the stream of a segment is replaced.                   *)
LEMMA ReplacedStream ==
  ASSUME LimitsInv, NEW k \in DOMAIN streams, NEW st, WithinLimits(st),
         streams' = With(k, st)
  PROVE  LimitsInv'
<1>1. DOMAIN streams' = DOMAIN streams
      /\ \A x \in DOMAIN streams : streams'[x] = IF x = k THEN st ELSE streams[x]
  BY DEF With
<1>. QED
  BY <1>1 DEF LimitsInv, WithinLimits

LEMMA OpenedLimits ==
  ASSUME LimitsInv, NEW s \in Segments, NEW t \in Times, OpenStream(s, t)
  PROVE  LimitsInv'
<1> DEFINE k0 == Key(s)
<1> DEFINE K == Remaining(t)
<1> DEFINE st == NewStream(s, t)
<1>1. k0 \in Keys
  BY SegmentNumbers DEF Key, Keys
<1>2. WithinLimits(st)
  <2>1. /\ st.nextSeq = End32(s) /\ st.lastSeen = t /\ st.needed = Needed[s.conn]
        /\ Len(st.buffer) = s.len
    BY SegmentBytes DEF NewStream
  <2>2. End32(s) \in 0 .. SeqMod - 1
    <3>1. Isn[s.conn] + (s.pos + s.len) \in Nat /\ SeqMod \in Nat \ {0}
          /\ End32(s) = (Isn[s.conn] + (s.pos + s.len)) % SeqMod
      BY SegmentNumbers
    <3>. QED
      BY <3>1, DivMod
  <2>3. s.len < Needed[s.conn] /\ Needed[s.conn] <= MaxBuffered
    BY SegmentNumbers DEF OpenStream, OpensRecord
  <2> HIDE DEF st
  <2>. QED
    BY <2>1, <2>2, <2>3 DEF WithinLimits
<1>3. /\ streams' = [k \in K \union {k0} |-> IF k = k0 THEN st ELSE streams[k]]
      /\ ~(Cardinality(K) >= MaxStreams) /\ K \in SUBSET DOMAIN streams
  BY RemainingSome DEF OpenStream, Full
<1> HIDE DEF K, st, k0
<1>4. DOMAIN streams' = K \union {k0} /\ \A k \in DOMAIN streams' : WithinLimits(streams'[k])
  BY <1>2, <1>3 DEF LimitsInv
<1>5. /\ IsFiniteSet(K \union {k0})
      /\ Cardinality(K \union {k0}) <= MaxStreams
  <2>1. IsFiniteSet(DOMAIN streams)
    BY DEF LimitsInv
  <2>2. IsFiniteSet(K) /\ Cardinality(K) \in Nat
    BY <1>3, <2>1, FS_Subset, FS_CardinalityType
  <2>3. /\ IsFiniteSet(K \union {k0})
        /\ Cardinality(K \union {k0}) = IF k0 \in K THEN Cardinality(K) ELSE Cardinality(K) + 1
    BY <2>2, FS_AddElement
  <2>. QED
    BY <1>3, <2>2, <2>3, LimitsAssumption
<1>. QED
  BY <1>1, <1>3, <1>4, <1>5 DEF LimitsInv, WithinLimits

LEMMA FeedLimits ==
  ASSUME IInv, LimitsInv, NEW s \in Segments, NEW t \in Times, Feed(s, t)
  PROVE  LimitsInv'
<1>1. CASE Ignore(s, t)
  BY <1>1 DEF Ignore, LimitsInv, WithinLimits
<1>2. CASE Refuse(s, t)
  BY <1>2, RemainingSome, FewerStreams DEF Refuse
<1>3. CASE OpenStream(s, t)
  BY <1>3, OpenedLimits
<1>4. CASE Duplicate(s, t)
  <2> DEFINE old == streams[Key(s)]
  <2>1. Key(s) \in DOMAIN streams /\ streams' = With(Key(s), Touched(Key(s), t))
        /\ old \in Stream /\ WithinLimits(old)
    BY <1>4 DEF Duplicate, Tracked, IInv, Good, LimitsInv
  <2>2. Touched(Key(s), t) = [old EXCEPT !.lastSeen = t]
    BY DEF Touched
  <2> HIDE DEF old
  <2>3. WithinLimits([old EXCEPT !.lastSeen = t])
    BY <2>1 DEF WithinLimits, Stream
  <2>. QED
    BY <2>1, <2>2, <2>3, ReplacedStream
<1>5. CASE GiveUp(s, t) \/ Overflow(s, t) \/ Complete(s, t)
  <2>1. streams' = Only(DOMAIN streams \ {Key(s)})
    BY <1>5 DEF GiveUp, Overflow, Complete, Without
  <2>. QED
    BY <2>1, FewerStreams
<1>6. CASE Continue(s, t)
  <2> DEFINE st == Extended(streams[Key(s)], s, t)
  <2>1. /\ Tracked(s) /\ Continues(s, streams[Key(s)]) /\ Key(s) \in DOMAIN streams
        /\ ~IsComplete(st) /\ streams' = With(Key(s), st)
    BY <1>6 DEF Continue, Tracked
  <2>2. st \in Stream /\ st.nextSeq = End32(s) /\ st.needed = Needed[s.conn]
    BY <2>1, ContinuedStream
  <2>3. streams[Key(s)] \in Stream /\ WithinLimits(streams[Key(s)])
    BY <2>1 DEF IInv, Good, LimitsInv
  <2>4. st.needed = streams[Key(s)].needed /\ st.lastSeen = t
    <3> DEFINE old == streams[Key(s)]
    <3>1. old \in Stream
      BY <2>3
    <3> HIDE DEF old
    <3>2. Extended(old, s, t).needed = old.needed /\ Extended(old, s, t).lastSeen = t
      BY <3>1 DEF Extended, Stream
    <3>. QED
      BY <3>2 DEF old
  <2>5. End32(s) \in 0 .. SeqMod - 1
    <3>1. Isn[s.conn] + (s.pos + s.len) \in Nat /\ SeqMod \in Nat \ {0}
          /\ End32(s) = (Isn[s.conn] + (s.pos + s.len)) % SeqMod
      BY SegmentNumbers
    <3>. QED
      BY <3>1, DivMod
  <2> HIDE DEF st
  <2>6. Len(st.buffer) < st.needed
    <3>1. Len(st.buffer) \in Nat /\ st.needed \in Nat
      BY <2>2 DEF Stream
    <3>. QED
      BY <2>1, <3>1 DEF IsComplete
  <2>7. WithinLimits(st)
    BY <2>2, <2>3, <2>4, <2>5, <2>6 DEF WithinLimits
  <2>. QED
    BY <2>1, <2>7, ReplacedStream
<1>. QED
  BY <1>1, <1>2, <1>3, <1>4, <1>5, <1>6 DEF Feed

LEMMA StepLimits == IInv /\ LimitsInv /\ [RNext]_rvars => LimitsInv'
<1> SUFFICES ASSUME IInv, LimitsInv, [RNext]_rvars PROVE LimitsInv'
  OBVIOUS
<1>1. ASSUME NEW s \in Segments, NEW t \in Times, Feed(s, t) PROVE LimitsInv'
  BY <1>1, FeedLimits
<1>2. CASE ClearStreams
  <2>1. DOMAIN streams' = {}
    BY <1>2 DEF ClearStreams
  <2>. QED
    BY <2>1, FS_EmptySet, LimitsAssumption DEF LimitsInv
<1>3. CASE UNCHANGED rvars
  BY <1>3 DEF rvars, LimitsInv, WithinLimits
<1>. QED
  BY <1>1, <1>2, <1>3 DEF RNext

(* At most MaxStreams buffers, of at most MaxBuffered bytes, none of them  *)
(* complete.                                                               *)
THEOREM TypesAndLimits == RSpec => []RTypeOK
<1>1. LimitsInv => RTypeOK
  BY DEF LimitsInv, WithinLimits, RTypeOK
<1>. QED
  BY <1>1, InitLimits, StepLimits, InductiveInvariant, PTL DEF RSpec
============================================================================
