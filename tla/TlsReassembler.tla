--------------------------- MODULE TlsReassembler ---------------------------
(***************************************************************************)
(* core::TlsReassembler (src/core/TlsReassembler.cpp): ClientHello records *)
(* that span several TCP segments.  One action per way feed() ends.        *)
(*                                                                         *)
(* A connection's first bytes are one handshake record of Needed[c] bytes; *)
(* a byte is the pair of its connection and its position.  A segment is    *)
(* any stretch of them, its 32-bit sequence number the position counted    *)
(* from the connection's initial number, modulo SeqMod.  The network may   *)
(* lose, repeat, re-cut and reorder segments: feed() takes any, always.    *)
(* A record that ends within its first segment never enters the table: the *)
(* parser has already read it.  Only a record's first bytes look like one. *)
(***************************************************************************)
EXTENDS Integers, Sequences, FiniteSets

CONSTANTS
  Conns,        (* TCP connections (the client's direction)                *)
  KeyOf,        (* their four-tuples, which later connections may reuse    *)
  Isn,          (* sequence number of a connection's first byte            *)
  Needed,       (* bytes of its first record                               *)
  Segments,     (* [conn, pos, len]                                        *)
  Times,        (* capture timestamps                                      *)
  RecordHeader, (* 5, the bytes that looksLikeTlsHandshake() wants         *)
  SeqMod,       (* 2^32                                                    *)
  MaxBuffered,  (* kMaxBufferedBytes                                       *)
  MaxStreams,   (* kMaxTrackedStreams                                      *)
  Timeout       (* kStreamTimeoutMicroseconds                              *)

Keys == {KeyOf[c] : c \in Conns}

(* Two connections of one four-tuple use disjoint sequence numbers.        *)
Numbers(c) == UNION {{(Isn[c] + s.pos + i) % SeqMod : i \in 0 .. s.len} :
                       s \in {x \in Segments : x.conn = c}}

(* Only what a connection sends before its sequence numbers come round.    *)
ASSUME SegmentsAssumption ==
  \A s \in Segments : /\ s.conn \in Conns /\ s.pos \in Nat /\ s.len \in Nat \ {0}
                      /\ s.pos + s.len < SeqMod
ASSUME RecordsAssumption == \A c \in Conns : Isn[c] \in Nat /\ Needed[c] \in Nat \ {0}
ASSUME LimitsAssumption ==
  /\ SeqMod \in Nat \ {0} /\ MaxBuffered \in Nat /\ MaxStreams \in Nat
  /\ RecordHeader \in Nat /\ Timeout \in Nat /\ Times \subseteq Nat
ASSUME DistinctNumbers ==
  \A c, d \in Conns : c # d /\ KeyOf[c] = KeyOf[d] => Numbers(c) \cap Numbers(d) = {}

VARIABLES
  streams,   (* m_streams: four-tuple to [buffer, nextSeq, needed, lastSeen] *)
  fed,       (* history: the last segment fed and its time since clear()   *)
  reported,  (* history: the buffers a name was read from, with the        *)
             (* connection it was reported for                             *)
  heard,     (* history: of each four-tuple, the connection a receiver     *)
             (* follows, the bytes it has, and the time of the latest      *)
  due        (* history: connections whose record was heard to the end     *)

rvars == <<streams, fed, reported, heard, due>>

Bytes(s) == [i \in 1 .. s.len |-> [conn |-> s.conn, pos |-> s.pos + i - 1]]
Seq32(s) == (Isn[s.conn] + s.pos) % SeqMod
End32(s) == (Seq32(s) + s.len) % SeqMod
Key(s)   == KeyOf[s.conn]

Nothing == [conn |-> "none", upto |-> 0, last |-> 0]

RInit ==
  /\ streams = <<>> /\ fed = <<>> /\ reported = {}
  /\ heard = [k \in Keys |-> Nothing] /\ due = {}

---------------------------------------------------------------------------
Quiet(k, t) == t - streams[k].lastSeen > Timeout

(* Mutant: every stream is thrown out.                                     *)
ExpireStale_All(t) == {}

(* expireStale(): the streams that stay.                                   *)
ExpireStale(t) == {k \in DOMAIN streams : ~Quiet(k, t)}

Only(K)      == [k \in K |-> streams[k]]
Without(k)   == Only(DOMAIN streams \ {k})
With(k, st)  == [x \in DOMAIN streams \union {k} |-> IF x = k THEN st ELSE streams[x]]
Touched(k, t) == [streams[k] EXCEPT !.lastSeen = t]

(* looksLikeTlsHandshake(), on a record that is not all here and is not    *)
(* too long to be buffered.                                                *)
OpensRecord(s) ==
  /\ s.pos = 0
  /\ s.len >= RecordHeader
  /\ Needed[s.conn] > s.len
  /\ Needed[s.conn] <= MaxBuffered

Ignore(s, t) ==
  /\ Key(s) \notin DOMAIN streams
  /\ ~OpensRecord(s)
  /\ UNCHANGED <<streams, reported>>

Full(K) == Cardinality(K) >= MaxStreams

(* The streams an opening segment finds, after a full table was expired.   *)
Remaining(t) == IF Full(DOMAIN streams) THEN ExpireStale(t) ELSE DOMAIN streams

Refuse(s, t) ==
  /\ Key(s) \notin DOMAIN streams
  /\ OpensRecord(s)
  /\ Full(Remaining(t))
  /\ streams' = Only(Remaining(t))
  /\ UNCHANGED reported

NewStream(s, t) == [buffer |-> Bytes(s), nextSeq |-> End32(s),
                    needed |-> Needed[s.conn], lastSeen |-> t]

OpenStream(s, t) ==
  /\ Key(s) \notin DOMAIN streams
  /\ OpensRecord(s)
  /\ ~Full(Remaining(t))
  /\ streams' = [k \in Remaining(t) \union {Key(s)} |->
                   IF k = Key(s) THEN NewStream(s, t) ELSE streams[k]]
  /\ UNCHANGED reported

(* Mutant: any segment is taken for the next one.                          *)
Continues_Always(s, st) == TRUE

Continues(s, st) == Seq32(s) = st.nextSeq
Repeats(s, st)   == End32(s) = st.nextSeq

Tracked(s) == Key(s) \in DOMAIN streams

Duplicate(s, t) ==
  /\ Tracked(s) /\ ~Continues(s, streams[Key(s)]) /\ Repeats(s, streams[Key(s)])
  /\ streams' = With(Key(s), Touched(Key(s), t))
  /\ UNCHANGED reported

GiveUp(s, t) ==
  /\ Tracked(s) /\ ~Continues(s, streams[Key(s)]) /\ ~Repeats(s, streams[Key(s)])
  /\ streams' = Without(Key(s))
  /\ UNCHANGED reported

Fits(s) == Len(streams[Key(s)].buffer) + s.len <= MaxBuffered

Overflow(s, t) ==
  /\ Tracked(s) /\ Continues(s, streams[Key(s)]) /\ ~Fits(s)
  /\ streams' = Without(Key(s))
  /\ UNCHANGED reported

(* Mutant: nextSeq stays behind.                                           *)
Extended_StaleSeq(st, s, t) ==
  [st EXCEPT !.buffer = @ \o Bytes(s), !.lastSeen = t]

Extended(st, s, t) ==
  [st EXCEPT !.buffer = @ \o Bytes(s), !.nextSeq = (@ + s.len) % SeqMod, !.lastSeen = t]

IsComplete(st) == Len(st.buffer) >= st.needed

Continue(s, t) ==
  LET st == Extended(streams[Key(s)], s, t) IN
  /\ Tracked(s) /\ Continues(s, streams[Key(s)]) /\ Fits(s)
  /\ ~IsComplete(st)
  /\ streams' = With(Key(s), st)
  /\ UNCHANGED reported

(* The whole record is parsed; its stream is forgotten.                    *)
Complete(s, t) ==
  LET st == Extended(streams[Key(s)], s, t) IN
  /\ Tracked(s) /\ Continues(s, streams[Key(s)]) /\ Fits(s)
  /\ IsComplete(st)
  /\ streams' = Without(Key(s))
  /\ reported' = reported \union {[conn |-> s.conn, buffer |-> st.buffer,
                                   needed |-> st.needed]}

Feed(s, t) ==
  \/ Ignore(s, t) \/ Refuse(s, t) \/ OpenStream(s, t) \/ Duplicate(s, t)
  \/ GiveUp(s, t) \/ Overflow(s, t) \/ Continue(s, t) \/ Complete(s, t)

---------------------------------------------------------------------------
(* A receiver told apart from the code: it follows the connections whose   *)
(* ClientHello begins with a segment that holds the record's header and    *)
(* not all of the record, as many as the table has room for once those     *)
(* quiet for longer than the timeout are forgotten, and holds the bytes    *)
(* that came in order.  It loses sight of a connection when something is   *)
(* missing or re-cut, or another connection uses the four-tuple.           *)
Followed == {k \in Keys : heard[k].upto > 0}

BeginsHello(s) ==
  s.pos = 0 /\ s.len \in RecordHeader .. Needed[s.conn] - 1 /\ Needed[s.conn] <= MaxBuffered

Room(K) == ~(Cardinality(K) >= MaxStreams)

KeptInSight(t) == {k \in Followed : Room(Followed) \/ t - heard[k].last <= Timeout}

Starts(s) == Key(s) \notin Followed /\ BeginsHello(s)

Hears(s, t) ==
  LET h == heard[Key(s)]
      upto == s.pos + s.len
  IN  IF h.upto = 0
      THEN IF Starts(s) /\ Room(KeptInSight(t))
           THEN [conn |-> s.conn, upto |-> upto, last |-> t] ELSE Nothing
      ELSE IF h.conn = s.conn /\ (upto = h.upto \/ (s.pos = h.upto /\ upto < Needed[s.conn]))
           THEN [conn |-> s.conn, upto |-> upto, last |-> t] ELSE Nothing

Observe(s, t) ==
  /\ fed' = [seg |-> s, time |-> t]
  /\ heard' = [k \in Keys |->
                 IF k = Key(s) THEN Hears(s, t)
                 ELSE IF Starts(s) /\ k \notin KeptInSight(t) THEN Nothing ELSE heard[k]]
  /\ due' = IF /\ Key(s) \in Followed /\ heard[Key(s)].conn = s.conn
               /\ s.pos = heard[Key(s)].upto
               /\ s.pos + s.len \in Needed[s.conn] .. MaxBuffered
            THEN due \union {s.conn} ELSE due

ClearStreams ==
  /\ streams' = <<>> /\ heard' = [k \in Keys |-> Nothing]
  /\ fed' = <<>> /\ UNCHANGED <<reported, due>>

RNext ==
  \/ \E s \in Segments, t \in Times : Feed(s, t) /\ Observe(s, t)
  \/ ClearStreams

RSpec == RInit /\ [][RNext]_rvars

---------------------------------------------------------------------------
(* Types and the memory bound: at most MaxStreams buffers, none longer     *)
(* than MaxBuffered, none already complete.                                *)
RTypeOK ==
  /\ DOMAIN streams \subseteq Keys
  /\ Cardinality(DOMAIN streams) <= MaxStreams
  /\ \A k \in DOMAIN streams :
       LET st == streams[k] IN
       /\ st.nextSeq \in 0 .. SeqMod - 1 /\ st.lastSeen \in Times
       /\ Len(st.buffer) < st.needed /\ st.needed <= MaxBuffered

(* A name is only ever read from the true bytes of a ClientHello, all of   *)
(* them and each at its own place, and reported for the connection that    *)
(* sent it: nothing is spliced, whatever was lost, repeated, reordered, or *)
(* left over from an earlier connection of the same four-tuple.            *)
OnlyTrueNames ==
  \A r \in reported :
    /\ Len(r.buffer) >= Needed[r.conn]
    /\ \A i \in 1 .. Len(r.buffer) : r.buffer[i] = [conn |-> r.conn, pos |-> i - 1]

(* A ClientHello whose segments came in order, the latest one possibly     *)
(* more than once, loses no byte on the way and is reported, provided that *)
(* the first segment holds the record's header, that the record and what   *)
(* came with its end fit the buffer, that no other connection's bytes came *)
(* on the four-tuple and that the table has room: whether it does the      *)
(* receiver says, never the table.  Nothing else is buffered.              *)
InOrderIsRecovered ==
  /\ DOMAIN streams = Followed
  /\ \A k \in Followed : Len(streams[k].buffer) = heard[k].upto
  /\ due \subseteq {r.conn : r \in reported}

Leaves ==
  \A k \in DOMAIN streams \ DOMAIN streams' :
    \/ fed' = <<>>                              (* clear()                 *)
    \/ Key(fed'.seg) = k
    \/ Quiet(k, fed'.time) /\ Cardinality(DOMAIN streams) >= MaxStreams

(* A stream in progress is given up only for a segment of its own, or      *)
(* because a full table found it quiet for longer than the timeout.        *)
LeavesForCause == [][Leaves]_rvars

(* "Stop tracking a stream that has gone quiet, so a long capture does not *)
(* accumulate half-finished handshakes forever" (TlsReassembler.hpp).      *)
QuietStreamsStop ==
  fed # <<>> => \A k \in DOMAIN streams : ~Quiet(k, fed.time)

HoldsAlready(s, st) ==
  \A i \in 1 .. s.len : \E j \in 1 .. Len(st.buffer) : st.buffer[j] = Bytes(s)[i]

(* "A retransmit of the segment we already hold is harmless to ignore"     *)
(* (TlsReassembler::feed): a stream goes on when bytes it already holds    *)
(* are sent again.                                                         *)
RetransmitsAreHarmless ==
  [][\A k \in DOMAIN streams :
       fed' # <<>> /\ Key(fed'.seg) = k /\ HoldsAlready(fed'.seg, streams[k])
         => k \in DOMAIN streams']_rvars
=============================================================================
