---------------------------- MODULE QuicTracker ----------------------------
(***************************************************************************)
(* The name a QUIC client asks for, in its Initial packets:                *)
(* core::QuicParser::extractInitialSni (src/core/QuicParser.cpp), which    *)
(* the protocol parser tries on every packet by itself, and                *)
(* core::QuicTracker (src/core/QuicTracker.cpp), which AnalysisSession     *)
(* feeds when that found nothing.                                          *)
(*                                                                         *)
(* A connection c sends one ClientHello of Needed[c] units: unit 0 is all  *)
(* up to the server name, the units of NameAt[c] are the name, the others  *)
(* follow it; a hello without a name has none.  A packet, once decrypted   *)
(* (mbedTLS does that), is its connection, told by the connection ID, and  *)
(* its CRYPTO fragments.  Packets come in any order, any number of times.  *)
(***************************************************************************)
EXTENDS Integers, FiniteSets

CONSTANTS
  Conns,           (* destination connection IDs                           *)
  Needed,          (* units of a connection's ClientHello                  *)
  NameAt,          (* which of them are the server name                    *)
  Packets,         (* [conn, crypto]: fragments [offset, len]              *)
  Times,           (* capture timestamps                                   *)
  MaxStream,       (* kMaxStreamBytes, in units                            *)
  MaxConnections,  (* kMaxTrackedConnections                               *)
  Timeout          (* kConnectionTimeoutMicroseconds                       *)

Fragment == [offset : Nat, len : Nat]

ASSUME HellosAssumption == \A c \in Conns :
  Needed[c] \in Nat \ {0} /\ NameAt[c] \subseteq 1 .. Needed[c] - 1
ASSUME PacketsAssumption == \A p \in Packets :
  /\ p.conn \in Conns /\ p.crypto \in SUBSET Fragment
  /\ \A f \in p.crypto : f.offset + f.len <= Needed[p.conn]
ASSUME LimitsAssumption ==
  /\ MaxStream \in Nat /\ MaxConnections \in Nat /\ Timeout \in Nat
  /\ Times \subseteq Nat

VARIABLES
  tracked,  (* m_connections: [stream, present, lastSeen]; a stream is a   *)
            (* function from offsets to what was written there             *)
  fed,      (* history: the last packet and its time since clear()         *)
  named,    (* history: names read, [conn, by, name]                       *)
  arrived   (* history: units of a connection that arrived since its entry *)
            (* was made                                                    *)

qvars == <<tracked, fed, named, arrived>>

(* What is at an offset: a byte of the hello, or the filling of a hole.    *)
Sent == "sent"
Zero == "zero"

(* What the fragments of p hold, and how far they reach: all that is below *)
(* the end of one of them.                                                 *)
Units(p)    == UNION {f.offset .. f.offset + f.len - 1 : f \in p.crypto}
End(p)      == Cardinality(UNION {0 .. f.offset + f.len - 1 : f \in p.crypto})
Size(strm)  == Cardinality(DOMAIN strm)

(* sniFromClientHello(): the name, if the size reaches the end of the      *)
(* message; it reads whatever is at the name's place.                      *)
NoSni == {}
SniFromClientHello(c, strm, size) ==
  IF size = 0 \/ strm[0] = Zero \/ Needed[c] > size THEN NoSni
  ELSE {<<u, strm[u]>> : u \in NameAt[c]}

TrueName(c) == {<<u, Sent>> : u \in NameAt[c]}

(* A buffer of zeros the fragments of p are copied into.                   *)
Written(p, strm, size) ==
  [u \in 0 .. size - 1 |->
     IF u \in Units(p) THEN Sent ELSE IF u \in DOMAIN strm THEN strm[u] ELSE Zero]

(* extractInitialSni()                                                     *)
ExtractInitialSni(p) ==
  IF p.crypto = {} \/ End(p) = 0 THEN NoSni
  ELSE SniFromClientHello(p.conn, Written(p, <<>>, End(p)), End(p))

---------------------------------------------------------------------------
QInit ==
  /\ tracked = <<>> /\ fed = <<>> /\ named = {}
  /\ arrived = [c \in Conns |-> {}]

Full(K) == Cardinality(K) >= MaxConnections

Quiet(c, t) == t - tracked[c].lastSeen > Timeout

(* Mutant: every connection is thrown out.                                 *)
ExpireStale_All(t) == {}

(* expireStale(): those that stay.                                         *)
ExpireStale(t) == {c \in DOMAIN tracked : ~Quiet(c, t)}

Room(p, t) ==
  IF p.conn \notin DOMAIN tracked /\ Full(DOMAIN tracked)
  THEN ExpireStale(t) ELSE DOMAIN tracked

Entry(c) ==
  IF c \in DOMAIN tracked THEN tracked[c]
  ELSE [stream |-> <<>>, present |-> {}, lastSeen |-> 0]

Larger(a, b) == IF a > b THEN a ELSE b

(* Mutant: only the latest packet's bytes count as present.                *)
Filled_Overwrites(e, p, t) ==
  [stream |-> Written(p, e.stream, Larger(Size(e.stream), End(p))),
   present |-> Units(p), lastSeen |-> t]

Filled(e, p, t) ==
  [stream |-> Written(p, e.stream, Larger(Size(e.stream), End(p))),
   present |-> e.present \union Units(p), lastSeen |-> t]

(* Mutant: holes are not looked for.                                       *)
ContiguousPrefix_Size(e) == Size(e.stream)

(* The units that are present with all before them.                        *)
ContiguousPrefix(e) == Cardinality({u \in e.present : 0 .. u \subseteq e.present})

Only(K) == [c \in K |-> tracked[c]]

(* The parser has found a name in this very packet; the tracker does not   *)
(* see it.                                                                 *)
NamedByPacket(p) ==
  /\ ExtractInitialSni(p) # NoSni
  /\ named' = named \union {[conn |-> p.conn, by |-> "packet", name |-> ExtractInitialSni(p)]}
  /\ UNCHANGED tracked

(* An ACK only, or a table full of live connections.                       *)
NotTracked(p, t) ==
  /\ ExtractInitialSni(p) = NoSni
  /\ \/ p.crypto = {} /\ UNCHANGED tracked
     \/ /\ p.crypto # {} /\ p.conn \notin DOMAIN tracked
        /\ Full(Room(p, t))
        /\ tracked' = Only(Room(p, t))
  /\ UNCHANGED named

Admitted(p, t) ==
  /\ ExtractInitialSni(p) = NoSni
  /\ p.crypto # {}
  /\ p.conn \in DOMAIN tracked \/ ~Full(Room(p, t))

TooLong(p) == End(p) > MaxStream

Forget(p, t) ==
  /\ Admitted(p, t) /\ TooLong(p)
  /\ tracked' = Only(Room(p, t) \ {p.conn})
  /\ UNCHANGED named

Sni(e, c) == SniFromClientHello(c, e.stream, ContiguousPrefix(e))

Track(p, t) ==
  LET e == Filled(Entry(p.conn), p, t) IN
  /\ Admitted(p, t) /\ ~TooLong(p)
  /\ Sni(e, p.conn) = NoSni
  /\ tracked' = [c \in Room(p, t) \union {p.conn} |->
                   IF c = p.conn THEN e ELSE tracked[c]]
  /\ UNCHANGED named

NamedByTracker(p, t) ==
  LET e == Filled(Entry(p.conn), p, t) IN
  /\ Admitted(p, t) /\ ~TooLong(p)
  /\ Sni(e, p.conn) # NoSni
  /\ tracked' = Only(Room(p, t) \ {p.conn})
  /\ named' = named \union {[conn |-> p.conn, by |-> "tracker", name |-> Sni(e, p.conn)]}

Feed(p, t) ==
  \/ NamedByPacket(p) \/ NotTracked(p, t) \/ Forget(p, t)
  \/ Track(p, t) \/ NamedByTracker(p, t)

(* A connection's units are counted from when its entry is made, in the    *)
(* packets the parser leaves to the tracker.                               *)
Observe(p, t) ==
  /\ fed' = [packet |-> p, time |-> t]
  /\ arrived' = [c \in Conns |->
       IF c \notin DOMAIN tracked' THEN {}
       ELSE IF c = p.conn /\ ExtractInitialSni(p) = NoSni
       THEN arrived[c] \union Units(p)
       ELSE arrived[c]]

ClearTracked ==
  /\ tracked' = <<>> /\ arrived' = [c \in Conns |-> {}]
  /\ fed' = <<>> /\ UNCHANGED named

QNext ==
  \/ \E p \in Packets, t \in Times : Feed(p, t) /\ Observe(p, t)
  \/ ClearTracked

QSpec == QInit /\ [][QNext]_qvars

---------------------------------------------------------------------------
(* Types and the memory bound.                                             *)
QTypeOK ==
  /\ DOMAIN tracked \subseteq Conns
  /\ Cardinality(DOMAIN tracked) <= MaxConnections
  /\ \A c \in DOMAIN tracked :
       /\ tracked[c].present \subseteq DOMAIN tracked[c].stream
       /\ DOMAIN tracked[c].stream = 0 .. Size(tracked[c].stream) - 1
       /\ Size(tracked[c].stream) <= MaxStream
       /\ tracked[c].lastSeen \in Times

(* The tracker reads a name only from bytes that have all arrived, in      *)
(* whatever order: never from the zeros that stand for a hole.             *)
TrackerNamesAreTrue ==
  \A n \in named : n.by = "tracker" => n.name = TrueName(n.conn)

(* The tracker forgets nothing it was given and never sits on a complete   *)
(* ClientHello that has a name: as soon as its last unit arrives, in       *)
(* whatever order and however often, the name is reported.                 *)
NothingIsWithheld ==
  \A c \in DOMAIN tracked :
    /\ tracked[c].present = arrived[c]
    /\ NameAt[c] # {} => ~(0 .. Needed[c] - 1 \subseteq arrived[c])

Forgets ==
  \A c \in DOMAIN tracked \ DOMAIN tracked' :
    \/ fed' = <<>>                              (* clear()                 *)
    \/ /\ fed'.packet.conn = c
       /\ \/ 0 .. Needed[c] - 1 \subseteq arrived[c] \union Units(fed'.packet)
          \/ End(fed'.packet) > MaxStream
    \/ Quiet(c, fed'.time) /\ Cardinality(DOMAIN tracked) >= MaxConnections

(* A connection in progress is forgotten only when its ClientHello is      *)
(* complete, for its own excessive length, or because a full table found   *)
(* it quiet for longer than the timeout.                                   *)
ForgottenForCause == [][Forgets]_qvars

(* "if it happens to carry a complete ClientHello starting at offset 0,    *)
(* return its SNI" (QuicParser.hpp, extractInitialSni).                    *)
PacketNamesAreTrue ==
  \A n \in named : n.by = "packet" => n.name = TrueName(n.conn)
=============================================================================
