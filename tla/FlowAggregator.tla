-------------------------- MODULE FlowAggregator --------------------------
(***************************************************************************)
(* core::FlowAggregator (src/core/FlowAggregator.cpp): every packet is     *)
(* folded into the flow of its conversation.  Only AnalysisSession calls   *)
(* it, so its actions are there; here are the table of flows, what one     *)
(* update(), setHostnameForAddress() and clear() make of it, and what the  *)
(* rows must say about the packets seen.                                   *)
(*                                                                         *)
(* A packet is what the parser made of it, with the fields update() reads, *)
(* and "pos", which the code does not have: the true position of its first *)
(* payload byte in the stream, of which the 32-bit tcpSeq is the remainder *)
(* modulo SeqMod.                                                          *)
(***************************************************************************)
EXTENDS FlowKeys, Sequences, FiniteSets

CONSTANTS
  Traffic,     (* packets the capture may see                              *)
  Times,       (* capture timestamps, in any order: nothing sorts them     *)
  Names,       (* host and process names                                   *)
  NoName,      (* the empty string                                         *)
  OneSecond,   (* oneSecondInMicroseconds, in units of Times               *)
  SeqMod       (* 2^32                                                     *)

ASSUME TimesAssumption  == Times \subseteq Nat /\ OneSecond \in Nat
ASSUME NamesAssumption  == NoName \in Names
ASSUME SeqModAssumption == SeqMod \in Nat \ {0} /\ SeqMod % 2 = 0

Flags == [syn : BOOLEAN, ack : BOOLEAN, rst : BOOLEAN]

ASSUME TrafficAssumption == \A p \in Traffic :
  /\ {"proto", "src", "dst", "length", "flags", "payload", "pos", "sni",
      "host", "service", "tunnel"} \subseteq DOMAIN p
  /\ p.src \in Endpoint /\ p.dst \in Endpoint
  /\ p.length \in Nat /\ p.payload \in Nat /\ p.pos \in Nat
  /\ p.flags \in Flags /\ p.tunnel \in BOOLEAN
  /\ {p.sni, p.host, p.service} \subseteq Names

VARIABLES
  flows,  (* m_flows: from FlowKey to FlowState                            *)
  log,    (* history: the operations since the last clear()                *)
  sent    (* history: bytes observed on each directed path since clear()   *)

fvars == <<flows, log, sent>>

Keys  == {KeyFor(p) : p \in Traffic} \ {NoKey}
Path(p) == [src |-> p.src, dst |-> p.dst, proto |-> p.proto]
Paths == {Path(p) : p \in Traffic} \union Keys
           \union {Reversed(k) : k \in Keys}

Directions == {"up", "down"}
Direction(p, k) == IF IsDownstream(p, k) THEN "down" ELSE "up"

FInit ==
  /\ flows = <<>>
  /\ log = <<>>
  /\ sent = [r \in Paths |-> 0]

---------------------------------------------------------------------------
(* update(): the parts of the new FlowState f, for packet p in direction d *)

NoSequence == -1   (* DirectionSequence::valid is false                    *)

NewFlow(t) ==
  [packets |-> 0, bytes |-> [d \in Directions |-> 0],
   firstSeen |-> t, lastSeen |-> t, tunnel |-> FALSE,
   rtt |-> 0, synSeen |-> FALSE, synTime |-> 0,
   next |-> [d \in Directions |-> NoSequence],
   retransmissions |-> [d \in Directions |-> 0],
   outOfOrder |-> [d \in Directions |-> 0],
   hostname |-> NoName, service |-> NoName, process |-> NoName,
   recent |-> <<>>]

(* Mutant: bytes always counted as upstream.                               *)
Counted_AllUp(f, p, d, t) ==
  [f EXCEPT !.lastSeen = t, !.packets = @ + 1, !.bytes["up"] = @ + p.length]

Counted(f, p, d, t) ==
  [f EXCEPT !.lastSeen = t, !.packets = @ + 1, !.bytes[d] = @ + p.length,
            !.tunnel = @ \/ p.tunnel]

(* Mutant: a retransmitted SYN restarts the timer.                         *)
Timed_Restarts(f, p, d, t) ==
  IF p.proto # "TCP" \/ f.rtt # 0 \/ ~p.flags.syn THEN f
  ELSE IF ~p.flags.ack /\ d = "up" THEN [f EXCEPT !.synSeen = TRUE, !.synTime = t]
  ELSE IF p.flags.ack /\ d = "down" /\ f.synSeen /\ t > f.synTime
       THEN [f EXCEPT !.rtt = t - f.synTime]
  ELSE f

(* The initial RTT: the first SYN starts the timer, a SYN-ACK stops it.    *)
Timed(f, p, d, t) ==
  IF p.proto # "TCP" \/ f.rtt # 0 \/ ~p.flags.syn THEN f
  ELSE IF ~p.flags.ack /\ d = "up" /\ ~f.synSeen
       THEN [f EXCEPT !.synSeen = TRUE, !.synTime = t]
  ELSE IF p.flags.ack /\ d = "down" /\ f.synSeen /\ t > f.synTime
       THEN [f EXCEPT !.rtt = t - f.synTime]
  ELSE f

(* Mutant: plain comparison of 32-bit numbers.                             *)
SerialDiff_Plain(a, b) == a - b

(* static_cast<int32_t>(a - b)                                             *)
SerialDiff(a, b) ==
  LET d == (a - b) % SeqMod IN IF 2 * d < SeqMod THEN d ELSE d - SeqMod

(* Delivery problems, against the end of what this direction has covered.  *)
Sequenced(f, p, d) ==
  LET seq    == p.pos % SeqMod
      end    == (seq + p.payload) % SeqMod
      next   == f.next[d]
      offset == SerialDiff(seq, next)
  IN  IF p.proto # "TCP" \/ p.payload = 0 THEN f
      ELSE IF next = NoSequence \/ offset = 0 THEN [f EXCEPT !.next[d] = end]
      ELSE IF offset > 0
           THEN [f EXCEPT !.outOfOrder[d] = @ + 1, !.next[d] = end]
      ELSE [f EXCEPT !.retransmissions[d] = @ + 1,
                     !.next[d] = IF SerialDiff(end, next) > 0 THEN end ELSE @]

Reset(f, p) ==
  IF p.flags.rst THEN [f EXCEPT !.next = [d \in Directions |-> NoSequence]] ELSE f

FirstName(names) ==
  IF \A i \in 1 .. Len(names) : names[i] = NoName THEN NoName
  ELSE names[CHOOSE i \in 1 .. Len(names) :
               names[i] # NoName /\ \A j \in 1 .. i - 1 : names[j] = NoName]

(* SNI, Host header, the caller's name, then whatever was known.  The      *)
(* first process found is kept.                                            *)
Named(f, p, hostname, process) ==
  [f EXCEPT !.hostname = FirstName(<<p.sni, p.host, hostname, @>>),
            !.service  = FirstName(<<p.service, @>>),
            !.process  = FirstName(<<@, process>>)]

(* Mutant: samples are dropped one second too early.                       *)
Fresh_Strict(s, cutoff) == s.time > cutoff

Fresh(s, cutoff) == s.time >= cutoff

(* Samples leave from the front while they are older than one second.      *)
Sampled(f, p, t) ==
  LET all   == Append(f.recent, [time |-> t, bytes |-> p.length])
      first == CHOOSE i \in 1 .. Len(all) + 1 :
                 /\ i <= Len(all) => Fresh(all[i], t - OneSecond)
                 /\ \A j \in 1 .. i - 1 : ~Fresh(all[j], t - OneSecond)
  IN  [f EXCEPT !.recent = SubSeq(all, first, Len(all))]

Folded(f, p, d, t, hostname, process) ==
  Sampled(Named(Reset(Sequenced(Timed(Counted(f, p, d, t), p, d, t), p, d), p),
                p, hostname, process), p, t)

---------------------------------------------------------------------------
PacketEvents == {i \in 1 .. Len(log) : log[i].kind = "packet"}
AnswerEvents == {i \in 1 .. Len(log) : log[i].kind = "answer"}

(* The operations that concerned flow k; its segments that carried bytes.  *)
EventsOf(k) == {i \in PacketEvents : KeyFor(log[i].packet) = k}

Segments(k, d) ==
  {i \in EventsOf(k) : /\ log[i].packet.payload > 0
                       /\ k.proto = "TCP"
                       /\ Direction(log[i].packet, k) = d}

ResetBetween(k, i, j) == \E r \in EventsOf(k) : i <= r /\ r < j /\ log[r].packet.flags.rst

(* The ends of the segments sent before operation i, on the same stream.   *)
Covered(k, d, i) ==
  {log[j].packet.pos + log[j].packet.payload :
     j \in {j \in Segments(k, d) : j < i /\ ~ResetBetween(k, j, i)}}

Highest(S) == CHOOSE x \in S : \A y \in S : y <= x

(* Assumed of TCP: a segment is within half the sequence space of what its *)
(* stream has covered (TCP windows are below 2^30).                        *)
InWindow(p) ==
  LET k  == KeyFor(p)
      cv == Covered(k, Direction(p, k), Len(log) + 1)
  IN  p.payload > 0 /\ cv # {} =>
        /\ 2 * (Highest(cv) - p.pos) < SeqMod
        /\ 2 * (p.pos + p.payload - Highest(cv)) < SeqMod

(* update(): the table of flows fs after packet p.                         *)
AfterUpdate(fs, p, t, hostname, process) ==
  LET k == KeyFor(p)
      f == IF k \in DOMAIN fs THEN fs[k] ELSE NewFlow(t)
  IN  IF k = NoKey THEN fs
      ELSE [x \in DOMAIN fs \union {k} |->
              IF x = k THEN Folded(f, p, Direction(p, k), t, hostname, process)
              ELSE fs[x]]

(* Mutant: only the destination side is looked at.                         *)
Endpoints_DestinationOnly(k) == {k.dst.ip}

Endpoints(k) == {k.src.ip, k.dst.ip}

(* The answers of a DNS response that name an address.                     *)
Effective(as) == {i \in 1 .. Len(as) : as[i].address # NoAddress /\ as[i].name # NoName}

(* Mutant: an answer names only flows that come later.                     *)
AfterAnswers_Ignored(fs, as) == fs

(* setHostnameForAddress(), for each of the answers in turn: every flow    *)
(* with the address as an endpoint gets the name, so the last one stays.   *)
AfterAnswers(fs, as) ==
  [k \in DOMAIN fs |->
     LET naming == {i \in Effective(as) : as[i].address \in Endpoints(k)}
     IN  IF naming = {} THEN fs[k]
         ELSE [fs[k] EXCEPT !.hostname = as[Highest(naming)].name]]

Clear ==
  /\ flows' = <<>>
  /\ log' = <<>>
  /\ sent' = [r \in Paths |-> 0]

---------------------------------------------------------------------------
(* snapshot(): the rate of a flow at time "now".                           *)
SumBytes(s) == LET sum[i \in 0 .. Len(s)] == IF i = 0 THEN 0 ELSE sum[i - 1] + s[i]
               IN  sum[Len(s)]

Rate(f, now) ==
  SumBytes([i \in 1 .. Len(f.recent) |->
              IF f.recent[i].time >= now - OneSecond /\ f.recent[i].time <= now
              THEN f.recent[i].bytes ELSE 0])

---------------------------------------------------------------------------
Counters == [Directions -> Nat]

(* Types; every flow is a TCP or UDP conversation between two addresses.   *)
FTypeOK ==
  /\ DOMAIN flows \subseteq Keys
  /\ \A k \in DOMAIN flows : /\ k.proto \in {"TCP", "UDP"}
                             /\ NoAddress \notin {k.src.ip, k.dst.ip}
  /\ \A k \in DOMAIN flows :
       LET f == flows[k] IN
       /\ f.bytes \in Counters /\ f.retransmissions \in Counters
       /\ f.outOfOrder \in Counters
       /\ f.packets \in Nat \ {0} /\ f.rtt \in Nat
       /\ f.firstSeen \in Times /\ f.lastSeen \in Times
       /\ f.next \in [Directions -> {NoSequence} \union (0 .. SeqMod - 1)]
       /\ {f.hostname, f.service, f.process} \subseteq Names
       /\ f.tunnel \in BOOLEAN /\ f.synSeen \in BOOLEAN
  /\ sent \in [Paths -> Nat]

(* Two packets are counted in one flow exactly when they belong to the     *)
(* same conversation: the two directions never make two rows, and two      *)
(* conversations between the same hosts never make one.                    *)
OneFlowPerConversation ==
  /\ DOMAIN flows = {KeyFor(log[i].packet) : i \in PacketEvents} \ {NoKey}
  /\ \A i, j \in PacketEvents :
       LET p == log[i].packet q == log[j].packet IN
       KeyFor(p) # NoKey /\ KeyFor(q) # NoKey =>
         (KeyFor(p) = KeyFor(q) <=> SameConversation(p, q))

(* Up is what the key's src endpoint sent, down what its dst endpoint did, *)
(* whichever direction was seen first; nothing is counted twice or lost.   *)
BytesByDirection ==
  \A k \in DOMAIN flows : k.src # k.dst =>
    flows[k].bytes["up"] = sent[k] /\ flows[k].bytes["down"] = sent[Reversed(k)]

Opens(i, k) ==
  LET p == log[i].packet IN p.flags.syn /\ ~p.flags.ack /\ Direction(p, k) = "up"

Answers(j, i, k) ==
  LET p == log[j].packet IN
  /\ i < j /\ p.flags.syn /\ p.flags.ack /\ Direction(p, k) = "down"
  /\ log[j].time > log[i].time

(* The RTT shown is the delay from the client's first SYN to the first     *)
(* SYN-ACK after it, whatever was retransmitted or reordered.              *)
RttIsFirstHandshake ==
  \A k \in DOMAIN flows : k.proto = "TCP" =>
    LET syns  == {i \in EventsOf(k) : Opens(i, k)}
        pairs == {ij \in syns \X EventsOf(k) :
                    (\A x \in syns : ij[1] <= x) /\ Answers(ij[2], ij[1], k)}
    IN  IF pairs = {} THEN flows[k].rtt = 0
        ELSE \E ij \in pairs :
               /\ \A other \in pairs : ij[2] <= other[2]
               /\ flows[k].rtt = log[ij[2]].time - log[ij[1]].time

(* Segments counted as retransmitted are those that begin below the        *)
(* highest byte their direction had covered, and as out of order those     *)
(* that begin beyond it, across wrap-around of the sequence numbers and    *)
(* with nothing carried over a reset.                                      *)
DeliveryIsExact ==
  \A k \in DOMAIN flows, d \in Directions :
    LET begun == {i \in Segments(k, d) : Covered(k, d, i) # {}}
        pos(i) == log[i].packet.pos
    IN  /\ flows[k].retransmissions[d] =
             Cardinality({i \in begun : pos(i) < Highest(Covered(k, d, i))})
        /\ flows[k].outOfOrder[d] =
             Cardinality({i \in begun : pos(i) > Highest(Covered(k, d, i))})

LogBytes(k, now) ==
  SumBytes([i \in 1 .. Len(log) |->
              IF i \in EventsOf(k) /\ log[i].time >= now - OneSecond
              THEN log[i].packet.length ELSE 0])

(* The rate shown at any time after the last packet is the number of bytes *)
(* of the last second, although samples are dropped as packets arrive and  *)
(* capture timestamps need not be sorted.                                  *)
RateIsExact ==
  \A k \in DOMAIN flows :
    \A now \in 0 .. Highest(Times) + OneSecond + 1 :
      (\A i \in PacketEvents : log[i].time <= now) =>
        Rate(flows[k], now) = LogBytes(k, now)

(* What DNS had last said of an address before operation i.                *)
LastAnswer(ip, i) ==
  LET said == {j \in AnswerEvents : /\ j < i /\ log[j].name # NoName
                                    /\ log[j].address = ip}
  IN  IF said = {} THEN NoName ELSE log[Highest(said)].name

(* The name an operation gives: that of an answer; or the best a packet    *)
(* has, by the ranking of AnalysisSession::Result - its SNI, its Host      *)
(* header, what DNS last said of its destination, and of its source.       *)
NameFrom(i) ==
  IF i \in AnswerEvents THEN log[i].name
  ELSE LET p == log[i].packet
       IN  FirstName(<<p.sni, p.host, LastAnswer(p.dst.ip, i), LastAnswer(p.src.ip, i)>>)

(* A flow carries the name given by the last operation on it that gave     *)
(* any: one of its own packets, or a DNS answer for either endpoint while  *)
(* the flow existed.  So a packet without a name of its own takes the row  *)
(* back to the DNS name, although an SNI was seen: see BestNameStays.      *)
NameIsLatestGiven ==
  \A k \in DOMAIN flows :
    LET began  == CHOOSE i \in EventsOf(k) : \A j \in EventsOf(k) : i <= j
        naming == {i \in EventsOf(k) : NameFrom(i) # NoName} \union
                  {i \in AnswerEvents : /\ i > began /\ NameFrom(i) # NoName
                                        /\ log[i].address \in {k.src.ip, k.dst.ip}}
    IN  flows[k].hostname = IF naming = {} THEN NoName ELSE NameFrom(Highest(naming))

---------------------------------------------------------------------------
(* "outgoing SYN (no ACK) starts the timer, matching SYN-ACK from the      *)
(* server stops it" (FlowAggregator::update): the two belong to one        *)
(* connection, and a reset ends a connection.                              *)
RttWithinOneConnection ==
  \A k \in DOMAIN flows : flows[k].rtt # 0 =>
    \E i, j \in EventsOf(k) :
      /\ Opens(i, k) /\ Answers(j, i, k) /\ ~ResetBetween(k, i, j)
      /\ flows[k].rtt = log[j].time - log[i].time

(* "Best hostname known for the peer at ingest time: SNI, then an HTTP     *)
(* Host header, then a DNS-derived name" (AnalysisSession.hpp): a flow in  *)
(* which an SNI was seen is never shown under a weaker name.               *)
BestNameStays ==
  \A k \in DOMAIN flows :
    LET names == {log[i].packet.sni : i \in EventsOf(k)} \ {NoName}
    IN  names # {} => flows[k].hostname \in names
===========================================================================
