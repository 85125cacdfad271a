---------------------- MODULE AnalysisSession_proofs ----------------------
(* Proofs about the analysis session: for all traffic, captures of any     *)
(* length, and any DNS answers, the flow table has one flow for each       *)
(* conversation, and each row has its own bytes by direction, the latest   *)
(* name that was heard for it, the round-trip time of its first            *)
(* handshake, the bytes of its last second, and the retransmitted and      *)
(* out-of-order segments that were captured.  First the flow keys, for all *)
(* addresses, ports and protocols, and whatever other fields a packet has. *)
EXTENDS AnalysisSession, SharedLemmas

HasEndpoints(p) == p.src \in Endpoint /\ p.dst \in Endpoint

(* The packet's endpoints in the order in which it has them.               *)
AsSent(p) == [src |-> p.src, dst |-> p.dst, proto |-> p.proto]

---------------------------------------------------------------------------
(* The order of endpoints is total, and antisymmetric.                     *)
LEMMA NotAfterIsAnOrder ==
  ASSUME NEW a \in Endpoint, NEW b \in Endpoint
  PROVE  /\ NotAfter(a, b) \/ NotAfter(b, a)
         /\ NotAfter(a, b) /\ NotAfter(b, a) => a = b
<1>1. a.ip \in Nat /\ a.port \in Nat /\ b.ip \in Nat /\ b.port \in Nat
  BY DEF Endpoint
<1>2. a.ip = b.ip /\ a.port = b.port => a = b
  BY DEF Endpoint
<1>. QED
  BY <1>1, <1>2 DEF NotAfter

(* Of two opposite packets exactly one is sent by the client, unless a     *)
(* socket talks to itself.                                                 *)
LEMMA OneClient ==
  ASSUME NEW p, NEW q, HasEndpoints(p), p.src = q.dst, p.dst = q.src,
         p.src # p.dst
  PROVE  ClientIsSource(q) <=> ~ClientIsSource(p)
<1>1. NotAfter(p.dst, p.src) <=> ~NotAfter(p.src, p.dst)
  BY NotAfterIsAnOrder DEF HasEndpoints
<1>2. CASE IsLikelyServerPort(p.src.port) <=> IsLikelyServerPort(p.dst.port)
  BY <1>1, <1>2 DEF ClientIsSource, IsLikelyServerPort
<1>3. CASE ~(IsLikelyServerPort(p.src.port) <=> IsLikelyServerPort(p.dst.port))
  BY <1>3 DEF ClientIsSource, IsLikelyServerPort
<1>. QED
  BY <1>2, <1>3

(* A key lists the packet's endpoints, in one of the two orders.           *)
LEMMA KeyOrder ==
  ASSUME NEW p, KeyFor(p) # NoKey
  PROVE  KeyFor(p) = IF ClientIsSource(p) THEN AsSent(p) ELSE Reversed(p)
  BY DEF KeyFor, AsSent, Reversed

---------------------------------------------------------------------------
(* Two packets that have a key have the same one exactly when they belong  *)
(* to one conversation: keyFor() does not depend on which direction is     *)
(* seen first, and never merges two conversations.                         *)
THEOREM KeysAreConversations ==
  ASSUME NEW p, NEW q, HasEndpoints(p), HasEndpoints(q),
         KeyFor(p) # NoKey, KeyFor(q) # NoKey
  PROVE  KeyFor(p) = KeyFor(q) <=> SameConversation(p, q)
<1>1. ASSUME KeyFor(p) = KeyFor(q) PROVE SameConversation(p, q)
  BY <1>1, KeyOrder DEF SameConversation, Reversed, AsSent
<1>2. ASSUME SameConversation(p, q) PROVE KeyFor(p) = KeyFor(q)
  <2>1. CASE p.src = q.src /\ p.dst = q.dst
    <3>1. ClientIsSource(p) <=> ClientIsSource(q)
      BY <2>1 DEF ClientIsSource, IsLikelyServerPort
    <3>. QED
      BY <1>2, <2>1, <3>1, KeyOrder DEF SameConversation, Reversed, AsSent
  <2>2. CASE p.src = q.dst /\ p.dst = q.src /\ p.src # p.dst
    <3>1. ClientIsSource(q) <=> ~ClientIsSource(p)
      BY <2>2, OneClient
    <3>. QED
      BY <1>2, <2>2, <3>1, KeyOrder DEF SameConversation, Reversed, AsSent
  <2>. QED
    BY <1>2, <2>1, <2>2 DEF SameConversation
<1>. QED
  BY <1>1, <1>2
---------------------------------------------------------------------------
(* The session.                                                            *)

LogIsSequence == \E S : log \in Seq(S)

PacketsHaveEndpoints == \A i \in PacketEvents : HasEndpoints(log[i].packet)

(* The table's keys are those of the packets seen.                         *)
KeysSeen == {KeyFor(log[i].packet) : i \in PacketEvents} \ {NoKey}

(* The inductive invariant.                                                *)
IInv ==
  /\ capture \in Captures
  /\ LogIsSequence /\ PacketsHaveEndpoints
  /\ DOMAIN flows = KeysSeen

---------------------------------------------------------------------------
(* What a recovered name changes leaves the packet's endpoints and its     *)
(* answers alone.                                                          *)
LEMMA RecoveredSame ==
  ASSUME NEW raw \in Traffic, NEW name
  PROVE  LET p == Recovered(raw, name)
         IN  HasEndpoints(p) /\ p.answers \in Seq(Answer)
<1>1. /\ {"src", "dst", "answers"} \subseteq DOMAIN raw
      /\ raw.src \in Endpoint /\ raw.dst \in Endpoint /\ raw.answers \in Seq(Answer)
  BY TrafficAssumption, SessionAssumption
<1>. QED
  BY <1>1 DEF Recovered, HasEndpoints

(* A sequence extended by another and then by one element.                 *)
LEMMA AppendTwice ==
  ASSUME NEW S, NEW s \in Seq(S), NEW a \in Seq(S), NEW e \in S, NEW r,
         r = s \o a \o <<e>>
  PROVE  /\ r \in Seq(S)
         /\ Len(r) = Len(s) + Len(a) + 1
         /\ \A i \in 1 .. Len(s) : r[i] = s[i]
         /\ \A i \in Len(s) + 1 .. Len(s) + Len(a) : r[i] = a[i - Len(s)]
         /\ r[Len(r)] = e
<1> DEFINE m == s \o a
<1>1. /\ m \in Seq(S) /\ Len(m) = Len(s) + Len(a)
      /\ \A i \in 1 .. Len(s) : m[i] = s[i]
      /\ \A i \in Len(s) + 1 .. Len(s) + Len(a) : m[i] = a[i - Len(s)]
  OBVIOUS
<1>2. r = Append(m, e) 
  OBVIOUS
<1> HIDE DEF m
<1>. QED
  BY <1>1, <1>2

(* What the log keeps of a packet.                                         *)
PacketEvent(p, t) == [kind |-> "packet", packet |-> p, time |-> t]

(* The log has grown by the answers of packet p, and then by p itself.     *)
Appended(p, t) ==
  /\ LogIsSequence'
  /\ PacketEvents' = PacketEvents \union {Len(log')}
  /\ \A i \in PacketEvents : log'[i] = log[i]
  /\ log'[Len(log')].packet = p
  /\ Len(log) \in Nat /\ Len(log') = Len(log) + Len(p.answers) + 1
  /\ \A i \in 1 .. Len(log) : log'[i] = log[i]
  /\ \A i \in 1 .. Len(p.answers) : log'[Len(log) + i] = AnswerLog(p)[i]
  /\ log'[Len(log')] = PacketEvent(p, t)

(* An operation appends its DNS answers and then one packet to the log.    *)
LEMMA LogGrows ==
  ASSUME LogIsSequence, NEW p, p.answers \in Seq(Answer), NEW t,
         log' = log \o AnswerLog(p) \o PacketLog(p, t)
  PROVE  Appended(p, t)
<1> DEFINE n == Len(p.answers)
<1> DEFINE ans == AnswerLog(p)
<1> DEFINE ev == [kind |-> "packet", packet |-> p, time |-> t]
<1>1. PICK S : log \in Seq(S)
  BY DEF LogIsSequence
<1>2. n \in Nat
  OBVIOUS
<1> DEFINE T == S \union {ans[i] : i \in 1 .. n} \union {ev}
<1>13. \A i \in 1 .. n : ans[i].kind = "answer"
  BY DEF AnswerLog
<1>3. ans \in Seq(T) /\ Len(ans) = n
  <2>1. ans \in [1 .. n -> T]
    BY DEF AnswerLog
  <2>2. ans \in Seq(T)
    BY <1>2, <2>1, SeqDef, SMTT(30)
  <2>3. Len(ans) = n
    BY <1>2, <2>1, <2>2, LenProperties
  <2>. QED
    BY <2>2, <2>3
<1>4. log \in Seq(T) /\ Len(log) \in Nat /\ ev \in T
  BY <1>1, SeqMonotonic
<1>5. log' = log \o ans \o <<ev>>
  BY DEF PacketLog
<1>6. ev.kind = "packet" /\ ev.packet = p
  OBVIOUS
<1> HIDE DEF n, ans, ev, T
<1>7. /\ log' \in Seq(T)
      /\ Len(log') = Len(log) + Len(ans) + 1
      /\ \A i \in 1 .. Len(log) : log'[i] = log[i]
      /\ \A i \in Len(log) + 1 .. Len(log) + Len(ans) : log'[i] = ans[i - Len(log)]
      /\ log'[Len(log')] = ev
  <2>1. log \in Seq(T) /\ ans \in Seq(T) /\ ev \in T /\ log' = log \o ans \o <<ev>>
    BY <1>3, <1>4, <1>5
  <2>. QED
    BY ONLY <2>1, AppendTwice
<1>8. ASSUME NEW i \in 1 .. Len(log')
      PROVE  log'[i].kind = "packet" <=> i \in PacketEvents \/ i = Len(log')
  <2>1. CASE i \in 1 .. Len(log)
    BY <1>2, <1>3, <1>4, <1>7, <2>1 DEF PacketEvents
  <2>2. CASE i \in Len(log) + 1 .. Len(log) + Len(ans)
    <3>1. i - Len(log) \in 1 .. n /\ ~(i <= Len(log)) /\ i # Len(log')
      BY <1>2, <1>3, <1>4, <1>7, <2>2
    <3>2. log'[i].kind = "answer"
      BY <1>13, <1>7, <2>2, <3>1
    <3>. QED
      BY <1>4, <3>1, <3>2 DEF PacketEvents
  <2>3. CASE i = Len(log')
    BY <1>6, <1>7, <2>3
  <2>. QED
    <3>1. i \in 1 .. Len(log) \/ i \in Len(log) + 1 .. Len(log) + Len(ans) \/ i = Len(log')
      BY <1>2, <1>3, <1>4, <1>7
    <3>. QED
      BY <2>1, <2>2, <2>3, <3>1
<1>9. PacketEvents \subseteq 1 .. Len(log) /\ 1 .. Len(log) \subseteq 1 .. Len(log')
      /\ Len(log') \in 1 .. Len(log')
  BY <1>2, <1>3, <1>4, <1>7 DEF PacketEvents
<1>10. PacketEvents' = PacketEvents \union {Len(log')}
  <2>1. PacketEvents' = {i \in 1 .. Len(log') : log'[i].kind = "packet"}
    BY DEF PacketEvents
  <2>. QED
    BY <1>8, <1>9, <2>1
<1>11. LogIsSequence'
  BY <1>7 DEF LogIsSequence
<1>12. \A i \in PacketEvents : log'[i] = log[i]
  BY <1>7, <1>9
<1>14. \A i \in 1 .. n : log'[Len(log) + i] = ans[i]
  <2> SUFFICES ASSUME NEW i \in 1 .. n PROVE log'[Len(log) + i] = ans[i]
    OBVIOUS
  <2>1. Len(log) + i \in Len(log) + 1 .. Len(log) + Len(ans) /\ (Len(log) + i) - Len(log) = i
    BY <1>2, <1>3, <1>4
  <2>. QED
    BY <1>7, <2>1
<1>15. log'[Len(log')] = PacketEvent(p, t)
  BY <1>7 DEF ev, PacketEvent
<1>. QED
  BY <1>3, <1>4, <1>6, <1>7, <1>10, <1>11, <1>12, <1>14, <1>15
  DEF ans, n, Appended

---------------------------------------------------------------------------
(* It holds before the first packet.                                       *)
LEMMA InitIInv == SInit => IInv
<1> SUFFICES ASSUME SInit PROVE IInv
  OBVIOUS
<1>1. flows = <<>> /\ log = <<>>
  BY DEF SInit, FInit
<1>3. capture \in Captures
  BY DEF SInit
<1>2. PacketEvents = {} /\ LogIsSequence
  BY <1>1 DEF PacketEvents, LogIsSequence
<1>. QED
  BY <1>1, <1>3, <1>2 DEF IInv, PacketsHaveEndpoints, KeysSeen

(* Feeding a packet adds its key, and the answers in it add none.          *)
LEMMA FeedStep ==
  ASSUME IInv, NEW raw \in Traffic, NEW t, NEW name, NEW process,
         FeedPacket(raw, t, name, process), UNCHANGED capture
  PROVE  IInv'
<1> DEFINE p == Recovered(raw, name)
<1>1. HasEndpoints(p) /\ p.answers \in Seq(Answer)
  BY RecoveredSame
<1>2. PICK host : /\ flows' = AfterUpdate(AfterAnswers(flows, p.answers), p, t, host, process)
                  /\ log' = log \o AnswerLog(p) \o PacketLog(p, t)
  BY DEF FeedPacket
<1>3. DOMAIN AfterAnswers(flows, p.answers) = DOMAIN flows
  BY DEF AfterAnswers
<1> HIDE DEF p
<1>4. DOMAIN flows' = IF KeyFor(p) = NoKey THEN DOMAIN flows
                      ELSE DOMAIN flows \union {KeyFor(p)}
  BY <1>2, <1>3 DEF AfterUpdate
<1>5. /\ LogIsSequence'
      /\ PacketEvents' = PacketEvents \union {Len(log')}
      /\ \A i \in PacketEvents : log'[i] = log[i]
      /\ log'[Len(log')].packet = p
  BY <1>1, <1>2, LogGrows DEF IInv, Appended
<1>6. PacketsHaveEndpoints'
  BY <1>1, <1>5 DEF IInv, PacketsHaveEndpoints
<1>7. KeysSeen' = ({KeyFor(log[i].packet) : i \in PacketEvents} \union {KeyFor(p)}) \ {NoKey}
  BY <1>5 DEF KeysSeen
<1>8. DOMAIN flows' = KeysSeen'
  BY <1>4, <1>7 DEF IInv, KeysSeen
<1>. QED
  BY <1>5, <1>6, <1>8 DEF IInv

(* Every packet, and clear(), keeps it.                                    *)
LEMMA StepIInv == IInv /\ [SNext]_svars => IInv'
<1> SUFFICES ASSUME IInv, [SNext]_svars PROVE IInv'
  OBVIOUS
<1>1. ASSUME NEW raw \in capture.traffic, NEW t, NEW process, NEW name,
             FeedPacket(raw, t, name, process), UNCHANGED capture
      PROVE  IInv'
  <2>1. raw \in Traffic
    BY <1>1, CapturesAssumption DEF IInv
  <2>. QED
    BY <1>1, <2>1, FeedStep
<1>2. CASE ClearSession /\ UNCHANGED capture
  <2>1. flows' = <<>> /\ log' = <<>>
    BY <1>2 DEF ClearSession, Clear
  <2>2. PacketEvents' = {} /\ LogIsSequence'
    BY <2>1 DEF PacketEvents, LogIsSequence
  <2>. QED
    BY <1>2, <2>1, <2>2 DEF IInv, PacketsHaveEndpoints, KeysSeen
<1>3. CASE UNCHANGED svars
  BY <1>3 DEF svars, fvars, IInv, LogIsSequence, PacketsHaveEndpoints, KeysSeen, PacketEvents
<1>. QED
  BY <1>1, <1>2, <1>3 DEF SNext

(* The keys are right in every state.                                      *)
LEMMA InductiveInvariant == SSpec => []IInv
  BY InitIInv, StepIInv, PTL DEF SSpec

---------------------------------------------------------------------------
(* The table has exactly the flows of the conversations seen since the     *)
(* last clear(), one for each, whatever the traffic, the directions and    *)
(* the names: two packets are in one flow exactly when they belong to one  *)
(* conversation.                                                           *)
THEOREM OneFlowEach == SSpec => []OneFlowPerConversation
<1>1. ASSUME IInv
      PROVE  OneFlowPerConversation
  <2>1. ASSUME NEW i \in PacketEvents, NEW j \in PacketEvents,
               KeyFor(log[i].packet) # NoKey, KeyFor(log[j].packet) # NoKey
        PROVE  KeyFor(log[i].packet) = KeyFor(log[j].packet)
                 <=> SameConversation(log[i].packet, log[j].packet)
    BY <1>1, <2>1, KeysAreConversations DEF IInv, PacketsHaveEndpoints
  <2>2. DOMAIN flows = {KeyFor(log[i].packet) : i \in PacketEvents} \ {NoKey}
    BY <1>1 DEF IInv, KeysSeen
  <2>. QED
    BY <2>1, <2>2 DEF OneFlowPerConversation
<1>. QED
  BY <1>1, InductiveInvariant, PTL

(* FirstName() is the first that is a name.                                *)
LEMMA FirstIs ==
  ASSUME NEW s, Len(s) \in Nat, NEW n \in 1 .. Len(s), s[n] # NoName,
         \A j \in 1 .. n - 1 : s[j] = NoName
  PROVE  FirstName(s) = s[n]
<1> DEFINE Is(i) == s[i] # NoName /\ \A j \in 1 .. i - 1 : s[j] = NoName
<1>1. FirstName(s) = s[CHOOSE i \in 1 .. Len(s) : Is(i)]
  BY DEF FirstName
<1>2. \A i \in 1 .. Len(s) : Is(i) <=> i = n
  <2>1. ASSUME NEW i \in 1 .. Len(s), Is(i), i # n PROVE FALSE
    <3>1. n \in 1 .. i - 1 \/ i \in 1 .. n - 1
      BY <2>1
    <3>. QED
      BY <2>1, <3>1
  <2>. QED
    BY <2>1
<1> HIDE DEF Is
<1>3. (CHOOSE i \in 1 .. Len(s) : Is(i)) = n
  BY <1>2
<1>. QED
  BY <1>1, <1>3

(* FirstName of four names, spelled out.                                   *)
LEMMA FirstOfFour ==
  ASSUME NEW a, NEW b, NEW c, NEW d
  PROVE  FirstName(<<a, b, c, d>>) =
           IF a # NoName THEN a ELSE IF b # NoName THEN b
           ELSE IF c # NoName THEN c ELSE d
<1> DEFINE s == <<a, b, c, d>>
<1>1. /\ Len(s) = 4 /\ 1 .. 4 = {1, 2, 3, 4} /\ Len(s) \in Nat
      /\ s[1] = a /\ s[2] = b /\ s[3] = c /\ s[4] = d
  OBVIOUS
<1> HIDE DEF s
<1>2. ASSUME NEW n \in 1 .. 4, s[n] # NoName, \A j \in 1 .. n - 1 : s[j] = NoName
      PROVE  FirstName(s) = s[n]
  BY <1>1, <1>2, FirstIs
<1>3. /\ a # NoName => FirstName(s) = a
      /\ a = NoName /\ b # NoName => FirstName(s) = b
      /\ a = NoName /\ b = NoName /\ c # NoName => FirstName(s) = c
      /\ a = NoName /\ b = NoName /\ c = NoName /\ d # NoName => FirstName(s) = d
  BY <1>1, <1>2
<1>4. (\A i \in 1 .. Len(s) : s[i] = NoName) => FirstName(s) = NoName
  BY DEF FirstName
<1>. QED
  BY <1>1, <1>3, <1>4 DEF s

(* FirstName of three names.                                               *)
LEMMA FirstOfThree ==
  ASSUME NEW a, NEW b, NEW c
  PROVE  FirstName(<<a, b, c>>) =
           IF a # NoName THEN a ELSE IF b # NoName THEN b ELSE c
<1> DEFINE s == <<a, b, c>>
<1>1. /\ Len(s) = 3 /\ 1 .. 3 = {1, 2, 3} /\ Len(s) \in Nat
      /\ s[1] = a /\ s[2] = b /\ s[3] = c
  OBVIOUS
<1> HIDE DEF s
<1>2. ASSUME NEW n \in 1 .. 3, s[n] # NoName, \A j \in 1 .. n - 1 : s[j] = NoName
      PROVE  FirstName(s) = s[n]
  BY <1>1, <1>2, FirstIs
<1>3. /\ a # NoName => FirstName(s) = a
      /\ a = NoName /\ b # NoName => FirstName(s) = b
      /\ a = NoName /\ b = NoName /\ c # NoName => FirstName(s) = c
  BY <1>1, <1>2
<1>4. (\A i \in 1 .. Len(s) : s[i] = NoName) => FirstName(s) = NoName
  BY DEF FirstName
<1>. QED
  BY <1>1, <1>3, <1>4 DEF s

(* A set of indexes has a highest.                                         *)
LEMMA HighestIsThere ==
  ASSUME NEW n \in Nat, NEW S, S \subseteq 1 .. n, S # {}
  PROVE  Highest(S) \in S /\ \A i \in S : i <= Highest(S)
<1> DEFINE Top(x) == \A y \in S : y <= x
<1>9. \E x \in S : Top(x)
  BY GreatestIsThere DEF Top
<1>10. Highest(S) = CHOOSE x \in S : Top(x)
  BY DEF Highest
<1> HIDE DEF Top
<1>11. Highest(S) \in S /\ Top(Highest(S))
  BY <1>9, <1>10, Zenon
<1>. QED
  BY <1>11 DEF Top

(* The highest element is the one that is above all others.                *)
LEMMA HighestIs ==
  ASSUME NEW n \in Nat, NEW S, S \subseteq 1 .. n, NEW x \in S, \A y \in S : y <= x
  PROVE  Highest(S) = x
<1>1. Highest(S) \in S /\ \A i \in S : i <= Highest(S)
  BY HighestIsThere
<1> DEFINE h == Highest(S)
<1> HIDE DEF h
<1>2. h \in S /\ x <= h /\ h <= x
  BY <1>1 DEF h
<1>3. h \in Nat /\ x \in Nat
  BY <1>2
<1>4. h = x
  BY <1>2, <1>3
<1>. QED
  BY <1>4 DEF h

---------------------------------------------------------------------------
(* The fields of a FlowState.                                              *)
Fields ==
  {"packets", "bytes", "firstSeen", "lastSeen", "tunnel", "rtt", "synSeen", "synTime",
   "next", "retransmissions", "outOfOrder", "hostname", "service", "process", "recent"}

(* A record that the paragraphs of update() can work on.                   *)
IsFlow(f) == DOMAIN f = Fields /\ DOMAIN f.bytes = Directions

(* What update() makes of a flow's bytes and its name.                     *)
FoldsTo(f, p, d, host, g) ==
  /\ IsFlow(g)
  /\ g.bytes = [f.bytes EXCEPT ![d] = @ + p.length]
  /\ g.hostname = FirstName(<<p.sni, p.host, host, f.hostname>>)

(* update() as a whole: one step for each of its paragraphs.               *)
LEMMA Paragraphs ==
  ASSUME NEW f, IsFlow(f), NEW p, NEW d \in Directions, NEW t, NEW host, NEW process
  PROVE  FoldsTo(f, p, d, host, Folded(f, p, d, t, host, process))
<1> DEFINE a == Counted(f, p, d, t)
           b == Timed(a, p, d, t)
           c == Sequenced(b, p, d)
           e == Reset(c, p)
           g == Named(e, p, host, process)
           h == Sampled(g, p, t)
<1>1. /\ DOMAIN a = Fields /\ a.bytes = [f.bytes EXCEPT ![d] = @ + p.length]
      /\ a.hostname = f.hostname
  BY DEF Counted, IsFlow, Fields
<1>2. DOMAIN b = DOMAIN a /\ b.bytes = a.bytes /\ b.hostname = a.hostname
  <2> HIDE DEF a
  <2>. QED
    BY <1>1 DEF Timed, Fields
<1>3. DOMAIN c = DOMAIN b /\ c.bytes = b.bytes /\ c.hostname = b.hostname
  <2> HIDE DEF a, b
  <2>. QED
    BY <1>1, <1>2 DEF Sequenced, Fields
<1>4. DOMAIN e = DOMAIN c /\ e.bytes = c.bytes /\ e.hostname = c.hostname
  <2> HIDE DEF a, b, c
  <2>. QED
    BY <1>1, <1>2, <1>3 DEF Reset, Fields
<1>5. /\ DOMAIN g = DOMAIN e /\ g.bytes = e.bytes
      /\ g.hostname = FirstName(<<p.sni, p.host, host, e.hostname>>)
  <2> HIDE DEF a, b, c, e
  <2>. QED
    BY <1>1, <1>2, <1>3, <1>4 DEF Named, Fields
<1>6. DOMAIN h = DOMAIN g /\ h.bytes = g.bytes /\ h.hostname = g.hostname
  <2> HIDE DEF a, b, c, e, g
  <2>. QED
    BY <1>1, <1>2, <1>3, <1>4, <1>5 DEF Sampled, Fields
<1>7. Folded(f, p, d, t, host, process) = h
  BY DEF Folded
<1> HIDE DEF a, b, c, e, g, h
<1>. QED
  BY <1>1, <1>2, <1>3, <1>4, <1>5, <1>6, <1>7 DEF IsFlow, FoldsTo

---------------------------------------------------------------------------
(* Bytes.                                                                  *)

(* A recovered packet travels where the raw one did.                       *)
LEMMA RecoveredTravels ==
  ASSUME NEW raw \in Traffic, NEW name
  PROVE  LET p == Recovered(raw, name)
         IN  /\ Path(p) = Path(raw) /\ KeyFor(p) = KeyFor(raw)
             /\ p.length = raw.length /\ p.length \in Nat
             /\ p.answers = raw.answers
<1> DEFINE p == Recovered(raw, name)
<1>1. {"src", "dst", "proto", "length", "answers"} \subseteq DOMAIN raw /\ raw.length \in Nat
  BY TrafficAssumption, SessionAssumption
<1>2. /\ p.src = raw.src /\ p.dst = raw.dst /\ p.proto = raw.proto
      /\ p.length = raw.length /\ p.answers = raw.answers
  BY <1>1 DEF Recovered
<1>3. Path(p) = Path(raw) /\ KeyFor(p) = KeyFor(raw)
  <2> HIDE DEF p
  <2>. QED
    BY <1>2 DEF Path, KeyFor, ClientIsSource
<1>. QED
  BY <1>1, <1>2, <1>3

(* The key is the path, or the path back.                                  *)
LEMMA KeyIsPath ==
  ASSUME NEW p, KeyFor(p) # NoKey
  PROVE  /\ KeyFor(p) = Path(p) \/ KeyFor(p) = Reversed(p)
         /\ ~IsDownstream(p, KeyFor(p)) => Path(p) = KeyFor(p)
         /\ IsDownstream(p, KeyFor(p)) => Path(p) = Reversed(KeyFor(p))
<1>1. KeyFor(p) = AsSent(p) \/ KeyFor(p) = Reversed(p)
  BY KeyOrder
<1>. QED
  BY <1>1 DEF AsSent, Path, Reversed, IsDownstream

(* Bytes on a path are no business of the other conversations.             *)
LEMMA PathIsOfOneKey ==
  ASSUME NEW p \in Traffic, NEW k \in Keys, k # KeyFor(p)
  PROVE  Path(p) # k /\ Path(p) # Reversed(k)
<1>1. PICK q \in Traffic : k = KeyFor(q) /\ KeyFor(q) # NoKey
  BY DEF Keys
<1>2. HasEndpoints(p) /\ HasEndpoints(q)
  BY TrafficAssumption DEF HasEndpoints
<1>3. k = Path(q) \/ k = Reversed(q)
  BY <1>1, KeyIsPath
<1> SUFFICES ASSUME Path(p) = k \/ Path(p) = Reversed(k) PROVE FALSE
  OBVIOUS
<1>4. SameConversation(p, q)
  BY <1>3 DEF Path, Reversed, SameConversation
<1>5. KeyFor(p) # NoKey
  BY <1>1, <1>4 DEF SameConversation, KeyFor, NoKey
<1>. QED
  BY <1>1, <1>2, <1>4, <1>5, KeysAreConversations

(* Every row is such a record.                                             *)
FlowsHaveFields == \A k \in DOMAIN flows : IsFlow(flows[k])

(* Nothing was sent in a conversation that has no flow.                    *)
OnlyFlowsSend ==
  \A k \in Keys \ DOMAIN flows : sent[k] = 0 /\ sent[Reversed(k)] = 0

(* Bytes: the inductive invariant.                                         *)
BytesInv ==
  /\ capture \in Captures
  /\ DOMAIN flows \subseteq Keys
  /\ sent \in [Paths -> Nat]
  /\ FlowsHaveFields /\ OnlyFlowsSend /\ BytesByDirection

(* Answers change nothing of a flow but its name.                          *)
LEMMA AnswersKeep ==
  ASSUME NEW fs, \A k \in DOMAIN fs : IsFlow(fs[k]), NEW as
  PROVE  LET gs == AfterAnswers(fs, as)
         IN  /\ DOMAIN gs = DOMAIN fs
             /\ \A k \in DOMAIN fs :
                  /\ IsFlow(gs[k]) /\ gs[k].bytes = fs[k].bytes /\ gs[k].rtt = fs[k].rtt
                  /\ gs[k].synSeen = fs[k].synSeen /\ gs[k].synTime = fs[k].synTime
<1> DEFINE gs == AfterAnswers(fs, as)
<1>1. DOMAIN gs = DOMAIN fs
  BY DEF AfterAnswers
<1>2. ASSUME NEW k \in DOMAIN fs
      PROVE  /\ IsFlow(gs[k]) /\ gs[k].bytes = fs[k].bytes /\ gs[k].rtt = fs[k].rtt
             /\ gs[k].synSeen = fs[k].synSeen /\ gs[k].synTime = fs[k].synTime
  <2> DEFINE naming == {i \in Effective(as) : as[i].address \in Endpoints(k)}
  <2>1. gs[k] = IF naming = {} THEN fs[k]
                ELSE [fs[k] EXCEPT !.hostname = as[Highest(naming)].name]
    BY DEF AfterAnswers
  <2> HIDE DEF gs, naming
  <2>. QED
    BY <2>1 DEF IsFlow, Fields
<1>. QED
  BY <1>1, <1>2

(* A new flow has counted nothing and has no name.                         *)
LEMMA NewFlowIsEmpty ==
  ASSUME NEW t
  PROVE  /\ IsFlow(NewFlow(t)) /\ NewFlow(t).hostname = NoName
         /\ NewFlow(t).bytes = [d \in Directions |-> 0]
         /\ NewFlow(t).rtt = 0 /\ NewFlow(t).synSeen = FALSE
  BY DEF NewFlow, IsFlow, Fields

(* One packet adds its bytes to one row, in one direction.                 *)
LEMMA FeedKeepsBytes ==
  ASSUME BytesInv, NEW raw \in Traffic, NEW t, NEW name, NEW process,
         FeedPacket(raw, t, name, process), UNCHANGED capture
  PROVE  BytesInv'
<1> DEFINE p == Recovered(raw, name)
           key == KeyFor(p)
           d == Direction(p, key)
           gs == AfterAnswers(flows, p.answers)
           f == IF key \in DOMAIN gs THEN gs[key] ELSE NewFlow(t)
<1>1. /\ Path(p) = Path(raw) /\ key = KeyFor(raw) /\ p.length \in Nat
  BY RecoveredTravels
<1>2. PICK host : /\ flows' = AfterUpdate(gs, p, t, host, process)
                  /\ sent' = [sent EXCEPT ![Path(p)] = @ + p.length]
  BY DEF FeedPacket
<1>3. /\ DOMAIN gs = DOMAIN flows
      /\ \A k \in DOMAIN flows : IsFlow(gs[k]) /\ gs[k].bytes = flows[k].bytes
  BY AnswersKeep DEF BytesInv, FlowsHaveFields
<1>4. Path(p) \in Paths /\ key \in Keys \union {NoKey} /\ Keys \subseteq Paths
      /\ \A k \in Keys : Reversed(k) \in Paths
  BY <1>1 DEF Paths, Keys
<1>5. /\ sent' \in [Paths -> Nat]
      /\ \A r \in Paths : sent'[r] = IF r = Path(p) THEN sent[r] + p.length ELSE sent[r]
  <2> HIDE DEF p
  <2>. QED
    BY <1>1, <1>2, <1>4 DEF BytesInv
<1>6. \A k \in Keys \ {key} : sent'[k] = sent[k] /\ sent'[Reversed(k)] = sent[Reversed(k)]
  <2>1. \A k \in Keys \ {key} : Path(p) # k /\ Path(p) # Reversed(k)
    BY <1>1, PathIsOfOneKey
  <2> HIDE DEF p, key
  <2>. QED
    BY <2>1, <1>4, <1>5
<1>7. CASE key = NoKey
  <2>1. flows' = gs /\ key \notin Keys
    BY <1>2, <1>7 DEF AfterUpdate, Keys
  <2> HIDE DEF p, key, gs
  <2>. QED
    BY <1>3, <1>5, <1>6, <2>1 DEF BytesInv, FlowsHaveFields, OnlyFlowsSend, BytesByDirection
<1>8. CASE key # NoKey
  <2>1. flows' = [x \in DOMAIN gs \union {key} |->
                    IF x = key THEN Folded(f, p, d, t, host, process) ELSE gs[x]]
    BY <1>2, <1>8 DEF AfterUpdate
  <2>2. IsFlow(f) /\ d \in Directions
    BY <1>3, NewFlowIsEmpty DEF Direction, Directions
  <2>3. key \in Keys /\ (~IsDownstream(p, key) => Path(p) = key)
        /\ (IsDownstream(p, key) => Path(p) = Reversed(key))
    BY <1>4, <1>8, KeyIsPath
  <2>4. f.bytes = IF key \in DOMAIN flows THEN flows[key].bytes ELSE [x \in Directions |-> 0]
    BY <1>3, NewFlowIsEmpty
  <2>12. d = IF IsDownstream(p, key) THEN "down" ELSE "up"
    BY DEF Direction
  <2> HIDE DEF p, key, d, gs, f
  <2>13. FoldsTo(f, p, d, host, Folded(f, p, d, t, host, process))
    BY <2>2, Paragraphs
  <2>5. /\ IsFlow(flows'[key]) /\ flows'[key].bytes = [f.bytes EXCEPT ![d] = @ + p.length]
        /\ DOMAIN flows' = DOMAIN flows \union {key}
        /\ \A k \in DOMAIN flows \ {key} : IsFlow(flows'[k]) /\ flows'[k].bytes = flows[k].bytes
    BY <1>3, <2>1, <2>13 DEF FoldsTo
  <2>6. FlowsHaveFields' /\ OnlyFlowsSend' /\ (DOMAIN flows \subseteq Keys)'
    BY <1>6, <2>3, <2>5 DEF BytesInv, FlowsHaveFields, OnlyFlowsSend
  <2>7. ASSUME key.src # key.dst
        PROVE  /\ flows'[key].bytes["up"] = sent'[key]
               /\ flows'[key].bytes["down"] = sent'[Reversed(key)]
    <3>1. f.bytes["up"] = sent[key] /\ f.bytes["down"] = sent[Reversed(key)]
      BY <2>3, <2>4, <2>7 DEF BytesInv, BytesByDirection, OnlyFlowsSend, Directions
    <3>2. key # Reversed(key) /\ DOMAIN f.bytes = {"up", "down"}
      BY <2>2, <2>7 DEF Reversed, IsFlow, Directions
    <3>3. sent[key] \in Nat /\ sent[Reversed(key)] \in Nat
      BY <1>4, <2>3 DEF BytesInv
    <3>4. CASE IsDownstream(p, key)
      <4>1. d = "down" /\ Path(p) = Reversed(key)
        BY <2>3, <2>12, <3>4
      <4>2. /\ flows'[key].bytes["down"] = f.bytes["down"] + p.length
            /\ flows'[key].bytes["up"] = f.bytes["up"]
        BY <2>5, <3>2, <4>1
      <4>3. sent'[Reversed(key)] = sent[Reversed(key)] + p.length /\ sent'[key] = sent[key]
        BY <1>4, <1>5, <2>3, <3>2, <4>1
      <4>. QED
        BY <3>1, <4>2, <4>3
    <3>5. CASE ~IsDownstream(p, key)
      <4>1. d = "up" /\ Path(p) = key
        BY <2>3, <2>12, <3>5
      <4>2. /\ flows'[key].bytes["up"] = f.bytes["up"] + p.length
            /\ flows'[key].bytes["down"] = f.bytes["down"]
        BY <2>5, <3>2, <4>1
      <4>3. sent'[key] = sent[key] + p.length /\ sent'[Reversed(key)] = sent[Reversed(key)]
        BY <1>4, <1>5, <2>3, <3>2, <4>1
      <4>. QED
        BY <3>1, <4>2, <4>3
    <3>. QED
      BY <3>4, <3>5
  <2>8. ASSUME NEW k \in DOMAIN flows \ {key}, k.src # k.dst
        PROVE  flows'[k].bytes["up"] = sent'[k] /\ flows'[k].bytes["down"] = sent'[Reversed(k)]
    BY <1>6, <2>5, <2>8 DEF BytesInv, BytesByDirection
  <2>9. BytesByDirection'
    BY <2>5, <2>7, <2>8 DEF BytesByDirection
  <2>. QED
    BY <1>5, <2>6, <2>9 DEF BytesInv
<1>. QED
  BY <1>7, <1>8

(* The bytes of each row's two directions are those the two endpoints      *)
(* sent, for all traffic: whichever direction opened the flow, and         *)
(* whatever else shares a host or a port with it.                          *)
THEOREM BytesAreByDirection == SSpec => []BytesByDirection
<1>1. ASSUME SInit PROVE BytesInv
  BY <1>1 DEF SInit, FInit, BytesInv, FlowsHaveFields, OnlyFlowsSend, BytesByDirection, Paths
<1>2. ASSUME BytesInv, [SNext]_svars PROVE BytesInv'
  <2>1. ASSUME NEW raw \in capture.traffic, NEW t, NEW process, NEW name,
               FeedPacket(raw, t, name, process), UNCHANGED capture
        PROVE  BytesInv'
    <3>1. raw \in Traffic
      BY <1>2, <2>1, CapturesAssumption DEF BytesInv
    <3>. QED
      BY <1>2, <2>1, <3>1, FeedKeepsBytes
  <2>2. CASE ClearSession /\ UNCHANGED capture
    <3>1. flows' = <<>> /\ sent' = [r \in Paths |-> 0] /\ capture' \in Captures
      BY <1>2, <2>2 DEF ClearSession, Clear, BytesInv
    <3>. QED
      BY <3>1 DEF BytesInv, FlowsHaveFields, OnlyFlowsSend, BytesByDirection, Paths
  <2>3. CASE UNCHANGED svars
    BY <1>2, <2>3 DEF svars, fvars, BytesInv, FlowsHaveFields, OnlyFlowsSend, BytesByDirection
  <2>. QED
    BY <1>2, <2>1, <2>2, <2>3 DEF SNext
<1>3. BytesInv => BytesByDirection
  BY DEF BytesInv
<1>. QED
  BY <1>1, <1>2, <1>3, PTL DEF SSpec


---------------------------------------------------------------------------
(* Names.                                                                  *)

(* The cache holds names only.                                             *)
CacheNames == \A ip \in DOMAIN cache : cache[ip] # NoName

(* Names: the inductive invariant.                                         *)
NamesInv ==
  /\ IInv
  /\ FlowsHaveFields /\ CacheNames
  /\ KnownPeersAreNamed /\ NamesAreFromThisCapture /\ RowsAgree

(* The answers that concern flow k.                                        *)
Concerning(as, k) == {i \in Effective(as) : as[i].address \in Endpoints(k)}

(* Of several answers the last is one of them.                             *)
LEMMA HighestNaming ==
  ASSUME NEW as \in Seq(Answer), NEW S, S \subseteq Effective(as), S # {}
  PROVE  /\ Highest(S) \in S /\ Highest(S) \in 1 .. Len(as)
         /\ as[Highest(S)].name # NoName
<1>1. Effective(as) \subseteq 1 .. Len(as) /\ \A i \in Effective(as) : as[i].name # NoName
  BY DEF Effective
<1>2. Len(as) \in Nat
  BY LenProperties
<1>4. S \subseteq 1 .. Len(as)
  BY <1>1
<1>3. Highest(S) \in S
  BY <1>2, <1>4, HighestIsThere
<1>. QED
  BY <1>1, <1>3

(* What the cache knows is what it knew or what the answers say.           *)
Learns(c, as, new) ==
  /\ DOMAIN new = DOMAIN c \union {as[i].address : i \in Effective(as)}
  /\ \A ip \in DOMAIN new :
       \/ ip \in DOMAIN c /\ new[ip] = c[ip]
       \/ \E i \in 1 .. Len(as) : as[i].name # NoName /\ new[ip] = as[i].name

(* The cache keeps what it knows and learns what an answer names.          *)
LEMMA StoreLearns ==
  ASSUME NEW c, NEW as \in Seq(Answer)
  PROVE  Learns(c, as, Store(c, as))
<1>1. DOMAIN Store(c, as) = DOMAIN c \union {as[i].address : i \in Effective(as)}
  BY DEF Store
<1>2. ASSUME NEW ip \in DOMAIN Store(c, as)
      PROVE  \/ ip \in DOMAIN c /\ Store(c, as)[ip] = c[ip]
             \/ \E i \in 1 .. Len(as) : as[i].name # NoName /\ Store(c, as)[ip] = as[i].name
  <2> DEFINE naming == {i \in Effective(as) : as[i].address = ip}
  <2>1. Store(c, as)[ip] = IF naming = {} THEN c[ip] ELSE as[Highest(naming)].name
    BY <1>1 DEF Store
  <2>2. naming = {} => ip \in DOMAIN c
    BY <1>1
  <2>3. naming # {} => Highest(naming) \in 1 .. Len(as) /\ as[Highest(naming)].name # NoName
    BY HighestNaming
  <2>. QED
    BY <2>1, <2>2, <2>3
<1>. QED
  BY <1>1, <1>2 DEF Learns

(* A flow that an answer concerns takes its name; the others keep theirs.  *)
LEMMA AnswersName ==
  ASSUME NEW fs, NEW k \in DOMAIN fs, IsFlow(fs[k]), NEW as \in Seq(Answer)
  PROVE  LET g == AfterAnswers(fs, as)[k]
         IN  /\ Concerning(as, k) = {} => g = fs[k]
             /\ Concerning(as, k) # {} =>
                  /\ Highest(Concerning(as, k)) \in Concerning(as, k) \cap (1 .. Len(as))
                  /\ g.hostname = as[Highest(Concerning(as, k))].name
                  /\ g.hostname # NoName
<1> DEFINE naming == Concerning(as, k)
           g      == AfterAnswers(fs, as)[k]
<1>1. g = IF naming = {} THEN fs[k]
          ELSE [fs[k] EXCEPT !.hostname = as[Highest(naming)].name]
  BY DEF AfterAnswers, Concerning
<1>2. naming # {} => /\ Highest(naming) \in naming /\ Highest(naming) \in 1 .. Len(as)
                     /\ as[Highest(naming)].name # NoName
  BY HighestNaming DEF Concerning
<1>3. naming = {} => g = fs[k]
  BY <1>1
<1>4. naming # {} => g.hostname = as[Highest(naming)].name
  <2> HIDE DEF g, naming
  <2>. QED
    BY <1>1 DEF IsFlow, Fields
<1>. QED
  BY <1>2, <1>3, <1>4

(* What the log gains, the names heard gain.                               *)
LEMMA HeardGrows ==
  ASSUME LogIsSequence, NEW p, p.answers \in Seq(Answer), NEW t,
         log' = log \o AnswerLog(p) \o PacketLog(p, t)
  PROVE  /\ NamesHeard \subseteq NamesHeard'
         /\ p.sni \in NamesHeard' /\ p.host \in NamesHeard'
         /\ \A i \in 1 .. Len(p.answers) : p.answers[i].name \in NamesHeard'
<1>1. /\ PacketEvents' = PacketEvents \union {Len(log')}
      /\ log'[Len(log')].packet = p
      /\ Len(log) \in Nat /\ Len(log') = Len(log) + Len(p.answers) + 1
      /\ \A i \in 1 .. Len(log) : log'[i] = log[i]
      /\ \A i \in 1 .. Len(p.answers) : log'[Len(log) + i] = AnswerLog(p)[i]
  BY LogGrows DEF Appended
<1>2. PacketEvents \subseteq 1 .. Len(log) /\ AnswerEvents \subseteq 1 .. Len(log)
  BY DEF PacketEvents, AnswerEvents
<1>3. Len(p.answers) \in Nat
  OBVIOUS
<1>4. AnswerEvents \subseteq AnswerEvents'
  BY <1>1, <1>2, <1>3 DEF AnswerEvents
<1>5. ASSUME NEW i \in 1 .. Len(p.answers)
      PROVE  Len(log) + i \in AnswerEvents' /\ log'[Len(log) + i].name = p.answers[i].name
  <2>1. AnswerLog(p)[i].kind = "answer" /\ AnswerLog(p)[i].name = p.answers[i].name
    BY DEF AnswerLog
  <2>2. Len(log) + i \in 1 .. Len(log')
    BY <1>1, <1>3
  <2>. QED
    BY <1>1, <2>1, <2>2 DEF AnswerEvents
<1>6. \A i \in PacketEvents \union AnswerEvents : log'[i] = log[i]
  BY <1>1, <1>2
<1> DEFINE Own(i) == {log[i].packet.sni, log[i].packet.host}
           Owns == {Own(i) : i \in PacketEvents}
           Told == {log[i].name : i \in AnswerEvents}
<1>11. NamesHeard = (UNION Owns) \union Told /\ NamesHeard' = (UNION (Owns')) \union Told'
  BY DEF NamesHeard
<1>12. /\ \A i \in PacketEvents' : Own(i)' \in Owns'
       /\ \A i \in AnswerEvents' : log'[i].name \in Told'
  OBVIOUS
<1>13. /\ \A x \in UNION Owns : \E i \in PacketEvents : x \in Own(i)
       /\ \A x \in Told : \E i \in AnswerEvents : x = log[i].name
  OBVIOUS
<1>14. \A i \in PacketEvents' : log'[i].packet.sni \in Own(i)' /\ log'[i].packet.host \in Own(i)'
  OBVIOUS
<1>15. \A i \in PacketEvents : Own(i)' = Own(i)
  BY <1>6
<1> HIDE DEF Own, Owns, Told
<1>16. \A i \in PacketEvents' : Own(i)' \subseteq NamesHeard'
  BY <1>11, <1>12
<1>7. /\ \A i \in PacketEvents' : log'[i].packet.sni \in NamesHeard' /\ log'[i].packet.host \in NamesHeard'
      /\ \A i \in AnswerEvents' : log'[i].name \in NamesHeard'
  BY <1>11, <1>12, <1>14, <1>16
<1>8. NamesHeard \subseteq NamesHeard'
  <2> SUFFICES ASSUME NEW x \in NamesHeard PROVE x \in NamesHeard'
    OBVIOUS
  <2>1. CASE x \in UNION Owns
    <3>1. PICK i \in PacketEvents : x \in Own(i)
      BY <1>13, <2>1
    <3>2. i \in PacketEvents' /\ x \in Own(i)'
      BY <1>1, <1>15, <3>1
    <3>. QED
      BY <1>16, <3>2
  <2>2. CASE x \in Told
    BY <1>4, <1>6, <1>7, <1>13, <2>2
  <2>. QED
    BY <1>11, <2>1, <2>2
<1>9. p.sni \in NamesHeard' /\ p.host \in NamesHeard'
  BY <1>1, <1>7
<1>10. \A i \in 1 .. Len(p.answers) : p.answers[i].name \in NamesHeard'
  BY <1>5, <1>7
<1>. QED
  BY <1>8, <1>9, <1>10

(* The host chosen for a packet: what it says itself, then what the cache  *)
(* knows of either endpoint.                                               *)
LEMMA BestIs ==
  ASSUME NEW p, NEW c, \A ip \in DOMAIN c : c[ip] # NoName
  PROVE  LET b == BestHostname(p, c)
         IN  /\ p.sni # NoName => b = p.sni
             /\ p.sni = NoName /\ p.host # NoName => b = p.host
             /\ p.sni = NoName /\ p.host = NoName =>
                  b = NoName \/ \E ip \in DOMAIN c : b = c[ip]
             /\ p.dst.ip \in DOMAIN c \/ p.src.ip \in DOMAIN c => b # NoName
<1> DEFINE x == Lookup(c, p.dst.ip)
           y == Lookup(c, p.src.ip)
           u == p.sni
           v == p.host
<1>1. x = IF p.dst.ip \in DOMAIN c THEN c[p.dst.ip] ELSE NoName
  BY DEF Lookup
<1>2. y = IF p.src.ip \in DOMAIN c THEN c[p.src.ip] ELSE NoName
  BY DEF Lookup
<1>3. BestHostname(p, c) = FirstName(<<u, v, x, y>>)
  BY DEF BestHostname
<1> HIDE DEF x, y, u, v
<1>4. BestHostname(p, c) = IF u # NoName THEN u ELSE IF v # NoName THEN v
                           ELSE IF x # NoName THEN x ELSE y
  BY <1>3, FirstOfFour
<1>. QED
  BY <1>1, <1>2, <1>4 DEF u, v

(* The key's addresses are the packet's.                                   *)
LEMMA EndpointsOfKey ==
  ASSUME NEW p, KeyFor(p) # NoKey
  PROVE  Endpoints(KeyFor(p)) = {p.src.ip, p.dst.ip}
<1> DEFINE k == KeyFor(p)
<1>1. k = Path(p) \/ k = Reversed(p)
  BY KeyIsPath
<1>2. \/ k.src = p.src /\ k.dst = p.dst
      \/ k.src = p.dst /\ k.dst = p.src
  <2> HIDE DEF k
  <2>. QED
    BY <1>1 DEF Path, Reversed
<1> HIDE DEF k
<1>3. Endpoints(k) = {p.src.ip, p.dst.ip}
  BY <1>2 DEF Endpoints
<1>. QED
  BY <1>3 DEF k

(* What feed() makes of the names of the flows.                            *)
FoldsNames(p, host) ==
  /\ DOMAIN flows' = DOMAIN flows \union ({KeyFor(p)} \ {NoKey})
  /\ \A k \in DOMAIN flows' :
       LET known == IF k \in DOMAIN flows THEN AfterAnswers(flows, p.answers)[k].hostname
                    ELSE NoName
       IN  /\ IsFlow(flows'[k])
           /\ flows'[k].hostname = IF k = KeyFor(p) /\ host # NoName THEN host ELSE known

(* The names of all rows after one packet.                                 *)
LEMMA FeedFoldsNames ==
  ASSUME FlowsHaveFields, NoKey \notin DOMAIN flows,
         NEW raw \in Traffic, NEW t, NEW name, NEW process,
         FeedPacket(raw, t, name, process), CacheNames',
         NEW p, p = Recovered(raw, name), NEW host, host = BestHostname(p, cache')
  PROVE  FoldsNames(p, host)
<1> DEFINE key == KeyFor(p)
           d == Direction(p, key)
           gs == AfterAnswers(flows, p.answers)
           f == IF key \in DOMAIN gs THEN gs[key] ELSE NewFlow(t)
<1>1. flows' = AfterUpdate(gs, p, t, host, process)
  BY DEF FeedPacket
<1>2. DOMAIN gs = DOMAIN flows /\ \A k \in DOMAIN flows : IsFlow(gs[k])
  BY AnswersKeep DEF FlowsHaveFields
<1>3. CASE key = NoKey
  <2>1. flows' = gs
    BY <1>1, <1>3 DEF AfterUpdate
  <2>. QED
    BY <1>2, <1>3, <2>1 DEF FoldsNames
<1>4. CASE key # NoKey
  <2>1. flows' = [x \in DOMAIN gs \union {key} |->
                    IF x = key THEN Folded(f, p, d, t, host, process) ELSE gs[x]]
    BY <1>1, <1>4 DEF AfterUpdate
  <2>2. IsFlow(f) /\ d \in Directions
    BY <1>2, NewFlowIsEmpty DEF Direction, Directions
  <2>3. f.hostname = IF key \in DOMAIN flows THEN gs[key].hostname ELSE NoName
    BY <1>2, NewFlowIsEmpty
  <2>4. \A ip \in DOMAIN cache' : cache'[ip] # NoName
    BY DEF CacheNames
  <2>5. /\ p.sni # NoName => host = p.sni
        /\ p.sni = NoName /\ p.host # NoName => host = p.host
    BY <2>4, BestIs
  <2> HIDE DEF key, d, gs, f
  <2>6. FoldsTo(f, p, d, host, Folded(f, p, d, t, host, process))
    BY <2>2, Paragraphs
  <2>7. /\ IsFlow(flows'[key])
        /\ flows'[key].hostname = FirstName(<<p.sni, p.host, host, f.hostname>>)
        /\ DOMAIN flows' = DOMAIN flows \union {key}
        /\ \A k \in DOMAIN flows \ {key} : flows'[k] = gs[k]
    BY <1>2, <2>1, <2>6 DEF FoldsTo
  <2>8. flows'[key].hostname = IF host # NoName THEN host ELSE f.hostname
    <3>1. \A a, b, c, e : FirstName(<<a, b, c, e>>) =
             IF a # NoName THEN a ELSE IF b # NoName THEN b ELSE IF c # NoName THEN c ELSE e
      BY FirstOfFour
    <3>. QED
      BY <2>5, <2>7, <3>1
  <2>. QED
    BY <1>2, <1>4, <2>3, <2>7, <2>8 DEF FoldsNames, key, gs
<1>. QED
  BY <1>3, <1>4

(* One packet, with its answers, keeps every row named.                    *)
LEMMA FeedNames ==
  ASSUME NamesInv, NEW raw \in Traffic, NEW t, NEW name, NEW process,
         FeedPacket(raw, t, name, process), UNCHANGED capture
  PROVE  NamesInv'
<1>20. PICK p : p = Recovered(raw, name)
  OBVIOUS
<1>21. PICK host : host = BestHostname(p, cache')
  OBVIOUS
<1> DEFINE as == p.answers
           key == KeyFor(p)
           gs == AfterAnswers(flows, as)
<1>1. as \in Seq(Answer)
  BY <1>20, RecoveredSame
<1>2. /\ cache' = Store(cache, as)
      /\ log' = log \o AnswerLog(p) \o PacketLog(p, t)
      /\ result' = [key |-> key, hostname |-> host]
  BY <1>20, <1>21 DEF FeedPacket
<1>3. IInv'
  BY FeedStep DEF NamesInv
<1>4. /\ NamesHeard \subseteq NamesHeard'
      /\ p.sni \in NamesHeard' /\ p.host \in NamesHeard'
      /\ \A i \in 1 .. Len(as) : as[i].name \in NamesHeard'
  BY <1>1, <1>2, HeardGrows DEF NamesInv, IInv
<1>5. log'[Len(log')].packet = p
  BY <1>1, <1>2, LogGrows DEF NamesInv, IInv, Appended
<1>6. /\ DOMAIN cache' = DOMAIN cache \union {as[i].address : i \in Effective(as)}
      /\ \A ip \in DOMAIN cache' : cache'[ip] # NoName /\ cache'[ip] \in NamesHeard'
  <2>1. \A ip \in DOMAIN cache : cache[ip] # NoName /\ cache[ip] \in NamesHeard
    BY DEF NamesInv, CacheNames, NamesAreFromThisCapture
  <2> HIDE DEF as
  <2>2. Learns(cache, as, cache')
    BY <1>1, <1>2, StoreLearns
  <2>. QED
    BY <1>4, <2>1, <2>2 DEF Learns
<1>7. ASSUME NEW k \in DOMAIN flows
      PROVE  /\ gs[k].hostname \in NamesHeard' \union {NoName}
             /\ Endpoints(k) \cap DOMAIN cache' # {} => gs[k].hostname # NoName
  <2> DEFINE naming == Concerning(as, k)
  <2>1. IsFlow(flows[k])
    BY DEF NamesInv, FlowsHaveFields
  <2>2. /\ naming = {} => gs[k].hostname = flows[k].hostname
        /\ naming # {} => /\ Highest(naming) \in 1 .. Len(as)
                          /\ gs[k].hostname = as[Highest(naming)].name
                          /\ gs[k].hostname # NoName
    BY <1>1, <2>1, AnswersName
  <2>3. naming = {} => Endpoints(k) \cap DOMAIN cache' = Endpoints(k) \cap DOMAIN cache
    BY <1>6 DEF Concerning
  <2>4. /\ flows[k].hostname \in NamesHeard \union {NoName}
        /\ Endpoints(k) \cap DOMAIN cache # {} => flows[k].hostname # NoName
    BY DEF NamesInv, NamesAreFromThisCapture, KnownPeersAreNamed
  <2> HIDE DEF naming, gs, as
  <2>. QED
    BY <1>4, <2>1, <2>2, <2>3, <2>4
<1>8. CacheNames' /\ (\A ip \in DOMAIN cache : cache[ip] \in NamesHeard)'
  BY <1>6 DEF CacheNames
<1>9. /\ p.sni # NoName => host = p.sni
      /\ host \in NamesHeard' \union {NoName}
      /\ p.dst.ip \in DOMAIN cache' \/ p.src.ip \in DOMAIN cache' => host # NoName
  <2> DEFINE c == cache'
  <2>1. \A ip \in DOMAIN c : c[ip] # NoName /\ c[ip] \in NamesHeard'
    BY <1>6
  <2>3. host = BestHostname(p, c)
    BY <1>21
  <2> HIDE DEF c
  <2>2. /\ p.sni # NoName => host = p.sni
        /\ p.sni = NoName /\ p.host # NoName => host = p.host
        /\ p.sni = NoName /\ p.host = NoName =>
              host = NoName \/ \E ip \in DOMAIN c : host = c[ip]
        /\ p.dst.ip \in DOMAIN c \/ p.src.ip \in DOMAIN c => host # NoName
    BY <2>1, <2>3, BestIs
  <2>. QED
    BY <1>4, <2>1, <2>2 DEF c
<1>10. FoldsNames(p, host)
  BY <1>8, <1>20, <1>21, FeedFoldsNames DEF NamesInv, IInv, KeysSeen
<1>11. key # NoKey => Endpoints(key) = {p.src.ip, p.dst.ip}
  BY EndpointsOfKey
<1>12. ASSUME NEW k \in DOMAIN flows'
       PROVE  /\ IsFlow(flows'[k])
              /\ flows'[k].hostname \in NamesHeard' \union {NoName}
              /\ Endpoints(k) \cap DOMAIN cache' # {} => flows'[k].hostname # NoName
  <2> DEFINE known == IF k \in DOMAIN flows THEN gs[k].hostname ELSE NoName
  <2>1. /\ IsFlow(flows'[k])
        /\ flows'[k].hostname = IF k = key /\ host # NoName THEN host ELSE known
        /\ k \in DOMAIN flows \/ (k = key /\ key # NoKey)
    BY <1>10 DEF FoldsNames
  <2>2. /\ known \in NamesHeard' \union {NoName}
        /\ k \in DOMAIN flows /\ Endpoints(k) \cap DOMAIN cache' # {} => known # NoName
    BY <1>7
  <2> HIDE DEF known, key, gs, as
  <2>. QED
    BY <1>9, <1>11, <2>1, <2>2
<1>13. RowsAgree'
  <2>1. key # NoKey => key \in DOMAIN flows'
    BY <1>10 DEF FoldsNames
  <2>2. key # NoKey /\ host # NoName => flows'[key].hostname = host
    BY <1>10, <2>1 DEF FoldsNames
  <2> HIDE DEF key
  <2>. QED
    BY <1>2, <1>5, <1>9, <2>2 DEF RowsAgree
<1>. QED
  BY <1>3, <1>8, <1>12, <1>13
  DEF NamesInv, FlowsHaveFields, KnownPeersAreNamed, NamesAreFromThisCapture

(* An empty table has no unnamed row.                                      *)
LEMMA NamesStart == SInit => NamesInv
<1> SUFFICES ASSUME SInit PROVE NamesInv
  OBVIOUS
<1>1. flows = <<>> /\ cache = <<>> /\ result = NoResult /\ IInv
  BY InitIInv DEF SInit, FInit
<1>. QED
  BY <1>1 DEF NamesInv, FlowsHaveFields, CacheNames, KnownPeersAreNamed,
              NamesAreFromThisCapture, RowsAgree, NoResult

(* Every packet, and clear(), keeps the invariant.                         *)
LEMMA NamesStep == NamesInv /\ [SNext]_svars => NamesInv'
<1> SUFFICES ASSUME NamesInv, [SNext]_svars PROVE NamesInv'
  OBVIOUS
<1>1. ASSUME NEW raw \in capture.traffic, NEW t, NEW process, NEW name,
             FeedPacket(raw, t, name, process), UNCHANGED capture
      PROVE  NamesInv'
  <2>1. raw \in Traffic
    BY <1>1, CapturesAssumption DEF NamesInv, IInv
  <2>. QED
    BY <1>1, <2>1, FeedNames
<1>2. CASE ClearSession /\ UNCHANGED capture
  <2>1. flows' = <<>> /\ cache' = <<>> /\ result' = NoResult
    BY <1>2 DEF ClearSession, Clear, CacheAfterClear
  <2>2. IInv'
    BY <1>2, StepIInv DEF NamesInv, SNext
  <2>. QED
    BY <2>1, <2>2 DEF NamesInv, FlowsHaveFields, CacheNames, KnownPeersAreNamed,
              NamesAreFromThisCapture, RowsAgree, NoResult
<1>3. CASE UNCHANGED svars
  <2>1. IInv'
    BY <1>3, StepIInv DEF NamesInv
  <2>2. flows' = flows /\ log' = log /\ cache' = cache /\ result' = result
    BY <1>3 DEF svars, fvars
  <2>3. NamesHeard' = NamesHeard
    BY <2>2 DEF NamesHeard, PacketEvents, AnswerEvents
  <2>4. FlowsHaveFields' /\ CacheNames' /\ KnownPeersAreNamed' /\ RowsAgree'
    BY <2>2 DEF NamesInv, FlowsHaveFields, CacheNames, KnownPeersAreNamed, RowsAgree
  <2>5. NamesAreFromThisCapture'
    BY <2>2, <2>3 DEF NamesInv, NamesAreFromThisCapture
  <2>. QED
    BY <2>1, <2>4, <2>5 DEF NamesInv
<1>. QED
  BY <1>1, <1>2, <1>3 DEF SNext

(* The names are right in every state.                                     *)
LEMMA NamesAlways == SSpec => []NamesInv
  BY NamesStart, NamesStep, PTL DEF SSpec

(* A flow whose endpoint the session can name has a name, whether the DNS  *)
(* answer came before the flow or after it, for all traffic.               *)
THEOREM PeersAreNamed == SSpec => []KnownPeersAreNamed
<1>1. NamesInv => KnownPeersAreNamed
  BY DEF NamesInv
<1>. QED
  BY <1>1, NamesAlways, PTL

(* No name survives clear(), in a flow or in the cache, nor is one made up *)
(* of anything but what the packets since then said.                       *)
THEOREM NamesOfThisCapture == SSpec => []NamesAreFromThisCapture
<1>1. NamesInv => NamesAreFromThisCapture
  BY DEF NamesInv
<1>. QED
  BY <1>1, NamesAlways, PTL

(* The packet list and the flow list name the host of a packet alike.      *)
THEOREM RowsAlwaysAgree == SSpec => []RowsAgree
<1>1. NamesInv => RowsAgree
  BY DEF NamesInv
<1>. QED
  BY <1>1, NamesAlways, PTL


---------------------------------------------------------------------------
(* The last name.                                                          *)

(* The operation that created flow k, and those that named it since.       *)
Began(k) == CHOOSE i \in EventsOf(k) : \A j \in EventsOf(k) : i <= j

NamingOf(k) ==
  {i \in EventsOf(k) : NameFrom(i) # NoName} \union
  {i \in AnswerEvents : /\ i > Began(k) /\ NameFrom(i) # NoName
                        /\ log[i].address \in {k.src.ip, k.dst.ip}}

(* The name the log gives flow k.                                          *)
NameNow(k) == IF NamingOf(k) = {} THEN NoName ELSE NameFrom(Highest(NamingOf(k)))

(* NameIsLatestGiven, in these terms.                                      *)
LEMMA LatestIs ==
  NameIsLatestGiven <=> \A k \in DOMAIN flows : flows[k].hostname = NameNow(k)
  BY DEF NameIsLatestGiven, NameNow, NamingOf, Began

(* The cache knows of an address what DNS last said of it.                 *)
CacheIsLatest ==
  \A ip : ip # NoAddress => Lookup(cache, ip) = LastAnswer(ip, Len(log) + 1)

(* The latest name: the inductive invariant.                               *)
LatestInv ==
  /\ NamesInv /\ CacheIsLatest
  /\ \A k \in DOMAIN flows : flows[k].hostname = NameNow(k)

(* What DNS had said of an address, by operation i.                        *)
SaidOf(ip, i) ==
  {j \in AnswerEvents : /\ j < i /\ log[j].name # NoName
                        /\ log[j].address = ip}

(* How the log and what it names grow with one packet: from N events, with *)
(* n answers, to "last".                                                   *)
LogsNames(as, p, N, n, last) ==
  /\ N \in Nat /\ n \in Nat /\ last = N + n + 1
  /\ PacketEvents' = PacketEvents \union {last}
  /\ AnswerEvents' = AnswerEvents \union {N + i : i \in 1 .. n}
  /\ PacketEvents \subseteq 1 .. N /\ AnswerEvents \subseteq 1 .. N
  /\ \A i \in 1 .. N : log'[i] = log[i] /\ NameFrom(i)' = NameFrom(i)
  /\ \A i \in 1 .. n : /\ log'[N + i].address = as[i].address
                       /\ log'[N + i].name = as[i].name
                       /\ NameFrom(N + i)' = as[i].name
  /\ log'[last].packet = p
  /\ NameFrom(last)' = FirstName(<<p.sni, p.host, LastAnswer(p.dst.ip, last)',
                                                  LastAnswer(p.src.ip, last)'>>)

(* Which names an operation adds to the log.                               *)
LEMMA NamesLogged ==
  ASSUME LogIsSequence, NEW p, p.answers \in Seq(Answer), NEW t,
         log' = log \o AnswerLog(p) \o PacketLog(p, t),
         NEW N, N = Len(log), NEW n, n = Len(p.answers), NEW last, last = Len(log')
  PROVE  LogsNames(p.answers, p, N, n, last)
<1>1. /\ PacketEvents' = PacketEvents \union {last}
      /\ log'[last].packet = p
      /\ N \in Nat /\ last = N + n + 1
      /\ \A i \in 1 .. N : log'[i] = log[i]
      /\ \A i \in 1 .. n : log'[N + i] = AnswerLog(p)[i]
      /\ log'[last] = PacketEvent(p, t)
  <2>1. Appended(p, t)
    BY LogGrows
  <2>2. /\ PacketEvents' = PacketEvents \union {Len(log')}
        /\ log'[Len(log')].packet = p
        /\ Len(log) \in Nat /\ Len(log') = Len(log) + Len(p.answers) + 1
        /\ \A i \in 1 .. Len(log) : log'[i] = log[i]
        /\ \A i \in 1 .. Len(p.answers) : log'[Len(log) + i] = AnswerLog(p)[i]
        /\ log'[Len(log')] = PacketEvent(p, t)
    BY <2>1 DEF Appended
  <2>. QED
    BY <2>2, Zenon
<1>2. n \in Nat
  OBVIOUS
<1>3. PacketEvents \subseteq 1 .. N /\ AnswerEvents \subseteq 1 .. N
  BY DEF PacketEvents, AnswerEvents
<1>4. \A i \in 1 .. n : /\ AnswerLog(p)[i].kind = "answer"
                        /\ AnswerLog(p)[i].address = p.answers[i].address
                        /\ AnswerLog(p)[i].name = p.answers[i].name
  BY DEF AnswerLog
<1>5. log'[last].kind = "packet"
  BY <1>1 DEF PacketEvent
<1>6. AnswerEvents' = {i \in 1 .. last : log'[i].kind = "answer"}
      /\ AnswerEvents = {i \in 1 .. N : log[i].kind = "answer"}
  BY DEF AnswerEvents
<1>7. ASSUME NEW i
      PROVE  i \in AnswerEvents' <=> i \in AnswerEvents \union {N + j : j \in 1 .. n}
  <2>1. CASE i \in 1 .. N
    <3>1. i \in 1 .. last /\ i \notin {N + j : j \in 1 .. n}
      BY <1>1, <1>2, <2>1
    <3>. QED
      BY <1>1, <1>6, <2>1, <3>1
  <2>2. CASE i \in {N + j : j \in 1 .. n}
    <3>1. PICK j \in 1 .. n : i = N + j
      BY <2>2
    <3>2. log'[i].kind = "answer"
      BY <1>1, <1>4, <3>1, ZenonT(30)
    <3>3. i \in 1 .. last
      BY <1>1, <1>2, <3>1
    <3>. QED
      BY <1>6, <2>2, <3>2, <3>3
  <2>3. CASE i \notin 1 .. N /\ i \notin {N + j : j \in 1 .. n}
    <3>1. i \in 1 .. last => i = last
      <4> SUFFICES ASSUME i \in 1 .. last PROVE i = last
        OBVIOUS
      <4>1. i - N \in 1 .. n => i \in {N + j : j \in 1 .. n}
        <5>1. i = N + (i - N)
          BY <1>1
        <5>. QED
          BY <5>1
      <4>. QED
        BY <1>1, <1>2, <2>3, <4>1
    <3>. QED
      BY <1>5, <1>6, <2>3, <3>1
  <2>. QED
    BY <2>1, <2>2, <2>3
<1>8. AnswerEvents' = AnswerEvents \union {N + j : j \in 1 .. n}
  BY <1>7
<1>9. ASSUME NEW i \in 1 .. N PROVE log'[i] = log[i] /\ NameFrom(i)' = NameFrom(i)
  <2>1. \A j \in 1 .. N : j \in AnswerEvents' <=> j \in AnswerEvents
    BY <1>1, <1>2, <1>8
  <2>2. log'[i] = log[i]
    BY <1>1
  <2>3. ASSUME NEW ip PROVE LastAnswer(ip, i)' = LastAnswer(ip, i)
    <3> DEFINE S == SaidOf(ip, i)
    <3>1. S' = S
      <4>1. ASSUME NEW j PROVE j \in S' <=> j \in S
        <5>1. j \in AnswerEvents' /\ j < i => j \in 1 .. N
          BY <1>1, <1>2, <1>3, <1>8
        <5>2. j \in 1 .. N => log'[j] = log[j]
          BY <1>1
        <5>. QED
          BY <1>3, <2>1, <5>1, <5>2 DEF SaidOf
      <4>. QED
        BY <4>1
    <3>2. LastAnswer(ip, i) = (IF S = {} THEN NoName ELSE log[Highest(S)].name)
          /\ LastAnswer(ip, i)' = (IF S' = {} THEN NoName ELSE log'[Highest(S')].name)
      BY DEF LastAnswer, SaidOf, Highest
    <3>3. S \subseteq 1 .. N
      BY <1>3 DEF SaidOf
    <3> HIDE DEF S
    <3>4. S # {} => Highest(S) \in 1 .. N
      BY <1>1, <3>3, HighestIsThere
    <3>. QED
      BY <1>1, <3>1, <3>2, <3>4
  <2>4. i \in AnswerEvents' <=> i \in AnswerEvents
    BY <2>1
  <2>5. PICK q : q = log[i].packet
    OBVIOUS
  <2>6. /\ LastAnswer(q.dst.ip, i)' = LastAnswer(q.dst.ip, i)
        /\ LastAnswer(q.src.ip, i)' = LastAnswer(q.src.ip, i)
    BY <2>3
  <2>7. log'[i].packet = q
    BY <2>2, <2>5
  <2>. QED
    BY <2>2, <2>4, <2>5, <2>6, <2>7 DEF NameFrom
<1>10. ASSUME NEW i \in 1 .. n
       PROVE  /\ log'[N + i].address = p.answers[i].address
              /\ log'[N + i].name = p.answers[i].name
              /\ NameFrom(N + i)' = p.answers[i].name
  <2>1. N + i \in AnswerEvents'
    BY <1>8
  <2>. QED
    BY <1>1, <1>4, <2>1 DEF NameFrom
<1>11. NameFrom(last)' = FirstName(<<p.sni, p.host, LastAnswer(p.dst.ip, last)',
                                                   LastAnswer(p.src.ip, last)'>>)
  <2>1. last \notin AnswerEvents'
    BY <1>5, <1>6
  <2>. QED
    BY <1>1, <1>5, <2>1 DEF NameFrom
<1>. QED
  BY <1>1, <1>2, <1>3, <1>8, <1>9, <1>10, <1>11 DEF LogsNames

(* Nothing is known and nothing was said.                                  *)
LEMMA NothingSaid == log = <<>> /\ cache = <<>> => CacheIsLatest
<1> SUFFICES ASSUME log = <<>>, cache = <<>> PROVE CacheIsLatest
  OBVIOUS
<1>1. AnswerEvents = {} /\ DOMAIN cache = {}
  BY DEF AnswerEvents
<1>. QED
  BY <1>1 DEF CacheIsLatest, Lookup, LastAnswer

(* With the answers of a packet the cache learns what the log says.        *)
LEMMA CacheLearns ==
  ASSUME NEW as \in Seq(Answer), NEW p, NEW N, NEW last,
         LogsNames(as, p, N, Len(as), last), cache' = Store(cache, as),
         NEW ip, ip # NoAddress, Lookup(cache, ip) = LastAnswer(ip, N + 1),
         NEW i \in Nat, last <= i
  PROVE  LastAnswer(ip, i)' = Lookup(cache', ip)
<1> DEFINE naming == {j \in Effective(as) : as[j].address = ip}
           S == SaidOf(ip, N + 1)
           new == {N + j : j \in naming}
           T == SaidOf(ip, i)'
<1>12. PICK n : n = Len(as)
  OBVIOUS
<1>13. LogsNames(as, p, N, n, last)
  BY <1>12
<1>14. N \in Nat /\ n \in Nat /\ last = N + n + 1 /\ AnswerEvents \subseteq 1 .. N
  BY <1>13 DEF LogsNames
<1>15. last \in Nat /\ i \in Nat /\ N + n < i
  BY <1>14
<1>16. AnswerEvents' = AnswerEvents \union {N + j : j \in 1 .. n}
  BY <1>13 DEF LogsNames
<1>17. \A j \in 1 .. N : log'[j] = log[j]
  BY <1>13, Zenon DEF LogsNames
<1>18. \A j \in 1 .. n : log'[N + j].address = as[j].address /\ log'[N + j].name = as[j].name
  BY <1>13, Zenon DEF LogsNames
<1>2. naming \subseteq 1 .. n
  BY <1>12 DEF Effective
<1>3. \A j \in 1 .. n : j \in naming <=> as[j].address = ip /\ as[j].name # NoName
  BY <1>12 DEF Effective
<1>4. S \subseteq 1 .. N
  BY <1>14 DEF SaidOf
<1>5. ASSUME NEW j PROVE j \in T <=> j \in S \union new
  <2>1. j \in T <=> /\ j \in AnswerEvents' /\ j < i /\ log'[j].name # NoName
                    /\ log'[j].address = ip
    BY DEF SaidOf
  <2>2. j \in S <=> /\ j \in AnswerEvents /\ j < N + 1 /\ log[j].name # NoName
                    /\ log[j].address = ip
    BY DEF SaidOf
  <2> HIDE DEF S, T, naming
  <2>3. CASE j \in AnswerEvents
    <3>1. j \in 1 .. N /\ j < i /\ j < N + 1
      BY <1>14, <1>15, <2>3
    <3>4. log'[j] = log[j]
      BY <1>17, <3>1
    <3>2. j \notin new
      BY <1>2, <1>14, <3>1
    <3> HIDE DEF new
    <3>. QED
      BY <1>16, <2>1, <2>2, <2>3, <3>1, <3>2, <3>4
  <2>4. CASE \E x \in 1 .. n : j = N + x
    <3>1. PICK x \in 1 .. n : j = N + x
      BY <2>4
    <3>2. j < i /\ j \notin AnswerEvents
      BY <1>14, <1>15, <3>1
    <3>5. j \in AnswerEvents'
      BY <1>16, <3>1
    <3>3. j \in new <=> x \in naming
      BY <1>2, <1>14, <3>1
    <3>4. log'[j].address = as[x].address /\ log'[j].name = as[x].name
      BY <1>18, <3>1
    <3>6. x \in naming <=> as[x].address = ip /\ as[x].name # NoName
      BY <1>3
    <3> HIDE DEF new
    <3>. QED
      BY <2>1, <2>2, <3>2, <3>3, <3>4, <3>5, <3>6
  <2>5. CASE j \notin AnswerEvents /\ ~\E x \in 1 .. n : j = N + x
    <3>1. j \notin AnswerEvents' /\ j \notin new
      BY <1>2, <1>16, <2>5
    <3>. QED
      BY <2>1, <2>2, <2>5, <3>1
  <2>. QED
    BY <2>3, <2>4, <2>5
<1>6. T = S \union new
  BY <1>5
<1>7. LastAnswer(ip, i)' = (IF T = {} THEN NoName ELSE log'[Highest(T)].name)
      /\ LastAnswer(ip, N + 1) = (IF S = {} THEN NoName ELSE log[Highest(S)].name)
  BY DEF LastAnswer, SaidOf, Highest
<1>9. Lookup(cache', ip) = IF naming = {} THEN Lookup(cache, ip) ELSE as[Highest(naming)].name
  <2>1. DOMAIN cache' = DOMAIN cache \union {as[j].address : j \in Effective(as)}
    BY DEF Store
  <2>2. ip \in DOMAIN cache' =>
          cache'[ip] = IF naming = {} THEN cache[ip] ELSE as[Highest(naming)].name
    BY <2>1 DEF Store
  <2>3. ip \in DOMAIN cache' <=> ip \in DOMAIN cache \/ naming # {}
    BY <2>1
  <2> HIDE DEF naming
  <2>. QED
    BY <2>2, <2>3 DEF Lookup
<1>10. CASE naming = {}
  <2>1. T = S
    BY <1>6, <1>10
  <2> HIDE DEF S, T, naming
  <2>2. S # {} => Highest(S) \in 1 .. N
    BY <1>4, <1>14, HighestIsThere
  <2>3. S # {} => log'[Highest(S)] = log[Highest(S)]
    BY <1>17, <2>2
  <2>. QED
    BY <1>7, <1>9, <1>10, <2>1, <2>3
<1>11. CASE naming # {}
  <2> DEFINE top == Highest(naming)
  <2> HIDE DEF S, T, naming
  <2>1. top \in naming /\ \A j \in naming : j <= top
    BY <1>2, <1>11, <1>14, HighestIsThere
  <2>2. top \in 1 .. n
    BY <1>2, <2>1
  <2> HIDE DEF top
  <2>3. N + top \in T
    BY <1>6, <2>1
  <2>4. \A j \in T : j \in 1 .. last /\ j <= N + top
    BY <1>2, <1>4, <1>6, <1>14, <2>1, <2>2
  <2>5. Highest(T) = N + top
    BY <1>15, <2>3, <2>4, HighestIs
  <2>6. log'[N + top].name = as[top].name
    BY <1>18, <2>2
  <2>7. T # {} /\ LastAnswer(ip, i)' = log'[N + top].name
    BY <1>7, <2>3, <2>5
  <2>. QED
    BY <1>9, <1>11, <2>6, <2>7 DEF top
<1>. QED
  BY <1>10, <1>11

(* A conversation of which a packet was seen has two addresses.            *)
LEMMA KeyHasAddresses ==
  ASSUME NEW p, KeyFor(p) # NoKey
  PROVE  /\ NoAddress \notin Endpoints(KeyFor(p))
         /\ Endpoints(KeyFor(p)) = {KeyFor(p).src.ip, KeyFor(p).dst.ip}
<1>1. p.src.ip # NoAddress /\ p.dst.ip # NoAddress
  BY DEF KeyFor
<1>2. Endpoints(KeyFor(p)) = {p.src.ip, p.dst.ip}
  BY EndpointsOfKey
<1>. QED
  BY <1>1, <1>2 DEF Endpoints

(* One packet: the row's name and the log's last one move together.        *)
LEMMA FeedLatest ==
  ASSUME LatestInv, NamesInv', NEW raw \in Traffic, NEW t, NEW name, NEW process,
         FeedPacket(raw, t, name, process)
  PROVE  LatestInv'
<1>1. PICK p : p = Recovered(raw, name)
  OBVIOUS
<1>2. PICK host : host = BestHostname(p, cache')
  OBVIOUS
<1>3. PICK N, n, last : N = Len(log) /\ n = Len(p.answers) /\ last = Len(log')
  OBVIOUS
<1> DEFINE as == p.answers
           key == KeyFor(p)
           new(k) == {N + i : i \in Concerning(as, k)}
           own(k) == IF key = k /\ host # NoName THEN {last} ELSE {}
<1>4. as \in Seq(Answer)
  BY <1>1, RecoveredSame
<1>5. log' = log \o AnswerLog(p) \o PacketLog(p, t)
  BY <1>1, <1>2 DEF FeedPacket
<1>15. LogsNames(as, p, N, n, last)
  BY <1>3, <1>4, <1>5, NamesLogged DEF LatestInv, NamesInv, IInv
<1>6. /\ N \in Nat /\ n \in Nat /\ last = N + n + 1 /\ last \in Nat
      /\ PacketEvents' = PacketEvents \union {last}
      /\ AnswerEvents' = AnswerEvents \union {N + i : i \in 1 .. n}
      /\ PacketEvents \subseteq 1 .. N /\ AnswerEvents \subseteq 1 .. N
      /\ \A i \in 1 .. N : log'[i] = log[i] /\ NameFrom(i)' = NameFrom(i)
      /\ \A i \in 1 .. n : /\ log'[N + i].address = as[i].address
                           /\ log'[N + i].name = as[i].name
                           /\ NameFrom(N + i)' = as[i].name
      /\ log'[last].packet = p
      /\ NameFrom(last)' = FirstName(<<p.sni, p.host, LastAnswer(p.dst.ip, last)',
                                                      LastAnswer(p.src.ip, last)'>>)
  <2> HIDE DEF as
  <2>1. N \in Nat /\ n \in Nat /\ last = N + n + 1
    BY <1>15 DEF LogsNames
  <2>2. last \in Nat
    BY <2>1
  <2>. QED
    BY <1>15, <2>2, Zenon DEF LogsNames
<1>16. cache' = Store(cache, as)
  BY <1>1 DEF FeedPacket
<1>17. ASSUME NEW ip, ip # NoAddress, NEW i \in Nat, last <= i
       PROVE  LastAnswer(ip, i)' = Lookup(cache', ip)
  <2>1. Lookup(cache, ip) = LastAnswer(ip, N + 1)
    BY <1>3, <1>17 DEF LatestInv, CacheIsLatest
  <2>2. LogsNames(as, p, N, Len(as), last)
    BY <1>3, <1>15
  <2> HIDE DEF as
  <2>. QED
    BY <1>4, <1>16, <1>17, <2>1, <2>2, CacheLearns
<1>18. CacheIsLatest'
  <2>1. Len(log') = last
    BY <1>3
  <2>2. ASSUME NEW ip, ip # NoAddress
        PROVE  Lookup(cache', ip) = LastAnswer(ip, last + 1)'
    BY <1>6, <1>17, <2>2
  <2>. QED
    BY <2>1, <2>2 DEF CacheIsLatest, LastAnswer, Lookup
<1>7. key # NoKey => NameFrom(last)' = host
  <2> SUFFICES ASSUME key # NoKey PROVE NameFrom(last)' = host
    OBVIOUS
  <2>1. p.src.ip # NoAddress /\ p.dst.ip # NoAddress
    BY DEF KeyFor
  <2>2. /\ LastAnswer(p.dst.ip, last)' = Lookup(cache', p.dst.ip)
        /\ LastAnswer(p.src.ip, last)' = Lookup(cache', p.src.ip)
    BY <1>6, <1>17, <2>1
  <2>. QED
    BY <1>2, <1>6, <2>2 DEF BestHostname
<1>8. FoldsNames(p, host)
  BY <1>1, <1>2, FeedFoldsNames DEF LatestInv, NamesInv, IInv, KeysSeen
<1>9. ASSUME NEW k
      PROVE  EventsOf(k)' = EventsOf(k) \union (IF key = k THEN {last} ELSE {})
  <2>1. EventsOf(k)' = {i \in PacketEvents' : KeyFor(log'[i].packet) = k}
    BY DEF EventsOf
  <2> HIDE DEF as
  <2>2. \A i \in PacketEvents : log'[i] = log[i]
    BY <1>6
  <2>3. last \notin PacketEvents
    BY <1>6
  <2>. QED
    BY <1>6, <2>1, <2>2, <2>3 DEF EventsOf
<1>10. \A k : EventsOf(k) \subseteq 1 .. N
  BY <1>6 DEF EventsOf
<1>11. Concerning(as, key) \subseteq 1 .. n /\ \A k : Concerning(as, k) \subseteq 1 .. n
  BY <1>3 DEF Concerning, Effective
<1>12. ASSUME NEW k \in DOMAIN flows
       PROVE  NamingOf(k)' = NamingOf(k) \union new(k) \union own(k)
              /\ NamingOf(k) \subseteq 1 .. N
  <2>1. EventsOf(k) # {} /\ NoAddress \notin Endpoints(k) /\ Endpoints(k) = {k.src.ip, k.dst.ip}
    <3>1. PICK i \in PacketEvents : k = KeyFor(log[i].packet) /\ k # NoKey
      BY DEF LatestInv, NamesInv, IInv, KeysSeen
    <3>. QED
      BY <3>1, KeyHasAddresses DEF EventsOf
  <2>2. PICK b \in EventsOf(k) : \A i \in EventsOf(k) : b <= i
    BY <1>6, <1>10, <2>1, LeastIsThere
  <2>3. b \in 1 .. N /\ Began(k) = b
    <3>1. \A i \in EventsOf(k) : (\A j \in EventsOf(k) : i <= j) => i = b
      BY <1>10, <2>2
    <3>2. b \in 1 .. N
      BY <1>10
    <3>. QED
      BY <2>2, <3>1, <3>2 DEF Began
  <2>4. Began(k)' = b
    <3> DEFINE E == EventsOf(k)'
    <3>1. E = EventsOf(k) \union (IF key = k THEN {last} ELSE {})
      BY <1>9
    <3>2. E \subseteq 1 .. last /\ b \in E /\ \A i \in E : b <= i
      BY <1>6, <1>10, <2>2, <2>3, <3>1
    <3>3. Began(k)' = CHOOSE i \in E : \A j \in E : i <= j
      BY DEF Began
    <3> HIDE DEF E
    <3>4. \A i \in E : (\A j \in E : i <= j) => i = b
      BY <3>2
    <3>. QED
      BY <3>2, <3>3, <3>4
  <2>5. /\ NamingOf(k)' = {i \in EventsOf(k)' : NameFrom(i)' # NoName} \union
             {i \in AnswerEvents' : /\ i > b /\ NameFrom(i)' # NoName
                                    /\ log'[i].address \in Endpoints(k)}
        /\ NamingOf(k) = {i \in EventsOf(k) : NameFrom(i) # NoName} \union
             {i \in AnswerEvents : /\ i > b /\ NameFrom(i) # NoName
                                   /\ log[i].address \in Endpoints(k)}
    BY <2>1, <2>3, <2>4 DEF NamingOf
  <2>6. NamingOf(k) \subseteq 1 .. N
    BY <1>6, <1>10, <2>5
  <2>7. ASSUME NEW i \in 1 .. N PROVE i \in NamingOf(k)' <=> i \in NamingOf(k)
    <3>1. /\ i \in EventsOf(k)' <=> i \in EventsOf(k)
          /\ i \in AnswerEvents' <=> i \in AnswerEvents
          /\ log'[i] = log[i] /\ NameFrom(i)' = NameFrom(i)
      BY <1>6, <1>9
    <3>. QED
      BY <2>5, <3>1
  <2>8. ASSUME NEW j \in 1 .. n PROVE N + j \in NamingOf(k)' <=> j \in Concerning(as, k)
    <3>1. /\ N + j \in AnswerEvents' /\ N + j \notin EventsOf(k)' /\ N + j > b
          /\ NameFrom(N + j)' = as[j].name /\ log'[N + j].address = as[j].address
      BY <1>6, <1>9, <1>10, <2>3
    <3>2. j \in Concerning(as, k) <=> as[j].name # NoName /\ as[j].address \in Endpoints(k)
      BY <1>3, <2>1 DEF Concerning, Effective
    <3>. QED
      BY <2>5, <3>1, <3>2
  <2>9. last \in NamingOf(k)' <=> key = k /\ host # NoName
    <3>1. last \notin AnswerEvents' /\ (last \in EventsOf(k)' <=> key = k)
      BY <1>6, <1>9, <1>10
    <3>2. k # NoKey
      BY DEF LatestInv, NamesInv, IInv, KeysSeen
    <3>. QED
      BY <1>7, <2>5, <3>1, <3>2
  <2>10. NamingOf(k)' \subseteq 1 .. last
    <3>1. \A i \in (1 .. N) \union {last} : i \in 1 .. last
      BY <1>6
    <3>2. \A i \in 1 .. n : N + i \in 1 .. last
      BY <1>6
    <3>3. EventsOf(k)' \subseteq 1 .. last
      BY <1>9, <1>10, <3>1
    <3>4. AnswerEvents' \subseteq 1 .. last
      BY <1>6, <3>1, <3>2, ZenonT(30)
    <3>. QED
      BY <2>5, <3>3, <3>4
  <2>11. ASSUME NEW i PROVE i \in NamingOf(k)' <=> i \in NamingOf(k) \union new(k) \union own(k)
    <3>1. i \in 1 .. last <=> i \in 1 .. N \/ (\E j \in 1 .. n : i = N + j) \/ i = last
      <4>1. i \in 1 .. last /\ i \notin 1 .. N /\ i # last =>
              i - N \in 1 .. n /\ i = N + (i - N)
        BY <1>6
      <4>. QED
        BY <1>6, <4>1
    <3>2. i \in 1 .. N => i \notin new(k) /\ i \notin own(k)
      BY <1>6, <1>11
    <3>3. \A j \in 1 .. n : i = N + j =>
            i \notin 1 .. N /\ i # last /\ (i \in new(k) <=> j \in Concerning(as, k))
      BY <1>6, <1>11
    <3>4. i = last => i \notin 1 .. N /\ i \notin new(k) /\ (i \in own(k) <=> key = k /\ host # NoName)
      BY <1>6, <1>11
    <3>5. i \in own(k) => i = last
      OBVIOUS
    <3>6. i \in new(k) => \E j \in 1 .. n : i = N + j
      BY <1>11
    <3> HIDE DEF new, own, as, key
    <3>. QED
      BY <2>6, <2>7, <2>8, <2>9, <2>10, <3>1, <3>2, <3>3, <3>4, <3>5, <3>6
  <2>. QED
    BY <2>6, <2>11
<1>13. ASSUME NEW k \in DOMAIN flows
       PROVE  flows'[k].hostname = NameNow(k)'
  <2> DEFINE gs == AfterAnswers(flows, as)
             S == NamingOf(k)'
             h == Highest(S)
  <2>1. flows'[k].hostname = IF k = key /\ host # NoName THEN host ELSE gs[k].hostname
    BY <1>8 DEF FoldsNames
  <2>2. flows[k].hostname = NameNow(k) /\ IsFlow(flows[k])
    BY DEF LatestInv, NamesInv, FlowsHaveFields
  <2>3. S = NamingOf(k) \union new(k) \union own(k) /\ NamingOf(k) \subseteq 1 .. N
    BY <1>12
  <2>4. \A i : i = h => NameNow(k)' = IF S = {} THEN NoName ELSE NameFrom(i)'
    BY DEF NameNow, NameFrom
  <2>5. CASE k = key /\ host # NoName
    <3>1. last \in S /\ S \subseteq 1 .. last /\ \A i \in S : i <= last
      BY <1>6, <1>11, <2>3, <2>5
    <3> HIDE DEF S
    <3>3. last \in Nat
      BY <1>6
    <3>2. h = last
      BY <3>1, <3>3, HighestIs
    <3>4. key # NoKey
      BY <2>5 DEF LatestInv, NamesInv, IInv, KeysSeen
    <3>. QED
      BY <1>7, <2>1, <2>4, <2>5, <3>1, <3>2, <3>4
  <2>6. CASE ~(k = key /\ host # NoName) /\ Concerning(as, k) # {}
    <3> DEFINE top == Highest(Concerning(as, k))
    <3>1. /\ top \in Concerning(as, k) /\ top \in 1 .. n
          /\ gs[k].hostname = as[top].name
      BY <1>3, <1>4, <2>2, <2>6, AnswersName
    <3>2. \A i \in Concerning(as, k) : i <= top
      BY <1>6, <1>11, <2>6, HighestIsThere
    <3> HIDE DEF top
    <3>3. N + top \in S /\ S \subseteq 1 .. last /\ \A i \in S : i <= N + top
      BY <1>6, <1>11, <2>3, <2>6, <3>1, <3>2
    <3> HIDE DEF S
    <3>5. last \in Nat
      BY <1>6
    <3>4. h = N + top
      BY <3>3, <3>5, HighestIs
    <3>. QED
      BY <1>6, <2>1, <2>4, <2>6, <3>1, <3>3, <3>4
  <2>7. CASE ~(k = key /\ host # NoName) /\ Concerning(as, k) = {}
    <3>1. S = NamingOf(k)
      BY <2>3, <2>7
    <3>2. gs[k] = flows[k]
      BY <1>4, <2>2, <2>7, AnswersName
    <3>3. S # {} => h \in 1 .. N
      BY <1>6, <2>3, <3>1, HighestIsThere
    <3>4. NameNow(k) = IF S = {} THEN NoName ELSE NameFrom(h)
      BY <3>1 DEF NameNow
    <3> HIDE DEF S
    <3>. QED
      BY <1>6, <2>1, <2>2, <2>4, <2>7, <3>2, <3>3, <3>4
  <2>. QED
    BY <2>5, <2>6, <2>7
<1>14. ASSUME NEW k \in DOMAIN flows', k \notin DOMAIN flows
       PROVE  flows'[k].hostname = NameNow(k)'
  <2>1. k = key /\ k # NoKey /\ flows'[k].hostname = host
    BY <1>8, <1>14 DEF FoldsNames
  <2>2. EventsOf(k) = {}
    BY <1>14, <2>1 DEF EventsOf, LatestInv, NamesInv, IInv, KeysSeen
  <2> DEFINE E == EventsOf(k)'
             S == NamingOf(k)'
             h == Highest(S)
  <2>3. E = {last}
    BY <1>9, <2>1, <2>2
  <2>4. Began(k)' = CHOOSE i \in E : \A j \in E : i <= j
    BY DEF Began
  <2>5. Began(k)' = last
    <3> HIDE DEF E
    <3>. QED
      BY <1>6, <2>3, <2>4
  <2>6. S = {i \in E : NameFrom(i)' # NoName} \union
             {i \in AnswerEvents' : /\ i > last /\ NameFrom(i)' # NoName
                                    /\ log'[i].address \in Endpoints(k)}
    BY <2>5 DEF NamingOf, Endpoints
  <2>7. \A i \in AnswerEvents' : ~(i > last)
    <3>1. /\ N \in Nat /\ n \in Nat /\ last = N + n + 1 /\ AnswerEvents \subseteq 1 .. N
          /\ AnswerEvents' = AnswerEvents \union {N + i : i \in 1 .. n}
      BY <1>6
    <3>. QED
      BY <3>1
  <2>8. S = IF host # NoName THEN {last} ELSE {}
    <3> HIDE DEF E, S
    <3>. QED
      BY <1>7, <2>1, <2>3, <2>6, <2>7
  <2>9. \A i : i = h => NameNow(k)' = IF S = {} THEN NoName ELSE NameFrom(i)'
    BY DEF NameNow, NameFrom
  <2> HIDE DEF S, E
  <2>10. host # NoName => h = last
    <3> SUFFICES ASSUME host # NoName PROVE h = last
      OBVIOUS
    <3>1. last \in S /\ S \subseteq 1 .. last /\ \A i \in S : i <= last
      BY <1>6, <2>8
    <3>2. last \in Nat
      BY <1>6
    <3>. QED
      BY <3>1, <3>2, HighestIs
  <2>. QED
    BY <1>7, <2>1, <2>8, <2>9, <2>10
<1>. QED
  BY <1>13, <1>14, <1>18 DEF LatestInv

(* The name of a row is what the last operation on it gave, by the         *)
(* packet's own names and by what DNS last said of the two addresses,      *)
(* however packets and answers alternate.                                  *)
THEOREM NamesAreLatest == SSpec => []NameIsLatestGiven
<1>1. SInit => LatestInv
  <2> SUFFICES ASSUME SInit PROVE LatestInv
    OBVIOUS
  <2>1. log = <<>> /\ cache = <<>> /\ flows = <<>>
    BY DEF SInit, FInit
  <2>2. NamesInv /\ DOMAIN flows = {}
    BY <2>1, NamesStart
  <2>. QED
    BY <2>1, <2>2, NothingSaid DEF LatestInv
<1>2. LatestInv /\ [SNext]_svars => LatestInv'
  <2> SUFFICES ASSUME LatestInv, [SNext]_svars PROVE LatestInv'
    OBVIOUS
  <2>1. NamesInv'
    BY NamesStep DEF LatestInv
  <2>2. ASSUME NEW raw \in capture.traffic, NEW t, NEW process, NEW name,
               FeedPacket(raw, t, name, process)
        PROVE  LatestInv'
    <3>1. raw \in Traffic
      BY <2>2, CapturesAssumption DEF LatestInv, NamesInv, IInv
    <3>. QED
      BY <2>1, <2>2, <3>1, FeedLatest
  <2>3. CASE ClearSession
    <3>1. log' = <<>> /\ cache' = <<>> /\ DOMAIN flows' = {}
      BY <2>3 DEF ClearSession, Clear, CacheAfterClear
    <3>2. (log = <<>> /\ cache = <<>> => CacheIsLatest)'
      BY NothingSaid, PTL
    <3>. QED
      BY <2>1, <3>1, <3>2 DEF LatestInv
  <2>4. CASE UNCHANGED svars
    <3>1. flows' = flows /\ log' = log /\ cache' = cache
      BY <2>4 DEF svars, fvars
    <3>4. AnswerEvents' = AnswerEvents /\ PacketEvents' = PacketEvents
      BY <3>1 DEF AnswerEvents, PacketEvents
    <3>5. ASSUME NEW ip, NEW i PROVE LastAnswer(ip, i)' = LastAnswer(ip, i)
      BY <3>1, <3>4 DEF LastAnswer, Highest
    <3>6. ASSUME NEW i PROVE NameFrom(i)' = NameFrom(i)
      <4>1. PICK q : q = log[i].packet
        OBVIOUS
      <4>2. /\ LastAnswer(q.dst.ip, i)' = LastAnswer(q.dst.ip, i)
            /\ LastAnswer(q.src.ip, i)' = LastAnswer(q.src.ip, i)
        BY <3>5
      <4>. QED
        BY <3>1, <3>4, <4>1, <4>2 DEF NameFrom
    <3>2. ASSUME NEW k PROVE NameNow(k)' = NameNow(k)
      <4>1. EventsOf(k)' = EventsOf(k)
        BY <3>1, <3>4 DEF EventsOf
      <4>2. Began(k)' = Began(k)
        BY <4>1 DEF Began
      <4>3. NamingOf(k)' = NamingOf(k)
        BY <3>1, <3>4, <3>6, <4>1, <4>2 DEF NamingOf
      <4>4. PICK h : h = Highest(NamingOf(k))
        OBVIOUS
      <4>5. Highest(NamingOf(k))' = h
        BY <4>3, <4>4 DEF Highest
      <4>6. NameFrom(h)' = NameFrom(h)
        BY <3>6
      <4>. QED
        BY <4>3, <4>4, <4>5, <4>6 DEF NameNow
    <3>3. CacheIsLatest'
      <4>1. PICK n : n = Len(log) + 1
        OBVIOUS
      <4>2. Len(log') + 1 = n
        BY <3>1, <4>1
      <4>3. ASSUME NEW ip, ip # NoAddress PROVE Lookup(cache', ip) = LastAnswer(ip, n)'
        <5>1. Lookup(cache, ip) = LastAnswer(ip, n)
          BY <4>1, <4>3 DEF LatestInv, CacheIsLatest
        <5>2. LastAnswer(ip, n)' = LastAnswer(ip, n)
          BY <3>5
        <5>. QED
          BY <3>1, <5>1, <5>2
      <4>. QED
        BY <4>2, <4>3 DEF CacheIsLatest
    <3>. QED
      BY <2>1, <3>1, <3>2, <3>3 DEF LatestInv
  <2>. QED
    BY <2>2, <2>3, <2>4 DEF SNext
<1>3. LatestInv => NameIsLatestGiven
  BY LatestIs DEF LatestInv
<1>. QED
  BY <1>1, <1>2, <1>3, PTL DEF SSpec


---------------------------------------------------------------------------
(* The round-trip time.                                                    *)

(* When update() starts the timer of flow f, and when it stops it.         *)
Starts(f, p, d) ==
  p.proto = "TCP" /\ f.rtt = 0 /\ p.flags.syn /\ ~p.flags.ack /\ d = "up" /\ ~f.synSeen

Ends(f, p, d, t) ==
  /\ p.proto = "TCP" /\ f.rtt = 0 /\ p.flags.syn /\ p.flags.ack
  /\ d = "down" /\ f.synSeen /\ t > f.synTime

(* What update() makes of a flow's timer.                                  *)
FoldsTimer(f, p, d, t, g) ==
  /\ g.rtt = IF Ends(f, p, d, t) THEN t - f.synTime ELSE f.rtt
  /\ g.synSeen = IF Starts(f, p, d) THEN TRUE ELSE f.synSeen
  /\ g.synTime = IF Starts(f, p, d) THEN t ELSE f.synTime

(* Only one paragraph of update() touches the timer.                       *)
LEMMA TimerParagraphs ==
  ASSUME NEW f, IsFlow(f), NEW p, NEW d \in Directions, NEW t, NEW host, NEW process
  PROVE  FoldsTimer(f, p, d, t, Folded(f, p, d, t, host, process))
<1> DEFINE a == Counted(f, p, d, t)
           b == Timed(a, p, d, t)
           c == Sequenced(b, p, d)
           e == Reset(c, p)
           g == Named(e, p, host, process)
           h == Sampled(g, p, t)
           Same(x, y) == /\ DOMAIN x = Fields /\ x.rtt = y.rtt
                         /\ x.synSeen = y.synSeen /\ x.synTime = y.synTime
<1>1. Same(a, f)
  BY DEF Counted, IsFlow, Fields
<1>2. DOMAIN b = Fields /\ FoldsTimer(f, p, d, t, b)
  <2>1. DOMAIN a = Fields
    BY <1>1
  <2>2. a.rtt = f.rtt /\ a.synSeen = f.synSeen /\ a.synTime = f.synTime
    BY <1>1
  <2> HIDE DEF a
  <2>3. CASE Ends(f, p, d, t)
    <3>1. b = [a EXCEPT !.rtt = t - a.synTime] /\ ~Starts(f, p, d)
      BY <2>2, <2>3 DEF Timed, Ends, Starts
    <3> HIDE DEF b
    <3>. QED
      BY <2>1, <2>2, <2>3, <3>1 DEF FoldsTimer, Fields
  <2>4. CASE Starts(f, p, d)
    <3>1. b = [a EXCEPT !.synSeen = TRUE, !.synTime = t] /\ ~Ends(f, p, d, t)
      BY <2>2, <2>4 DEF Timed, Ends, Starts
    <3> HIDE DEF b
    <3>. QED
      BY <2>1, <2>2, <2>4, <3>1 DEF FoldsTimer, Fields
  <2>5. CASE ~Ends(f, p, d, t) /\ ~Starts(f, p, d)
    <3>1. b = a
      BY <2>2, <2>5 DEF Timed, Ends, Starts
    <3> HIDE DEF b
    <3>. QED
      BY <2>1, <2>2, <2>5, <3>1 DEF FoldsTimer
  <2>. QED
    BY <2>3, <2>4, <2>5
<1>3. Same(c, b)
  <2> HIDE DEF a, b
  <2>. QED
    BY <1>2 DEF Sequenced, Fields
<1>4. Same(e, c)
  <2> HIDE DEF a, b, c
  <2>. QED
    BY <1>3 DEF Reset, Fields
<1>5. Same(g, e)
  <2> HIDE DEF a, b, c, e
  <2>. QED
    BY <1>4 DEF Named, Fields
<1>6. Same(h, g)
  <2> HIDE DEF a, b, c, e, g
  <2>. QED
    BY <1>5 DEF Sampled, Fields
<1>7. Folded(f, p, d, t, host, process) = h
  BY DEF Folded
<1> HIDE DEF a, b, c, e, g, h
<1>. QED
  BY <1>2, <1>3, <1>4, <1>5, <1>6, <1>7 DEF FoldsTimer

(* The client's SYNs in flow k.                                            *)
Syns(k) == {i \in EventsOf(k) : Opens(i, k)}

(* Flow f's timer is idle, runs since the first SYN, or was stopped by     *)
(* the first answer to it.                                                 *)
TimerOf(k, f) ==
  \/ Syns(k) = {} /\ f.rtt = 0 /\ f.synSeen = FALSE
  \/ \E m \in Syns(k) :
       /\ \A i \in Syns(k) : m <= i
       /\ \/ /\ \A j \in EventsOf(k) : ~Answers(j, m, k)
             /\ f.rtt = 0 /\ f.synSeen = TRUE /\ f.synTime = log[m].time
          \/ \E j \in EventsOf(k) :
               /\ Answers(j, m, k)
               /\ \A i \in EventsOf(k) : Answers(i, m, k) => j <= i
               /\ f.rtt = log[j].time - log[m].time

(* Such a timer shows what RttIsFirstHandshake asks for.                   *)
LEMMA TimerIsRtt ==
  ASSUME NEW k \in DOMAIN flows, TimerOf(k, flows[k]), EventsOf(k) \subseteq Nat
  PROVE  LET syns  == {i \in EventsOf(k) : Opens(i, k)}
             pairs == {ij \in syns \X EventsOf(k) :
                         (\A x \in syns : ij[1] <= x) /\ Answers(ij[2], ij[1], k)}
         IN  IF pairs = {} THEN flows[k].rtt = 0
             ELSE \E ij \in pairs :
                    /\ \A other \in pairs : ij[2] <= other[2]
                    /\ flows[k].rtt = log[ij[2]].time - log[ij[1]].time
<1> DEFINE syns == {i \in EventsOf(k) : Opens(i, k)}
           pairs == {ij \in syns \X EventsOf(k) :
                       (\A x \in syns : ij[1] <= x) /\ Answers(ij[2], ij[1], k)}
<1>1. syns = Syns(k) /\ syns \subseteq EventsOf(k)
  BY DEF Syns
<1>2. \A i, j : <<i, j>> \in pairs <=> /\ i \in syns /\ j \in EventsOf(k)
                                       /\ \A x \in syns : i <= x
                                       /\ Answers(j, i, k)
  OBVIOUS
<1>3. \A ij \in pairs : \E i \in syns, j \in EventsOf(k) : ij = <<i, j>>
  OBVIOUS
<1> DEFINE Goal == IF pairs = {} THEN flows[k].rtt = 0
                   ELSE \E ij \in pairs :
                          /\ \A other \in pairs : ij[2] <= other[2]
                          /\ flows[k].rtt = log[ij[2]].time - log[ij[1]].time
<1> SUFFICES Goal
  OBVIOUS
<1> HIDE DEF syns, pairs
<1>4. CASE syns = {} /\ flows[k].rtt = 0
  <2>1. pairs = {}
    BY <1>3, <1>4
  <2>. QED
    BY <1>4, <2>1
<1>5. CASE syns # {}
  <2>1. PICK m \in syns : /\ \A i \in syns : m <= i
       /\ \/ /\ \A j \in EventsOf(k) : ~Answers(j, m, k)
             /\ flows[k].rtt = 0
          \/ \E j \in EventsOf(k) :
               /\ Answers(j, m, k)
               /\ \A i \in EventsOf(k) : Answers(i, m, k) => j <= i
               /\ flows[k].rtt = log[j].time - log[m].time
    BY <1>1, <1>5 DEF TimerOf
  <2>2. \A i \in syns : (\A x \in syns : i <= x) => i = m
    BY <1>1, <2>1
  <2>3. CASE flows[k].rtt = 0 /\ \A j \in EventsOf(k) : ~Answers(j, m, k)
    <3>1. pairs = {}
      BY <1>2, <1>3, <2>2, <2>3
    <3>. QED
      BY <2>3, <3>1
  <2>4. CASE \E j \in EventsOf(k) :
               /\ Answers(j, m, k)
               /\ \A i \in EventsOf(k) : Answers(i, m, k) => j <= i
               /\ flows[k].rtt = log[j].time - log[m].time
    <3>1. PICK j \in EventsOf(k) :
               /\ Answers(j, m, k)
               /\ \A i \in EventsOf(k) : Answers(i, m, k) => j <= i
               /\ flows[k].rtt = log[j].time - log[m].time
      BY <2>4
    <3>2. <<m, j>> \in pairs
      BY <1>2, <2>1, <3>1
    <3>3. \A other \in pairs : j <= other[2]
      <4> SUFFICES ASSUME NEW other \in pairs PROVE j <= other[2]
        OBVIOUS
      <4>1. PICK i \in syns, x \in EventsOf(k) : other = <<i, x>>
        BY <1>3
      <4>2. i = m /\ Answers(x, m, k)
        BY <1>2, <2>2, <4>1
      <4>. QED
        BY <3>1, <4>1, <4>2
    <3>4. \E ij \in pairs : /\ \A other \in pairs : ij[2] <= other[2]
                            /\ flows[k].rtt = log[ij[2]].time - log[ij[1]].time
      <4>1. <<m, j>>[1] = m /\ <<m, j>>[2] = j
        OBVIOUS
      <4>. QED
        BY <3>1, <3>2, <3>3, <4>1
    <3>5. pairs # {}
      BY <3>2
    <3>. QED
      BY <3>4, <3>5
  <2>. QED
    BY <2>1, <2>3, <2>4
<1>6. (syns = {} /\ flows[k].rtt = 0) \/ syns # {}
  BY <1>1 DEF TimerOf
<1>. QED
  BY <1>4, <1>5, <1>6

(* The inductive invariant, and its two parts.                             *)
LogTimes == \A i \in PacketEvents : log[i].time \in Nat

Timers == \A k \in DOMAIN flows : k.proto = "TCP" => TimerOf(k, flows[k])

RttInv == NamesInv /\ LogTimes /\ Timers

(* Operation "last" adds packet p, seen at time t, to the log.             *)
LogsPacket(p, t, last) ==
  /\ last \in Nat /\ PacketEvents \subseteq 1 .. last - 1
  /\ PacketEvents' = PacketEvents \union {last}
  /\ \A i \in PacketEvents : log'[i] = log[i]
  /\ log'[last].packet = p /\ log'[last].time = t
  /\ \A k : EventsOf(k) \subseteq PacketEvents
  /\ \A k : EventsOf(k)' = EventsOf(k) \union (IF KeyFor(p) = k THEN {last} ELSE {})

(* One operation logs one packet.                                          *)
LEMMA PacketLogged ==
  ASSUME LogIsSequence, NEW p, p.answers \in Seq(Answer), NEW t,
         log' = log \o AnswerLog(p) \o PacketLog(p, t),
         NEW last, last = Len(log')
  PROVE  LogsPacket(p, t, last)
<1>1. /\ PacketEvents' = PacketEvents \union {Len(log')}
      /\ \A i \in PacketEvents : log'[i] = log[i]
      /\ log'[Len(log')].packet = p
      /\ Len(log) \in Nat /\ Len(log') = Len(log) + Len(p.answers) + 1
      /\ log'[Len(log')] = PacketEvent(p, t)
  <2>1. Appended(p, t)
    BY LogGrows
  <2>. QED
    BY <2>1 DEF Appended
<1>2. Len(p.answers) \in Nat
  BY LenProperties
<1>3. last \in Nat /\ PacketEvents \subseteq 1 .. last - 1
  BY <1>1, <1>2 DEF PacketEvents
<1>4. log'[last].packet = p /\ log'[last].time = t
  BY <1>1 DEF PacketEvent
<1>5. ASSUME NEW k
      PROVE  EventsOf(k)' = EventsOf(k) \union (IF KeyFor(p) = k THEN {last} ELSE {})
  <2>1. EventsOf(k)' = {i \in PacketEvents' : KeyFor(log'[i].packet) = k}
    BY DEF EventsOf
  <2>2. last \notin PacketEvents
    BY <1>3
  <2>. QED
    BY <1>1, <1>4, <2>1, <2>2 DEF EventsOf
<1>6. \A k : EventsOf(k) \subseteq PacketEvents
  BY DEF EventsOf
<1>. QED
  BY <1>1, <1>3, <1>4, <1>5, <1>6 DEF LogsPacket

(* The timer of the packet's own flow, f before and g after it.            *)
LEMMA TimerStep ==
  ASSUME LogTimes, NEW p, NEW t \in Nat, NEW last, LogsPacket(p, t, last),
         NEW k, k = KeyFor(p), p.proto = "TCP",
         NEW f, TimerOf(k, f), NEW g, FoldsTimer(f, p, Direction(p, k), t, g)
  PROVE  TimerOf(k, g)'
<1> DEFINE opens == p.flags.syn /\ ~p.flags.ack /\ Direction(p, k) = "up"
           closes == p.flags.syn /\ p.flags.ack /\ Direction(p, k) = "down"
<1>1. /\ last \in Nat /\ PacketEvents \subseteq 1 .. last - 1
      /\ \A i \in PacketEvents : log'[i] = log[i]
      /\ log'[last].packet = p /\ log'[last].time = t
      /\ EventsOf(k) \subseteq PacketEvents
      /\ EventsOf(k)' = EventsOf(k) \union {last}
  BY DEF LogsPacket
<1>2. \A i \in EventsOf(k) : i \in Nat /\ i < last /\ log[i].time \in Nat
  <2> SUFFICES ASSUME NEW i \in EventsOf(k)
               PROVE  i \in Nat /\ i < last /\ log[i].time \in Nat
    OBVIOUS
  <2>1. i \in PacketEvents
    BY <1>1
  <2>2. i \in 1 .. last - 1
    BY <1>1, <2>1
  <2>3. log[i].time \in Nat
    BY <2>1 DEF LogTimes
  <2>. QED
    BY <1>1, <2>2, <2>3
<1>3. /\ \A i \in EventsOf(k) : Opens(i, k)' <=> Opens(i, k)
      /\ Opens(last, k)' <=> opens
  BY <1>1 DEF Opens
<1>4. /\ \A i, j \in EventsOf(k) : Answers(j, i, k)' <=> Answers(j, i, k)
      /\ \A i \in EventsOf(k) : Answers(last, i, k)' <=> closes /\ t > log[i].time
      /\ \A j \in EventsOf(k)' : ~Answers(j, last, k)'
  <2>1. \A i \in EventsOf(k) : i < last /\ log'[i] = log[i]
    BY <1>1, <1>2
  <2>2. \A j \in EventsOf(k)' : ~(last < j)
    BY <1>1, <1>2
  <2>. QED
    BY <1>1, <2>1, <2>2 DEF Answers
<1>5. Syns(k)' = Syns(k) \union (IF opens THEN {last} ELSE {}) /\ Syns(k) \subseteq EventsOf(k)
  <2>1. Syns(k)' = {i \in EventsOf(k)' : Opens(i, k)'}
    BY DEF Syns
  <2> HIDE DEF opens
  <2>2. last \notin EventsOf(k)
    BY <1>2
  <2>. QED
    BY <1>1, <1>3, <2>1, <2>2 DEF Syns
<1>6. /\ Starts(f, p, Direction(p, k)) <=> opens /\ f.rtt = 0 /\ ~f.synSeen
      /\ Ends(f, p, Direction(p, k), t) <=> closes /\ f.rtt = 0 /\ f.synSeen /\ t > f.synTime
  BY DEF Starts, Ends
<1>7. /\ g.rtt = IF closes /\ f.rtt = 0 /\ f.synSeen /\ t > f.synTime
                 THEN t - f.synTime ELSE f.rtt
      /\ g.synSeen = IF opens /\ f.rtt = 0 /\ ~f.synSeen THEN TRUE ELSE f.synSeen
      /\ g.synTime = IF opens /\ f.rtt = 0 /\ ~f.synSeen THEN t ELSE f.synTime
  BY <1>6 DEF FoldsTimer
<1> HIDE DEF opens, closes
<1>8. CASE Syns(k) = {} /\ f.rtt = 0 /\ f.synSeen = FALSE
  <2>1. CASE opens
    <3>1. Syns(k)' = {last} /\ g.rtt = 0 /\ g.synSeen = TRUE /\ g.synTime = log'[last].time
      BY <1>1, <1>5, <1>7, <1>8, <2>1
    <3>. QED
      BY <1>1, <1>4, <3>1 DEF TimerOf
  <2>2. CASE ~opens
    <3>1. Syns(k)' = {} /\ g.rtt = 0 /\ g.synSeen = FALSE
      BY <1>5, <1>7, <1>8, <2>2
    <3>. QED
      BY <3>1 DEF TimerOf
  <2>. QED
    BY <2>1, <2>2
<1>9. ASSUME NEW m \in Syns(k), \A i \in Syns(k) : m <= i,
             \A j \in EventsOf(k) : ~Answers(j, m, k),
             f.rtt = 0, f.synSeen = TRUE, f.synTime = log[m].time
      PROVE  TimerOf(k, g)'
  <2>1. m \in EventsOf(k) /\ m \in Syns(k)'
    BY <1>5, <1>9
  <2>2. m \in Nat /\ m < last /\ last \in Nat
    BY <1>1, <1>2, <2>1
  <2>3. ASSUME NEW i \in Syns(k)' PROVE m <= i
    <3>1. i \in Syns(k) \/ i = last
      BY <1>5, <2>3
    <3>2. m <= last
      BY <2>2
    <3>3. i \in Syns(k) => m <= i
      BY <1>9
    <3>. QED
      BY <3>1, <3>2, <3>3
  <2>4. m \in EventsOf(k) /\ m \in Syns(k)' /\ \A i \in Syns(k)' : m <= i
    BY <2>1, <2>3
  <2>5. log'[m].time = log[m].time
    BY <1>1, <2>4
  <2>6. CASE closes /\ t > log[m].time
    <3>1. g.rtt = log'[last].time - log'[m].time
      BY <1>1, <1>7, <1>9, <2>5, <2>6
    <3>2. Answers(last, m, k)' /\ last \in EventsOf(k)'
      BY <1>1, <1>4, <2>4, <2>6
    <3>3. \A i \in EventsOf(k)' : Answers(i, m, k)' => last <= i
      BY <1>1, <1>4, <1>9, <2>4
    <3>. QED
      BY <2>4, <3>1, <3>2, <3>3 DEF TimerOf
  <2>7. CASE ~(closes /\ t > log[m].time)
    <3>1. g.rtt = 0 /\ g.synSeen = TRUE /\ g.synTime = log'[m].time
      BY <1>7, <1>9, <2>5, <2>7
    <3>2. \A j \in EventsOf(k)' : ~Answers(j, m, k)'
      BY <1>1, <1>4, <1>9, <2>4, <2>7
    <3>. QED
      BY <2>4, <3>1, <3>2 DEF TimerOf
  <2>. QED
    BY <2>6, <2>7
<1>10. ASSUME NEW m \in Syns(k), \A i \in Syns(k) : m <= i,
              NEW j \in EventsOf(k), Answers(j, m, k),
              \A i \in EventsOf(k) : Answers(i, m, k) => j <= i,
              f.rtt = log[j].time - log[m].time
       PROVE  TimerOf(k, g)'
  <2>1. m \in EventsOf(k) /\ m \in Syns(k)'
    BY <1>5, <1>10
  <2>2. m \in Nat /\ m < last /\ last \in Nat
    BY <1>1, <1>2, <2>1
  <2>3. ASSUME NEW i \in Syns(k)' PROVE m <= i
    <3>1. i \in Syns(k) \/ i = last
      BY <1>5, <2>3
    <3>2. m <= last
      BY <2>2
    <3>3. i \in Syns(k) => m <= i
      BY <1>10
    <3>. QED
      BY <3>1, <3>2, <3>3
  <2>4. m \in EventsOf(k) /\ m \in Syns(k)' /\ \A i \in Syns(k)' : m <= i
    BY <2>1, <2>3
  <2>5. log'[m].time = log[m].time /\ log'[j].time = log[j].time /\ j \in EventsOf(k)'
    BY <1>1, <2>4
  <2>6. log[j].time > log[m].time
    BY <1>10 DEF Answers
  <2>7. f.rtt # 0
    BY <1>2, <1>10, <2>4, <2>6
  <2>8. g.rtt = log'[j].time - log'[m].time
    BY <1>7, <1>10, <2>5, <2>7
  <2>9. Answers(j, m, k)' /\ \A i \in EventsOf(k)' : Answers(i, m, k)' => j <= i
    BY <1>1, <1>2, <1>4, <1>10, <2>4
  <2>. QED
    BY <2>4, <2>5, <2>8, <2>9 DEF TimerOf
<1>. QED
  BY <1>8, <1>9, <1>10 DEF TimerOf

(* The timers of the other flows.                                          *)
LEMMA TimerStays ==
  ASSUME NEW p, NEW t, NEW last, LogsPacket(p, t, last),
         NEW k, k # KeyFor(p), NEW f, TimerOf(k, f),
         NEW g, g.rtt = f.rtt, g.synSeen = f.synSeen, g.synTime = f.synTime
  PROVE  TimerOf(k, g)'
<1>1. /\ \A i \in PacketEvents : log'[i] = log[i]
      /\ EventsOf(k) \subseteq PacketEvents /\ EventsOf(k)' = EventsOf(k)
  BY DEF LogsPacket
<1>2. /\ \A i \in EventsOf(k) : Opens(i, k)' <=> Opens(i, k)
      /\ \A i, j \in EventsOf(k) : Answers(j, i, k)' <=> Answers(j, i, k)
      /\ \A i \in EventsOf(k) : log'[i] = log[i]
  BY <1>1 DEF Opens, Answers
<1>3. Syns(k)' = Syns(k) /\ Syns(k) \subseteq EventsOf(k)
  <2>1. Syns(k)' = {i \in EventsOf(k)' : Opens(i, k)'}
    BY DEF Syns
  <2>. QED
    BY <1>1, <1>2, <2>1 DEF Syns
<1>4. CASE Syns(k) = {} /\ f.rtt = 0 /\ f.synSeen = FALSE
  BY <1>3, <1>4 DEF TimerOf
<1>5. CASE ~(Syns(k) = {} /\ f.rtt = 0 /\ f.synSeen = FALSE)
  <2>1. PICK m \in Syns(k) :
       /\ \A i \in Syns(k) : m <= i
       /\ \/ /\ \A j \in EventsOf(k) : ~Answers(j, m, k)
             /\ f.rtt = 0 /\ f.synSeen = TRUE /\ f.synTime = log[m].time
          \/ \E j \in EventsOf(k) :
               /\ Answers(j, m, k)
               /\ \A i \in EventsOf(k) : Answers(i, m, k) => j <= i
               /\ f.rtt = log[j].time - log[m].time
    BY <1>5 DEF TimerOf
  <2>2. /\ \A i \in Syns(k)' : m <= i
        /\ \/ /\ \A j \in EventsOf(k)' : ~Answers(j, m, k)'
              /\ g.rtt = 0 /\ g.synSeen = TRUE /\ g.synTime = log'[m].time
           \/ \E j \in EventsOf(k)' :
                /\ Answers(j, m, k)'
                /\ \A i \in EventsOf(k)' : Answers(i, m, k)' => j <= i
                /\ g.rtt = log'[j].time - log'[m].time
    BY <1>1, <1>2, <1>3, <2>1
  <2>3. m \in Syns(k)'
    BY <1>3
  <2>. QED
    BY <2>2, <2>3 DEF TimerOf
<1>. QED
  BY <1>4, <1>5

(* One packet: its own flow's timer steps, all others stay.                *)
LEMMA FeedTimers ==
  ASSUME RttInv, NEW raw \in Traffic, NEW t \in Nat, NEW name, NEW process,
         FeedPacket(raw, t, name, process)
  PROVE  LogTimes' /\ Timers'
<1> DEFINE p == Recovered(raw, name)
           key == KeyFor(p)
           d == Direction(p, key)
           gs == AfterAnswers(flows, p.answers)
<1>1. p.answers \in Seq(Answer)
  BY RecoveredSame
<1>2. PICK host : /\ flows' = AfterUpdate(gs, p, t, host, process)
                  /\ log' = log \o AnswerLog(p) \o PacketLog(p, t)
  BY DEF FeedPacket
<1>3. IInv /\ \A k \in DOMAIN flows : IsFlow(flows[k])
  BY DEF RttInv, NamesInv, FlowsHaveFields
<1>4. /\ DOMAIN gs = DOMAIN flows
      /\ \A k \in DOMAIN flows :
           /\ IsFlow(gs[k]) /\ gs[k].rtt = flows[k].rtt
           /\ gs[k].synSeen = flows[k].synSeen /\ gs[k].synTime = flows[k].synTime
  BY <1>3, AnswersKeep
<1>5. PICK last : last = Len(log')
  OBVIOUS
<1> HIDE DEF p
<1>6. LogsPacket(p, t, last)
  BY <1>1, <1>2, <1>3, <1>5, PacketLogged DEF IInv
<1>7. LogTimes'
  <2>1. /\ PacketEvents' = PacketEvents \union {last}
        /\ \A i \in PacketEvents : log'[i] = log[i]
        /\ log'[last].time = t
    BY <1>6 DEF LogsPacket
  <2>. QED
    BY <2>1 DEF RttInv, LogTimes
<1>8. PICK f : f = IF key \in DOMAIN gs THEN gs[key] ELSE NewFlow(t)
  OBVIOUS
<1>9. IsFlow(f) /\ d \in Directions
  BY <1>4, <1>8, NewFlowIsEmpty DEF Direction, Directions
<1>10. PICK g : g = Folded(f, p, d, t, host, process)
  OBVIOUS
<1>11. FoldsTimer(f, p, d, t, g)
  BY <1>9, <1>10, TimerParagraphs
<1>12. ASSUME NEW k \in DOMAIN flows', k = key, k.proto = "TCP"
       PROVE  TimerOf(k, flows[k])'
  <2>1. key # NoKey
    BY <1>2, <1>4, <1>12 DEF AfterUpdate, RttInv, NamesInv, IInv, KeysSeen
  <2>2. flows'[k] = g
    BY <1>2, <1>8, <1>12, <1>10, <2>1 DEF AfterUpdate
  <2>3. p.proto = "TCP"
    BY <1>12, <2>1, KeyOrder DEF AsSent, Reversed
  <2>4. TimerOf(k, f)
    <3>1. CASE k \in DOMAIN flows
      <4>1. TimerOf(k, flows[k])
        BY <1>12, <3>1 DEF RttInv, Timers
      <4>2. /\ f.rtt = flows[k].rtt /\ f.synSeen = flows[k].synSeen
            /\ f.synTime = flows[k].synTime
        BY <1>4, <1>8, <1>12, <3>1
      <4>. QED
        BY <4>1, <4>2 DEF TimerOf
    <3>2. CASE k \notin DOMAIN flows
      <4>1. EventsOf(k) = {}
        BY <1>3, <1>12, <2>1, <3>2 DEF EventsOf, IInv, KeysSeen
      <4>2. f.rtt = 0 /\ f.synSeen = FALSE
        BY <1>4, <1>8, <1>12, <3>2, NewFlowIsEmpty
      <4>. QED
        BY <4>1, <4>2 DEF TimerOf, Syns
    <3>. QED
      BY <3>1, <3>2
  <2>5. LogTimes /\ FoldsTimer(f, p, Direction(p, k), t, g)
    BY <1>12, <1>11 DEF RttInv
  <2>6. TimerOf(k, g)'
    BY <1>6, <1>12, <2>3, <2>4, <2>5, TimerStep
  <2>. QED
    BY <2>2, <2>6 DEF TimerOf
<1>13. ASSUME NEW k \in DOMAIN flows', k # key, k.proto = "TCP"
       PROVE  TimerOf(k, flows[k])'
  <2>1. k \in DOMAIN flows /\ flows'[k] = gs[k]
    BY <1>2, <1>4, <1>13 DEF AfterUpdate
  <2>2. TimerOf(k, flows[k])
    BY <1>13, <2>1 DEF RttInv, Timers
  <2>3. PICK h : h = flows'[k]
    OBVIOUS
  <2>4. h.rtt = flows[k].rtt /\ h.synSeen = flows[k].synSeen /\ h.synTime = flows[k].synTime
    BY <1>4, <2>1, <2>3
  <2>5. TimerOf(k, h)'
    BY <1>6, <1>13, <2>2, <2>4, TimerStays
  <2>. QED
    BY <2>3, <2>5 DEF TimerOf
<1>. QED
  BY <1>7, <1>12, <1>13 DEF Timers

(* The round-trip time of a row is the delay from the client's first SYN   *)
(* to the first SYN-ACK after it, whatever else was sent, retransmitted or *)
(* reordered between them.                                                 *)
THEOREM RttIsRight == SSpec => []RttIsFirstHandshake
<1>1. SInit => RttInv
  <2> SUFFICES ASSUME SInit PROVE RttInv
    OBVIOUS
  <2>1. flows = <<>> /\ log = <<>>
    BY DEF SInit, FInit
  <2>2. PacketEvents = {}
    BY <2>1 DEF PacketEvents
  <2>. QED
    BY <2>1, <2>2, NamesStart DEF RttInv, LogTimes, Timers
<1>2. RttInv /\ [SNext]_svars => RttInv'
  <2> SUFFICES ASSUME RttInv, [SNext]_svars PROVE RttInv'
    OBVIOUS
  <2>1. NamesInv'
    BY NamesStep DEF RttInv
  <2>2. ASSUME NEW raw \in capture.traffic, NEW t \in capture.times, NEW process, NEW name,
               FeedPacket(raw, t, name, process)
        PROVE  RttInv'
    <3>1. raw \in Traffic /\ t \in Nat
      BY <2>2, CapturesAssumption, TimesAssumption DEF RttInv, NamesInv, IInv
    <3>. QED
      BY <2>1, <2>2, <3>1, FeedTimers DEF RttInv
  <2>3. CASE ClearSession
    <3>1. flows' = <<>> /\ log' = <<>>
      BY <2>3 DEF ClearSession, Clear
    <3>2. PacketEvents' = {}
      BY <3>1 DEF PacketEvents
    <3>. QED
      BY <2>1, <3>1, <3>2 DEF RttInv, LogTimes, Timers
  <2>4. CASE UNCHANGED svars
    <3>1. flows' = flows /\ log' = log
      BY <2>4 DEF svars, fvars
    <3>2. PacketEvents' = PacketEvents /\ \A k : EventsOf(k)' = EventsOf(k)
      BY <3>1 DEF PacketEvents, EventsOf
    <3>3. LogTimes'
      BY <3>1, <3>2 DEF RttInv, LogTimes
    <3>4. Timers' <=> Timers
      BY <3>1, <3>2 DEF Timers, TimerOf, Syns, Opens, Answers
    <3>. QED
      BY <2>1, <3>3, <3>4 DEF RttInv
  <2>. QED
    BY <2>2, <2>3, <2>4 DEF SNext
<1>3. RttInv => RttIsFirstHandshake
  <2> SUFFICES ASSUME RttInv PROVE RttIsFirstHandshake
    OBVIOUS
  <2>1. \A k : EventsOf(k) \subseteq Nat
    BY DEF EventsOf, PacketEvents
  <2>2. \A k \in DOMAIN flows : k.proto = "TCP" => TimerOf(k, flows[k])
    BY DEF RttInv, Timers
  <2>. QED
    BY <2>1, <2>2, TimerIsRtt DEF RttIsFirstHandshake
<1>. QED
  BY <1>1, <1>2, <1>3, PTL DEF SSpec

---------------------------------------------------------------------------
(* Sums.                                                                   *)

(* SumBytes is the last of the partial sums.                               *)
LEMMA SumIs ==
  ASSUME NEW n \in Nat, NEW s \in [1 .. n -> Nat], Len(s) = n, NEW g, SumsOf(s, n, g)
  PROVE  SumBytes(s) = g[n]
<1> DEFINE Rule(f) == f = [i \in 0 .. Len(s) |-> IF i = 0 THEN 0 ELSE f[i - 1] + s[i]]
           sum == CHOOSE f : Rule(f)
<1>1. SumBytes(s) = sum[n]
  BY DEF SumBytes
<1>2. Rule(g)
  <2>1. g = [i \in 0 .. n |-> g[i]]
    BY DEF SumsOf
  <2>2. \A i \in 0 .. n : g[i] = IF i = 0 THEN 0 ELSE g[i - 1] + s[i]
    BY DEF SumsOf
  <2>. QED
    BY <2>1, <2>2
<1> HIDE DEF Rule
<1>3. Rule(sum)
  BY <1>2
<1> HIDE DEF sum
<1>4. sum = [i \in 0 .. n |-> IF i = 0 THEN 0 ELSE sum[i - 1] + s[i]]
  BY <1>3 DEF Rule
<1>5. sum[0] = 0 /\ \A i \in 1 .. n : sum[i] = sum[i - 1] + s[i]
  <2>1. \A i \in 0 .. n : sum[i] = IF i = 0 THEN 0 ELSE sum[i - 1] + s[i]
    BY <1>4
  <2>. QED
    BY <2>1
<1>6. AddsUp(sum, s, n)
  BY <1>5 DEF AddsUp
<1>7. \A i \in 0 .. n : sum[i] = g[i]
  BY <1>6, SumsAgree
<1>. QED
  BY <1>1, <1>7

(* More terms, of which only the last is not zero.                         *)
Extends(t, m, s, n) ==
  /\ n \in Nat /\ m \in Nat /\ n < m
  /\ s \in [1 .. n -> Nat] /\ Len(s) = n
  /\ t \in [1 .. m -> Nat] /\ Len(t) = m
  /\ \A i \in 1 .. n : t[i] = s[i]
  /\ \A i \in n + 1 .. m - 1 : t[i] = 0

LEMMA SumExtends ==
  ASSUME NEW t, NEW m, NEW s, NEW n, Extends(t, m, s, n)
  PROVE  SumBytes(t) = SumBytes(s) + t[m] /\ SumBytes(s) \in Nat
<1>1. /\ n \in Nat /\ m \in Nat /\ n < m
      /\ s \in [1 .. n -> Nat] /\ Len(s) = n
      /\ t \in [1 .. m -> Nat] /\ Len(t) = m
  BY DEF Extends
<1>2. \A i \in 1 .. n : t[i] = s[i]
  BY DEF Extends
<1>3. \A i \in n + 1 .. m - 1 : t[i] = 0
  BY DEF Extends
<1> USE <1>1, <1>2, <1>3
<1>4. PICK g : SumsOf(s, n, g)
  BY SumsAreThere
<1>5. /\ g \in [0 .. n -> Nat] /\ g[0] = 0
      /\ \A i \in 1 .. n : g[i] = g[i - 1] + s[i]
  BY <1>4 DEF SumsOf
<1> DEFINE h == [i \in 0 .. m |-> IF i <= n THEN g[i]
                                 ELSE IF i < m THEN g[n] ELSE g[n] + t[m]]
<1>6. g[n] \in Nat /\ t[m] \in Nat
  BY <1>5
<1>7. h \in [0 .. m -> Nat] /\ h[0] = 0 /\ h[m] = g[n] + t[m]
  BY <1>5, <1>6
<1>8. ASSUME NEW i \in 1 .. m PROVE h[i] = h[i - 1] + t[i]
  <2>0. i \in 0 .. m /\ i - 1 \in 0 .. m
    OBVIOUS
  <2>1. CASE i <= n
    <3>1. i \in 1 .. n /\ i - 1 <= n
      BY <2>1
    <3>2. h[i] = g[i] /\ h[i - 1] = g[i - 1] /\ t[i] = s[i]
      BY <2>0, <2>1, <3>1
    <3>. QED
      BY <1>5, <3>1, <3>2
  <2>2. CASE n < i /\ i < m
    <3>1. i \in n + 1 .. m - 1 /\ h[i] = g[n]
      BY <2>0, <2>2
    <3>2. h[i - 1] = g[n]
      BY <2>0, <2>2
    <3>. QED
      BY <1>6, <3>1, <3>2
  <2>3. CASE n < i /\ i = m
    <3>1. h[i - 1] = g[n]
      BY <2>0, <2>3, SMTT(30)
    <3>. QED
      BY <1>7, <2>3, <3>1
  <2>. QED
    BY <2>1, <2>2, <2>3
<1> HIDE DEF h
<1>9. SumsOf(t, m, h)
  BY <1>7, <1>8 DEF SumsOf
<1>10. SumBytes(t) = h[m] /\ SumBytes(s) = g[n]
  BY <1>4, <1>9, SumIs
<1>. QED
  BY <1>6, <1>7, <1>10

(* Zeros add nothing.                                                      *)
LEMMA SumOfZeros ==
  ASSUME NEW n \in Nat, NEW s \in [1 .. n -> Nat], Len(s) = n, \A i \in 1 .. n : s[i] = 0
  PROVE  SumBytes(s) = 0
<1> DEFINE h == [i \in 0 .. n |-> 0]
<1>1. \A i \in 1 .. n : h[i] = 0 /\ h[i - 1] = 0
  OBVIOUS
<1>2. SumsOf(s, n, h)
  BY <1>1 DEF SumsOf
<1>3. h[n] = 0
  OBVIOUS
<1> HIDE DEF h
<1>. QED
  BY <1>2, <1>3, SumIs

(* Zeros may be left out at the front.                                     *)
LEMMA SumDropsZeros ==
  ASSUME NEW m \in Nat, NEW t \in [1 .. m -> Nat], Len(t) = m,
         NEW c \in 0 .. m, \A i \in 1 .. c : t[i] = 0,
         NEW s \in [1 .. m - c -> Nat], Len(s) = m - c,
         \A i \in 1 .. m - c : s[i] = t[i + c]
  PROVE  SumBytes(s) = SumBytes(t)
<1>1. PICK g : SumsOf(t, m, g)
  BY SumsAreThere
<1>2. /\ g \in [0 .. m -> Nat] /\ g[0] = 0
      /\ \A i \in 1 .. m : g[i] = g[i - 1] + t[i]
  BY <1>1 DEF SumsOf
<1> DEFINE S == {i \in 0 .. c : g[i] = 0}
<1>3. 0 \in S
  BY <1>2
<1>4. ASSUME NEW i \in 0 .. c - 1, i \in S PROVE i + 1 \in S
  <2>1. i + 1 \in 1 .. m /\ i + 1 \in 1 .. c /\ (i + 1) - 1 = i
    OBVIOUS
  <2>2. g[i + 1] = g[i] + t[i + 1] /\ t[i + 1] = 0 /\ g[i] = 0
    BY <1>2, <1>4, <2>1
  <2>. QED
    BY <2>1, <2>2
<1> HIDE DEF S
<1>5. \A i \in 0 .. c : i \in S
  <2>1. c \in Nat
    OBVIOUS
  <2>. QED
    BY ONLY <2>1, <1>3, <1>4, Induction
<1>6. g[c] = 0
  BY <1>5 DEF S
<1> DEFINE h == [i \in 0 .. m - c |-> g[i + c]]
<1>7. ASSUME NEW i \in 0 .. m - c PROVE h[i] = g[i + c] /\ g[i + c] \in Nat
  <2>1. i + c \in 0 .. m
    OBVIOUS
  <2>. QED
    BY <1>2, <2>1
<1>8. h \in [0 .. m - c -> Nat] /\ h[0] = 0 /\ h[m - c] = g[m]
  <2>1. 0 \in 0 .. m - c /\ m - c \in 0 .. m - c /\ 0 + c = c /\ (m - c) + c = m
    OBVIOUS
  <2>2. h \in [0 .. m - c -> Nat]
    BY <1>7
  <2>3. h[0] = g[c] /\ h[m - c] = g[m]
    BY <2>1
  <2>. QED
    BY <1>6, <2>2, <2>3
<1>9. ASSUME NEW i \in 1 .. m - c PROVE h[i] = h[i - 1] + s[i]
  <2>1. i + c \in 1 .. m /\ (i + c) - 1 = (i - 1) + c
    OBVIOUS
  <2>2. h[i] = g[i + c] /\ h[i - 1] = g[(i - 1) + c] /\ s[i] = t[i + c]
    BY <1>7
  <2>3. g[i + c] = g[(i + c) - 1] + t[i + c]
    BY <1>2, <2>1
  <2>. QED
    BY <2>1, <2>2, <2>3
<1> HIDE DEF h
<1>10. SumsOf(s, m - c, h) /\ m - c \in Nat
  BY <1>8, <1>9 DEF SumsOf
<1>11. SumBytes(t) = g[m]
  BY <1>1, SumIs
<1>12. SumBytes(s) = h[m - c]
  BY <1>10, SumIs
<1>. QED
  BY <1>8, <1>11, <1>12

(* A function on 1 .. n is a sequence of n elements.                       *)
LEMMA LengthIs ==
  ASSUME NEW n \in Nat, NEW S, NEW s \in [1 .. n -> S]
  PROVE  s \in Seq(S) /\ Len(s) = n
<1>1. s \in Seq(S)
  BY SeqDef
<1>2. Len(s) = n
  BY <1>1, LenProperties
<1>. QED
  BY <1>1, <1>2

---------------------------------------------------------------------------
(* The rate.                                                               *)
Sample == [time : Nat, bytes : Nat]

(* What snapshot() adds up, from the samples r and from the log.           *)
Shown(r, now) ==
  [i \in 1 .. Len(r) |-> IF r[i].time >= now - OneSecond /\ r[i].time <= now
                         THEN r[i].bytes ELSE 0]

Logged(k, now) ==
  [i \in 1 .. Len(log) |-> IF i \in EventsOf(k) /\ log[i].time >= now - OneSecond
                           THEN log[i].packet.length ELSE 0]

(* A row's rate and the log's count are sums of numbers.                   *)
LEMMA RatesAreSums ==
  ASSUME NEW f, NEW k, NEW now
  PROVE  Rate(f, now) = SumBytes(Shown(f.recent, now)) /\ LogBytes(k, now) = SumBytes(Logged(k, now))
  BY DEF Rate, LogBytes, Shown, Logged

(* The samples of a row that a rate counts are numbers.                    *)
LEMMA ShownIsNumbers ==
  ASSUME NEW r \in Seq(Sample), NEW now
  PROVE  /\ Shown(r, now) \in [1 .. Len(r) -> Nat] /\ Len(r) \in Nat
         /\ Len(Shown(r, now)) = Len(r)
<1>1. Len(r) \in Nat /\ \A i \in 1 .. Len(r) : r[i].bytes \in Nat
  <2>1. Len(r) \in Nat /\ \A i \in 1 .. Len(r) : r[i] \in Sample
    OBVIOUS
  <2>. QED
    BY <2>1 DEF Sample
<1>2. Shown(r, now) \in [1 .. Len(r) -> Nat]
  BY <1>1 DEF Shown
<1>. QED
  BY <1>1, <1>2, LengthIs

(* The samples update() keeps: the old ones and the new one, less some     *)
(* from the front that are older than a second.                            *)
Keeps(r, p, t, q) ==
  LET all == Append(r, [time |-> t, bytes |-> p.length])
  IN  \E c \in 0 .. Len(r) :
        /\ q = SubSeq(all, c + 1, Len(r) + 1)
        /\ \A j \in 1 .. c : ~Fresh(all[j], t - OneSecond)

(* updateThroughput() drops from the old end only samples that are older   *)
(* than a second, and adds the packet's.                                   *)
LEMMA SampledKeeps ==
  ASSUME NEW f, "recent" \in DOMAIN f, f.recent \in Seq(Sample), NEW p, p.length \in Nat, NEW t \in Nat
  PROVE  Keeps(f.recent, p, t, Sampled(f, p, t).recent)
<1> DEFINE r == f.recent
           new == [time |-> t, bytes |-> p.length]
           all == Append(r, new)
           n == Len(r)
           First(i) == /\ i <= Len(all) => Fresh(all[i], t - OneSecond)
                       /\ \A j \in 1 .. i - 1 : ~Fresh(all[j], t - OneSecond)
           first == CHOOSE i \in 1 .. Len(all) + 1 : First(i)
<1>1. n \in Nat /\ Len(all) = n + 1 /\ all[n + 1] = new /\ new \in Sample
  BY DEF Sample
<1>2. Fresh(all[n + 1], t - OneSecond)
  BY <1>1, TimesAssumption DEF Fresh
<1>3. Sampled(f, p, t).recent = SubSeq(all, first, Len(all))
  BY DEF Sampled
<1> DEFINE S == {i \in 1 .. n + 1 : Fresh(all[i], t - OneSecond)}
<1>4. PICK m \in S : \A j \in S : m <= j
  <2>1. S \subseteq 1 .. n + 1 /\ S # {} /\ n + 1 \in Nat
    BY <1>1, <1>2
  <2> HIDE DEF S, n
  <2>. QED
    BY <2>1, LeastIsThere
<1>5. m \in 1 .. n + 1 /\ Fresh(all[m], t - OneSecond)
  BY <1>4
<1>6. \A j \in 1 .. m - 1 : ~Fresh(all[j], t - OneSecond)
  <2> SUFFICES ASSUME NEW j \in 1 .. m - 1 PROVE ~Fresh(all[j], t - OneSecond)
    OBVIOUS
  <2>1. j \in 1 .. n + 1 /\ ~(m <= j)
    BY <1>1, <1>5
  <2>. QED
    BY <1>4, <2>1
<1>7. m \in 1 .. Len(all) + 1 /\ First(m)
  BY <1>1, <1>5, <1>6
<1>8. ASSUME NEW i \in 1 .. Len(all) + 1, First(i) PROVE i = m
  <2>1. i \in Nat /\ m \in Nat
    BY <1>1, <1>5
  <2>2. ~(m < i)
    <3> SUFFICES ASSUME m < i PROVE FALSE
      OBVIOUS
    <3>1. m \in 1 .. i - 1
      BY <1>5, <2>1
    <3>. QED
      BY <1>5, <1>8, <3>1
  <2>3. ~(i < m)
    <3> SUFFICES ASSUME i < m PROVE FALSE
      OBVIOUS
    <3>1. i \in 1 .. m - 1 /\ i <= Len(all)
      BY <1>1, <1>5, <1>8, <2>1
    <3>. QED
      BY <1>6, <1>8, <3>1
  <2>. QED
    BY <2>1, <2>2, <2>3
<1> HIDE DEF First
<1>9. first = m
  BY <1>7, <1>8
<1>10. m - 1 \in 0 .. n /\ (m - 1) + 1 = m
  BY <1>1, <1>5
<1>11. Sampled(f, p, t).recent = SubSeq(all, (m - 1) + 1, n + 1)
  BY <1>1, <1>3, <1>9, <1>10
<1> HIDE DEF first, S
<1>. QED
  BY <1>6, <1>10, <1>11 DEF Keeps

(* The bytes a sample of time t adds to the rate at time now.              *)
Share(t, bytes, now) == IF t >= now - OneSecond THEN bytes ELSE 0

(* What is shown grows by the share of the new sample: those that left     *)
(* were too old to have one.                                               *)
LEMMA KeepsRate ==
  ASSUME NEW r \in Seq(Sample), NEW p, p.length \in Nat, NEW t \in Nat,
         NEW q, Keeps(r, p, t, q)
  PROVE  /\ q \in Seq(Sample)
         /\ \A now \in Nat : t <= now =>
              SumBytes(Shown(q, now)) = SumBytes(Shown(r, now)) + Share(t, p.length, now)
<1> DEFINE new == [time |-> t, bytes |-> p.length]
           all == Append(r, new)
           n == Len(r)
<1>1. /\ n \in Nat /\ new \in Sample /\ all \in Seq(Sample) /\ Len(all) = n + 1
      /\ all[n + 1] = new /\ \A i \in 1 .. n : all[i] = r[i]
  BY DEF Sample
<1>2. PICK c \in 0 .. n : /\ q = SubSeq(all, c + 1, n + 1)
                         /\ \A j \in 1 .. c : ~Fresh(all[j], t - OneSecond)
  BY DEF Keeps
<1> HIDE DEF all, new
<1>3. /\ q \in Seq(Sample) /\ Len(q) = (n + 1) - c
      /\ \A i \in 1 .. (n + 1) - c : q[i] = all[i + c]
  <2>1. c + 1 \in 1 .. Len(all) + 1 /\ n + 1 = Len(all)
    BY <1>1
  <2>2. SubSeq(all, c + 1, n + 1) \in Seq(Sample)
    BY <1>1, <2>1
  <2>3. Len(q) = (n + 1) - c
    BY <1>1, <1>2, <2>1
  <2>4. \A i \in 1 .. (n + 1) - c : q[i] = all[i + c]
    BY <1>1, <1>2, <2>1
  <2>. QED
    BY <1>2, <2>2, <2>3, <2>4
<1>4. ASSUME NEW now \in Nat, t <= now
      PROVE  SumBytes(Shown(q, now)) = SumBytes(Shown(r, now)) + Share(t, p.length, now)
  <2> DEFINE a == Shown(all, now)
             b == Shown(q, now)
             s == Shown(r, now)
  <2>1. /\ a \in [1 .. n + 1 -> Nat] /\ Len(a) = n + 1
        /\ b \in [1 .. (n + 1) - c -> Nat] /\ Len(b) = (n + 1) - c
        /\ s \in [1 .. n -> Nat] /\ Len(s) = n
    BY <1>1, <1>3, ShownIsNumbers
  <2>2. \A i \in 1 .. n : a[i] = s[i]
    BY <1>1 DEF Shown
  <2>3. a[n + 1] = Share(t, p.length, now)
    <3>1. all[n + 1].time = t /\ all[n + 1].bytes = p.length /\ n + 1 \in 1 .. Len(all)
      BY <1>1 DEF new
    <3>2. a[n + 1] = IF t >= now - OneSecond /\ t <= now THEN p.length ELSE 0
      BY <3>1 DEF Shown
    <3>. QED
      BY <1>4, <3>2 DEF Share
  <2>4. ASSUME NEW i \in 1 .. c PROVE a[i] = 0
    <3>1. i \in 1 .. n /\ i \in 1 .. Len(all)
      BY <1>1
    <3>2. all[i].time \in Nat
      <4>1. all[i] \in Sample
        BY <1>1, <3>1
      <4>. QED
        BY <4>1 DEF Sample
    <3>3. ~(all[i].time >= t - OneSecond)
      BY <1>2 DEF Fresh
    <3>4. ~(all[i].time >= now - OneSecond)
      BY <1>4, <3>2, <3>3, TimesAssumption
    <3>. QED
      BY <3>1, <3>4 DEF Shown
  <2>5. \A i \in 1 .. (n + 1) - c : b[i] = a[i + c]
    <3> SUFFICES ASSUME NEW i \in 1 .. (n + 1) - c PROVE b[i] = a[i + c]
      OBVIOUS
    <3>1. i + c \in 1 .. Len(all) /\ i \in 1 .. Len(q) /\ q[i] = all[i + c]
      BY <1>1, <1>3
    <3>. QED
      BY <3>1 DEF Shown
  <2> HIDE DEF a, b, s, n
  <2>6. n + 1 \in Nat /\ n < n + 1 /\ c \in 0 .. n + 1 /\ (n + 1) - 1 = n
    BY <1>1
  <2>7. SumBytes(a) = SumBytes(s) + a[n + 1]
    <3>1. \A i \in n + 1 .. (n + 1) - 1 : a[i] = 0
      BY <1>1
    <3>2. Extends(a, n + 1, s, n)
      BY <1>1, <2>1, <2>2, <2>6, <3>1 DEF Extends
    <3>. QED
      BY <3>2, SumExtends
  <2>8. SumBytes(b) = SumBytes(a)
    <3>1. \A i \in 1 .. c : a[i] = 0
      BY <2>4
    <3>2. PICK m \in Nat : m = n + 1
      BY <2>6
    <3>3. /\ a \in [1 .. m -> Nat] /\ Len(a) = m /\ c \in 0 .. m
          /\ b \in [1 .. m - c -> Nat] /\ Len(b) = m - c
          /\ \A i \in 1 .. m - c : b[i] = a[i + c]
      BY <2>1, <2>5, <2>6, <3>2
    <3>. QED
      BY ONLY m \in Nat, <3>1, <3>3, SumDropsZeros, ZenonT(60)
  <2>9. SumBytes(b) = SumBytes(s) + Share(t, p.length, now)
    BY <2>3, <2>7, <2>8
  <2>. QED
    BY <2>9 DEF b, s
<1>. QED
  BY <1>3, <1>4

(* Every packet of the log has a length.                                   *)
LogLengths == \A i \in PacketEvents : log[i].packet.length \in Nat

(* The packets of the log that a rate counts are numbers.                  *)
LEMMA LoggedIsNumbers ==
  ASSUME LogLengths, NEW k, NEW now, Len(log) \in Nat
  PROVE  Logged(k, now) \in [1 .. Len(log) -> Nat] /\ Len(Logged(k, now)) = Len(log)
<1>1. \A i \in EventsOf(k) : log[i].packet.length \in Nat
  BY DEF EventsOf, LogLengths
<1>2. Logged(k, now) \in [1 .. Len(log) -> Nat]
  BY <1>1 DEF Logged
<1>. QED
  BY <1>2, LengthIs

(* What one packet adds to the bytes of the last second of flow k.         *)
LEMMA LogBytesStep ==
  ASSUME LogLengths, LogLengths', NEW p, NEW t, Appended(p, t),
         p.answers \in Seq(Answer), p.length \in Nat,
         LogsPacket(p, t, Len(log)'), NEW k, NEW now
  PROVE  /\ LogBytes(k, now) \in Nat
         /\ LogBytes(k, now)' = LogBytes(k, now)
              + (IF KeyFor(p) = k THEN Share(t, p.length, now) ELSE 0)
<1>1. PICK n : n = Len(log)
  OBVIOUS
<1>2. PICK last : last = Len(log')
  OBVIOUS
<1>3. /\ n \in Nat /\ last \in Nat /\ n < last
      /\ \A i \in 1 .. n : log'[i] = log[i]
  <2>1. Len(p.answers) \in Nat
    OBVIOUS
  <2>. QED
    BY <1>1, <1>2, <2>1 DEF Appended
<1>4. /\ EventsOf(k) \subseteq 1 .. n
      /\ EventsOf(k)' = EventsOf(k) \union (IF KeyFor(p) = k THEN {last} ELSE {})
      /\ log'[last].packet = p /\ log'[last].time = t
  BY <1>1, <1>2 DEF LogsPacket, PacketEvents, EventsOf
<1>5. PICK s : s = Logged(k, now)
  OBVIOUS
<1>6. PICK u : u = Logged(k, now)'
  OBVIOUS
<1>7. s \in [1 .. n -> Nat] /\ Len(s) = n
  BY <1>1, <1>3, <1>5, LoggedIsNumbers
<1>8. u \in [1 .. last -> Nat] /\ Len(u) = last
  <2>1. u = [i \in 1 .. last |-> IF i \in EventsOf(k)' /\ log'[i].time >= now - OneSecond
                                 THEN log'[i].packet.length ELSE 0]
    BY <1>2, <1>6 DEF Logged
  <2>2. \A i \in EventsOf(k)' : log'[i].packet.length \in Nat
    BY DEF EventsOf, LogLengths
  <2>3. u \in [1 .. last -> Nat]
    BY <2>1, <2>2
  <2>. QED
    BY <1>3, <2>3, LengthIs
<1>9. \A i \in 1 .. last : u[i] = IF i \in EventsOf(k)' /\ log'[i].time >= now - OneSecond
                                  THEN log'[i].packet.length ELSE 0
  BY <1>2, <1>6 DEF Logged
<1>10. \A i \in 1 .. n : s[i] = IF i \in EventsOf(k) /\ log[i].time >= now - OneSecond
                                THEN log[i].packet.length ELSE 0
  BY <1>1, <1>5 DEF Logged
<1>11. ASSUME NEW i \in 1 .. n PROVE u[i] = s[i]
  <2>1. i # last /\ i \in 1 .. last /\ log'[i] = log[i]
    BY <1>3
  <2>2. i \in EventsOf(k)' <=> i \in EventsOf(k)
    BY <1>4, <2>1
  <2>. QED
    BY <1>9, <1>10, <2>1, <2>2
<1>12. ASSUME NEW i \in n + 1 .. last - 1 PROVE u[i] = 0
  <2>1. i # last /\ i \in 1 .. last /\ i \notin 1 .. n
    BY <1>3
  <2>2. i \notin EventsOf(k)'
    BY <1>4, <2>1
  <2>. QED
    BY <1>9, <2>1, <2>2
<1>13. u[last] = IF KeyFor(p) = k THEN Share(t, p.length, now) ELSE 0
  <2>1. last \in 1 .. last /\ last \notin 1 .. n
    BY <1>3
  <2>2. last \in EventsOf(k)' <=> KeyFor(p) = k
    BY <1>4, <2>1
  <2>. QED
    BY <1>4, <1>9, <2>1, <2>2 DEF Share
<1>14. SumBytes(u) = SumBytes(s) + u[last] /\ SumBytes(s) \in Nat
  <2>1. \A i \in 1 .. n : u[i] = s[i]
    BY <1>11
  <2>2. \A i \in n + 1 .. last - 1 : u[i] = 0
    BY <1>12
  <2>3. n \in Nat /\ last \in Nat /\ n < last
    BY <1>3
  <2>4. Extends(u, last, s, n)
    BY ONLY <1>7, <1>8, <2>1, <2>2, <2>3 DEF Extends
  <2>. QED
    BY ONLY <2>4, SumExtends
<1>15. LogBytes(k, now) = SumBytes(s)
  BY <1>5 DEF LogBytes, Logged
<1>16. LogBytes(k, now)' = SumBytes(u)
  <2>1. (LogBytes(k, now) = SumBytes(Logged(k, now)))'
    BY DEF LogBytes, Logged
  <2>. QED
    BY <1>6, <2>1
<1>. QED
  BY <1>13, <1>14, <1>15, <1>16

(* A conversation without packets has no bytes.                            *)
LEMMA NoPacketsNoBytes ==
  ASSUME NEW k, EventsOf(k) = {}, Len(log) \in Nat, NEW now
  PROVE  LogBytes(k, now) = 0
<1>1. PICK s : s = Logged(k, now)
  OBVIOUS
<1>2. s \in [1 .. Len(log) -> Nat] /\ \A i \in 1 .. Len(log) : s[i] = 0
  BY <1>1 DEF Logged
<1>3. Len(s) = Len(log)
  BY <1>2, LengthIs
<1>4. SumBytes(s) = 0
  BY <1>2, <1>3, SumOfZeros
<1>. QED
  BY <1>1, <1>4 DEF LogBytes, Logged

(* Only one paragraph of update() touches the samples.                     *)
LEMMA SampleParagraphs ==
  ASSUME NEW f, IsFlow(f), f.recent \in Seq(Sample), NEW p, p.length \in Nat,
         NEW d \in Directions, NEW t \in Nat, NEW host, NEW process
  PROVE  Keeps(f.recent, p, t, Folded(f, p, d, t, host, process).recent)
<1> DEFINE a == Counted(f, p, d, t)
           b == Timed(a, p, d, t)
           c == Sequenced(b, p, d)
           e == Reset(c, p)
           g == Named(e, p, host, process)
           Same(x, y) == DOMAIN x = Fields /\ x.recent = y.recent
<1>1. Same(a, f)
  BY DEF Counted, IsFlow, Fields
<1>2. Same(b, a)
  <2> HIDE DEF a
  <2>. QED
    BY <1>1 DEF Timed, Fields
<1>3. Same(c, b)
  <2> HIDE DEF a, b
  <2>. QED
    BY <1>2 DEF Sequenced, Fields
<1>4. Same(e, c)
  <2> HIDE DEF a, b, c
  <2>. QED
    BY <1>3 DEF Reset, Fields
<1>5. Same(g, e)
  <2> HIDE DEF a, b, c, e
  <2>. QED
    BY <1>4 DEF Named, Fields
<1>6. Folded(f, p, d, t, host, process) = Sampled(g, p, t)
  BY DEF Folded
<1> HIDE DEF a, b, c, e, g
<1>7. g.recent = f.recent /\ "recent" \in DOMAIN g
  BY <1>1, <1>2, <1>3, <1>4, <1>5 DEF Fields
<1>8. Keeps(g.recent, p, t, Sampled(g, p, t).recent)
  BY <1>7, SampledKeeps
<1>. QED
  BY <1>6, <1>7, <1>8

(* Answers leave the samples and the sequence numbers alone.               *)
LEMMA AnswersOnlyName ==
  ASSUME NEW fs, \A k \in DOMAIN fs : IsFlow(fs[k]), NEW as, NEW k \in DOMAIN fs
  PROVE  LET g == AfterAnswers(fs, as)[k]
         IN  /\ g.recent = fs[k].recent /\ g.next = fs[k].next
             /\ g.retransmissions = fs[k].retransmissions /\ g.outOfOrder = fs[k].outOfOrder
<1> DEFINE g == AfterAnswers(fs, as)[k]
           naming == {i \in Effective(as) : as[i].address \in Endpoints(k)}
<1>1. g = IF naming = {} THEN fs[k]
          ELSE [fs[k] EXCEPT !.hostname = as[Highest(naming)].name]
  BY DEF AfterAnswers
<1>2. IsFlow(fs[k])
  OBVIOUS
<1>3. PICK f : f = fs[k]
  OBVIOUS
<1>4. DOMAIN f = Fields
  BY <1>2, <1>3 DEF IsFlow
<1> HIDE DEF g, naming
<1>5. g = f \/ \E name : g = [f EXCEPT !.hostname = name]
  BY <1>1, <1>3
<1>6. /\ g.recent = f.recent /\ g.next = f.next
      /\ g.retransmissions = f.retransmissions /\ g.outOfOrder = f.outOfOrder
  BY <1>4, <1>5 DEF Fields
<1>. QED
  BY <1>3, <1>6 DEF g

(* The samples r of flow k show what the log says of the last second.      *)
Exact(k, r) ==
  /\ r \in Seq(Sample)
  /\ \A now \in Nat : (\A i \in PacketEvents : log[i].time <= now) =>
       SumBytes(Shown(r, now)) = LogBytes(k, now)

(* The inductive invariant.                                                *)
RateInv ==
  /\ NamesInv /\ LogTimes /\ LogLengths
  /\ \A k \in DOMAIN flows : Exact(k, flows[k].recent)

(* One packet, for its own flow and for any other one.                     *)
LEMMA RateStep ==
  ASSUME LogLengths, LogLengths', NEW p, NEW t \in Nat, Appended(p, t),
         p.answers \in Seq(Answer), p.length \in Nat, LogsPacket(p, t, Len(log)'),
         NEW k, NEW r, Exact(k, r), NEW q,
         IF KeyFor(p) = k THEN Keeps(r, p, t, q) ELSE q = r
  PROVE  Exact(k, q)'
<1>1. r \in Seq(Sample)
  BY DEF Exact
<1>2. q \in Seq(Sample)
  BY <1>1, KeepsRate
<1>3. PICK last : last = Len(log')
  OBVIOUS
<1>4. /\ PacketEvents' = PacketEvents \union {last}
      /\ \A i \in PacketEvents : log'[i] = log[i]
      /\ log'[last].time = t
  BY <1>3 DEF LogsPacket
<1>5. ASSUME NEW now \in Nat, \A i \in PacketEvents' : log'[i].time <= now
      PROVE  SumBytes(Shown(q, now)) = LogBytes(k, now)'
  <2>1. t <= now /\ \A i \in PacketEvents : log[i].time <= now
    BY <1>4, <1>5
  <2>2. SumBytes(Shown(r, now)) = LogBytes(k, now)
    BY <2>1 DEF Exact
  <2>3. /\ LogBytes(k, now) \in Nat
        /\ LogBytes(k, now)' = LogBytes(k, now)
             + (IF KeyFor(p) = k THEN Share(t, p.length, now) ELSE 0)
    BY LogBytesStep
  <2>4. CASE KeyFor(p) = k
    <3>1. SumBytes(Shown(q, now)) = SumBytes(Shown(r, now)) + Share(t, p.length, now)
      BY <1>1, <2>1, <2>4, KeepsRate
    <3>. QED
      BY <2>2, <2>3, <2>4, <3>1
  <2>5. CASE KeyFor(p) # k
    BY <2>2, <2>3, <2>5
  <2>. QED
    BY <2>4, <2>5
<1>6. \A now \in Nat : (\A i \in PacketEvents' : log'[i].time <= now) =>
        SumBytes(Shown(q, now)) = LogBytes(k, now)'
  BY <1>5
<1>. QED
  BY <1>2, <1>6 DEF Exact, Shown, SumBytes

(* The samples of all flows, after one packet.                             *)
LEMMA FeedRates ==
  ASSUME RateInv, NEW raw \in Traffic, NEW t \in Nat, NEW name, NEW process,
         FeedPacket(raw, t, name, process)
  PROVE  LogTimes' /\ LogLengths' /\ \A k \in DOMAIN flows' : Exact(k, flows[k].recent)'
<1> DEFINE p == Recovered(raw, name)
           key == KeyFor(p)
           d == Direction(p, key)
           gs == AfterAnswers(flows, p.answers)
<1>1. p.answers \in Seq(Answer) /\ p.length \in Nat
  BY RecoveredSame, RecoveredTravels
<1>2. PICK host : /\ flows' = AfterUpdate(gs, p, t, host, process)
                  /\ log' = log \o AnswerLog(p) \o PacketLog(p, t)
  BY DEF FeedPacket
<1>3. IInv /\ \A k \in DOMAIN flows : IsFlow(flows[k])
  BY DEF RateInv, NamesInv, FlowsHaveFields
<1>4. /\ DOMAIN gs = DOMAIN flows
      /\ \A k \in DOMAIN flows : IsFlow(gs[k]) /\ gs[k].recent = flows[k].recent
  BY <1>3, AnswersKeep, AnswersOnlyName
<1> HIDE DEF p
<1>5. Appended(p, t) /\ LogsPacket(p, t, Len(log)')
  BY <1>1, <1>2, <1>3, LogGrows, PacketLogged DEF IInv
<1>6. LogTimes' /\ LogLengths'
  <2>1. PICK last : last = Len(log')
    OBVIOUS
  <2>2. /\ PacketEvents' = PacketEvents \union {last}
        /\ \A i \in PacketEvents : log'[i] = log[i]
        /\ log'[last].time = t /\ log'[last].packet = p
    BY <1>5, <2>1 DEF LogsPacket
  <2>. QED
    BY <1>1, <2>2 DEF RateInv, LogTimes, LogLengths
<1>7. PICK f : f = IF key \in DOMAIN gs THEN gs[key] ELSE NewFlow(t)
  OBVIOUS
<1>8. IsFlow(f) /\ d \in Directions
  BY <1>4, <1>7, NewFlowIsEmpty DEF Direction, Directions
<1>9. PICK g : g = Folded(f, p, d, t, host, process)
  OBVIOUS
<1>10. ASSUME NEW k \in DOMAIN flows', k = key
       PROVE  Exact(k, flows[k].recent)'
  <2>1. key # NoKey
    BY <1>2, <1>4, <1>10 DEF AfterUpdate, RateInv, NamesInv, IInv, KeysSeen
  <2>2. flows'[k] = g
    BY <1>2, <1>7, <1>9, <1>10, <2>1 DEF AfterUpdate
  <2>3. Exact(k, f.recent)
    <3>1. CASE k \in DOMAIN flows
      <4>1. Exact(k, flows[k].recent)
        BY <3>1 DEF RateInv
      <4>. QED
        BY <1>4, <1>7, <1>10, <3>1, <4>1
    <3>2. CASE k \notin DOMAIN flows
      <4>1. EventsOf(k) = {}
        BY <1>3, <1>10, <2>1, <3>2 DEF EventsOf, IInv, KeysSeen
      <4>2. f.recent = <<>>
        BY <1>4, <1>7, <1>10, <3>2 DEF NewFlow
      <4>3. Len(log) \in Nat
        BY <1>5 DEF Appended
      <4>4. ASSUME NEW now PROVE SumBytes(Shown(<<>>, now)) = 0
        <5>1. << >> \in Seq(Sample) /\ Len(<< >>) = 0
          OBVIOUS
        <5>2. PICK s : s = Shown(<<>>, now)
          OBVIOUS
        <5>3. s \in [1 .. 0 -> Nat] /\ Len(s) = 0
          BY <5>1, <5>2, ShownIsNumbers
        <5>4. \A i \in 1 .. 0 : s[i] = 0
          OBVIOUS
        <5>. QED
          BY <5>2, <5>3, <5>4, SumOfZeros
      <4>. QED
        BY <4>1, <4>2, <4>3, <4>4, NoPacketsNoBytes DEF Exact
    <3>. QED
      BY <3>1, <3>2
  <2>4. Keeps(f.recent, p, t, g.recent)
    BY <1>1, <1>8, <1>9, <2>3, SampleParagraphs DEF Exact
  <2>5. PICK r : r = f.recent
    OBVIOUS
  <2>6. PICK q : q = g.recent
    OBVIOUS
  <2>7. Exact(k, q)'
    BY <1>1, <1>5, <1>6, <1>10, <2>3, <2>4, <2>5, <2>6, RateStep DEF RateInv
  <2>. QED
    BY <2>2, <2>6, <2>7 DEF Exact
<1>11. ASSUME NEW k \in DOMAIN flows', k # key
       PROVE  Exact(k, flows[k].recent)'
  <2>1. k \in DOMAIN flows /\ flows'[k] = gs[k]
    BY <1>2, <1>4, <1>11 DEF AfterUpdate
  <2>2. Exact(k, flows[k].recent)
    BY <2>1 DEF RateInv
  <2>3. PICK r : r = flows[k].recent
    OBVIOUS
  <2>4. Exact(k, r)'
    BY <1>1, <1>5, <1>6, <1>11, <2>2, <2>3, RateStep DEF RateInv
  <2>5. flows'[k].recent = r
    BY <1>4, <2>1, <2>3
  <2>. QED
    BY <2>4, <2>5 DEF Exact
<1>. QED
  BY <1>6, <1>10, <1>11

(* The rate of a row, at any time after the last packet, is the bytes of   *)
(* its conversation of the last second: the samples that were dropped as   *)
(* packets arrived would not have counted, in whatever order the           *)
(* timestamps came.                                                        *)
THEOREM RatesAreExact == SSpec => []RateIsExact
<1>1. SInit => RateInv
  <2> SUFFICES ASSUME SInit PROVE RateInv
    OBVIOUS
  <2>1. flows = <<>> /\ log = <<>>
    BY DEF SInit, FInit
  <2>2. PacketEvents = {}
    BY <2>1 DEF PacketEvents
  <2>. QED
    BY <2>1, <2>2, NamesStart DEF RateInv, LogTimes, LogLengths
<1>2. RateInv /\ [SNext]_svars => RateInv'
  <2> SUFFICES ASSUME RateInv, [SNext]_svars PROVE RateInv'
    OBVIOUS
  <2>1. NamesInv'
    BY NamesStep DEF RateInv
  <2>2. ASSUME NEW raw \in capture.traffic, NEW t \in capture.times, NEW process, NEW name,
               FeedPacket(raw, t, name, process)
        PROVE  RateInv'
    <3>1. raw \in Traffic /\ t \in Nat
      BY <2>2, CapturesAssumption, TimesAssumption DEF RateInv, NamesInv, IInv
    <3>. QED
      BY <2>1, <2>2, <3>1, FeedRates DEF RateInv
  <2>3. CASE ClearSession
    <3>1. flows' = <<>> /\ log' = <<>>
      BY <2>3 DEF ClearSession, Clear
    <3>2. PacketEvents' = {}
      BY <3>1 DEF PacketEvents
    <3>. QED
      BY <2>1, <3>1, <3>2 DEF RateInv, LogTimes, LogLengths
  <2>4. CASE UNCHANGED svars
    <3>1. flows' = flows /\ log' = log
      BY <2>4 DEF svars, fvars
    <3>2. PacketEvents' = PacketEvents /\ \A k : EventsOf(k)' = EventsOf(k)
      BY <3>1 DEF PacketEvents, EventsOf
    <3>3. LogTimes' /\ LogLengths'
      BY <3>1, <3>2 DEF RateInv, LogTimes, LogLengths
    <3>4. ASSUME NEW k, NEW now PROVE LogBytes(k, now)' = LogBytes(k, now)
      <4>1. PICK u : u = Logged(k, now)'
        OBVIOUS
      <4>2. u = Logged(k, now)
        BY <3>1, <3>2, <4>1 DEF Logged
      <4>3. LogBytes(k, now)' = SumBytes(u)
        BY <4>1 DEF LogBytes, Logged, SumBytes
      <4>. QED
        BY <4>2, <4>3, RatesAreSums
    <3>5. ASSUME NEW k \in DOMAIN flows PROVE Exact(k, flows[k].recent)'
      <4>1. PICK r : r = flows[k].recent
        OBVIOUS
      <4>2. Exact(k, r)
        BY <4>1 DEF RateInv
      <4>3. Exact(k, r)'
        BY <3>1, <3>2, <3>4, <4>2 DEF Exact, Shown, SumBytes
      <4>. QED
        BY <3>1, <4>1, <4>3 DEF Exact
    <3>. QED
      BY <2>1, <3>1, <3>3, <3>5 DEF RateInv
  <2>. QED
    BY <2>2, <2>3, <2>4 DEF SNext
<1>3. RateInv => RateIsExact
  <2> SUFFICES ASSUME RateInv, NEW k \in DOMAIN flows,
                      NEW now \in 0 .. Highest(Times) + OneSecond + 1,
                      \A i \in PacketEvents : log[i].time <= now
               PROVE  Rate(flows[k], now) = LogBytes(k, now)
    BY DEF RateIsExact
  <2>1. now \in Nat
    OBVIOUS
  <2>2. Exact(k, flows[k].recent)
    BY DEF RateInv
  <2>. QED
    BY <2>1, <2>2, RatesAreSums DEF Exact
<1>. QED
  BY <1>1, <1>2, <1>3, PTL DEF SSpec

---------------------------------------------------------------------------
(* Delivery problems.                                                      *)

(* The difference of two numbers is read off their remainders while it is  *)
(* less than half the modulus.                                             *)
LEMMA SerialDiffIs ==
  ASSUME NEW a \in Nat, NEW b \in Nat, -SeqMod <= 2 * (a - b), 2 * (a - b) < SeqMod
  PROVE  SerialDiff(a % SeqMod, b % SeqMod) = a - b
<1>1. SeqMod \in Nat \ {0}
  BY SeqModAssumption
<1>2. /\ a = SeqMod * (a \div SeqMod) + (a % SeqMod) /\ a \div SeqMod \in Nat
      /\ a % SeqMod \in 0 .. SeqMod - 1
  BY <1>1, DivMod
<1>3. /\ b = SeqMod * (b \div SeqMod) + (b % SeqMod) /\ b \div SeqMod \in Nat
      /\ b % SeqMod \in 0 .. SeqMod - 1
  BY <1>1, DivMod
<1> DEFINE x == (a % SeqMod) - (b % SeqMod)
           r == IF a >= b THEN a - b ELSE a - b + SeqMod
           q == (b \div SeqMod) - (a \div SeqMod) + (IF a >= b THEN 0 ELSE -1)
<1>4. x \in Int /\ r \in 0 .. SeqMod - 1 /\ q \in Int
  BY <1>1, <1>2, <1>3
<1>5. x = SeqMod * q + r
  <2>1. CASE a >= b
    BY <1>1, <1>2, <1>3, <2>1
  <2>2. CASE ~(a >= b)
    BY <1>1, <1>2, <1>3, <2>2
  <2>. QED
    BY <2>1, <2>2
<1> HIDE DEF x, q
<1>6. x % SeqMod = r
  BY <1>1, <1>4, <1>5, RemainderUnique
<1>7. SerialDiff(a % SeqMod, b % SeqMod) = IF 2 * r < SeqMod THEN r ELSE r - SeqMod
  BY <1>6 DEF SerialDiff, x
<1>. QED
  BY <1>1, <1>7

---------------------------------------------------------------------------
(* What a direction has covered.                                           *)

EndOf(j) == log[j].packet.pos + log[j].packet.payload

(* The segments that count at operation i.                                 *)
Counting(k, d, i) == {j \in Segments(k, d) : j < i /\ ~ResetBetween(k, j, i)}

(* The covered positions are the ends of the segments that count.          *)
LEMMA CoveredIs ==
  ASSUME NEW k, NEW d, NEW i
  PROVE  Covered(k, d, i) = {EndOf(j) : j \in Counting(k, d, i)}
  BY DEF Covered, Counting, EndOf

(* Packet p is a segment of direction d of flow k.                         *)
Carries(p, k, d) ==
  KeyFor(p) = k /\ p.payload > 0 /\ k.proto = "TCP" /\ Direction(p, k) = d

(* Operation "last", packet p, is the only segment it may add.             *)
Lengthens(p, k, d, last) ==
  /\ last \in Nat
  /\ Segments(k, d)' = Segments(k, d) \union (IF Carries(p, k, d) THEN {last} ELSE {})
  /\ Segments(k, d) \subseteq EventsOf(k)
  /\ EventsOf(k) \subseteq 1 .. last - 1 /\ Segments(k, d) \subseteq 1 .. last - 1
  /\ \A j \in Segments(k, d) : EndOf(j)' = EndOf(j) /\ log'[j] = log[j]
  /\ EndOf(last)' = p.pos + p.payload /\ log'[last].packet = p

(* Logging a packet adds at most its own segment, and changes no other.    *)
LEMMA SegmentsGrow ==
  ASSUME NEW p, NEW t, NEW last, LogsPacket(p, t, last), NEW k, NEW d
  PROVE  Lengthens(p, k, d, last)
<1>1. /\ last \in Nat /\ PacketEvents \subseteq 1 .. last - 1
      /\ \A i \in PacketEvents : log'[i] = log[i]
      /\ log'[last].packet = p
      /\ EventsOf(k) \subseteq PacketEvents
      /\ EventsOf(k)' = EventsOf(k) \union (IF KeyFor(p) = k THEN {last} ELSE {})
  BY DEF LogsPacket
<1>2. Segments(k, d) \subseteq EventsOf(k)
  BY DEF Segments
<1>3. last \notin EventsOf(k)
  BY <1>1
<1>4. Segments(k, d)' = {i \in EventsOf(k)' : /\ log'[i].packet.payload > 0
                                             /\ k.proto = "TCP"
                                             /\ Direction(log'[i].packet, k) = d}
  BY DEF Segments
<1>5. \A i \in EventsOf(k) : i \in Segments(k, d)' <=> i \in Segments(k, d)
  BY <1>1, <1>4 DEF Segments
<1>6. last \in Segments(k, d)' <=> Carries(p, k, d)
  BY <1>1, <1>3, <1>4 DEF Carries
<1>7. Segments(k, d)' \subseteq EventsOf(k) \union {last}
  BY <1>1, <1>4
<1>8. Segments(k, d)' = Segments(k, d) \union (IF Carries(p, k, d) THEN {last} ELSE {})
  BY <1>2, <1>5, <1>6, <1>7
<1>9. \A j \in Segments(k, d) : EndOf(j)' = EndOf(j) /\ log'[j] = log[j]
  BY <1>1, <1>2 DEF EndOf
<1>10. EventsOf(k) \subseteq 1 .. last - 1 /\ Segments(k, d) \subseteq 1 .. last - 1
  BY <1>1, <1>2
<1>11. EndOf(last)' = p.pos + p.payload
  BY <1>1 DEF EndOf
<1>. QED
  BY <1>1, <1>2, <1>8, <1>9, <1>10, <1>11 DEF Lengthens

(* A packet changes nothing of what was covered before it.                 *)
LEMMA ResetsStay ==
  ASSUME NEW p, NEW t, NEW last, LogsPacket(p, t, last), NEW k, NEW j \in Nat
  PROVE  /\ \A i \in 1 .. last : ResetBetween(k, j, i)' <=> ResetBetween(k, j, i)
         /\ j <= last => (ResetBetween(k, j, last + 1)'
                            <=> ResetBetween(k, j, last) \/ (KeyFor(p) = k /\ p.flags.rst))
<1>1. /\ last \in Nat /\ EventsOf(k) \subseteq 1 .. last - 1
      /\ \A i \in EventsOf(k) : log'[i] = log[i]
      /\ log'[last].packet = p
      /\ EventsOf(k)' = EventsOf(k) \union (IF KeyFor(p) = k THEN {last} ELSE {})
  BY DEF LogsPacket
<1>2. \A r \in EventsOf(k) : r \in Nat /\ r < last
  BY <1>1
<1>3. ASSUME NEW i \in 1 .. last
      PROVE  ResetBetween(k, j, i)' <=> ResetBetween(k, j, i)
  <2>1. \A r \in EventsOf(k)' : r < i => r \in EventsOf(k)
    BY <1>1
  <2>. QED
    BY <1>1, <2>1 DEF ResetBetween
<1>4. ASSUME j <= last
      PROVE  ResetBetween(k, j, last + 1)'
               <=> ResetBetween(k, j, last) \/ (KeyFor(p) = k /\ p.flags.rst)
  <2>1. /\ \A r \in EventsOf(k) : r < last /\ r < last + 1
        /\ last < last + 1
    BY <1>1, <1>2
  <2>2. ResetBetween(k, j, last + 1)' <=>
          \E r \in EventsOf(k)' : j <= r /\ r < last + 1 /\ log'[r].packet.flags.rst
    BY DEF ResetBetween
  <2>. QED
    BY <1>1, <1>4, <2>1, <2>2 DEF ResetBetween
<1>. QED
  BY <1>3, <1>4

(* What was covered at an earlier operation stays so as the log grows.     *)
LEMMA CoveredStays ==
  ASSUME NEW p, NEW t, NEW last, LogsPacket(p, t, last), NEW k, NEW d, NEW i \in 1 .. last
  PROVE  Covered(k, d, i)' = Covered(k, d, i)
<1>1. /\ Segments(k, d)' = Segments(k, d) \union (IF Carries(p, k, d) THEN {last} ELSE {})
      /\ Segments(k, d) \subseteq 1 .. last - 1 /\ last \in Nat
      /\ \A j \in Segments(k, d) : EndOf(j)' = EndOf(j)
  <2>1. Lengthens(p, k, d, last)
    BY SegmentsGrow
  <2>. QED
    BY <2>1 DEF Lengthens
<1>2. \A j \in Segments(k, d) : ResetBetween(k, j, i)' <=> ResetBetween(k, j, i)
  <2> SUFFICES ASSUME NEW j \in Segments(k, d)
               PROVE  ResetBetween(k, j, i)' <=> ResetBetween(k, j, i)
    OBVIOUS
  <2>1. j \in Nat
    BY <1>1
  <2>. QED
    BY <2>1, ResetsStay
<1>3. Counting(k, d, i)' = Counting(k, d, i)
  <2>1. Counting(k, d, i)' = {j \in Segments(k, d)' : j < i /\ ~ResetBetween(k, j, i)'}
    BY DEF Counting
  <2>2. ~(last < i)
    BY <1>1
  <2>. QED
    BY <1>1, <1>2, <2>1, <2>2 DEF Counting
<1>4. Covered(k, d, i)' = {EndOf(j)' : j \in Counting(k, d, i)'}
  BY DEF Covered, Counting, EndOf
<1>5. \A j \in Counting(k, d, i) : EndOf(j)' = EndOf(j)
  BY <1>1 DEF Counting
<1>. QED
  BY <1>3, <1>4, <1>5, CoveredIs

(* After a packet its own direction has covered its end too; and after a   *)
(* reset, nothing.                                                         *)
LEMMA CoveredGrows ==
  ASSUME NEW p, NEW t, NEW last, LogsPacket(p, t, last), NEW k, NEW d
  PROVE  Covered(k, d, last + 1)' =
           IF KeyFor(p) = k /\ p.flags.rst THEN {}
           ELSE Covered(k, d, last)
                  \union (IF Carries(p, k, d) THEN {p.pos + p.payload} ELSE {})
<1>1. /\ Segments(k, d)' = Segments(k, d) \union (IF Carries(p, k, d) THEN {last} ELSE {})
      /\ Segments(k, d) \subseteq 1 .. last - 1 /\ EventsOf(k) \subseteq 1 .. last - 1
      /\ last \in Nat
      /\ \A j \in Segments(k, d) : EndOf(j)' = EndOf(j)
      /\ EndOf(last)' = p.pos + p.payload
  <2>1. Lengthens(p, k, d, last)
    BY SegmentsGrow
  <2>. QED
    BY <2>1 DEF Lengthens
<1> DEFINE resets == KeyFor(p) = k /\ p.flags.rst
<1>2. \A j \in Segments(k, d)' :
        ResetBetween(k, j, last + 1)' <=> ResetBetween(k, j, last) \/ resets
  <2> SUFFICES ASSUME NEW j \in Segments(k, d)'
               PROVE  ResetBetween(k, j, last + 1)' <=> ResetBetween(k, j, last) \/ resets
    OBVIOUS
  <2>1. j \in Nat /\ j <= last
    BY <1>1
  <2>. QED
    BY <2>1, ResetsStay
<1>3. ~ResetBetween(k, last, last)
  BY <1>1 DEF ResetBetween
<1>4. Counting(k, d, last + 1)' = {j \in Segments(k, d)' :
                                     j < last + 1 /\ ~ResetBetween(k, j, last + 1)'}
  BY DEF Counting
<1>5. \A j \in Segments(k, d) : j < last /\ j < last + 1
  BY <1>1
<1> HIDE DEF resets
<1>6. Counting(k, d, last + 1)' =
        IF resets THEN {}
        ELSE Counting(k, d, last) \union (IF Carries(p, k, d) THEN {last} ELSE {})
  <2>1. last < last + 1
    BY <1>1
  <2>. QED
    BY <1>1, <1>2, <1>3, <1>4, <1>5, <2>1 DEF Counting
<1>7. Covered(k, d, last + 1)' = {EndOf(j)' : j \in Counting(k, d, last + 1)'}
  BY DEF Covered, Counting, EndOf
<1>8. \A j \in Counting(k, d, last) : EndOf(j)' = EndOf(j)
  BY <1>1 DEF Counting
<1>9. Covered(k, d, last) = {EndOf(j) : j \in Counting(k, d, last)}
  BY CoveredIs
<1>10. CASE resets
  BY <1>6, <1>7, <1>10 DEF resets
<1>11. CASE ~resets
  <2>1. Covered(k, d, last + 1)' =
          {EndOf(j)' : j \in Counting(k, d, last) \union (IF Carries(p, k, d) THEN {last} ELSE {})}
    BY <1>6, <1>7, <1>11
  <2>2. PICK C : C = Counting(k, d, last)
    OBVIOUS
  <2>3. Covered(k, d, last + 1)' =
          Covered(k, d, last) \union (IF Carries(p, k, d) THEN {EndOf(last)'} ELSE {})
    BY <1>8, <1>9, <2>1, <2>2
  <2>. QED
    BY <1>1, <1>11, <2>3 DEF resets
<1>. QED
  BY <1>10, <1>11

(* Nothing is covered between two operations.                              *)
LEMMA CoveredMeanwhile ==
  ASSUME NEW k, NEW d, NEW n \in Nat, PacketEvents \subseteq 1 .. n,
         NEW i \in Nat, NEW j \in Nat, n < i, n < j
  PROVE  Covered(k, d, i) = Covered(k, d, j)
<1>1. \A r \in EventsOf(k) : r < i /\ r < j
  BY DEF EventsOf
<1>2. Segments(k, d) \subseteq EventsOf(k)
  BY DEF Segments
<1>3. \A x : ResetBetween(k, x, i) <=> ResetBetween(k, x, j)
  BY <1>1 DEF ResetBetween
<1>4. Counting(k, d, i) = Counting(k, d, j)
  BY <1>1, <1>2, <1>3 DEF Counting
<1>. QED
  BY <1>4, CoveredIs

---------------------------------------------------------------------------
(* Counting the segments that begin off the end.                           *)

Below(k, d, i) ==
  Covered(k, d, i) # {} /\ log[i].packet.pos < Highest(Covered(k, d, i))

Beyond(k, d, i) ==
  Covered(k, d, i) # {} /\ log[i].packet.pos > Highest(Covered(k, d, i))

Repeated(k, d) == {i \in Segments(k, d) : Below(k, d, i)}
Ahead(k, d) == {i \in Segments(k, d) : Beyond(k, d, i)}

(* A set of operations that may gain the last one is counted by adding one.*)
LEMMA OneMore ==
  ASSUME NEW last \in Nat, NEW S, S \subseteq 1 .. last - 1, NEW B, B \in BOOLEAN
  PROVE  /\ Cardinality(S) \in Nat
         /\ Cardinality(S \union (IF B THEN {last} ELSE {}))
              = Cardinality(S) + (IF B THEN 1 ELSE 0)
<1>1. IsFiniteSet(S)
  <2>1. IsFiniteSet(1 .. last - 1) /\ S \in SUBSET (1 .. last - 1)
    BY FS_Interval
  <2>. QED
    BY <2>1, FS_Subset
<1>2. last \notin S
  OBVIOUS
<1>3. CASE B
  BY <1>1, <1>2, <1>3, FS_AddElement, FS_CardinalityType
<1>4. CASE ~B
  <2>1. S \union {} = S
    OBVIOUS
  <2>. QED
    BY <1>1, <1>4, <2>1, FS_CardinalityType
<1>. QED
  BY <1>3, <1>4

(* What one packet adds to the counts of a direction.                      *)
LEMMA CountsGrow ==
  ASSUME NEW p, NEW t, NEW last, LogsPacket(p, t, last), NEW k, NEW d,
         NEW C, C = Covered(k, d, last)
  PROVE  /\ Cardinality(Repeated(k, d)) \in Nat /\ Cardinality(Ahead(k, d)) \in Nat
         /\ Cardinality(Repeated(k, d)') = Cardinality(Repeated(k, d))
              + (IF Carries(p, k, d) /\ C # {} /\ p.pos < Highest(C) THEN 1 ELSE 0)
         /\ Cardinality(Ahead(k, d)') = Cardinality(Ahead(k, d))
              + (IF Carries(p, k, d) /\ C # {} /\ p.pos > Highest(C) THEN 1 ELSE 0)
<1>1. /\ Segments(k, d)' = Segments(k, d) \union (IF Carries(p, k, d) THEN {last} ELSE {})
      /\ Segments(k, d) \subseteq 1 .. last - 1 /\ last \in Nat
      /\ \A j \in Segments(k, d) : log'[j] = log[j]
      /\ log'[last].packet = p
  <2>1. Lengthens(p, k, d, last)
    BY SegmentsGrow
  <2>. QED
    BY <2>1 DEF Lengthens
<1>2. ASSUME NEW i \in Segments(k, d)
      PROVE  (Below(k, d, i)' <=> Below(k, d, i)) /\ (Beyond(k, d, i)' <=> Beyond(k, d, i))
  <2>1. i \in 1 .. last
    BY <1>1
  <2>2. Covered(k, d, i)' = Covered(k, d, i)
    BY <2>1, CoveredStays
  <2>. QED
    BY <1>1, <2>2 DEF Below, Beyond, Highest
<1>3. /\ Below(k, d, last)' <=> C # {} /\ p.pos < Highest(C)
      /\ Beyond(k, d, last)' <=> C # {} /\ p.pos > Highest(C)
  <2>1. last \in PacketEvents'
    BY DEF LogsPacket
  <2>2. last \in 1 .. last
    BY <1>1, <2>1 DEF PacketEvents
  <2>3. Covered(k, d, last)' = C
    BY <2>2, CoveredStays
  <2>. QED
    BY <1>1, <2>3 DEF Below, Beyond, Highest
<1> DEFINE low == Carries(p, k, d) /\ C # {} /\ p.pos < Highest(C)
           high == Carries(p, k, d) /\ C # {} /\ p.pos > Highest(C)
<1>4. last \notin Segments(k, d)
  BY <1>1
<1>5. Repeated(k, d)' = Repeated(k, d) \union (IF low THEN {last} ELSE {})
  <2>1. Repeated(k, d)' = {i \in Segments(k, d)' : Below(k, d, i)'}
    BY DEF Repeated
  <2>. QED
    BY <1>1, <1>2, <1>3, <1>4, <2>1 DEF Repeated
<1>6. Ahead(k, d)' = Ahead(k, d) \union (IF high THEN {last} ELSE {})
  <2>1. Ahead(k, d)' = {i \in Segments(k, d)' : Beyond(k, d, i)'}
    BY DEF Ahead
  <2>. QED
    BY <1>1, <1>2, <1>3, <1>4, <2>1 DEF Ahead
<1>7. Repeated(k, d) \subseteq 1 .. last - 1 /\ Ahead(k, d) \subseteq 1 .. last - 1
  BY <1>1 DEF Repeated, Ahead
<1>8. low \in BOOLEAN /\ high \in BOOLEAN
  BY DEF Carries
<1> HIDE DEF low, high
<1>9. /\ Cardinality(Repeated(k, d)) \in Nat
      /\ Cardinality(Repeated(k, d)') = Cardinality(Repeated(k, d)) + (IF low THEN 1 ELSE 0)
  BY <1>1, <1>5, <1>7, <1>8, OneMore
<1>10. /\ Cardinality(Ahead(k, d)) \in Nat
       /\ Cardinality(Ahead(k, d)') = Cardinality(Ahead(k, d)) + (IF high THEN 1 ELSE 0)
  BY <1>1, <1>6, <1>7, <1>8, OneMore
<1>. QED
  BY <1>9, <1>10 DEF low, high

---------------------------------------------------------------------------
(* What update() does to the sequence numbers of a flow.                   *)

HasSequences(f) ==
  /\ DOMAIN f.next = Directions
  /\ DOMAIN f.retransmissions = Directions /\ DOMAIN f.outOfOrder = Directions

IsSegment(p) == p.proto = "TCP" /\ p.payload # 0

EndSeq(p) == ((p.pos % SeqMod) + p.payload) % SeqMod

(* Segment p, where "next" is expected, begins beyond it, or before it.    *)
Skips(next, p) ==
  IsSegment(p) /\ next # NoSequence /\ SerialDiff(p.pos % SeqMod, next) > 0

Repeats(next, p) ==
  /\ IsSegment(p) /\ next # NoSequence
  /\ SerialDiff(p.pos % SeqMod, next) # 0 /\ ~(SerialDiff(p.pos % SeqMod, next) > 0)

NextAfter(next, p) ==
  IF ~IsSegment(p) \/ (Repeats(next, p) /\ ~(SerialDiff(EndSeq(p), next) > 0))
  THEN next ELSE EndSeq(p)

(* Flow g is flow f after packet p in direction d.                         *)
FoldsSequences(f, p, d, g) ==
  /\ HasSequences(g)
  /\ \A x \in Directions :
       /\ g.next[x] = IF p.flags.rst THEN NoSequence
                      ELSE IF x = d THEN NextAfter(f.next[x], p) ELSE f.next[x]
       /\ g.retransmissions[x] = IF x = d /\ Repeats(f.next[x], p)
                                 THEN f.retransmissions[x] + 1 ELSE f.retransmissions[x]
       /\ g.outOfOrder[x] = IF x = d /\ Skips(f.next[x], p)
                            THEN f.outOfOrder[x] + 1 ELSE f.outOfOrder[x]

(* Two paragraphs of update() touch the sequence numbers.                  *)
LEMMA SequenceParagraphs ==
  ASSUME NEW f, IsFlow(f), HasSequences(f), NEW p, NEW d \in Directions, NEW t,
         NEW host, NEW process
  PROVE  FoldsSequences(f, p, d, Folded(f, p, d, t, host, process))
<1> DEFINE a == Counted(f, p, d, t)
           b == Timed(a, p, d, t)
           c == Sequenced(b, p, d)
           e == Reset(c, p)
           g == Named(e, p, host, process)
           h == Sampled(g, p, t)
           Same(x, y) == /\ DOMAIN x = Fields /\ x.next = y.next
                         /\ x.retransmissions = y.retransmissions
                         /\ x.outOfOrder = y.outOfOrder
<1>1. Same(a, f)
  BY DEF Counted, IsFlow, Fields
<1>2. Same(b, a)
  <2> HIDE DEF a
  <2>. QED
    BY <1>1 DEF Timed, Fields
<1>3. /\ DOMAIN b = Fields /\ b.next = f.next
      /\ b.retransmissions = f.retransmissions /\ b.outOfOrder = f.outOfOrder
  BY <1>1, <1>2
<1>4. /\ DOMAIN c = Fields /\ HasSequences(c)
      /\ \A x \in Directions :
           /\ c.next[x] = IF x = d THEN NextAfter(f.next[x], p) ELSE f.next[x]
           /\ c.retransmissions[x] = IF x = d /\ Repeats(f.next[x], p)
                                     THEN f.retransmissions[x] + 1 ELSE f.retransmissions[x]
           /\ c.outOfOrder[x] = IF x = d /\ Skips(f.next[x], p)
                                THEN f.outOfOrder[x] + 1 ELSE f.outOfOrder[x]
  <2> DEFINE next == f.next[d]
             offset == SerialDiff(p.pos % SeqMod, next)
  <2> HIDE DEF a, b
  <2>1. CASE ~IsSegment(p)
    <3>1. c = b
      BY <2>1 DEF Sequenced, IsSegment
    <3> HIDE DEF c
    <3>. QED
      BY <1>3, <2>1, <3>1 DEF HasSequences, NextAfter, Repeats, Skips
  <2>2. CASE IsSegment(p) /\ (next = NoSequence \/ offset = 0)
    <3>1. c = [b EXCEPT !.next[d] = EndSeq(p)]
      BY <1>3, <2>2 DEF Sequenced, IsSegment, EndSeq
    <3>2. ~Repeats(next, p) /\ ~Skips(next, p) /\ NextAfter(next, p) = EndSeq(p)
      BY <2>2 DEF Repeats, Skips, NextAfter
    <3> HIDE DEF c, next
    <3>3. /\ DOMAIN c = Fields /\ c.next = [f.next EXCEPT ![d] = EndSeq(p)]
          /\ c.retransmissions = f.retransmissions /\ c.outOfOrder = f.outOfOrder
      BY <1>3, <3>1 DEF Fields
    <3>. QED
      BY <3>2, <3>3 DEF HasSequences, next
  <2>3. CASE IsSegment(p) /\ next # NoSequence /\ offset > 0 /\ offset # 0
    <3>1. c = [b EXCEPT !.outOfOrder[d] = @ + 1, !.next[d] = EndSeq(p)]
      BY <1>3, <2>3 DEF Sequenced, IsSegment, EndSeq
    <3>2. ~Repeats(next, p) /\ Skips(next, p) /\ NextAfter(next, p) = EndSeq(p)
      BY <2>3 DEF Repeats, Skips, NextAfter
    <3> HIDE DEF c, next
    <3>3. /\ DOMAIN c = Fields /\ c.next = [f.next EXCEPT ![d] = EndSeq(p)]
          /\ c.retransmissions = f.retransmissions
          /\ c.outOfOrder = [f.outOfOrder EXCEPT ![d] = @ + 1]
      BY <1>3, <3>1 DEF Fields
    <3>. QED
      BY <3>2, <3>3 DEF HasSequences, next
  <2>4. CASE IsSegment(p) /\ next # NoSequence /\ ~(offset > 0) /\ offset # 0
    <3>1. c = [b EXCEPT !.retransmissions[d] = @ + 1,
                        !.next[d] = IF SerialDiff(EndSeq(p), next) > 0
                                    THEN EndSeq(p) ELSE next]
      BY <1>3, <2>4 DEF Sequenced, IsSegment, EndSeq
    <3>2. /\ Repeats(next, p) /\ ~Skips(next, p)
          /\ NextAfter(next, p) = IF SerialDiff(EndSeq(p), next) > 0 THEN EndSeq(p) ELSE next
      BY <2>4 DEF Repeats, Skips, NextAfter
    <3> HIDE DEF c, next
    <3>3. /\ DOMAIN c = Fields /\ c.next = [f.next EXCEPT ![d] = NextAfter(next, p)]
          /\ c.retransmissions = [f.retransmissions EXCEPT ![d] = @ + 1]
          /\ c.outOfOrder = f.outOfOrder
      BY <1>3, <3>1, <3>2 DEF Fields
    <3>. QED
      BY <3>2, <3>3 DEF HasSequences, next
  <2>. QED
    BY <2>1, <2>2, <2>3, <2>4
<1>5. /\ DOMAIN e = Fields
      /\ e.next = (IF p.flags.rst THEN [x \in Directions |-> NoSequence] ELSE c.next)
      /\ e.retransmissions = c.retransmissions /\ e.outOfOrder = c.outOfOrder
  <2>1. DOMAIN c = Fields
    BY <1>4
  <2> HIDE DEF a, b, c
  <2>. QED
    BY <2>1 DEF Reset, Fields
<1>6. Same(g, e)
  <2> HIDE DEF a, b, c, e
  <2>. QED
    BY <1>5 DEF Named, Fields
<1>7. Same(h, g)
  <2> HIDE DEF a, b, c, e, g
  <2>. QED
    BY <1>6 DEF Sampled, Fields
<1>8. Folded(f, p, d, t, host, process) = h
  BY DEF Folded
<1> HIDE DEF a, b, c, e, g, h
<1>9. /\ h.next = (IF p.flags.rst THEN [x \in Directions |-> NoSequence] ELSE c.next)
      /\ h.retransmissions = c.retransmissions /\ h.outOfOrder = c.outOfOrder
  BY <1>5, <1>6, <1>7
<1>10. FoldsSequences(f, p, d, h)
  BY <1>4, <1>9 DEF FoldsSequences, HasSequences
<1>. QED
  BY <1>8, <1>10

---------------------------------------------------------------------------
(* The end of what a direction has covered.                                *)
IsTop(C, h) == h \in C /\ \A y \in C : y <= h

(* What is expected next is the number of the highest position covered.    *)
Expects(C, next) ==
  /\ C \subseteq Nat
  /\ \/ C = {} /\ next = NoSequence
     \/ \E h \in Nat : IsTop(C, h) /\ next = h % SeqMod

(* The greatest element of a set of positions is its Highest.              *)
LEMMA TopIsHighest ==
  ASSUME NEW C, C \subseteq Nat, NEW h \in Nat, IsTop(C, h)
  PROVE  Highest(C) = h
<1> DEFINE Tops(x) == \A y \in C : y <= x
<1>1. h \in C /\ Tops(h)
  BY DEF IsTop
<1>2. Highest(C) = CHOOSE x \in C : Tops(x)
  BY DEF Highest
<1>3. ASSUME NEW x \in C, Tops(x) PROVE x = h
  <2>1. x \in Nat /\ x <= h /\ h <= x
    BY <1>1, <1>3
  <2>. QED
    BY <2>1
<1> HIDE DEF Tops
<1>. QED
  BY <1>1, <1>2, <1>3

(* Of a segment within the window of its stream, update() sees on which    *)
(* side of the end it begins, and expects the new end after it.            *)
LEMMA SegmentStep ==
  ASSUME NEW C, NEW next, Expects(C, next), NEW p, IsSegment(p),
         p.pos \in Nat, p.payload \in Nat,
         C # {} => /\ 2 * (Highest(C) - p.pos) < SeqMod
                   /\ 2 * (p.pos + p.payload - Highest(C)) < SeqMod
  PROVE  /\ Repeats(next, p) <=> C # {} /\ p.pos < Highest(C)
         /\ Skips(next, p) <=> C # {} /\ p.pos > Highest(C)
         /\ Expects(C \union {p.pos + p.payload}, NextAfter(next, p))
<1>1. PICK a \in Nat : a = p.pos
  OBVIOUS
<1>2. PICK e \in Nat : e = p.pos + p.payload
  OBVIOUS
<1>3. a < e
  BY <1>1, <1>2 DEF IsSegment
<1>4. EndSeq(p) = e % SeqMod
  <2>1. SeqMod \in Nat \ {0}
    BY SeqModAssumption
  <2>. QED
    BY <1>2, <2>1, AddToRemainder DEF EndSeq
<1>5. CASE C = {}
  <2>1. next = NoSequence
    BY <1>5 DEF Expects, IsTop
  <2>2. ~Repeats(next, p) /\ ~Skips(next, p) /\ NextAfter(next, p) = e % SeqMod
    BY <1>4, <2>1 DEF Repeats, Skips, NextAfter
  <2>3. IsTop({e}, e)
    BY DEF IsTop
  <2>. QED
    BY <1>2, <1>5, <2>2, <2>3 DEF Expects
<1>6. CASE C # {}
  <2>1. PICK h \in Nat : IsTop(C, h) /\ next = h % SeqMod
    BY <1>6 DEF Expects
  <2>2. C \subseteq Nat /\ Highest(C) = h
    BY <2>1, TopIsHighest DEF Expects
  <2>3. 2 * (h - a) < SeqMod /\ 2 * (e - h) < SeqMod /\ SeqMod \in Nat \ {0}
    BY <1>1, <1>2, <1>6, <2>2, SeqModAssumption
  <2>4. next # NoSequence
    <3>1. h % SeqMod \in 0 .. SeqMod - 1
      BY <2>3, DivMod
    <3>. QED
      BY <2>1, <2>3, <3>1 DEF NoSequence
  <2>5. SerialDiff(a % SeqMod, next) = a - h
    <3>1. -SeqMod <= 2 * (a - h) /\ 2 * (a - h) < SeqMod
      BY <1>3, <2>3
    <3>. QED
      BY <2>1, <3>1, SerialDiffIs
  <2>6. SerialDiff(e % SeqMod, next) = e - h
    <3>1. -SeqMod <= 2 * (e - h) /\ 2 * (e - h) < SeqMod
      BY <1>3, <2>3
    <3>. QED
      BY <2>1, <3>1, SerialDiffIs
  <2>7. Repeats(next, p) <=> a < h
    BY <1>1, <2>4, <2>5 DEF Repeats
  <2>8. Skips(next, p) <=> a > h
    BY <1>1, <2>4, <2>5 DEF Skips
  <2>9. NextAfter(next, p) = IF a < h /\ ~(e > h) THEN next ELSE e % SeqMod
    BY <1>4, <2>6, <2>7 DEF NextAfter
  <2>10. CASE a < h /\ ~(e > h)
    <3>1. IsTop(C \union {e}, h)
      BY <2>1, <2>10 DEF IsTop
    <3>2. Expects(C \union {e}, next)
      BY <2>1, <2>2, <3>1 DEF Expects
    <3>. QED
      BY <1>1, <1>2, <1>6, <2>2, <2>7, <2>8, <2>9, <2>10, <3>2
  <2>11. CASE ~(a < h /\ ~(e > h))
    <3>1. e > h
      BY <1>3, <2>11
    <3>2. \A y \in C : y <= e
      BY <2>1, <2>2, <3>1 DEF IsTop
    <3>3. IsTop(C \union {e}, e)
      BY <3>2 DEF IsTop
    <3>4. Expects(C \union {e}, e % SeqMod)
      BY <2>2, <3>3 DEF Expects
    <3>. QED
      BY <1>1, <1>2, <1>6, <2>2, <2>7, <2>8, <2>9, <2>11, <3>4
  <2>. QED
    BY <2>10, <2>11
<1>. QED
  BY <1>5, <1>6

---------------------------------------------------------------------------
(* The delivery counters of flow f of key k are those of the log.          *)
DeliversIn(k, d, f) ==
  /\ Expects(Covered(k, d, Len(log) + 1), f.next[d])
  /\ f.retransmissions[d] = Cardinality(Repeated(k, d))
  /\ f.outOfOrder[d] = Cardinality(Ahead(k, d))

Delivers(k, f) == HasSequences(f) /\ \A d \in Directions : DeliversIn(k, d, f)

(* The inductive invariant.                                                *)
DeliveryInv ==
  /\ NamesInv
  /\ \A k \in DOMAIN flows : Delivers(k, flows[k])

(* The operation that logs packet p begins when the log has n entries.     *)
LogsAfter(n, p, t, last) ==
  n \in Nat /\ n = Len(log) /\ n < last /\ last = Len(log') /\ LogsPacket(p, t, last)

(* What one packet does to what direction d of flow k has covered.         *)
Moves(p, k, d, last, C) ==
  /\ C = Covered(k, d, Len(log) + 1) /\ C = Covered(k, d, last)
  /\ Covered(k, d, Len(log) + 1)' =
       IF KeyFor(p) = k /\ p.flags.rst THEN {}
       ELSE C \union (IF Carries(p, k, d) THEN {p.pos + p.payload} ELSE {})

(* What is covered at the end of the log after one more packet: its segment *)
(* more, or nothing when it resets.                                        *)
LEMMA EndMoves ==
  ASSUME NEW n, NEW p, NEW t, NEW last, LogsAfter(n, p, t, last), NEW k, NEW d
  PROVE  \E C : Moves(p, k, d, last, C)
<1>1. n \in Nat /\ n = Len(log) /\ n < last /\ last = Len(log') /\ last \in Nat
  BY DEF LogsAfter, LogsPacket
<1>2. PacketEvents \subseteq 1 .. n
  BY <1>1 DEF PacketEvents
<1>3. Covered(k, d, last) = Covered(k, d, n + 1)
  <2>1. n < n + 1 /\ n + 1 \in Nat
    BY <1>1
  <2>. QED
    BY <1>1, <1>2, <2>1, CoveredMeanwhile, ZenonT(60)
<1>4. Covered(k, d, last + 1)' =
           IF KeyFor(p) = k /\ p.flags.rst THEN {}
           ELSE Covered(k, d, last)
                  \union (IF Carries(p, k, d) THEN {p.pos + p.payload} ELSE {})
  BY CoveredGrows DEF LogsAfter
<1>5. Covered(k, d, Len(log) + 1)' = Covered(k, d, last + 1)'
  BY <1>1 DEF Covered
<1>6. Moves(p, k, d, last, Covered(k, d, last))
  BY <1>1, <1>3, <1>4, <1>5 DEF Moves
<1>. QED
  BY <1>6

(* One direction of the packet's own flow.                                 *)
LEMMA DeliveryStep ==
  ASSUME NEW n, NEW p, NEW t, NEW last, LogsAfter(n, p, t, last),
         NEW k, KeyFor(p) = k, k.proto = p.proto, p.pos \in Nat, p.payload \in Nat,
         InWindow(p), NEW d \in Directions, NEW f, DeliversIn(k, d, f),
         NEW g, FoldsSequences(f, p, Direction(p, k), g)
  PROVE  DeliversIn(k, d, g)'
<1>0. PICK C : Moves(p, k, d, last, C)
  BY EndMoves
<1>1. C = Covered(k, d, Len(log) + 1)
  BY <1>0 DEF Moves
<1>2. PICK N : N = Covered(k, d, Len(log) + 1)'
  OBVIOUS
<1>3. /\ C = Covered(k, d, last)
      /\ N = IF p.flags.rst THEN {}
             ELSE C \union (IF Carries(p, k, d) THEN {p.pos + p.payload} ELSE {})
  BY <1>2, <1>0 DEF Moves
<1>4. PICK next : next = f.next[d]
  OBVIOUS
<1>5. PICK re : re = f.retransmissions[d]
  OBVIOUS
<1>6. PICK out : out = f.outOfOrder[d]
  OBVIOUS
<1>7. Expects(C, next) /\ re = Cardinality(Repeated(k, d)) /\ out = Cardinality(Ahead(k, d))
  BY <1>1, <1>4, <1>5, <1>6 DEF DeliversIn
<1>8. Carries(p, k, d) <=> IsSegment(p) /\ d = Direction(p, k)
  BY DEF Carries, IsSegment
<1>9. /\ g.next[d] = IF p.flags.rst THEN NoSequence
                     ELSE IF d = Direction(p, k) THEN NextAfter(next, p) ELSE next
      /\ g.retransmissions[d] = IF d = Direction(p, k) /\ Repeats(next, p) THEN re + 1 ELSE re
      /\ g.outOfOrder[d] = IF d = Direction(p, k) /\ Skips(next, p) THEN out + 1 ELSE out
  BY <1>4, <1>5, <1>6 DEF FoldsSequences
<1>10. /\ Cardinality(Repeated(k, d)) \in Nat /\ Cardinality(Ahead(k, d)) \in Nat
       /\ Cardinality(Repeated(k, d)') = Cardinality(Repeated(k, d))
            + (IF Carries(p, k, d) /\ C # {} /\ p.pos < Highest(C) THEN 1 ELSE 0)
       /\ Cardinality(Ahead(k, d)') = Cardinality(Ahead(k, d))
            + (IF Carries(p, k, d) /\ C # {} /\ p.pos > Highest(C) THEN 1 ELSE 0)
  <2>1. LogsPacket(p, t, last)
    BY DEF LogsAfter
  <2>. QED
    BY ONLY <1>3, <2>1, CountsGrow
<1>11. Expects({}, NoSequence)
  BY DEF Expects
<1>12. CASE Carries(p, k, d)
  <2>1. IsSegment(p) /\ d = Direction(p, k) /\ p.payload > 0
    BY <1>8, <1>12 DEF Carries
  <2>2. C # {} => /\ 2 * (Highest(C) - p.pos) < SeqMod
                  /\ 2 * (p.pos + p.payload - Highest(C)) < SeqMod
    BY <1>1, <2>1 DEF InWindow
  <2>3. /\ Repeats(next, p) <=> C # {} /\ p.pos < Highest(C)
        /\ Skips(next, p) <=> C # {} /\ p.pos > Highest(C)
        /\ Expects(C \union {p.pos + p.payload}, NextAfter(next, p))
    BY <1>7, <2>1, <2>2, SegmentStep
  <2>4. Expects(N, g.next[d])
    BY <1>3, <1>9, <1>11, <1>12, <2>1, <2>3
  <2>5. g.retransmissions[d] = Cardinality(Repeated(k, d)')
    BY <1>7, <1>9, <1>10, <1>12, <2>1, <2>3
  <2>6. g.outOfOrder[d] = Cardinality(Ahead(k, d)')
    BY <1>7, <1>9, <1>10, <1>12, <2>1, <2>3
  <2>. QED
    BY <1>2, <2>4, <2>5, <2>6 DEF DeliversIn, Expects, IsTop
<1>13. CASE ~Carries(p, k, d)
  <2>1. d = Direction(p, k) => ~IsSegment(p)
    BY <1>8, <1>13
  <2>2. d = Direction(p, k) => /\ ~Repeats(next, p) /\ ~Skips(next, p)
                               /\ NextAfter(next, p) = next
    BY <2>1 DEF Repeats, Skips, NextAfter
  <2>3. Expects(N, g.next[d])
    BY <1>3, <1>7, <1>9, <1>11, <1>13, <2>2
  <2>4. g.retransmissions[d] = Cardinality(Repeated(k, d)')
    BY <1>7, <1>9, <1>10, <1>13, <2>2
  <2>5. g.outOfOrder[d] = Cardinality(Ahead(k, d)')
    BY <1>7, <1>9, <1>10, <1>13, <2>2
  <2>. QED
    BY <1>2, <2>3, <2>4, <2>5 DEF DeliversIn, Expects, IsTop
<1>. QED
  BY <1>12, <1>13

(* The other flows.                                                        *)
LEMMA DeliveryStays ==
  ASSUME NEW n, NEW p, NEW t, NEW last, LogsAfter(n, p, t, last),
         NEW k, KeyFor(p) # k, NEW d \in Directions, NEW f, DeliversIn(k, d, f),
         NEW g, g.next = f.next, g.retransmissions = f.retransmissions,
         g.outOfOrder = f.outOfOrder
  PROVE  DeliversIn(k, d, g)'
<1>0. PICK C : Moves(p, k, d, last, C)
  BY EndMoves
<1>1. C = Covered(k, d, Len(log) + 1)
  BY <1>0 DEF Moves
<1>2. ~Carries(p, k, d)
  BY DEF Carries
<1>3. C = Covered(k, d, last) /\ Covered(k, d, Len(log) + 1)' = C
  BY <1>2, <1>0 DEF Moves
<1>4. /\ Cardinality(Repeated(k, d)) \in Nat /\ Cardinality(Ahead(k, d)) \in Nat
      /\ Cardinality(Repeated(k, d)') = Cardinality(Repeated(k, d)) + 0
      /\ Cardinality(Ahead(k, d)') = Cardinality(Ahead(k, d)) + 0
  <2>1. LogsPacket(p, t, last)
    BY DEF LogsAfter
  <2>. QED
    BY ONLY <1>2, <1>3, <2>1, CountsGrow
<1>5. Expects(C, g.next[d])
  BY <1>1 DEF DeliversIn
<1>6. /\ g.retransmissions[d] = Cardinality(Repeated(k, d)')
      /\ g.outOfOrder[d] = Cardinality(Ahead(k, d)')
  BY <1>4 DEF DeliversIn
<1>. QED
  BY <1>3, <1>5, <1>6 DEF DeliversIn, Expects, IsTop

(* A recovered packet is the same segment.                                 *)
LEMMA RecoveredSegment ==
  ASSUME NEW raw \in Traffic, NEW name
  PROVE  LET p == Recovered(raw, name)
         IN  /\ p.pos \in Nat /\ p.payload \in Nat
             /\ InWindow(raw) => InWindow(p)
<1> DEFINE p == Recovered(raw, name)
<1>1. /\ {"src", "dst", "proto", "payload", "pos"} \subseteq DOMAIN raw
      /\ raw.pos \in Nat /\ raw.payload \in Nat
  BY TrafficAssumption
<1>2. /\ p.src = raw.src /\ p.dst = raw.dst /\ p.proto = raw.proto
      /\ p.pos = raw.pos /\ p.payload = raw.payload
  BY <1>1 DEF Recovered
<1>3. KeyFor(p) = KeyFor(raw)
  BY RecoveredTravels
<1> HIDE DEF p
<1>4. \A k : Direction(p, k) = Direction(raw, k)
  BY <1>2 DEF Direction, IsDownstream
<1>5. InWindow(raw) => InWindow(p)
  BY <1>2, <1>3, <1>4 DEF InWindow
<1>. QED
  BY <1>1, <1>2, <1>5 DEF p

(* A flow that has had no packet has no counts.                            *)
LEMMA NewFlowDelivers ==
  ASSUME NEW k, EventsOf(k) = {}, NEW t
  PROVE  Delivers(k, NewFlow(t))
<1>1. \A d : Segments(k, d) = {}
  BY DEF Segments
<1>2. \A d, i : Counting(k, d, i) = {}
  BY <1>1 DEF Counting
<1>3. \A d, i : Covered(k, d, i) = {}
  BY <1>2, CoveredIs
<1>4. \A d : Repeated(k, d) = {} /\ Ahead(k, d) = {}
  BY <1>1 DEF Repeated, Ahead
<1>5. Cardinality({}) = 0
  BY FS_EmptySet
<1>6. /\ NewFlow(t).next = [d \in Directions |-> NoSequence]
      /\ NewFlow(t).retransmissions = [d \in Directions |-> 0]
      /\ NewFlow(t).outOfOrder = [d \in Directions |-> 0]
  BY DEF NewFlow
<1>7. Expects({}, NoSequence)
  BY DEF Expects
<1>8. PICK f : f = NewFlow(t)
  OBVIOUS
<1>9. Delivers(k, f)
  BY <1>3, <1>4, <1>5, <1>6, <1>7, <1>8 DEF Delivers, DeliversIn, HasSequences
<1>. QED
  BY <1>8, <1>9

(* The counters of all flows, after one packet.                            *)
LEMMA FeedDelivery ==
  ASSUME DeliveryInv, NEW raw \in Traffic, NEW t, NEW name, NEW process,
         InWindow(raw), FeedPacket(raw, t, name, process)
  PROVE  \A k \in DOMAIN flows' : Delivers(k, flows[k])'
<1> DEFINE p == Recovered(raw, name)
           key == KeyFor(p)
           d == Direction(p, key)
           gs == AfterAnswers(flows, p.answers)
<1>1. p.answers \in Seq(Answer) /\ p.pos \in Nat /\ p.payload \in Nat /\ InWindow(p)
  BY RecoveredSame, RecoveredSegment
<1>2. PICK host : /\ flows' = AfterUpdate(gs, p, t, host, process)
                  /\ log' = log \o AnswerLog(p) \o PacketLog(p, t)
  BY DEF FeedPacket
<1>3. IInv /\ \A k \in DOMAIN flows : IsFlow(flows[k])
  BY DEF DeliveryInv, NamesInv, FlowsHaveFields
<1>4. /\ DOMAIN gs = DOMAIN flows
      /\ \A k \in DOMAIN flows :
           /\ IsFlow(gs[k]) /\ gs[k].next = flows[k].next
           /\ gs[k].retransmissions = flows[k].retransmissions
           /\ gs[k].outOfOrder = flows[k].outOfOrder
  BY <1>3, AnswersKeep, AnswersOnlyName
<1> HIDE DEF p
<1>5. PICK last : last = Len(log')
  OBVIOUS
<1>6. PICK n : n = Len(log)
  OBVIOUS
<1>7. LogsPacket(p, t, last)
  BY <1>1, <1>2, <1>3, <1>5, PacketLogged DEF IInv
<1>8. LogsAfter(n, p, t, last)
  <2>1. Appended(p, t)
    BY <1>1, <1>2, <1>3, LogGrows DEF IInv
  <2>2. Len(p.answers) \in Nat
    BY <1>1, LenProperties
  <2>3. Len(log) \in Nat /\ Len(log') = Len(log) + Len(p.answers) + 1
    BY <2>1 DEF Appended
  <2>. QED
    BY <1>5, <1>6, <1>7, <2>2, <2>3 DEF LogsAfter
<1>10. PICK f : f = IF key \in DOMAIN gs THEN gs[key] ELSE NewFlow(t)
  OBVIOUS
<1>11. IsFlow(f) /\ d \in Directions
  BY <1>4, <1>10, NewFlowIsEmpty DEF Direction, Directions
<1>12. PICK g : g = Folded(f, p, d, t, host, process)
  OBVIOUS
<1>13. ASSUME NEW k \in DOMAIN flows', k = key
       PROVE  Delivers(k, flows[k])'
  <2>1. key # NoKey
    BY <1>2, <1>4, <1>13 DEF AfterUpdate, DeliveryInv, NamesInv, IInv, KeysSeen
  <2>2. flows'[k] = g
    BY <1>2, <1>10, <1>12, <1>13, <2>1 DEF AfterUpdate
  <2>3. k.proto = p.proto
    BY <1>13, <2>1, KeyOrder DEF AsSent, Reversed
  <2>4. Delivers(k, f)
    <3>1. CASE k \in DOMAIN flows
      <4>1. Delivers(k, flows[k])
        BY <3>1 DEF DeliveryInv
      <4>2. /\ f.next = flows[k].next /\ f.retransmissions = flows[k].retransmissions
            /\ f.outOfOrder = flows[k].outOfOrder
        BY <1>4, <1>10, <1>13, <3>1
      <4>. QED
        BY <4>1, <4>2 DEF Delivers, DeliversIn, HasSequences
    <3>2. CASE k \notin DOMAIN flows
      <4>1. EventsOf(k) = {}
        BY <1>3, <1>13, <2>1, <3>2 DEF EventsOf, IInv, KeysSeen
      <4>. QED
        BY <1>4, <1>10, <1>13, <3>2, <4>1, NewFlowDelivers
    <3>. QED
      BY <3>1, <3>2
  <2>5. HasSequences(f)
    BY <2>4 DEF Delivers
  <2>6. FoldsSequences(f, p, d, g)
    BY <1>11, <1>12, <2>5, SequenceParagraphs
  <2>7. \A x \in Directions : DeliversIn(k, x, f)
    BY <2>4 DEF Delivers
  <2>8. \A x \in Directions : DeliversIn(k, x, g)'
    BY <1>1, <1>8, <1>13, <2>3, <2>6, <2>7, DeliveryStep
  <2>9. HasSequences(g)
    BY <2>6 DEF FoldsSequences
  <2>. QED
    BY <2>2, <2>8, <2>9 DEF Delivers, DeliversIn, HasSequences
<1>14. ASSUME NEW k \in DOMAIN flows', k # key
       PROVE  Delivers(k, flows[k])'
  <2>1. k \in DOMAIN flows /\ flows'[k] = gs[k]
    BY <1>2, <1>4, <1>14 DEF AfterUpdate
  <2>2. PICK u : u = flows[k]
    OBVIOUS
  <2>3. PICK h : h = flows'[k]
    OBVIOUS
  <2>4. h.next = u.next /\ h.retransmissions = u.retransmissions /\ h.outOfOrder = u.outOfOrder
    BY <1>4, <2>1, <2>2, <2>3
  <2>5. Delivers(k, u)
    BY <2>1, <2>2 DEF DeliveryInv
  <2>6. \A x \in Directions : DeliversIn(k, x, u)
    BY <2>5 DEF Delivers
  <2>7. \A x \in Directions : DeliversIn(k, x, h)'
    BY <1>8, <1>14, <2>4, <2>6, DeliveryStays
  <2>8. HasSequences(h)
    BY <2>4, <2>5 DEF Delivers, HasSequences
  <2>. QED
    BY <2>3, <2>7, <2>8 DEF Delivers, DeliversIn, HasSequences
<1>. QED
  BY <1>13, <1>14

(* The counters of a row are exact: a segment counts as a retransmission   *)
(* when it begins below the highest byte its direction had covered since   *)
(* the last reset, as out of order when it begins beyond it, and as        *)
(* neither otherwise, for every sequence of segments whose numbers wrap    *)
(* as long as each is within half the sequence space of that byte.         *)
THEOREM DeliveryCountsAreExact == SSpec => []DeliveryIsExact
<1>1. SInit => DeliveryInv
  <2> SUFFICES ASSUME SInit PROVE DeliveryInv
    OBVIOUS
  <2>1. flows = <<>> /\ log = <<>>
    BY DEF SInit, FInit
  <2>2. PacketEvents = {}
    BY <2>1 DEF PacketEvents
  <2>. QED
    BY <2>1, <2>2, NamesStart DEF DeliveryInv
<1>2. DeliveryInv /\ [SNext]_svars => DeliveryInv'
  <2> SUFFICES ASSUME DeliveryInv, [SNext]_svars PROVE DeliveryInv'
    OBVIOUS
  <2>1. NamesInv'
    BY NamesStep DEF DeliveryInv
  <2>2. ASSUME NEW raw \in capture.traffic, NEW t, NEW process, NEW name,
               InWindow(raw), FeedPacket(raw, t, name, process)
        PROVE  DeliveryInv'
    <3>1. raw \in Traffic
      BY <2>2, CapturesAssumption DEF DeliveryInv, NamesInv, IInv
    <3>. QED
      BY <2>1, <2>2, <3>1, FeedDelivery DEF DeliveryInv
  <2>3. CASE ClearSession
    <3>1. flows' = <<>> /\ log' = <<>>
      BY <2>3 DEF ClearSession, Clear
    <3>2. PacketEvents' = {}
      BY <3>1 DEF PacketEvents
    <3>. QED
      BY <2>1, <3>1, <3>2 DEF DeliveryInv
  <2>4. CASE UNCHANGED svars
    <3>1. flows' = flows /\ log' = log
      BY <2>4 DEF svars, fvars
    <3>2. PacketEvents' = PacketEvents /\ \A k : EventsOf(k)' = EventsOf(k)
      BY <3>1 DEF PacketEvents, EventsOf
    <3>4. \A k, d : Segments(k, d)' = Segments(k, d)
      BY <3>1, <3>2 DEF Segments
    <3>5. \A k, d, i : Covered(k, d, i)' = Covered(k, d, i)
      BY <3>1, <3>2, <3>4 DEF Covered, ResetBetween
    <3>6. ASSUME NEW k, NEW d
          PROVE  Repeated(k, d)' = Repeated(k, d) /\ Ahead(k, d)' = Ahead(k, d)
      <4>1. ASSUME NEW i
            PROVE  (Below(k, d, i)' <=> Below(k, d, i)) /\ (Beyond(k, d, i)' <=> Beyond(k, d, i))
        <5>1. PICK C : C = Covered(k, d, i)
          OBVIOUS
        <5>2. Covered(k, d, i)' = C
          BY <3>5, <5>1
        <5>. QED
          BY <3>1, <5>1, <5>2 DEF Below, Beyond, Highest
      <4>2. Repeated(k, d)' = {i \in Segments(k, d)' : Below(k, d, i)'}
        BY DEF Repeated
      <4>3. Ahead(k, d)' = {i \in Segments(k, d)' : Beyond(k, d, i)'}
        BY DEF Ahead
      <4>. QED
        BY <3>4, <4>1, <4>2, <4>3 DEF Repeated, Ahead
    <3>7. ASSUME NEW k \in DOMAIN flows PROVE Delivers(k, flows[k])'
      <4>1. PICK f : f = flows[k]
        OBVIOUS
      <4>2. Delivers(k, f)
        BY <4>1 DEF DeliveryInv
      <4>3. ASSUME NEW d \in Directions PROVE DeliversIn(k, d, f)'
        <5>1. DeliversIn(k, d, f)
          BY <4>2 DEF Delivers
        <5>2. Covered(k, d, Len(log) + 1)' = Covered(k, d, Len(log) + 1)
          BY <3>1, <3>2, <3>4 DEF Covered, ResetBetween
        <5>. QED
          BY <3>6, <5>1, <5>2 DEF DeliversIn, Expects, IsTop
      <4>. QED
        BY <3>1, <4>1, <4>2, <4>3 DEF Delivers, DeliversIn, HasSequences
    <3>. QED
      BY <2>1, <3>1, <3>7 DEF DeliveryInv
  <2>. QED
    BY <2>2, <2>3, <2>4 DEF SNext
<1>3. DeliveryInv => DeliveryIsExact
  <2> SUFFICES ASSUME DeliveryInv, NEW k \in DOMAIN flows, NEW d \in Directions
               PROVE  LET begun == {i \in Segments(k, d) : Covered(k, d, i) # {}}
                          pos(i) == log[i].packet.pos
                      IN  /\ flows[k].retransmissions[d] =
                               Cardinality({i \in begun : pos(i) < Highest(Covered(k, d, i))})
                          /\ flows[k].outOfOrder[d] =
                               Cardinality({i \in begun : pos(i) > Highest(Covered(k, d, i))})
    BY DEF DeliveryIsExact
  <2> DEFINE begun == {i \in Segments(k, d) : Covered(k, d, i) # {}}
             pos(i) == log[i].packet.pos
  <2>1. Repeated(k, d) = {i \in begun : pos(i) < Highest(Covered(k, d, i))}
    BY DEF Repeated, Below
  <2>2. Ahead(k, d) = {i \in begun : pos(i) > Highest(Covered(k, d, i))}
    BY DEF Ahead, Beyond
  <2>3. Delivers(k, flows[k])
    BY DEF DeliveryInv
  <2>4. DeliversIn(k, d, flows[k])
    BY <2>3 DEF Delivers
  <2>. QED
    BY <2>1, <2>2, <2>4 DEF DeliversIn
<1>. QED
  BY <1>1, <1>2, <1>3, PTL DEF SSpec

---------------------------------------------------------------------------
(* The counters of DNS.                                                    *)

Responses == {i \in PacketEvents : log[i].packet.dns}
Encrypted == {i \in PacketEvents : log[i].packet.service \in EncryptedDns}

(* One more packet in the log is one more of its kind.                     *)
LEMMA KindsGrow ==
  ASSUME NEW p, NEW t, NEW last, LogsPacket(p, t, last), p.dns \in BOOLEAN
  PROVE  /\ Cardinality(Responses') = Cardinality(Responses) + (IF p.dns THEN 1 ELSE 0)
         /\ Cardinality(Encrypted') =
              Cardinality(Encrypted) + (IF p.service \in EncryptedDns THEN 1 ELSE 0)
<1>1. /\ last \in Nat /\ PacketEvents \subseteq 1 .. last - 1
      /\ PacketEvents' = PacketEvents \union {last}
      /\ \A i \in PacketEvents : log'[i] = log[i]
      /\ log'[last].packet = p
  BY DEF LogsPacket
<1>2. Responses' = Responses \union (IF p.dns THEN {last} ELSE {})
  <2>1. Responses' = {i \in PacketEvents' : log'[i].packet.dns}
    BY DEF Responses
  <2>. QED
    BY <1>1, <2>1 DEF Responses
<1>3. Encrypted' = Encrypted \union (IF p.service \in EncryptedDns THEN {last} ELSE {})
  <2>1. Encrypted' = {i \in PacketEvents' : log'[i].packet.service \in EncryptedDns}
    BY DEF Encrypted
  <2>. QED
    BY <1>1, <2>1 DEF Encrypted
<1>4. Responses \subseteq 1 .. last - 1 /\ Encrypted \subseteq 1 .. last - 1
  BY <1>1 DEF Responses, Encrypted
<1>5. (p.service \in EncryptedDns) \in BOOLEAN
  OBVIOUS
<1>6. Cardinality(Responses') = Cardinality(Responses) + (IF p.dns THEN 1 ELSE 0)
  BY <1>1, <1>2, <1>4, OneMore
<1>7. Cardinality(Encrypted') =
        Cardinality(Encrypted) + (IF p.service \in EncryptedDns THEN 1 ELSE 0)
  BY <1>1, <1>3, <1>4, <1>5, OneMore
<1>. QED
  BY <1>6, <1>7

(* A recovered name changes nothing of what the packet says of DNS.        *)
LEMMA RecoveredDns ==
  ASSUME NEW raw \in Traffic, NEW name, NEW p, p = Recovered(raw, name)
  PROVE  /\ p.dns \in BOOLEAN /\ p.ech \in BOOLEAN
         /\ p.answers \in Seq(Answer)
<1>1. /\ {"dns", "answers", "ech"} \subseteq DOMAIN raw
      /\ raw.dns \in BOOLEAN /\ raw.ech \in BOOLEAN /\ raw.answers \in Seq(Answer)
  BY SessionAssumption
<1>. QED
  BY <1>1 DEF Recovered

LEMMA FeedCounts ==
  ASSUME IInv, DnsCountersAreExact, NEW raw \in Traffic, NEW t, NEW name, NEW process,
         FeedPacket(raw, t, name, process)
  PROVE  DnsCountersAreExact'
<1> DEFINE p == Recovered(raw, name)
<1>1. PICK host :
        /\ log' = log \o AnswerLog(p) \o PacketLog(p, t)
        /\ plaintextDns' = plaintextDns + (IF p.dns THEN 1 ELSE 0)
        /\ echSeen' = (echSeen \/ p.ech)
        /\ encryptedDns' = encryptedDns + (IF p.service \in EncryptedDns THEN 1 ELSE 0)
  BY DEF FeedPacket
<1>2. p.dns \in BOOLEAN /\ p.ech \in BOOLEAN /\ p.answers \in Seq(Answer)
  BY RecoveredDns
<1> DEFINE last == Len(log')
<1> HIDE DEF p, last
<1>3. LogsPacket(p, t, last)
  BY <1>1, <1>2, PacketLogged DEF IInv, last
<1>4. /\ Cardinality(Responses') = Cardinality(Responses) + (IF p.dns THEN 1 ELSE 0)
      /\ Cardinality(Encrypted') =
           Cardinality(Encrypted) + (IF p.service \in EncryptedDns THEN 1 ELSE 0)
  BY <1>2, <1>3, KindsGrow
<1>5. plaintextDns = Cardinality(Responses) /\ encryptedDns = Cardinality(Encrypted)
  BY DEF DnsCountersAreExact, Responses, Encrypted
<1>6. plaintextDns' = Cardinality(Responses') /\ encryptedDns' = Cardinality(Encrypted')
  BY <1>1, <1>4, <1>5
<1>7. echSeen' = \E i \in PacketEvents' : log'[i].packet.ech
  <2>1. /\ PacketEvents' = PacketEvents \union {last}
        /\ \A i \in PacketEvents : log'[i] = log[i]
        /\ log'[last].packet = p
    BY <1>3 DEF LogsPacket
  <2>2. (\E i \in PacketEvents' : log'[i].packet.ech)
          <=> ((\E i \in PacketEvents : log[i].packet.ech) \/ p.ech)
    BY <2>1
  <2>3. echSeen = \E i \in PacketEvents : log[i].packet.ech
    BY DEF DnsCountersAreExact
  <2>. QED
    BY <1>1, <2>2, <2>3
<1>. QED
  BY <1>6, <1>7 DEF DnsCountersAreExact, Responses, Encrypted

(* For any traffic, names recovered and clears: the DNS summary counts the *)
(* packets of this capture that it says it counts, each once, and warns of *)
(* ECH exactly when one of them advertised it (AnalysisSession::feed).     *)
THEOREM DnsCountsAreExact == SSpec => []DnsCountersAreExact
<1>1. SInit => DnsCountersAreExact
  <2> SUFFICES ASSUME SInit PROVE DnsCountersAreExact
    OBVIOUS
  <2>1. PacketEvents = {}
    BY DEF SInit, FInit, PacketEvents
  <2>2. plaintextDns = 0 /\ encryptedDns = 0 /\ echSeen = FALSE
    BY DEF SInit
  <2>. QED
    BY <2>1, <2>2, FS_EmptySet DEF DnsCountersAreExact
<1>2. IInv /\ DnsCountersAreExact /\ [SNext]_svars => DnsCountersAreExact'
  <2> SUFFICES ASSUME IInv, DnsCountersAreExact, [SNext]_svars PROVE DnsCountersAreExact'
    OBVIOUS
  <2>1. ASSUME NEW raw \in capture.traffic, NEW t, NEW process, NEW name,
               FeedPacket(raw, t, name, process)
        PROVE  DnsCountersAreExact'
    <3>1. raw \in Traffic
      BY CapturesAssumption DEF IInv
    <3>. QED
      BY <2>1, <3>1, FeedCounts
  <2>2. CASE ClearSession
    <3>1. PacketEvents' = {}
      BY <2>2 DEF ClearSession, Clear, PacketEvents
    <3>2. plaintextDns' = 0 /\ encryptedDns' = 0 /\ echSeen' = FALSE
      BY <2>2 DEF ClearSession
    <3>. QED
      BY <3>1, <3>2, FS_EmptySet DEF DnsCountersAreExact
  <2>3. CASE UNCHANGED svars
    BY <2>3 DEF svars, fvars, counters, DnsCountersAreExact, PacketEvents
  <2>. QED
    BY <2>1, <2>2, <2>3 DEF SNext
<1>. QED
  BY <1>1, <1>2, InitIInv, StepIInv, PTL DEF SSpec
=============================================================================
