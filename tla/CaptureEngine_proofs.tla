----------------------- MODULE CaptureEngine_proofs -----------------------
(* Proofs about CaptureEngine, for all capacities, bounds, link types and  *)
(* filters, and about the two programs that drive it: netprobe-cli, for    *)
(* all options, and the window, for all users.                             *)
EXTENDS CliCapture, GuiCapture, SharedLemmas

Reading == {"check", "read", "retain", "enqueue"}
Clearing == {"clearQueue", "clearSession", "acquire"}

(* The capture thread is gone once stopCapture() is past the join.         *)
Joined ==
  at \in Clearing \union Offline \union {"close", "gone"} => loop = "none"

(* What the preamble of an acquiring operation has cleared so far.         *)
Cleared ==
  /\ at # "idle" => op # "none"
  /\ at \in Clearing => op \in Acquires
  /\ at \in Clearing \union {"join", "close"} /\ op \in Acquires =>
       source < MaxSources
  /\ at \in {"clearSession", "acquire"} => queue = <<>>
  /\ at = "acquire" => session = <<>>
  /\ at \in {"replay", "replayRead"} => queue = <<>> /\ session = <<>>

(* The packet between nextPacket() and push().                             *)
InFlight ==
  IF loop \in {"retain", "enqueue"}
  THEN inflight \in Packet /\ inflight.n = captured
  ELSE inflight = None

(* Packets are read from the handle of the current source, whose link type *)
(* is the one snapshotted.                                                 *)
SourceKnown ==
  loop \in Reading \/ at \in Offline =>
    source >= 1 /\ handle.link = sessionLink

(* What a running capture or openFile() reads is what the session keeps.   *)
KeptKnown ==
  /\ loop \in Reading \/ at = "feed" \/ queue # <<>> => kept = captured
  /\ at \in {"acquire", "replay", "replayRead"} => kept = 0

PacketsOk(s) ==
  \A i \in 1 .. Len(s) : s[i].src = source /\ s[i].link = sessionLink

Contents ==
  /\ PacketsOk(session) /\ PacketsOk(queue)
  /\ loop \in {"retain", "enqueue"} =>
       inflight.src = source /\ inflight.link = sessionLink

IInv ==
  /\ TypeOK /\ HandleOwned /\ Joined /\ Cleared /\ InFlight /\ SourceKnown
  /\ KeptKnown /\ Contents /\ BuffersAreRecent /\ FilterInForce

---------------------------------------------------------------------------
(* A buffer stays gap-free and of one source when the next packet enters.  *)
LEMMA PushPacket ==
  ASSUME NEW s \in Seq(Packet), NEW p \in Packet, NEW cap \in Nat \ {0},
         NEW m \in Nat, Len(s) <= cap, EndsWith(s, m), PacketsOk(s),
         p.n = m + 1, p.src = source, p.link = sessionLink
  PROVE  /\ PushEvict(s, p, cap) \in Seq(Packet)
         /\ Len(PushEvict(s, p, cap)) <= cap
         /\ EndsWith(PushEvict(s, p, cap), m + 1)
         /\ PacketsOk(PushEvict(s, p, cap))
         /\ Len(PushEvict(s, p, cap)) = IF Len(s) < cap THEN Len(s) + 1 ELSE cap
<1> DEFINE r == PushEvict(s, p, cap)
           k == Evicted(s, cap)
<1>1. /\ r \in Seq(Packet) /\ Len(r) = Len(s) + 1 - k /\ Len(r) \in 1 .. cap
      /\ r[Len(r)] = p /\ \A i \in 1 .. Len(r) - 1 : r[i] = s[i + k]
  BY PushEvictProperties
<1>2. k \in {0, 1} /\ Len(s) \in Nat
  BY LenProperties DEF Evicted
<1> HIDE DEF r, k
<1>3. ASSUME NEW i \in 1 .. Len(r)
      PROVE  r[i].n = m + 1 - Len(r) + i /\ r[i].src = source /\ r[i].link = sessionLink
  <2>1. CASE i = Len(r)
    BY <1>1, <1>2, <2>1
  <2>2. CASE i # Len(r)
    <3>1. i \in 1 .. Len(r) - 1 /\ i + k \in 1 .. Len(s)
      BY <1>1, <1>2, <2>2
    <3>2. r[i] = s[i + k]
      BY <1>1, <3>1
    <3>3. s[i + k].n = m - Len(s) + (i + k)
      BY <3>1 DEF EndsWith
    <3>4. s[i + k].src = source /\ s[i + k].link = sessionLink
      BY <3>1 DEF PacketsOk
    <3>5. m - Len(s) + (i + k) = m + 1 - Len(r) + i
      BY <1>1, <1>2, <3>1
    <3>. QED
      BY <3>2, <3>3, <3>4, <3>5
  <2>. QED
    BY <2>1, <2>2
<1>4. EndsWith(r, m + 1) /\ PacketsOk(r)
  BY <1>3 DEF EndsWith, PacketsOk
<1>5. Len(r) <= cap /\ Len(r) = IF Len(s) < cap THEN Len(s) + 1 ELSE cap
  BY <1>1, <1>2 DEF Evicted, k
<1>. QED
  BY <1>1, <1>4, <1>5 DEF r

(* A buffer stays gap-free and of one source when its oldest packet leaves.*)
LEMMA PopPacket ==
  ASSUME NEW s \in Seq(Packet), s # <<>>, NEW m \in Nat,
         EndsWith(s, m), PacketsOk(s)
  PROVE  /\ Tail(s) \in Seq(Packet) /\ Len(Tail(s)) = Len(s) - 1
         /\ EndsWith(Tail(s), m) /\ PacketsOk(Tail(s))
<1>1. /\ Tail(s) \in Seq(Packet) /\ Len(Tail(s)) = Len(s) - 1
      /\ \A i \in 1 .. Len(Tail(s)) : Tail(s)[i] = s[i + 1]
  BY TailElements
<1>2. Len(s) \in Nat
  BY LenProperties
<1>3. ASSUME NEW i \in 1 .. Len(Tail(s))
      PROVE  /\ Tail(s)[i].n = m - Len(Tail(s)) + i
             /\ Tail(s)[i].src = source /\ Tail(s)[i].link = sessionLink
  <2>1. i + 1 \in 1 .. Len(s)
    BY <1>1, <1>2
  <2>2. s[i + 1].n = m - Len(s) + (i + 1)
    BY <2>1 DEF EndsWith
  <2>. QED
    BY <1>1, <1>2, <2>1, <2>2 DEF PacketsOk
<1>. QED
  BY <1>1, <1>3 DEF EndsWith, PacketsOk

(* The empty buffer is both.                                               *)
LEMMA EmptyBuffer ==
  /\ <<>> \in Seq(Packet) /\ Len(<<>>) = 0 /\ PacketsOk(<<>>)
  /\ \A m : EndsWith(<<>>, m)
  BY DEF PacketsOk, EndsWith

(* The packet nextPacket() would return is of the current source.          *)
LEMMA NewPacketOk ==
  ASSUME IInv, captured < MaxPackets, loop \in Reading \/ at \in Offline
  PROVE  /\ NewPacket \in Packet /\ NewPacket.n = captured + 1
         /\ NewPacket.src = source /\ NewPacket.link = sessionLink
         /\ captured + 1 \in 0 .. MaxPackets
<1>1. /\ source \in 1 .. MaxSources /\ handle.link = sessionLink
      /\ captured + 1 \in 1 .. MaxPackets /\ sessionLink \in LinkTypes
  BY BoundsAssumption DEF IInv, TypeOK, SourceKnown
<1>. QED
  BY <1>1 DEF NewPacket, Packet

---------------------------------------------------------------------------
Rest == TypeOK /\ HandleOwned /\ Joined /\ Cleared /\ InFlight /\ SourceKnown
        /\ KeptKnown /\ FilterInForce

LEMMA InitIInv == EInit => IInv
<1> SUFFICES ASSUME EInit PROVE IInv
  OBVIOUS
<1>1. TypeOK
  <2>1. Closed \in [kind : {"closed", "live", "file"}, link : LinkTypes,
                    filter : Filters]
    BY LinksAssumption, FiltersAssumption DEF Closed
  <2>2. session \in Seq(Packet) /\ Len(session) = 0 /\ queue \in Seq(Packet)
        /\ Len(queue) = 0
    BY EmptyBuffer DEF EInit
  <2>3. /\ op = "none" /\ at = "idle" /\ loop = "none" /\ stopRequested = FALSE
        /\ handle = Closed /\ activeFilter \in Filters /\ sessionLink \in LinkTypes
        /\ inflight = None /\ source = 0 /\ captured = 0 /\ kept = 0
    BY LinksAssumption, FiltersAssumption DEF EInit
  <2>4. Len(session) <= SessionCap /\ Len(queue) <= QueueCap
        /\ source \in 0 .. MaxSources /\ captured \in 0 .. MaxPackets
        /\ kept \in 0 .. MaxPackets
    BY <2>2, <2>3, CapsAssumption, BoundsAssumption
  <2>. QED
    BY <2>1, <2>2, <2>3, <2>4 DEF TypeOK
<1>3. Rest
  BY <1>1 DEF EInit, Rest, HandleOwned, Joined, Cleared, InFlight, SourceKnown,
              FilterInForce, KeptKnown, Offline, Closed, Reading, Clearing, Acquires
<1>2. Contents /\ BuffersAreRecent
  BY EmptyBuffer, CapsAssumption DEF EInit, Contents, BuffersAreRecent, KeptCount
<1>. QED
  BY <1>2, <1>3 DEF IInv, Rest

(* Steps that touch neither the buffers nor what their packets are judged  *)
(* by leave Contents alone.                                                *)
LEMMA ContentsUnchanged ==
  ASSUME IInv, UNCHANGED <<session, queue, inflight, source, sessionLink>>,
         loop' \in {"retain", "enqueue"} => loop \in {"retain", "enqueue"}
  PROVE  Contents'
  BY DEF IInv, Contents, PacketsOk

LEMMA BuffersUnchanged ==
  ASSUME IInv, UNCHANGED <<session, queue, captured>>,
         RetainedCount' = RetainedCount, QueuedCount' = QueuedCount,
         KeptCount' = KeptCount
  PROVE  BuffersAreRecent'
  BY DEF IInv, BuffersAreRecent, EndsWith

(* The calling thread's steps that leave the buffers alone.                *)
LEMMA QuietCallerStep ==
  ASSUME IInv,
         \/ \E o \in Acquires \union {"stop", "destroy"} : Call(o)
         \/ Join \/ CloseBackend \/ EndOffline \/ ReplayGoesOn \/ ReplayNothing
         \/ \E f \in Filters : SetFilter(f)
  PROVE  IInv'
<1> USE DEF IInv
<1>1. Rest'
  <2> USE LinksAssumption, FiltersAssumption
          DEF Rest, TypeOK, HandleOwned, Joined, Cleared, InFlight, SourceKnown,
              FilterInForce, KeptKnown, Offline, Reading, Clearing, Acquires, data, caller
  <2>1. ASSUME NEW o \in Acquires \union {"stop", "destroy"}, Call(o) PROVE Rest'
    BY <2>1 DEF Call, AfterStopRequest, Joinable
  <2>2. CASE Join
    BY <2>2 DEF Join
  <2>3. CASE CloseBackend
    <3>1. /\ op = "stop" => at' = "idle"
          /\ op = "destroy" => at' = "gone"
          /\ op \in Acquires => at' = "clearQueue"
          /\ op = "none" => at' = "clearQueue"
      BY <2>3 DEF CloseBackend
    <3>2. op # "none"
      BY <2>3 DEF CloseBackend
    <3>. QED
      BY <2>3, <3>1, <3>2 DEF CloseBackend, Closed
  <2>4. CASE EndOffline
    BY <2>4 DEF EndOffline, Closed
  <2>5. ASSUME NEW f \in Filters, SetFilter(f) PROVE Rest'
    BY <2>5 DEF SetFilter, Joinable
  <2>6. CASE ReplayGoesOn
    BY <2>6 DEF ReplayGoesOn
  <2>7. CASE ReplayNothing
    BY <2>7 DEF ReplayNothing
  <2>. QED
    BY <2>1, <2>2, <2>3, <2>4, <2>5, <2>6, <2>7
<1>2. /\ UNCHANGED <<session, queue, inflight, source, sessionLink, captured, kept>>
      /\ loop' = loop \/ (loop = "exited" /\ loop' = "none")
  BY DEF Call, Join, CloseBackend, EndOffline, ReplayGoesOn, ReplayNothing, SetFilter, data
<1>3. Contents'
  BY <1>2, ContentsUnchanged
<1>4. RetainedCount' = RetainedCount /\ QueuedCount' = QueuedCount /\ KeptCount' = KeptCount
  BY <1>2 DEF RetainedCount, QueuedCount, KeptCount
<1>5. BuffersAreRecent'
  BY <1>2, <1>4, BuffersUnchanged
<1>. QED
  BY <1>1, <1>3, <1>5 DEF Rest

(* Emptying the queue or the session.                                      *)
LEMMA ClearingStep ==
  ASSUME IInv, ClearQueue \/ ClearSession \/ Discard
  PROVE  IInv'
<1> USE DEF IInv
<1>1. /\ \/ queue' = <<>> /\ session' = session
         \/ queue' = queue /\ session' = <<>>
      /\ UNCHANGED <<op, loop, stopRequested, handle, activeFilter, sessionLink,
                     inflight, source, captured>>
      /\ (kept' = kept /\ session' = session) \/ (kept' = 0 /\ session' = <<>> /\ loop = "none")
  BY DEF ClearQueue, ClearSession, Discard, caller, Joined, Clearing
<1>2. /\ session' \in Seq(Packet) /\ Len(session') <= SessionCap
      /\ queue' \in Seq(Packet) /\ Len(queue') <= QueueCap
  <2>1. <<>> \in Seq(Packet) /\ Len(<<>>) <= SessionCap /\ Len(<<>>) <= QueueCap
    BY EmptyBuffer, CapsAssumption
  <2>2. /\ session \in Seq(Packet) /\ Len(session) <= SessionCap
        /\ queue \in Seq(Packet) /\ Len(queue) <= QueueCap
    BY DEF TypeOK
  <2>. QED
    BY <1>1, <2>1, <2>2
<1>3. Contents'
  BY <1>1 DEF Contents, PacketsOk
<1>4. RetainedCount' = RetainedCount /\ QueuedCount' = QueuedCount
  BY <1>1 DEF RetainedCount, QueuedCount
<1>5. BuffersAreRecent'
  <2>1. EndsWith(session', RetainedCount') /\ EndsWith(queue', QueuedCount')
    BY <1>1, <1>4 DEF BuffersAreRecent, EndsWith
  <2>2. CASE kept' = kept /\ session' = session
    BY <1>1, <2>1, <2>2 DEF BuffersAreRecent, KeptCount
  <2>3. CASE kept' = 0 /\ session' = <<>> /\ loop = "none"
    <3>1. KeptCount' = 0 /\ Len(session') = 0
      BY <1>1, <2>3 DEF KeptCount
    <3>. QED
      BY <2>1, <3>1, CapsAssumption DEF BuffersAreRecent
  <2>. QED
    BY <1>1, <2>2, <2>3
<1>6. TypeOK'
  BY <1>1, <1>2, BoundsAssumption DEF TypeOK, ClearQueue, ClearSession, Discard, caller
<1>7. /\ HandleOwned' /\ Joined' /\ Cleared' /\ InFlight' /\ SourceKnown'
      /\ FilterInForce'
      /\ KeptKnown'
  BY <1>1 DEF HandleOwned, Joined, Cleared, InFlight, SourceKnown, FilterInForce, KeptKnown,
              Offline, Reading, Clearing, Acquires, ClearQueue, ClearSession, Discard, caller
<1>. QED
  BY <1>3, <1>5, <1>6, <1>7

(* Acquiring a source: both buffers are empty, no thread exists.           *)
LEMMA AcquireStep ==
  ASSUME IInv, AcquireFails \/ StartLive \/ OpenOffline
  PROVE  IInv'
<1> USE DEF IInv
<1>1. /\ at = "acquire" /\ op \in Acquires /\ loop = "none"
      /\ queue = <<>> /\ session = <<>> /\ source < MaxSources
      /\ inflight = None /\ handle.kind = "closed"
  BY DEF AcquireFails, StartLive, OpenOffline, Joined, Cleared, Clearing, InFlight,
         HandleOwned
<1>2. UNCHANGED <<op, activeFilter, session, queue, inflight, kept>> /\ kept = 0
  BY <1>1 DEF AcquireFails, StartLive, OpenOffline, data, KeptKnown
<1>3. BuffersAreRecent'
  <2>1. KeptCount' = 0 /\ Len(session') = 0
    BY <1>1, <1>2 DEF AcquireFails, StartLive, OpenOffline, KeptCount
  <2>. QED
    BY <1>1, <1>2, <2>1, CapsAssumption DEF BuffersAreRecent, EndsWith
<1>4. /\ loop' \in {"none", "check"} /\ sessionLink' \in LinkTypes
      /\ at' \in {"idle", "feed", "replay"}
  BY <1>1, LinksAssumption DEF AcquireFails, StartLive, OpenOffline, Snapshot, TypeOK
<1>5. Contents'
  BY <1>1, <1>2, <1>4 DEF Contents, PacketsOk
<1>6. CASE AcquireFails
  <2>1. /\ UNCHANGED <<op, loop, stopRequested, handle, activeFilter, data, source,
                       captured, kept>> /\ at' = "idle"
    BY <1>6 DEF AcquireFails
  <2>2. TypeOK'
    BY <1>4, <2>1 DEF TypeOK, data
  <2>. QED
    BY <1>1, <1>3, <1>5, <2>1, <2>2
       DEF HandleOwned, Joined, Cleared, InFlight, SourceKnown, FilterInForce, KeptKnown,
           Offline, Reading, Clearing, data
<1>7. ASSUME StartLive \/ OpenOffline
      PROVE  IInv'
  <2>1. /\ source' = source + 1 /\ source' \in 1 .. MaxSources
        /\ captured' = 0 /\ captured' \in 0 .. MaxPackets
    BY <1>1, <1>7, BoundsAssumption DEF StartLive, OpenOffline, TypeOK
  <2>2. /\ handle' \in [kind : {"live", "file"}, link : LinkTypes, filter : Filters]
        /\ handle'.link = sessionLink' /\ stopRequested' \in BOOLEAN
    <3>1. activeFilter \in Filters /\ NoFilter \in Filters /\ stopRequested \in BOOLEAN
      BY FiltersAssumption DEF TypeOK
    <3>2. PICK l \in LinkTypes, k \in {"live", "file"}, f \in {activeFilter, NoFilter} :
            handle' = [kind |-> k, link |-> l, filter |-> f] /\ sessionLink' = l
      BY <1>7 DEF StartLive, OpenOffline, Snapshot, FilterAtOpen
    <3>3. stopRequested' \in BOOLEAN
      BY <1>7, <3>1 DEF StartLive, OpenOffline
    <3>. QED
      BY <3>1, <3>2, <3>3
  <2>3. \/ /\ at' = "idle" /\ loop' = "check" /\ handle'.kind = "live"
           /\ handle'.filter = activeFilter
        \/ at' \in {"feed", "replay"} /\ loop' = "none" /\ handle'.kind = "file"
    BY <1>1, <1>7 DEF StartLive, OpenOffline, FilterAtOpen
  <2>4. TypeOK'
    BY <1>1, <1>2, <1>4, <2>1, <2>2, <2>3 DEF TypeOK
  <2>5. HandleOwned' /\ Joined' /\ InFlight' /\ SourceKnown' /\ FilterInForce'
        /\ KeptKnown'
      /\ KeptKnown'
    BY <1>1, <1>2, <2>1, <2>2, <2>3
       DEF HandleOwned, Joined, InFlight, SourceKnown, FilterInForce, KeptKnown, Offline, Reading, Clearing
  <2>6. Cleared'
    BY <1>1, <1>2, <2>3 DEF Cleared, Clearing, Acquires
  <2>. QED
    BY <1>3, <1>5, <2>4, <2>5, <2>6
<1>. QED
  BY <1>6, <1>7

(* openFile() and replayFile() reading.                                    *)
LEMMA OfflinePacketStep ==
  ASSUME IInv, FeedPacket \/ ReplayPacket
  PROVE  IInv'
<1> USE DEF IInv
<1>1. /\ at \in Offline /\ loop = "none" /\ captured < MaxPackets
      /\ captured' = captured + 1
      /\ UNCHANGED <<op, loop, stopRequested, handle, activeFilter, sessionLink,
                     inflight, source>>
  BY DEF FeedPacket, ReplayPacket, Joined, Offline, caller, data
<1>2. /\ NewPacket \in Packet /\ NewPacket.n = captured + 1
      /\ NewPacket.src = source /\ NewPacket.link = sessionLink
      /\ captured + 1 \in 0 .. MaxPackets
  BY <1>1, NewPacketOk
<1>3. /\ EndsWith(session, captured) /\ EndsWith(queue, captured) /\ captured \in Nat
      /\ PacketsOk(session) /\ PacketsOk(queue)
      /\ session \in Seq(Packet) /\ Len(session) <= SessionCap
      /\ queue \in Seq(Packet) /\ Len(queue) <= QueueCap
  BY <1>1, BoundsAssumption
     DEF BuffersAreRecent, RetainedCount, QueuedCount, Contents, TypeOK
<1> DEFINE r == PushEvict(session, NewPacket, SessionCap)
<1>4. CASE FeedPacket
  <2>1. /\ session' = r
        /\ queue' = PushEvict(queue, NewPacket, QueueCap) /\ at = "feed"
        /\ kept = captured /\ kept' = captured + 1 /\ at' = at
    BY <1>4 DEF FeedPacket, SessionWith, KeptKnown, caller
  <2>2. /\ session' \in Seq(Packet) /\ Len(session') <= SessionCap
        /\ EndsWith(r, captured + 1) /\ PacketsOk(r)
        /\ Len(r) = IF Len(session) < SessionCap THEN Len(session) + 1 ELSE SessionCap
    BY <1>2, <1>3, <2>1, CapsAssumption, PushPacket
  <2> HIDE DEF r
  <2>3. /\ queue' \in Seq(Packet) /\ Len(queue') <= QueueCap
        /\ EndsWith(PushEvict(queue, NewPacket, QueueCap), captured + 1)
        /\ PacketsOk(PushEvict(queue, NewPacket, QueueCap))
    BY <1>2, <1>3, <2>1, CapsAssumption, PushPacket
  <2>4. TypeOK'
    BY <1>1, <1>2, <2>1, <2>2, <2>3 DEF TypeOK
  <2>5. Contents'
    BY <1>1, <2>1, <2>2, <2>3 DEF Contents, PacketsOk
  <2>6. BuffersAreRecent'
    <3>1. EndsWith(session', RetainedCount') /\ EndsWith(queue', QueuedCount')
      BY <1>1, <2>1, <2>2, <2>3 DEF RetainedCount, QueuedCount, EndsWith
    <3>2. /\ Len(session) = IF captured < SessionCap THEN captured ELSE SessionCap
          /\ KeptCount' = captured + 1
      BY <1>1, <2>1 DEF BuffersAreRecent, KeptCount
    <3>3. Len(session') = IF captured + 1 < SessionCap THEN captured + 1 ELSE SessionCap
      BY <1>3, <2>1, <2>2, <3>2, CapsAssumption
    <3>. QED
      BY <3>1, <3>2, <3>3 DEF BuffersAreRecent
  <2>7. HandleOwned' /\ Joined' /\ Cleared' /\ InFlight' /\ SourceKnown' /\ FilterInForce'
        /\ KeptKnown'
    BY <1>1, <2>1 DEF HandleOwned, Joined, Cleared, InFlight, SourceKnown,
                      FilterInForce, KeptKnown, Offline, Clearing, Reading, caller
  <2>. QED
    BY <2>4, <2>5, <2>6, <2>7
<1>5. CASE ReplayPacket
  <2>1. /\ session' = <<>> /\ queue' = <<>> /\ session = <<>> /\ queue = <<>>
        /\ kept = 0 /\ kept' = 0 /\ at' = "replay"
    BY <1>5 DEF ReplayPacket, Cleared, KeptKnown, data
  <2>2. TypeOK'
    BY <1>1, <1>2, <2>1 DEF TypeOK, caller
  <2>3. Contents' /\ BuffersAreRecent'
    <3>1. KeptCount' = 0 /\ Len(session') = 0
      BY <1>1, <2>1 DEF KeptCount
    <3>. QED
      BY <1>1, <2>1, <3>1, CapsAssumption DEF Contents, PacketsOk, BuffersAreRecent, EndsWith
  <2>4. HandleOwned' /\ Joined' /\ Cleared' /\ InFlight' /\ SourceKnown' /\ FilterInForce'
        /\ KeptKnown'
    BY <1>1, <2>1 DEF HandleOwned, Joined, Cleared, InFlight, SourceKnown,
                      FilterInForce, KeptKnown, Offline, Clearing, Reading, caller
  <2>. QED
    BY <2>2, <2>3, <2>4
<1>. QED
  BY <1>4, <1>5

(* The analysing side takes a packet.                                      *)
LEMMA DrainStep ==
  ASSUME IInv, Drain
  PROVE  IInv'
<1> USE DEF IInv
<1>1. /\ at = "idle" /\ queue # <<>> /\ queue' = Tail(queue)
      /\ UNCHANGED <<op, at, loop, stopRequested, handle, activeFilter, sessionLink,
                     session, inflight, source, captured, kept>>
  BY DEF Drain, caller
<1>2. QueuedCount \in Nat
  BY BoundsAssumption DEF QueuedCount, TypeOK, InFlight, Packet
<1>3. /\ Tail(queue) \in Seq(Packet) /\ Len(Tail(queue)) = Len(queue) - 1
      /\ EndsWith(Tail(queue), QueuedCount) /\ PacketsOk(Tail(queue))
  BY <1>1, <1>2, PopPacket DEF TypeOK, Contents, BuffersAreRecent
<1>4. Len(queue') <= QueueCap
  BY <1>1, <1>3, CapsAssumption, LenProperties DEF TypeOK
<1>5. TypeOK'
  BY <1>1, <1>3, <1>4 DEF TypeOK
<1>6. Contents'
  BY <1>1, <1>3 DEF Contents, PacketsOk
<1>7. RetainedCount' = RetainedCount /\ QueuedCount' = QueuedCount
  BY <1>1 DEF RetainedCount, QueuedCount
<1>8. BuffersAreRecent'
  BY <1>1, <1>3, <1>7 DEF BuffersAreRecent, EndsWith, KeptCount
<1>9. HandleOwned' /\ Joined' /\ Cleared' /\ InFlight' /\ SourceKnown' /\ FilterInForce'
      /\ KeptKnown'
  BY <1>1 DEF HandleOwned, Joined, Cleared, InFlight, SourceKnown, FilterInForce, KeptKnown,
              Offline, Clearing, Reading
<1>. QED
  BY <1>5, <1>6, <1>8, <1>9

(* captureLoop() between two packets.                                      *)
LEMMA LoopQuietStep ==
  ASSUME IInv, LoopCheck \/ LoopReadNothing
  PROVE  IInv'
<1> USE DEF IInv
<1>1. /\ loop \in {"check", "read"} /\ loop' \in {"check", "read", "exited"}
      /\ UNCHANGED <<op, at, stopRequested, handle, activeFilter, sessionLink,
                     session, queue, inflight, source, captured, kept>>
  BY DEF LoopCheck, AfterCheck, LoopReadNothing, caller, data
<1>2. TypeOK'
  BY <1>1 DEF TypeOK
<1>3. Contents'
  BY <1>1 DEF Contents, PacketsOk
<1>4. BuffersAreRecent'
  BY <1>1 DEF BuffersAreRecent, EndsWith, RetainedCount, QueuedCount, KeptCount
<1>5. HandleOwned' /\ Joined' /\ Cleared' /\ InFlight' /\ SourceKnown' /\ FilterInForce'
      /\ KeptKnown'
  BY <1>1 DEF HandleOwned, Joined, Cleared, InFlight, SourceKnown, FilterInForce, KeptKnown,
              Offline, Clearing, Reading
<1>. QED
  BY <1>2, <1>3, <1>4, <1>5

LEMMA LoopReadPacketStep ==
  ASSUME IInv, LoopReadPacket
  PROVE  IInv'
<1> USE DEF IInv
<1>1. /\ loop = "read" /\ captured < MaxPackets /\ captured' = captured + 1
      /\ kept = captured /\ kept' = captured + 1 /\ inflight' = NewPacket /\ loop' = "retain"
      /\ UNCHANGED <<op, at, stopRequested, handle, activeFilter, sessionLink,
                     session, queue, source>>
  BY DEF LoopReadPacket, KeptKnown, Reading, caller
<1>2. /\ NewPacket \in Packet /\ NewPacket.n = captured + 1
      /\ NewPacket.src = source /\ NewPacket.link = sessionLink
      /\ captured + 1 \in 0 .. MaxPackets
  BY <1>1, NewPacketOk DEF Reading
<1>3. TypeOK'
  BY <1>1, <1>2 DEF TypeOK
<1>4. Contents'
  BY <1>1, <1>2 DEF Contents, PacketsOk
<1>5. /\ RetainedCount = captured /\ QueuedCount = captured
      /\ RetainedCount' = captured /\ QueuedCount' = captured /\ KeptCount' = KeptCount
  <2>1. captured \in Nat /\ captured' - 1 = captured
    BY <1>1, BoundsAssumption DEF TypeOK
  <2>2. RetainedCount = captured /\ QueuedCount = captured
    BY <1>1 DEF RetainedCount, QueuedCount
  <2>3. RetainedCount' = captured /\ QueuedCount' = captured
    BY <1>1, <2>1 DEF RetainedCount, QueuedCount
  <2>4. KeptCount' = captured /\ KeptCount = captured
    BY <1>1, <2>1 DEF KeptCount
  <2>. QED
    BY <2>2, <2>3, <2>4
<1>6. BuffersAreRecent'
  BY <1>1, <1>5 DEF BuffersAreRecent, EndsWith
<1>7. HandleOwned' /\ Joined' /\ Cleared' /\ InFlight' /\ SourceKnown' /\ FilterInForce'
      /\ KeptKnown'
  BY <1>1, <1>2 DEF HandleOwned, Joined, Cleared, InFlight, SourceKnown,
                    FilterInForce, KeptKnown, Offline, Clearing, Reading
<1>. QED
  BY <1>3, <1>4, <1>6, <1>7

(* consumePacket(): retainPacket(), then push().                           *)
LEMMA ConsumeStep ==
  ASSUME IInv, LoopRetain \/ LoopEnqueue
  PROVE  IInv'
<1> USE DEF IInv
<1>1. /\ loop \in {"retain", "enqueue"}
      /\ UNCHANGED <<op, at, stopRequested, handle, activeFilter, sessionLink,
                     source, captured, kept>>
      /\ kept = captured
  BY DEF LoopRetain, LoopEnqueue, KeptKnown, Reading, caller
<1>2. /\ inflight \in Packet /\ inflight.n = captured
      /\ inflight.src = source /\ inflight.link = sessionLink
      /\ captured - 1 \in Nat /\ captured - 1 + 1 = captured
  BY <1>1 DEF InFlight, Contents, Packet
<1>3. PacketsOk(session) /\ PacketsOk(queue)
  BY DEF Contents
<1>4. HandleOwned' /\ Joined' /\ Cleared' /\ SourceKnown' /\ FilterInForce'
      /\ KeptKnown'
  BY <1>1 DEF LoopRetain, LoopEnqueue, HandleOwned, Joined, Cleared, SourceKnown,
              FilterInForce, KeptKnown, Offline, Clearing, Reading
<1>5. CASE LoopRetain
  <2> DEFINE r == PushEvict(session, inflight, SessionCap)
  <2>1. /\ loop = "retain" /\ loop' = "enqueue" /\ session' = r
        /\ UNCHANGED <<queue, inflight>>
    BY <1>5 DEF LoopRetain, SessionWith
  <2>2. EndsWith(session, captured - 1) /\ EndsWith(queue, captured - 1)
    BY <2>1 DEF BuffersAreRecent, RetainedCount, QueuedCount
  <2>3. session \in Seq(Packet) /\ Len(session) <= SessionCap
    BY DEF TypeOK
  <2>4. /\ r \in Seq(Packet) /\ Len(r) <= SessionCap /\ EndsWith(r, captured) /\ PacketsOk(r)
        /\ Len(r) = IF Len(session) < SessionCap THEN Len(session) + 1 ELSE SessionCap
    BY <1>2, <1>3, <2>2, <2>3, CapsAssumption, PushPacket
  <2> HIDE DEF r
  <2>5. TypeOK'
    BY <1>1, <2>1, <2>4 DEF TypeOK
  <2>6. Contents'
    BY <1>1, <1>2, <1>3, <2>1, <2>4 DEF Contents, PacketsOk
  <2>7. BuffersAreRecent'
    <3>1. EndsWith(session', RetainedCount') /\ EndsWith(queue', QueuedCount')
      BY <1>1, <2>1, <2>2, <2>4 DEF EndsWith, RetainedCount, QueuedCount
    <3>2. Len(session) = IF captured - 1 < SessionCap THEN captured - 1 ELSE SessionCap
      BY <1>1, <2>1 DEF BuffersAreRecent, KeptCount
    <3>3. KeptCount' = captured
      BY <1>1, <2>1 DEF KeptCount
    <3>4. Len(session') = IF captured < SessionCap THEN captured ELSE SessionCap
      BY <1>2, <2>1, <2>4, <3>2, CapsAssumption
    <3>. QED
      BY <3>1, <3>3, <3>4 DEF BuffersAreRecent
  <2>8. InFlight'
    BY <1>1, <1>2, <2>1 DEF InFlight
  <2>. QED
    BY <1>4, <2>5, <2>6, <2>7, <2>8
<1>6. CASE LoopEnqueue
  <2> DEFINE r == PushEvict(queue, inflight, QueueCap)
  <2>1. /\ loop = "enqueue" /\ loop' = "check" /\ queue' = r
        /\ session' = session /\ inflight' = None
    BY <1>6 DEF LoopEnqueue
  <2>2. EndsWith(session, captured) /\ EndsWith(queue, captured - 1)
    BY <2>1 DEF BuffersAreRecent, RetainedCount, QueuedCount
  <2>3. queue \in Seq(Packet) /\ Len(queue) <= QueueCap
    BY DEF TypeOK
  <2>4. r \in Seq(Packet) /\ Len(r) <= QueueCap /\ EndsWith(r, captured) /\ PacketsOk(r)
    BY <1>2, <1>3, <2>2, <2>3, CapsAssumption, PushPacket
  <2> HIDE DEF r
  <2>5. TypeOK'
    BY <1>1, <2>1, <2>4 DEF TypeOK
  <2>6. Contents'
    BY <1>1, <1>3, <2>1, <2>4 DEF Contents, PacketsOk
  <2>7. BuffersAreRecent'
    BY <1>1, <2>1, <2>2, <2>4 DEF BuffersAreRecent, EndsWith, RetainedCount, QueuedCount, KeptCount
  <2>8. InFlight'
    BY <2>1 DEF InFlight
  <2>. QED
    BY <1>4, <2>5, <2>6, <2>7, <2>8
<1>. QED
  BY <1>5, <1>6

---------------------------------------------------------------------------
LEMMA StepIInv == IInv /\ [ENext]_evars => IInv'
<1> SUFFICES ASSUME IInv, [ENext]_evars PROVE IInv'
  OBVIOUS
<1>1. CASE CallerStep
  BY <1>1, QuietCallerStep, ClearingStep, AcquireStep, OfflinePacketStep DEF CallerStep
<1>2. CASE LoopStep
  BY <1>2, LoopQuietStep, LoopReadPacketStep, ConsumeStep DEF LoopStep
<1>3. CASE UNCHANGED evars
  BY <1>3 DEF evars, IInv, TypeOK, HandleOwned, Joined, Cleared, InFlight, SourceKnown,
              KeptKnown, Contents, PacketsOk, BuffersAreRecent, EndsWith, RetainedCount,
              QueuedCount, KeptCount, FilterInForce
<1>. QED
  BY <1>1, <1>2, <1>3, QuietCallerStep, ClearingStep, DrainStep DEF ENext, Destroyed

LEMMA InductiveInvariant == ESpec => []IInv
  BY InitIInv, StepIInv, PTL DEF ESpec

---------------------------------------------------------------------------
(* Types, and the capacities of the session and of the queue.              *)
THEOREM EngineTyped == ESpec => []TypeOK
<1>1. IInv => TypeOK
  BY DEF IInv
<1>. QED
  BY <1>1, InductiveInvariant, PTL

(* The pcap handle is never read after stopCapture() closed it, nor by two *)
(* threads, whatever operations are called in whatever order.              *)
THEOREM HandleSafety == ESpec => []HandleOwned
<1>1. IInv => HandleOwned
  BY DEF IInv
<1>. QED
  BY <1>1, InductiveInvariant, PTL

(* No packet of an earlier source is ever in the session, in the queue or  *)
(* in the capture thread's hands, and all have the session's link type.    *)
THEOREM NoPacketOutlivesItsSource == ESpec => []NoStalePackets
<1>1. ASSUME IInv
      PROVE  NoStalePackets
  <2>1. ASSUME NEW p \in Retained
        PROVE  p.src = source /\ p.link = sessionLink
    <3>1. CASE p \in Sequence(session) \/ p \in Sequence(queue)
      BY <1>1, <3>1 DEF Sequence, IInv, Contents, PacketsOk
    <3>2. CASE p = inflight /\ p # None
      BY <1>1, <3>2 DEF IInv, InFlight, Contents
    <3>. QED
      BY <2>1, <3>1, <3>2 DEF Retained
  <2>. QED
    BY <2>1 DEF NoStalePackets
<1>. QED
  BY <1>1, InductiveInvariant, PTL

(* The session and the queue are gap-free runs ending with the newest      *)
(* packet, and the session holds all that were read since it was emptied,  *)
(* or the SessionCap latest, but for one that captureLoop has just read.   *)
THEOREM BuffersRecent == ESpec => []BuffersAreRecent
<1>1. IInv => BuffersAreRecent
  BY DEF IInv
<1>. QED
  BY <1>1, InductiveInvariant, PTL

(* A running capture always filters with the filter last accepted.         *)
THEOREM FilterHolds == ESpec => []FilterInForce
<1>1. IInv => FilterInForce
  BY DEF IInv
<1>. QED
  BY <1>1, InductiveInvariant, PTL

---------------------------------------------------------------------------
(* netprobe-cli.  Each of its steps is a step of the engine or leaves it   *)
(* alone, so that IInv holds all along; CliInv says what the program has   *)
(* made of the engine's packets in each of its phases.                     *)

Late  == {"write", "insert", "flush", "check", "close"}
Early == {"begin", "starting", "filter", "loop", "givingUp", "stopping", "drain",
          "replaying"}

(* The packets that have left the queue, for the analyser or for good.     *)
Passed == QueuedCount - Len(queue)

(* Where the engine is in each stage of run().                             *)
PhaseOfEngine ==
  /\ stage \in Early \union Late \union {"leaving", "exited"}
  /\ stage \in {"begin", "filter", "loop", "drain", "leaving"} \union Late => at = "idle"
  /\ stage = "starting" =>
       op = "start" /\ at \in {"close", "clearQueue", "clearSession", "acquire", "idle"}
  /\ stage = "replaying" =>
       op = "replay" /\ at \in {"close", "clearQueue", "clearSession", "acquire",
                             "replay", "replayRead"}
  /\ stage \in {"givingUp", "stopping"} =>
       op = "stop" /\ at \in {"join", "close", "idle"} /\ (at = "idle" => loop = "none")
  /\ stage = "exited" => at \in {"close", "gone", "idle"} /\ (at = "close" => op = "destroy")
  /\ stage \in {"begin", "drain", "leaving", "exited"} \union Late => loop = "none"

(* Before a source is acquired there is nothing to count.                  *)
NothingYet ==
  stage = "begin" \/ (stage \in {"starting", "replaying"} /\ at \notin {"idle", "replay", "replayRead"}) =>
    loop = "none" /\ captured = 0 /\ queue = <<>> /\ seen = <<>> /\ dropped = 0

SeenInOrder ==
  /\ seen \in Seq(Nat) /\ dropped \in Nat
  /\ \A i \in 1 .. Len(seen) : seen[i] <= Passed
  /\ \A i, j \in 1 .. Len(seen) : i < j => seen[i] < seen[j]

(* Each packet that has left the queue was analysed or reported dropped.   *)
Counted == stage \in Early => Len(seen) + dropped = Passed

WithinLimit ==
  /\ plan \in Plans
  /\ plan.limit # NoLimit => Len(seen) <= plan.limit
  /\ stage = "replaying" => plan.limit = NoLimit

Report ==
  stage \in Late \/ outcome = "success" =>
    loop = "none" /\ (LimitReached \/ Len(seen) + dropped = captured)

TextWritten ==
  /\ outcome = "success" => stage \in {"close", "leaving", "exited"}
  /\ stage = "flush" => plan.output = "-" /\ text \in {"buffered", "written", "lost"}
  /\ stage = "close" => plan.output # "-"
  /\ stage = "check" /\ plan.output = "-" => text \in {"written", "lost"}
  /\ outcome = "success" /\ plan.output = "-" => text = "written"

CliInv ==
  /\ PhaseOfEngine /\ NothingYet /\ SeenInOrder /\ Counted /\ WithinLimit
  /\ Report /\ TextWritten

(* The steps of run() during which the engine rests.                       *)
Resting ==
  \/ Reject \/ Started \/ GaveUp \/ Stopped \/ Drained
  \/ OpenOutput \/ InsertFlows \/ FlushOutput \/ CheckOutput \/ CloseFile
  \/ Interrupt \/ DeadlinePasses

LEMMA CliIsEngine ==
  ASSUME plan \in Plans, CNext
  PROVE  [ENext]_evars
<1>1. Open \/ FilterRefused \/ LoopEnds \/ Leave => ENext
  BY DEF Open, FilterRefused, LoopEnds, Leave, Acquires, ENext
<1>2. Filtered => ENext
  BY PlansAssumption DEF Filtered, ENext, Options
<1>3. LoopAnalyse \/ DrainOne => ENext
  BY DEF LoopAnalyse, DrainOne, Analyse, ENext
<1>4. ReplayAsks \/ ReplayOne \/ ReplayEnds \/ ReplayFails \/ EngineCall => ENext
  BY DEF ReplayAsks, ReplayOne, ReplayEnds, ReplayFails, EngineCall, CallerStep, ENext
<1>5. EngineLoop => ENext
  BY DEF EngineLoop, ENext
<1>6. Resting \/ LoopSleeps \/ Exited => UNCHANGED evars
  BY DEF Resting, Reject, Started, GaveUp, Stopped, Drained, OpenOutput, InsertFlows,
    FlushOutput, CheckOutput, CloseFile, Interrupt, DeadlinePasses, LoopSleeps, Exited,
    cvars
<1>. QED
  BY <1>1, <1>2, <1>3, <1>4, <1>5, <1>6 DEF CNext, MainStep, Resting

LEMMA CountsAreNumbers ==
  ASSUME IInv
  PROVE  /\ captured \in Nat /\ Len(queue) \in Nat /\ QueuedCount \in Int /\ Passed \in Int
         /\ queue \in Seq(Packet)
<1>. QED
  BY BoundsAssumption, LenProperties DEF IInv, TypeOK, QueuedCount, Passed

(* The oldest queued packet is the next to leave.                          *)
LEMMA DrainCounts ==
  ASSUME IInv, Drain
  PROVE  /\ Passed' = Passed + 1 /\ Head(queue).n = Passed + 1 /\ Head(queue).n \in Nat
         /\ UNCHANGED <<op, at, loop, captured>>
<1>1. /\ queue # <<>> /\ queue' = Tail(queue)
      /\ UNCHANGED <<op, at, loop, captured>>
  BY DEF Drain, caller
<1>2. Len(queue') = Len(queue) - 1 /\ Len(queue) >= 1
  BY <1>1, CountsAreNumbers, TailElements, EmptySeq, LenProperties
<1>3. QueuedCount' = QueuedCount
  BY <1>1 DEF QueuedCount
<1>4. Head(queue) = queue[1] /\ queue[1] \in Packet
  BY <1>1, <1>2, CountsAreNumbers, HeadTailProperties
<1>5. queue[1].n = QueuedCount - Len(queue) + 1
  BY <1>2, CountsAreNumbers DEF IInv, BuffersAreRecent, EndsWith
<1>6. queue[1].n \in Nat
  BY <1>4, BoundsAssumption DEF Packet
<1>. QED
  BY <1>1, <1>2, <1>3, <1>4, <1>5, <1>6, CountsAreNumbers DEF Passed

(* The capture thread takes packets from the queue only by evicting them.  *)
LEMMA LoopCounts ==
  ASSUME IInv, LoopStep
  PROVE  /\ Passed' = Passed + (IF loop = "enqueue" THEN Evicted(queue, QueueCap) ELSE 0)
         /\ Evicted(queue, QueueCap) \in {0, 1}
         /\ loop \notin {"none", "exited"} /\ UNCHANGED <<op, at>>
<1>1. CASE LoopCheck \/ LoopReadNothing
  BY <1>1, CountsAreNumbers DEF LoopCheck, LoopReadNothing, AfterCheck, caller, data, Passed,
    QueuedCount, Evicted
<1>2. CASE LoopReadPacket
  BY <1>2, CountsAreNumbers DEF LoopReadPacket, caller, Passed, QueuedCount, Evicted
<1>3. CASE LoopRetain
  BY <1>3, CountsAreNumbers DEF LoopRetain, caller, Passed, QueuedCount, Evicted
<1>4. CASE LoopEnqueue
  <2>1. /\ loop = "enqueue" /\ loop' = "check" /\ captured' = captured
        /\ queue' = PushEvict(queue, inflight, QueueCap) /\ UNCHANGED <<op, at>>
    BY <1>4 DEF LoopEnqueue, caller
  <2>2. inflight \in Packet /\ queue \in Seq(Packet) /\ Len(queue) <= QueueCap
    BY <2>1 DEF IInv, InFlight, TypeOK
  <2>3. Len(queue') = Len(queue) + 1 - Evicted(queue, QueueCap)
    BY <2>1, <2>2, CapsAssumption, PushEvictProperties
  <2>4. QueuedCount = captured - 1 /\ QueuedCount' = captured
    BY <2>1 DEF QueuedCount
  <2>. QED
    BY <2>1, <2>3, <2>4, CountsAreNumbers, SMTT(30) DEF Passed, Evicted
<1>. QED
  BY <1>1, <1>2, <1>3, <1>4 DEF LoopStep

(* What leaves the queue is analysed after all that was.                   *)
LEMMA AnalysedNext ==
  ASSUME SeenInOrder, Passed \in Nat, Passed' = Passed + 1, seen' = Append(seen, Passed + 1),
         dropped' = dropped
  PROVE  SeenInOrder' /\ Len(seen') = Len(seen) + 1
<1>1. /\ seen' \in Seq(Nat) /\ Len(seen') = Len(seen) + 1 /\ Len(seen) \in Nat
      /\ seen'[Len(seen) + 1] = Passed + 1
      /\ \A i \in 1 .. Len(seen) : seen'[i] = seen[i] /\ seen[i] \in Nat
  BY AppendProperties, LenProperties, ElementOfSeq DEF SeenInOrder
<1>2. \A i \in 1 .. Len(seen') : seen'[i] <= Passed'
  BY <1>1 DEF SeenInOrder
<1>3. \A i, j \in 1 .. Len(seen') : i < j => seen'[i] < seen'[j]
  BY <1>1, SMTT(30) DEF SeenInOrder
<1>. QED
  BY <1>1, <1>2, <1>3 DEF SeenInOrder

(* run() between two uses of the engine.                                   *)
LEMMA RestingStep ==
  ASSUME IInv, CliInv, Resting \/ LoopSleeps \/ Exited \/ UNCHANGED cvars
  PROVE  CliInv'
<1> USE DEF CliInv
<1>1. /\ UNCHANGED evars /\ UNCHANGED <<plan, dropped, seen>>
  BY DEF Resting, Reject, Started, GaveUp, Stopped, Drained, OpenOutput, InsertFlows,
    FlushOutput, CheckOutput, CloseFile, Interrupt, DeadlinePasses, LoopSleeps, Exited,
    cvars, cli, tally
<1>2. UNCHANGED <<op, at, loop, captured, queue>>
  BY <1>1 DEF evars
<1>3. Passed' = Passed /\ QueuedCount' = QueuedCount
  BY <1>2 DEF Passed, QueuedCount
<1>4. \/ stage = "begin" /\ stage' = "exited" /\ outcome' = "usage" /\ text' = text
      \/ stage = "starting" /\ at = "idle" /\ loop = "none" /\ stage' = "leaving"
           /\ outcome' = "runtime" /\ text' = text
      \/ stage = "starting" /\ at = "idle" /\ stage' \in {"loop", "filter"}
           /\ outcome' = outcome /\ text' = text
      \/ stage = "givingUp" /\ at = "idle" /\ stage' = "leaving"
           /\ outcome' = outcome /\ text' = text
      \/ stage = "stopping" /\ at = "idle" /\ stage' = "drain"
           /\ outcome' = outcome /\ text' = text
      \/ stage = "drain" /\ queue = <<>> /\ stage' = "write"
           /\ outcome' = outcome /\ text' = text
      \/ stage = "write" /\ stage' = "insert" /\ outcome' = outcome /\ text' = text
      \/ stage = "write" /\ stage' = "leaving" /\ outcome' = "runtime" /\ text' = text
      \/ stage = "insert" /\ stage' = (IF plan.output = "-" THEN "flush" ELSE "check")
           /\ outcome' = outcome /\ text' \in {"buffered", "written", "lost"}
      \/ stage = "flush" /\ stage' = "check" /\ outcome' = outcome /\ text' \in Flushed
      \/ stage = "check" /\ stage' = (IF plan.output = "-" THEN "leaving" ELSE "close")
           /\ outcome' = (IF text = "lost" THEN "runtime" ELSE "success") /\ text' = text
      \/ stage = "close" /\ stage' = "leaving" /\ outcome' = outcome
      \/ UNCHANGED <<stage, outcome, text>>
  BY DEF Resting, Reject, Started, Joinable, GaveUp, Stopped, AfterStop, Drained, OpenOutput,
    InsertFlows, FlushOutput, CheckOutput, CloseFile, Interrupt, DeadlinePasses, LoopSleeps,
    Exited, cvars, cli
<1>5. PhaseOfEngine' /\ NothingYet' /\ SeenInOrder'
  <2>1. PhaseOfEngine'
    BY <1>2, <1>4 DEF PhaseOfEngine, Early, Late
  <2>2. NothingYet'
    BY <1>1, <1>2, <1>4 DEF NothingYet
  <2>3. SeenInOrder'
    BY <1>1, <1>3 DEF SeenInOrder
  <2>. QED
    BY <2>1, <2>2, <2>3
<1>6. Counted' /\ WithinLimit'
  BY <1>1, <1>3, <1>4 DEF Counted, Early, WithinLimit
<1>7. LimitReached' <=> LimitReached
  BY <1>1 DEF LimitReached
<1>8. Report'
  <2>1. CASE stage = "drain" /\ queue = <<>>
    <3>1. loop = "none" /\ Len(queue) = 0 /\ QueuedCount = captured
      BY <2>1 DEF PhaseOfEngine, QueuedCount
    <3>2. Len(seen) + dropped = captured
      BY <2>1, <3>1, CountsAreNumbers DEF Counted, Early, Passed
    <3>. QED
      BY <1>1, <1>2, <3>1, <3>2 DEF Report
  <2>2. CASE ~(stage = "drain" /\ queue = <<>>)
    BY <1>1, <1>2, <1>4, <1>7, <2>2 DEF Report, Late, TextWritten
  <2>. QED
    BY <2>1, <2>2
<1>9. TextWritten'
  BY <1>1, <1>4 DEF TextWritten, Flushed
<1>. QED
  BY <1>5, <1>6, <1>8, <1>9

(* run() calls an operation of the engine, or sets the filter.             *)
LEMMA CallStep ==
  ASSUME IInv, CliInv, Open \/ Filtered \/ FilterRefused \/ LoopEnds \/ Leave
  PROVE  CliInv'
<1> USE DEF CliInv
<1>1. UNCHANGED <<loop, captured, queue, plan, dropped, seen, text>>
  BY DEF Open, Filtered, FilterRefused, LoopEnds, Leave, Call, SetFilter, data, tally, caller
<1>2. Passed' = Passed /\ QueuedCount' = QueuedCount
  BY <1>1 DEF Passed, QueuedCount
<1>3. LimitReached' <=> LimitReached
  BY <1>1 DEF LimitReached
<1>4. SeenInOrder'
  BY <1>1, <1>2 DEF SeenInOrder
<1>5. \/ /\ stage = "begin" /\ stage' = (IF plan.live THEN "starting" ELSE "replaying")
         /\ op' = (IF plan.live THEN "start" ELSE "replay") /\ at' = AfterStopRequest
         /\ outcome' = outcome /\ Valid(plan)
      \/ stage = "filter" /\ stage' = "loop" /\ at' = at /\ outcome' = outcome
      \/ /\ stage = "filter" /\ stage' = "givingUp" /\ op' = "stop" /\ at' = AfterStopRequest
         /\ outcome' = "runtime"
      \/ /\ stage = "loop" /\ stage' = "stopping" /\ op' = "stop" /\ at' = AfterStopRequest
         /\ outcome' = outcome
      \/ /\ stage = "leaving" /\ stage' = "exited" /\ op' = "destroy" /\ at' = AfterStopRequest
         /\ outcome' = outcome
  BY DEF Open, Filtered, FilterRefused, LoopEnds, Leave, Call, SetFilter, caller
<1>6. AfterStopRequest \in {"join", "close"} /\ (loop = "none" => AfterStopRequest = "close")
  BY DEF AfterStopRequest, Joinable
<1>7. PhaseOfEngine'
  BY <1>1, <1>5, <1>6 DEF PhaseOfEngine, Early, Late
<1>8. NothingYet'
  BY <1>1, <1>5, <1>6 DEF NothingYet, PhaseOfEngine
<1>9. Counted'
  BY <1>1, <1>2, <1>5 DEF Counted, Early
<1>10. WithinLimit'
  BY <1>1, <1>5 DEF WithinLimit, Valid, Parsed
<1>11. Report'
  BY <1>1, <1>3, <1>5 DEF Report, Late, TextWritten
<1>12. TextWritten'
  BY <1>1, <1>5 DEF TextWritten
<1>. QED
  BY <1>4, <1>7, <1>8, <1>9, <1>10, <1>11, <1>12

(* run() analyses a packet, or throws away the one past the limit.         *)
LEMMA AnalyseStep ==
  ASSUME IInv, CliInv, LoopAnalyse \/ DrainOne
  PROVE  CliInv'
<1> USE DEF CliInv
<1>1. /\ Drain /\ stage \in {"loop", "drain"} /\ outcome' = outcome
      /\ UNCHANGED <<plan, dropped, text>>
  BY DEF LoopAnalyse, DrainOne, Analyse
<1>2. /\ Passed' = Passed + 1 /\ Head(queue).n = Passed + 1 /\ Head(queue).n \in Nat
      /\ UNCHANGED <<op, at, loop, captured>>
  BY <1>1, DrainCounts
<1>3. Len(seen) \in Nat /\ Len(seen) + dropped = Passed /\ Passed \in Nat /\ dropped \in Nat
  BY <1>1, LenProperties DEF Counted, Early, SeenInOrder
<1>4. outcome # "success"
  BY <1>1 DEF TextWritten
<1>5. CASE seen' = Append(seen, Head(queue).n) /\ stage' = stage /\ ~LimitReached
  <2>1. SeenInOrder' /\ Len(seen') = Len(seen) + 1
    BY <1>1, <1>2, <1>3, <1>5, AnalysedNext
  <2>2. PhaseOfEngine' /\ NothingYet'
    BY <1>1, <1>2, <1>5 DEF PhaseOfEngine, NothingYet, Early, Late
  <2>3. Counted'
    BY <1>1, <1>2, <1>3, <2>1 DEF Counted
  <2>4. WithinLimit'
    <3>1. plan.limit # NoLimit => plan.limit \in Nat
      BY PlansAssumption DEF WithinLimit, Options
    <3>. QED
      BY <1>1, <1>3, <1>5, <2>1, <3>1 DEF WithinLimit, LimitReached
  <2>5. Report' /\ TextWritten'
    BY <1>1, <1>4, <1>5 DEF Report, TextWritten, Late
  <2>. QED
    BY <2>1, <2>2, <2>3, <2>4, <2>5
<1>6. CASE stage = "drain" /\ stage' = "write" /\ seen' = seen /\ LimitReached
  <2>1. SeenInOrder'
    BY <1>1, <1>2, <1>3, <1>6 DEF SeenInOrder
  <2>2. PhaseOfEngine' /\ NothingYet' /\ Counted' /\ TextWritten'
    BY <1>1, <1>2, <1>4, <1>6 DEF PhaseOfEngine, NothingYet, Counted, TextWritten, Early, Late
  <2>3. WithinLimit'
    BY <1>1, <1>6 DEF WithinLimit
  <2>4. Report'
    <3>1. LimitReached'
      BY <1>1, <1>6 DEF LimitReached
    <3>2. loop' = "none"
      BY <1>2, <1>6 DEF PhaseOfEngine
    <3>. QED
      BY <3>1, <3>2 DEF Report
  <2>. QED
    BY <2>1, <2>2, <2>3, <2>4
<1>. QED
  BY <1>5, <1>6 DEF LoopAnalyse, DrainOne, Analyse, DrainStops, Enough

(* A file is replayed.                                                     *)
LEMMA ReplayStep ==
  ASSUME IInv, CliInv, ReplayOne \/ ReplayEnds \/ ReplayFails
  PROVE  CliInv'
<1> USE DEF CliInv
<1>1. /\ stage = "replaying" /\ UNCHANGED <<plan, dropped, text, queue, loop>>
      /\ outcome # "success"
  BY DEF ReplayOne, ReplayEnds, ReplayFails, ReplayPacket, EndOffline, AcquireFails, data,
    tally, TextWritten
<1>2. at \in {"replay", "replayRead", "acquire"} /\ loop = "none" /\ queue = <<>> /\ at # "feed"
  BY <1>1 DEF ReplayOne, ReplayEnds, ReplayFails, ReplayPacket, EndOffline, AcquireFails,
    PhaseOfEngine, IInv, HandleOwned, Cleared, Clearing, Offline
<1>3. /\ Passed = captured /\ Passed' = captured' /\ captured \in Nat /\ QueuedCount = captured
      /\ Len(seen) \in Nat /\ Len(seen) + dropped = captured /\ dropped \in Nat
  <2>1. QueuedCount = captured /\ QueuedCount' = captured' /\ Len(queue) = 0 /\ Len(queue') = 0
    BY <1>1, <1>2 DEF QueuedCount
  <2>2. captured \in Nat /\ Len(seen) \in Nat /\ dropped \in Nat
    BY CountsAreNumbers, LenProperties DEF SeenInOrder
  <2>3. captured' = captured \/ captured' = captured + 1
    BY <2>2 DEF ReplayOne, ReplayEnds, ReplayFails, ReplayPacket, EndOffline, AcquireFails
  <2>4. Passed = captured
    BY <2>1, <2>2 DEF Passed
  <2>5. Passed' = captured'
    <3>1. Passed' = QueuedCount' - Len(queue')
      BY DEF Passed
    <3>2. captured' - 0 = captured'
      BY <2>2, <2>3
    <3>. QED
      BY <2>1, <3>1, <3>2
  <2>6. Len(seen) + dropped = Passed
    BY <1>1 DEF Counted, Early
  <2>. QED
    BY <2>1, <2>2, <2>4, <2>5, <2>6
<1>4. CASE ReplayOne
  <2>1. /\ captured' = captured + 1 /\ seen' = Append(seen, captured + 1)
        /\ stage' = stage /\ outcome' = outcome /\ op' = op
        /\ at = "replayRead" /\ at' = "replay"
    BY <1>4 DEF ReplayOne, ReplayPacket
  <2>2. SeenInOrder' /\ Len(seen') = Len(seen) + 1
    BY <1>1, <1>3, <2>1, AnalysedNext
  <2>3. PhaseOfEngine' /\ NothingYet'
    BY <1>1, <1>2, <2>1 DEF PhaseOfEngine, NothingYet, Early, Late
  <2>4. Counted'
    BY <1>1, <1>3, <2>1, <2>2 DEF Counted
  <2>5. WithinLimit' /\ Report' /\ TextWritten'
    BY <1>1, <2>1 DEF WithinLimit, Report, TextWritten, Late
  <2>. QED
    BY <2>2, <2>3, <2>4, <2>5
<1>5. CASE ReplayEnds \/ ReplayFails
  <2>1. /\ captured' = captured /\ seen' = seen /\ at' = "idle"
        /\ \/ stage' = "write" /\ outcome' = outcome
           \/ stage' = "leaving" /\ outcome' = "runtime"
    BY <1>5 DEF ReplayEnds, ReplayFails, EndOffline, AcquireFails, tally
  <2>2. SeenInOrder' /\ WithinLimit'
    BY <1>1, <1>3, <2>1 DEF SeenInOrder, WithinLimit
  <2>3. PhaseOfEngine' /\ NothingYet' /\ Counted' /\ TextWritten'
    BY <1>1, <1>2, <2>1 DEF PhaseOfEngine, NothingYet, Counted, TextWritten, Early, Late
  <2>4. Report'
    BY <1>1, <1>2, <1>3, <2>1 DEF Report
  <2>. QED
    BY <2>2, <2>3, <2>4
<1>. QED
  BY <1>4, <1>5

(* replayFile() goes on to a read, or to the next after one gave nothing.  *)
LEMMA ReplayTurnStep ==
  ASSUME IInv, CliInv, ReplayAsks \/ (EngineCall /\ ReplayNothing)
  PROVE  CliInv'
<1> USE DEF CliInv
<1>1. /\ UNCHANGED <<stage, plan, dropped, seen, text, outcome>>
      /\ UNCHANGED <<op, loop, captured, queue>>
      /\ at \in {"replay", "replayRead"} /\ at' \in {"replay", "replayRead"}
  BY DEF ReplayAsks, EngineCall, ReplayGoesOn, ReplayNothing, cli, tally, data
<1>2. Passed' = Passed
  BY <1>1 DEF Passed, QueuedCount
<1>3. PhaseOfEngine' /\ NothingYet'
  BY <1>1 DEF PhaseOfEngine, NothingYet, Early, Late
<1>4. SeenInOrder' /\ Counted' /\ WithinLimit' /\ Report' /\ TextWritten'
  BY <1>1, <1>2 DEF SeenInOrder, Counted, WithinLimit, Report, LimitReached, TextWritten
<1>. QED
  BY <1>3, <1>4

(* The engine goes on with the operation that run() called.                *)
LEMMA EngineCallStep ==
  ASSUME IInv, CliInv, EngineCall, ~ReplayNothing
  PROVE  CliInv'
<1> USE DEF CliInv
<1>1. UNCHANGED <<stage, plan, dropped, seen, text, outcome>>
  BY DEF EngineCall, cli, tally
<1>2. CASE Join \/ CloseBackend
  <2>1. UNCHANGED <<captured, queue, op>>
    BY <1>2 DEF Join, CloseBackend, data
  <2>2. Passed' = Passed
    BY <1>2, <2>1 DEF Join, CloseBackend, Passed, QueuedCount
  <2>3. /\ at \in {"join", "close"} /\ (loop' = "none" \/ loop' = loop)
        /\ at = "join" => at' = "close" /\ loop = "exited"
        /\ at = "close" => /\ loop = "none"
                           /\ at' = (CASE op = "stop" -> "idle" [] op = "destroy" -> "gone"
                                       [] OTHER -> "clearQueue")
    BY <1>2 DEF Join, CloseBackend, IInv, Joined, Clearing
  <2>4. SeenInOrder' /\ Counted' /\ WithinLimit' /\ TextWritten'
    BY <1>1, <2>2 DEF SeenInOrder, Counted, WithinLimit, TextWritten
  <2>5. PhaseOfEngine'
    BY <1>1, <2>1, <2>3 DEF PhaseOfEngine, Early, Late
  <2>6. NothingYet' 
    BY <1>1, <2>1, <2>3 DEF NothingYet, PhaseOfEngine
  <2>7. Report'
    BY <1>1, <2>1, <2>3 DEF Report, LimitReached
  <2>. QED
    BY <2>4, <2>5, <2>6, <2>7
<1>3. CASE ~(Join \/ CloseBackend)
  <2>1. /\ at \in {"clearQueue", "clearSession", "acquire"} /\ op' = op
        /\ \/ at = "clearQueue" /\ at' = "clearSession" /\ queue' = <<>>
                /\ UNCHANGED <<captured, loop>>
           \/ at = "clearSession" /\ at' = "acquire" /\ UNCHANGED <<captured, loop, queue>>
           \/ at = "acquire" /\ at' = "idle" /\ stage = "starting"
                /\ UNCHANGED <<captured, loop, queue>>
           \/ at = "acquire" /\ op = "start" /\ at' = "idle" /\ captured' = 0
                /\ loop' = "check" /\ queue' = queue
           \/ at = "acquire" /\ op \in {"open", "replay"} /\ captured' = 0
                /\ at' = (IF op = "open" THEN "feed" ELSE "replay")
                /\ UNCHANGED <<loop, queue>>
    BY <1>3 DEF EngineCall, ClearQueue, ClearSession, AcquireFails, StartLive, OpenOffline, data
  <2>2. /\ stage \in {"starting", "replaying"} /\ loop = "none" /\ captured = 0
        /\ queue = <<>> /\ seen = <<>> /\ dropped = 0
    BY <2>1 DEF PhaseOfEngine, NothingYet, Late, Early
  <2>3. captured' = 0 /\ queue' = <<>> /\ loop' \in {"none", "check"}
    BY <2>1, <2>2
  <2>4. Passed' = 0 /\ Len(seen') = 0
    BY <1>1, <2>2, <2>3 DEF Passed, QueuedCount
  <2>5. PhaseOfEngine'
    BY <1>1, <2>1, <2>2 DEF PhaseOfEngine, Early, Late
  <2>6. NothingYet' /\ Counted'
    BY <1>1, <2>1, <2>2, <2>3, <2>4 DEF PhaseOfEngine, NothingYet, Counted
  <2>7. SeenInOrder'
    BY <1>1, <2>2, <2>4 DEF SeenInOrder
  <2>8. WithinLimit' /\ Report' /\ TextWritten'
    BY <1>1, <2>2 DEF WithinLimit, Report, TextWritten, Late
  <2>. QED
    BY <2>5, <2>6, <2>7, <2>8
<1>. QED
  BY <1>2, <1>3

(* The capture thread works.                                               *)
LEMMA EngineLoopStep ==
  ASSUME IInv, CliInv, EngineLoop
  PROVE  CliInv'
<1> USE DEF CliInv
<1> DEFINE d == IF loop = "enqueue" THEN Evicted(queue, QueueCap) ELSE 0
<1>1. LoopStep /\ dropped' = dropped + d /\ UNCHANGED <<stage, plan, seen, text, outcome>>
  BY DEF EngineLoop
<1>2. Passed' = Passed + d /\ d \in {0, 1} /\ loop # "none" /\ UNCHANGED <<op, at>>
  BY <1>1, LoopCounts
<1> HIDE DEF d
<1>3. stage \in Early /\ outcome # "success" /\ stage \notin {"begin", "drain"} \union Late
  BY <1>2 DEF PhaseOfEngine, Report, Late, Early
<1>4. /\ Passed \in Int /\ Len(seen) + dropped = Passed /\ dropped \in Nat
      /\ Len(seen) \in Nat /\ \A i \in 1 .. Len(seen) : seen[i] \in Nat
  BY <1>3, CountsAreNumbers, LenProperties, ElementOfSeq DEF Counted, SeenInOrder
<1>5. SeenInOrder'
  BY <1>1, <1>2, <1>4 DEF SeenInOrder
<1>6. Counted'
  BY <1>1, <1>2, <1>4 DEF Counted
<1>7. NothingYet' /\ Report'
  BY <1>1, <1>2, <1>3 DEF NothingYet, Report
<1>8. PhaseOfEngine'
  <2>1. loop' # "none"
    BY <1>1 DEF LoopStep, LoopCheck, AfterCheck, LoopReadPacket, LoopReadNothing, LoopRetain,
      LoopEnqueue
  <2>2. at # "idle" \/ stage \notin {"givingUp", "stopping"}
    BY <1>2 DEF PhaseOfEngine
  <2>. QED
    BY <1>1, <1>2, <1>3, <2>2 DEF PhaseOfEngine, Early, Late
<1>9. WithinLimit' /\ TextWritten'
  BY <1>1 DEF WithinLimit, TextWritten
<1>. QED
  BY <1>5, <1>6, <1>7, <1>8, <1>9

---------------------------------------------------------------------------
(* The flows that netprobe-cli writes stand for every packet captured,     *)
(* each analysed once and in order, except those reported as dropped and   *)
(* those past the packet limit: for all options, traffic, capacities and   *)
(* interleavings of the two threads and the interrupt.                     *)
THEOREM ReportComplete == CSpec => []ReportIsComplete
<1>1. CInit => IInv /\ CliInv
  <2> SUFFICES ASSUME CInit PROVE IInv /\ CliInv
    OBVIOUS
  <2>1. IInv
    BY InitIInv DEF CInit
  <2>2. /\ stage = "begin" /\ plan \in Plans /\ dropped = 0 /\ seen = <<>> /\ Len(seen) = 0
        /\ text = "none" /\ outcome = "none" /\ op = "none" /\ at = "idle"
        /\ loop = "none" /\ queue = <<>> /\ captured = 0
    BY DEF CInit, EInit
  <2>3. Passed = 0
    BY <2>2 DEF Passed, QueuedCount
  <2>4. PhaseOfEngine /\ NothingYet /\ Counted
    BY <2>2, <2>3 DEF PhaseOfEngine, NothingYet, Counted, Early, Late
  <2>5. SeenInOrder /\ Report /\ TextWritten
    BY <2>2 DEF SeenInOrder, Report, TextWritten, Late
  <2>6. WithinLimit
    BY <2>2, PlansAssumption DEF WithinLimit, Options
  <2>. QED
    BY <2>1, <2>4, <2>5, <2>6 DEF CliInv
<1>2. IInv /\ CliInv /\ [CNext]_cvars => (IInv /\ CliInv)'
  <2> SUFFICES ASSUME IInv, CliInv, [CNext]_cvars PROVE (IInv /\ CliInv)'
    OBVIOUS
  <2>1. [ENext]_evars
    BY CliIsEngine DEF CliInv, WithinLimit, cvars
  <2>2. CliInv'
    BY RestingStep, CallStep, AnalyseStep, ReplayStep, ReplayTurnStep, EngineCallStep,
      EngineLoopStep
      DEF CNext, MainStep, Resting
  <2>. QED
    BY <2>1, <2>2, StepIInv
<1>3. IInv /\ CliInv => ReportIsComplete
  <2> SUFFICES ASSUME IInv, CliInv, stage = "write" \/ outcome = "success"
               PROVE  /\ loop = "none"
                      /\ outcome = "success" /\ plan.output = "-" => text = "written"
                      /\ \A i, j \in 1 .. Len(seen) : i < j => seen[i] < seen[j]
                      /\ IF LimitReached THEN Len(seen) = plan.limit
                         ELSE Len(seen) + dropped = captured
    BY DEF ReportIsComplete
  <2>1. plan.limit # NoLimit => plan.limit \in Nat
    BY PlansAssumption DEF CliInv, WithinLimit, Options
  <2>2. Len(seen) \in Nat
    BY LenProperties DEF CliInv, SeenInOrder
  <2>. QED
    BY <2>1, <2>2 DEF CliInv, SeenInOrder, Report, TextWritten, WithinLimit, LimitReached, Late
<1>. QED
  BY <1>1, <1>2, <1>3, PTL DEF CSpec

---------------------------------------------------------------------------
(* The window.  Each of its steps, too, is a step of the engine or leaves  *)
(* it alone; GuiInv says what the window has made of the packets, and      *)
(* where the engine is while the frame loop waits for it.                  *)

InFrame == {"process", "controls", "render", "rows"}
UiOps == {"autostart", "start", "stop", "open", "destroy"}
Ends == {"stop", "destroy"}

EngineOp == IF uiOp \in Starts THEN "start" ELSE uiOp

PhaseOfFrame ==
  /\ phase \in InFrame \union {"calling", "engine"}
  /\ phase # "engine" => at = "idle"
  /\ phase \in {"calling", "engine"} => uiOp \in UiOps
  /\ phase = "engine" => op = EngineOp
  /\ phase = "engine" /\ uiOp \in Ends => at \in {"join", "close", "idle", "gone"}

(* A new source finds the table empty.                                     *)
Emptied ==
  phase \in {"calling", "engine"} /\ uiOp \in UiOps \ Ends => history = <<>>

(* What is in the table has left the queue, and entered it in order.       *)
TableInOrder ==
  /\ history \in Seq(Packet) /\ Len(history) <= HistoryCap
  /\ \A i \in 1 .. Len(history) : history[i].src = source /\ history[i].n <= Passed
  /\ \A i, j \in 1 .. Len(history) : i < j => history[i].n < history[j].n

SelectedIsClicked ==
  /\ selected \in 0 .. Len(history)
  /\ selected > 0 => history[selected] = clicked

RowsCached ==
  /\ rowsFresh => rows = MatchingRows(history, rowsFor)
  /\ phase = "rows" => VisibleRows = MatchingRows(history, display)

(* The engine comes back from a stop, and from a file, without a thread.   *)
StopIsShown ==
  /\ phase \in InFrame /\ Joinable => captureActive
  /\ phase \in {"calling", "engine"} /\ uiOp = "open" => ~captureActive
  /\ phase = "engine" /\ at = "idle" =>
       uiOp # "destroy" /\ (uiOp \in {"stop", "open"} => loop = "none")

GuiInv ==
  /\ PhaseOfFrame /\ Emptied /\ TableInOrder /\ SelectedIsClicked /\ RowsCached
  /\ StopIsShown

LEMMA GuiIsEngine ==
  ASSUME GuiInv, GNext
  PROVE  [ENext]_evars
<1>1. ProcessPacket => ENext
  BY DEF ProcessPacket, ENext
<1>2. Resume \/ PressStart \/ OpenPcap => [ENext]_evars
  BY DEF Resume, PressStart, OpenPcap, Unpause, ENext
<1>3. ASSUME NEW f \in Filters, ApplyFilter(f) PROVE ENext
  BY <1>3 DEF ApplyFilter, ENext
<1>4. EnterEngine => ENext
  <2> SUFFICES ASSUME EnterEngine PROVE ENext
    OBVIOUS
  <2>1. EngineOp \in Acquires \union {"stop", "destroy"} /\ Call(EngineOp)
    BY DEF EnterEngine, EngineOp, GuiInv, PhaseOfFrame, UiOps, Starts, Acquires
  <2>. QED
    BY <2>1 DEF ENext
<1>5. EngineRuns => ENext
  BY DEF EngineRuns, ENext
<1>6. EndProcess \/ Render \/ ReturnFromEngine \/ NoInput \/ SelectRow \/ ClearCapture
        \/ Pause \/ PressStop \/ CloseWindow \/ Closing => UNCHANGED evars
  BY DEF EndProcess, Render, ReturnFromEngine, NoInput, SelectRow, ClearCapture, Pause,
    PressStop, CloseWindow, Closing, gvars
<1>7. ASSUME NEW f \in DisplayFilters, SetDisplay(f) PROVE UNCHANGED evars
  BY <1>7 DEF SetDisplay
<1>. QED
  BY <1>1, <1>2, <1>3, <1>4, <1>5, <1>6, <1>7 DEF GNext, FrameStep, User

(* An empty table is in order and has nothing selected.                    *)
LEMMA ClearedTable ==
  ASSUME history' = <<>>, selected' = 0
  PROVE  TableInOrder' /\ SelectedIsClicked' /\ Emptied'
<1>1. Len(history') = 0 /\ history' \in Seq(Packet) /\ 1 .. 0 = {}
  OBVIOUS
<1>. QED
  BY <1>1, GuiCapsAssumption DEF TableInOrder, SelectedIsClicked, Emptied

(* The table stays in order while the engine goes on with its source.      *)
LEMMA TableStays ==
  ASSUME TableInOrder, UNCHANGED <<history, source>>, Passed \in Int, Passed' \in Int,
         Passed' >= Passed
  PROVE  TableInOrder'
<1>1. ASSUME NEW i \in 1 .. Len(history) PROVE history[i].n <= Passed'
  <2>1. history[i] \in Packet
    BY ElementOfSeq DEF TableInOrder
  <2>2. history[i].n \in Int /\ history[i].n <= Passed
    BY <2>1, BoundsAssumption DEF TableInOrder, Packet
  <2>. QED
    BY <2>2
<1>. QED
  BY <1>1 DEF TableInOrder

---------------------------------------------------------------------------
(* processQueue(): what leaves the queue is later than all in the table.   *)
LEMMA ProcessPacketStep ==
  ASSUME IInv, GuiInv, ProcessPacket
  PROVE  GuiInv'
<1>1. /\ phase = "process" /\ Drain
      /\ history' = PushEvict(history, Head(queue), HistoryCap)
      /\ selected' = SelectedAfterPush /\ rowsFresh' = FALSE
      /\ UNCHANGED <<phase, uiOp, clicked, captureActive, source>>
  BY DEF ProcessPacket, Drain, RowsFreshAfterPush
<1>2. /\ Passed' = Passed + 1 /\ Head(queue).n = Passed + 1
      /\ UNCHANGED <<op, at, loop, captured>> /\ Passed \in Int
  BY <1>1, DrainCounts, CountsAreNumbers
<1>3. /\ Head(queue) \in Packet /\ Head(queue).src = source
  <2>1. queue \in Seq(Packet) /\ queue # <<>> /\ PacketsOk(queue)
    BY <1>1, CountsAreNumbers DEF Drain, IInv, Contents
  <2>2. Len(queue) >= 1 /\ Head(queue) = queue[1] /\ queue[1] \in Packet
    BY <2>1, EmptySeq, LenProperties, HeadTailProperties
  <2>. QED
    BY <2>1, <2>2, LenProperties DEF PacketsOk
<1> DEFINE k == Evicted(history, HistoryCap)
<1>4. /\ history' \in Seq(Packet) /\ Len(history') = Len(history) + 1 - k
      /\ Len(history') \in 1 .. HistoryCap /\ history'[Len(history')] = Head(queue)
      /\ \A i \in 1 .. Len(history') - 1 : history'[i] = history[i + k]
  BY <1>1, <1>3, GuiCapsAssumption, PushEvictProperties DEF GuiInv, TableInOrder
<1>5. /\ k \in {0, 1} /\ Len(history) \in Nat /\ HistoryCap \in Nat
      /\ k = 1 <=> Len(history) >= HistoryCap
  BY GuiCapsAssumption, LenProperties DEF Evicted, GuiInv, TableInOrder
<1> HIDE DEF k
<1>6. ASSUME NEW i \in 1 .. Len(history') - 1
      PROVE  i + k \in 1 .. Len(history) /\ history'[i] = history[i + k]
             /\ history'[i].src = source /\ history'[i].n \in Int /\ history'[i].n <= Passed
  <2>1. i + k \in 1 .. Len(history) /\ history'[i] = history[i + k]
    BY <1>4, <1>5
  <2>2. history[i + k] \in Packet
    BY <2>1, ElementOfSeq DEF GuiInv, TableInOrder
  <2>. QED
    BY <2>1, <2>2, BoundsAssumption DEF GuiInv, TableInOrder, Packet
<1>7. TableInOrder'
  <2>1. ASSUME NEW i \in 1 .. Len(history')
        PROVE  history'[i].src = source' /\ history'[i].n <= Passed'
    <3>1. CASE i = Len(history')
      BY <1>1, <1>2, <1>3, <1>4, <3>1
    <3>2. CASE i \in 1 .. Len(history') - 1
      BY <1>1, <1>2, <1>6, <3>2
    <3>. QED
      BY <1>4, <3>1, <3>2
  <2>2. ASSUME NEW i \in 1 .. Len(history'), NEW j \in 1 .. Len(history'), i < j
        PROVE  history'[i].n < history'[j].n
    <3>1. i \in 1 .. Len(history') - 1
      BY <1>4, <2>2
    <3>2. CASE j = Len(history')
      BY <1>2, <1>4, <1>6, <3>1, <3>2
    <3>3. CASE j \in 1 .. Len(history') - 1
      <4>1. /\ i + k \in 1 .. Len(history) /\ j + k \in 1 .. Len(history) /\ i + k < j + k
            /\ history'[i] = history[i + k] /\ history'[j] = history[j + k]
        BY <1>5, <1>6, <2>2, <3>1, <3>3, SMTT(30)
      <4>. QED
        BY <4>1 DEF GuiInv, TableInOrder
    <3>. QED
      BY <1>4, <3>2, <3>3
  <2>. QED
    BY <1>4, <2>1, <2>2 DEF TableInOrder
<1>8. SelectedIsClicked'
  <2>1. selected \in 0 .. Len(history) /\ (selected > 0 => history[selected] = clicked)
    BY DEF GuiInv, SelectedIsClicked
  <2>2. selected' = IF selected > 0 THEN selected - k ELSE selected
    BY <1>1, <1>5, <2>1 DEF SelectedAfterPush
  <2>3. selected' \in 0 .. Len(history') - 1
    BY <1>4, <1>5, <2>1, <2>2
  <2>4. selected' > 0 => selected > 0 /\ selected' + k = selected
    BY <1>5, <2>1, <2>2
  <2>. QED
    BY <1>1, <1>4, <2>1, <2>3, <2>4 DEF SelectedIsClicked
<1>9. PhaseOfFrame' /\ Emptied' /\ RowsCached' /\ StopIsShown'
  BY <1>1, <1>2 DEF GuiInv, PhaseOfFrame, Emptied, RowsCached, StopIsShown, EngineOp,
    Joinable, InFrame
<1>. QED
  BY <1>7, <1>8, <1>9 DEF GuiInv

(* The rest of the frame, while the engine rests.                          *)
Still ==
  \/ EndProcess \/ Render \/ NoInput \/ SelectRow \/ Pause \/ PressStop \/ CloseWindow
  \/ ReturnFromEngine \/ Closing
  \/ \E f \in DisplayFilters : SetDisplay(f)

LEMMA StillStep ==
  ASSUME IInv, GuiInv, Still \/ UNCHANGED gvars
  PROVE  GuiInv'
<1>1. UNCHANGED evars /\ history' = history
  BY DEF Still, EndProcess, Render, NoInput, SelectRow, Pause, PressStop, CloseWindow,
    ReturnFromEngine, Closing, SetDisplay, gvars, view
<1>2. UNCHANGED <<op, at, loop, captured, queue, source>>
  BY <1>1 DEF evars
<1>3. TableInOrder'
  <2>1. Passed' = Passed
    BY <1>2 DEF Passed, QueuedCount
  <2>. QED
    BY <1>1, <1>2, <2>1 DEF GuiInv, TableInOrder
<1>4. PhaseOfFrame' /\ Emptied'
  BY <1>1, <1>2 DEF GuiInv, PhaseOfFrame, Emptied, Still, EndProcess, Render, NoInput,
    SelectRow, Pause, PressStop, CloseWindow, ReturnFromEngine, Closing, SetDisplay, gvars,
    frame, NextFrame, Controls, Callback, EngineOp, InFrame, UiOps, Ends
<1>5. SelectedIsClicked'
  <2>1. CASE SelectRow
    <3>1. PICK i \in VisibleRows : selected' = i /\ clicked' = history[i]
      BY <2>1 DEF SelectRow
    <3>2. i \in MatchingRows(history, display)
      BY <2>1, <3>1 DEF SelectRow, GuiInv, RowsCached
    <3>3. i \in 1 .. Len(history)
      BY <3>2 DEF MatchingRows
    <3>. QED
      BY <1>1, <3>1, <3>3 DEF SelectedIsClicked
  <2>2. CASE UNCHANGED <<selected, clicked>>
    BY <1>1, <2>2 DEF GuiInv, SelectedIsClicked
  <2>. QED
    BY <2>1, <2>2 DEF Still, EndProcess, Render, NoInput, Pause, PressStop, CloseWindow,
      ReturnFromEngine, Closing, SetDisplay, gvars, view
<1>6. RowsCached'
  <2>1. CASE Render
    <3>1. CASE display # "all" /\ (~rowsFresh \/ rowsFor # display)
      <4>1. rows' = MatchingRows(history, display) /\ rowsFor' = display /\ display' = display
        BY <2>1, <3>1 DEF Render
      <4>. QED
        BY <1>1, <3>1, <4>1 DEF RowsCached, VisibleRows, MatchingRows
    <3>2. CASE ~(display # "all" /\ (~rowsFresh \/ rowsFor # display))
      <4>1. UNCHANGED <<rows, rowsFor, rowsFresh, display>>
        BY <2>1, <3>2 DEF Render
      <4>2. rowsFresh => rows = MatchingRows(history, rowsFor)
        BY DEF GuiInv, RowsCached
      <4>3. VisibleRows = MatchingRows(history, display)
        <5>1. CASE display = "all"
          BY <5>1 DEF VisibleRows, MatchingRows, Matches
        <5>2. CASE display # "all"
          BY <3>2, <4>2, <5>2 DEF VisibleRows
        <5>. QED
          BY <5>1, <5>2
      <4>. QED
        BY <1>1, <4>1, <4>2, <4>3 DEF RowsCached, VisibleRows, MatchingRows
    <3>. QED
      BY <3>1, <3>2
  <2>2. CASE /\ UNCHANGED <<rows, rowsFor, rowsFresh>>
             /\ phase' # "rows" \/ UNCHANGED <<phase, display>>
    BY <1>1, <2>2 DEF GuiInv, RowsCached, VisibleRows, MatchingRows
  <2>. QED
    BY <2>1, <2>2 DEF Still, EndProcess, NoInput, SelectRow, Pause, PressStop, CloseWindow,
      ReturnFromEngine, Closing, SetDisplay, gvars, view, frame, NextFrame, Controls, Callback
<1>7. StopIsShown'
  <2>1. CASE ReturnFromEngine
    <3>1. /\ phase = "engine" /\ at = "idle" /\ captureActive' = ActiveAfter(uiOp)
          /\ phase' \in {"process", "render"}
      BY <2>1 DEF ReturnFromEngine, NextFrame
    <3>2. uiOp \in UiOps /\ uiOp # "destroy" /\ (uiOp \in {"stop", "open"} => loop = "none")
      BY <3>1 DEF GuiInv, PhaseOfFrame, StopIsShown
    <3>3. Joinable => captureActive'
      BY <3>1, <3>2 DEF Joinable, ActiveAfter, Starts, UiOps
    <3>. QED
      BY <1>2, <3>1, <3>3 DEF StopIsShown, Joinable
  <2>2. CASE /\ captureActive' = captureActive
             /\ \/ UNCHANGED <<phase, uiOp>>
                \/ phase \in InFrame /\ phase' \in InFrame
                \/ phase' = "calling" /\ uiOp' # "open"
    BY <1>2, <2>2 DEF GuiInv, StopIsShown, Joinable, InFrame
  <2>. QED
    BY <2>1, <2>2 DEF Still, EndProcess, Render, NoInput, SelectRow, Pause, PressStop,
      CloseWindow, Closing, SetDisplay, gvars, frame, NextFrame, Controls, Callback, InFrame
<1>. QED
  BY <1>3, <1>4, <1>5, <1>6, <1>7 DEF GuiInv

(* The table is cleared, with or without a callback after it.              *)
LEMMA ClearStep ==
  ASSUME IInv, GuiInv, ClearCapture \/ PressStart \/ OpenPcap
  PROVE  GuiInv'
<1>1. /\ history' = <<>> /\ selected' = 0 /\ rowsFresh' = FALSE
      /\ UNCHANGED <<op, at, loop>> /\ phase = "controls"
      /\ \/ phase' = "render" /\ captureActive' = captureActive
         \/ phase' = "calling" /\ uiOp' = "start"
         \/ phase' = "calling" /\ uiOp' = "open" /\ captureActive' = FALSE
  BY DEF ClearCapture, PressStart, OpenPcap, ClearView, Controls, Callback, Unpause, Discard,
    evars, caller
<1>2. TableInOrder' /\ SelectedIsClicked' /\ Emptied'
  BY <1>1, ClearedTable
<1>3. PhaseOfFrame' /\ RowsCached' /\ StopIsShown'
  BY <1>1 DEF GuiInv, PhaseOfFrame, RowsCached, StopIsShown, Joinable, InFrame, UiOps
<1>. QED
  BY <1>2, <1>3 DEF GuiInv

(* Resume and a new filter: the engine's own, and nothing of the window's. *)
LEMMA ResumeStep ==
  ASSUME IInv, GuiInv, Resume \/ \E f \in Filters : ApplyFilter(f)
  PROVE  GuiInv'
<1>1. /\ UNCHANGED <<op, at, loop, captured, source, history, selected, clicked, rows, rowsFor,
                     rowsFresh, captureActive, display>>
      /\ phase = "controls" /\ phase' = "render" /\ (queue' = queue \/ queue' = <<>>)
  BY DEF Resume, ApplyFilter, SetFilter, Unpause, Discard, Controls, evars, caller, data, view
<1>2. Passed \in Int /\ Passed' \in Int /\ Passed' >= Passed
  <2>1. Len(queue') \in Nat /\ Len(queue') <= Len(queue)
    BY <1>1, CountsAreNumbers
  <2>2. QueuedCount' = QueuedCount
    BY <1>1 DEF QueuedCount
  <2>. QED
    BY <2>1, <2>2, CountsAreNumbers DEF Passed
<1>3. TableInOrder'
  BY <1>1, <1>2, TableStays DEF GuiInv
<1>4. PhaseOfFrame' /\ Emptied' /\ SelectedIsClicked' /\ RowsCached' /\ StopIsShown'
  BY <1>1 DEF GuiInv, PhaseOfFrame, Emptied, SelectedIsClicked, RowsCached, StopIsShown,
    Joinable, InFrame, MatchingRows
<1>. QED
  BY <1>3, <1>4 DEF GuiInv

(* The callback enters the engine.                                         *)
LEMMA EnterStep ==
  ASSUME IInv, GuiInv, EnterEngine
  PROVE  GuiInv'
<1>1. /\ phase = "calling" /\ phase' = "engine" /\ op' = EngineOp /\ at' \in {"join", "close"}
      /\ UNCHANGED <<uiOp, loop, captured, queue, source, history, selected, clicked, rows,
                     rowsFor, rowsFresh, captureActive, display>>
  BY DEF EnterEngine, Call, AfterStopRequest, EngineOp, data, view
<1>2. TableInOrder'
  <2>1. Passed' = Passed
    BY <1>1 DEF Passed, QueuedCount
  <2>. QED
    BY <1>1, <2>1 DEF GuiInv, TableInOrder
<1>3. PhaseOfFrame' /\ Emptied' /\ SelectedIsClicked' /\ RowsCached' /\ StopIsShown'
  BY <1>1 DEF GuiInv, PhaseOfFrame, Emptied, SelectedIsClicked, RowsCached, StopIsShown,
    EngineOp, InFrame, MatchingRows, Starts
<1>. QED
  BY <1>2, <1>3 DEF GuiInv

(* The engine runs: its thread at any time, its caller in a callback.      *)
LEMMA EngineRunsStep ==
  ASSUME IInv, IInv', GuiInv, EngineRuns
  PROVE  GuiInv'
<1>1. UNCHANGED <<phase, uiOp, history, selected, clicked, rows, rowsFor, rowsFresh,
                  captureActive, display>>
  BY DEF EngineRuns, frame, view
<1>2. Emptied' /\ SelectedIsClicked' /\ RowsCached'
  BY <1>1 DEF GuiInv, Emptied, SelectedIsClicked, RowsCached, VisibleRows, MatchingRows
<1>3. CASE LoopStep
  <2>1. /\ Passed' >= Passed /\ Passed \in Int /\ Passed' \in Int
        /\ loop \notin {"none", "exited"} /\ UNCHANGED <<op, at>>
    BY <1>3, LoopCounts, CountsAreNumbers
  <2>2. source' = source
    BY <1>3 DEF LoopStep, LoopCheck, LoopReadPacket, LoopReadNothing, LoopRetain, LoopEnqueue
  <2>3. TableInOrder'
    BY <1>1, <2>1, <2>2, TableStays DEF GuiInv
  <2>4. PhaseOfFrame' /\ StopIsShown'
    BY <1>1, <2>1 DEF GuiInv, PhaseOfFrame, StopIsShown, EngineOp, Joinable
  <2>. QED
    BY <1>2, <2>3, <2>4 DEF GuiInv
<1>4. CASE CallerStep
  <2>1. at # "idle" /\ op' = op
    BY <1>4 DEF CallerStep, Join, CloseBackend, ClearQueue, ClearSession, AcquireFails,
      StartLive, OpenOffline, FeedPacket, ReplayGoesOn, ReplayPacket, ReplayNothing,
      EndOffline, Offline, caller
  <2>2. phase = "engine" /\ op = EngineOp /\ uiOp \in UiOps
    BY <2>1 DEF GuiInv, PhaseOfFrame
  <2>3. CASE uiOp \in Ends
    <3>1. at \in {"join", "close"} /\ op = uiOp
      BY <1>4, <2>1, <2>2, <2>3 DEF GuiInv, PhaseOfFrame, EngineOp, Ends, Starts, CallerStep,
        Join, CloseBackend, ClearQueue, ClearSession, AcquireFails, StartLive, OpenOffline,
        FeedPacket, ReplayGoesOn, ReplayPacket, ReplayNothing, EndOffline, Offline
    <3>2. Join \/ CloseBackend
      BY <1>4, <3>1 DEF CallerStep, ClearQueue, ClearSession, AcquireFails, StartLive,
        OpenOffline, FeedPacket, ReplayGoesOn, ReplayPacket, ReplayNothing, EndOffline, Offline
    <3>3. /\ UNCHANGED <<captured, source, queue>>
          /\ loop' = loop \/ (loop = "exited" /\ loop' = "none")
          /\ \/ at' = "close"
             \/ at = "close" /\ loop' = loop /\ at' = IF op = "stop" THEN "idle" ELSE "gone"
      BY <2>3, <3>1, <3>2 DEF Join, CloseBackend, data, Ends
    <3>4. Passed' = Passed
      BY <3>3 DEF Passed, QueuedCount
    <3>5. TableInOrder'
      BY <1>1, <3>3, <3>4 DEF GuiInv, TableInOrder
    <3>6. PhaseOfFrame'
      BY <1>1, <2>1, <2>2, <3>3 DEF GuiInv, PhaseOfFrame, EngineOp, InFrame
    <3>7. at = "close" => loop = "none"
      BY DEF IInv, Joined
    <3>8. StopIsShown'
      BY <1>1, <2>2, <2>3, <3>1, <3>3, <3>7 DEF GuiInv, StopIsShown, InFrame, Ends
    <3>. QED
      BY <1>2, <3>5, <3>6, <3>8 DEF GuiInv
  <2>4. CASE uiOp \notin Ends
    <3>1. history' = <<>> /\ selected' = 0
      <4>1. history = <<>> /\ selected \in 0 .. Len(history)
        BY <2>2, <2>4 DEF GuiInv, Emptied, SelectedIsClicked
      <4>. QED
        BY <1>1, <4>1
    <3>2. TableInOrder'
      BY <3>1, ClearedTable
    <3>3. PhaseOfFrame'
      BY <1>1, <2>1, <2>2, <2>4 DEF GuiInv, PhaseOfFrame, EngineOp, InFrame
    <3>4. uiOp = "open" => (at' = "idle" => loop' = "none")
      <4>1. uiOp = "open" => op = "open"
        BY <2>2 DEF EngineOp, Starts
      <4>2. at \in Clearing \union Offline \union {"close", "gone"} => loop = "none"
        BY DEF IInv, Joined
      <4>. QED
        BY <1>4, <4>1, <4>2 DEF CallerStep, Join, CloseBackend, ClearQueue, ClearSession,
          AcquireFails, StartLive, OpenOffline, FeedPacket, ReplayGoesOn, ReplayPacket,
          ReplayNothing, EndOffline, Offline, Clearing
    <3>5. StopIsShown'
      BY <1>1, <2>2, <2>4, <3>4 DEF GuiInv, StopIsShown, InFrame, Ends
    <3>. QED
      BY <1>2, <3>2, <3>3, <3>5 DEF GuiInv
  <2>. QED
    BY <2>3, <2>4
<1>. QED
  BY <1>3, <1>4 DEF EngineRuns

LEMMA GuiStarts == GInit => IInv /\ GuiInv
<1> SUFFICES ASSUME GInit PROVE IInv /\ GuiInv
  OBVIOUS
<1>1. IInv
  BY InitIInv DEF GInit
<1>2. /\ at = "idle" /\ loop = "none" /\ history = <<>> /\ selected = 0
      /\ rowsFresh = FALSE
      /\ \/ phase = "calling" /\ uiOp = "autostart"
         \/ phase = "process" /\ uiOp = "none"
  BY DEF GInit, EInit
<1>3. TableInOrder /\ SelectedIsClicked
  <2>1. Len(history) = 0 /\ history \in Seq(Packet) /\ 1 .. 0 = {}
    BY <1>2
  <2>. QED
    BY <1>2, <2>1, GuiCapsAssumption DEF TableInOrder, SelectedIsClicked
<1>. QED
  BY <1>1, <1>2, <1>3 DEF GuiInv, PhaseOfFrame, Emptied, RowsCached, StopIsShown, InFrame,
    UiOps, Joinable

LEMMA GuiSteps == IInv /\ GuiInv /\ [GNext]_gvars => IInv' /\ GuiInv'
<1> SUFFICES ASSUME IInv, GuiInv, [GNext]_gvars PROVE IInv' /\ GuiInv'
  OBVIOUS
<1>1. IInv'
  <2>1. UNCHANGED gvars => UNCHANGED evars
    BY DEF gvars
  <2>. QED
    BY <2>1, GuiIsEngine, StepIInv
<1>2. GuiInv'
  <2>1. CASE ProcessPacket
    BY <2>1, ProcessPacketStep
  <2>2. CASE Still \/ UNCHANGED gvars
    BY <2>2, StillStep
  <2>3. CASE ClearCapture \/ PressStart \/ OpenPcap
    BY <2>3, ClearStep
  <2>4. CASE Resume \/ \E f \in Filters : ApplyFilter(f)
    BY <2>4, ResumeStep
  <2>5. CASE EnterEngine
    BY <2>5, EnterStep
  <2>6. CASE EngineRuns
    BY <1>1, <2>6, EngineRunsStep
  <2>. QED
    BY <2>1, <2>2, <2>3, <2>4, <2>5, <2>6 DEF GNext, FrameStep, User, Still
<1>. QED
  BY <1>1, <1>2

---------------------------------------------------------------------------
(* The detail pane never shows a neighbour of the packet clicked, however  *)
(* small the table is and however fast packets come.                       *)
THEOREM SelectionStable == GSpec => []SelectionIsStable
<1>1. GuiInv => SelectionIsStable
  BY DEF GuiInv, SelectedIsClicked, SelectionIsStable
<1>. QED
  BY <1>1, GuiStarts, GuiSteps, PTL DEF GSpec

(* The cached rows are never drawn stale.                                  *)
THEOREM RowsFresh == GSpec => []RowsAreFresh
<1>1. GuiInv => RowsAreFresh
  BY DEF GuiInv, RowsCached, RowsAreFresh
<1>. QED
  BY <1>1, GuiStarts, GuiSteps, PTL DEF GSpec

(* The table is of one capture, in its order, for all sizes of queue and   *)
(* table and any number of sources.                                        *)
THEOREM HistoryOfOneCapture == GSpec => []HistoryIsOneCapture
<1>1. GuiInv => HistoryIsOneCapture
  <2> SUFFICES ASSUME GuiInv PROVE HistoryIsOneCapture
    OBVIOUS
  <2>1. ASSUME NEW i \in 2 .. Len(history) PROVE history[i - 1].n < history[i].n
    <3>1. i - 1 \in 1 .. Len(history) /\ i \in 1 .. Len(history) /\ i - 1 < i
      BY LenProperties DEF GuiInv, TableInOrder
    <3>. QED
      BY <3>1 DEF GuiInv, TableInOrder
  <2>. QED
    BY <2>1 DEF GuiInv, TableInOrder, HistoryIsOneCapture
<1>. QED
  BY <1>1, GuiStarts, GuiSteps, PTL DEF GSpec

(* In every frame with a capture thread the window offers Stop.            *)
THEOREM CaptureIsShown == GSpec => []NoHiddenCapture
<1>1. GuiInv => NoHiddenCapture
  BY DEF GuiInv, PhaseOfFrame, StopIsShown, NoHiddenCapture
<1>. QED
  BY <1>1, GuiStarts, GuiSteps, PTL DEF GSpec

(* The session still counts what the table shows.                          *)
TableKept ==
  history # <<>> =>
    kept = captured /\ \A i \in 1 .. Len(history) : history[i].link = sessionLink

LEMMA TableKeptStep ==
  ASSUME IInv, GuiInv, TableKept, [GNext]_gvars
  PROVE  TableKept'
<1>1. CASE UNCHANGED <<history, kept, captured, sessionLink>>
  BY <1>1 DEF TableKept
<1>2. CASE history' = <<>>
  BY <1>2 DEF TableKept
<1>3. CASE ProcessPacket
  <2>1. /\ Drain /\ history' = PushEvict(history, Head(queue), HistoryCap)
        /\ UNCHANGED <<kept, captured, sessionLink>> /\ queue # <<>>
    BY <1>3 DEF ProcessPacket, Drain
  <2>2. kept = captured
    BY <2>1 DEF IInv, KeptKnown
  <2>3. Head(queue) \in Packet /\ Head(queue).link = sessionLink
    <3>1. queue \in Seq(Packet) /\ PacketsOk(queue)
      BY CountsAreNumbers DEF IInv, Contents
    <3>2. Len(queue) >= 1 /\ Head(queue) = queue[1] /\ queue[1] \in Packet
      BY <2>1, <3>1, EmptySeq, LenProperties, HeadTailProperties
    <3>. QED
      BY <3>1, <3>2, LenProperties DEF PacketsOk
  <2> DEFINE k == Evicted(history, HistoryCap)
  <2>4. /\ history \in Seq(Packet) /\ Len(history') = Len(history) + 1 - k
        /\ Len(history') \in 1 .. HistoryCap /\ history'[Len(history')] = Head(queue)
        /\ \A i \in 1 .. Len(history') - 1 : history'[i] = history[i + k]
        /\ k \in {0, 1} /\ Len(history) \in Nat
    BY <2>1, <2>3, GuiCapsAssumption, PushEvictProperties, LenProperties
       DEF GuiInv, TableInOrder, Evicted
  <2> HIDE DEF k
  <2>5. ASSUME NEW i \in 1 .. Len(history') PROVE history'[i].link = sessionLink
    <3>1. CASE i = Len(history')
      BY <2>3, <2>4, <3>1
    <3>2. CASE i # Len(history')
      <4>1. i + k \in 1 .. Len(history) /\ history'[i] = history[i + k]
        BY <2>4, <3>2
      <4>2. history # <<>>
        BY <4>1
      <4>. QED
        BY <4>1, <4>2 DEF TableKept
    <3>. QED
      BY <3>1, <3>2
  <2>. QED
    BY <2>1, <2>2, <2>5 DEF TableKept
<1>4. CASE EngineRuns
  <2>1. history' = history
    BY <1>4 DEF EngineRuns, view
  <2>2. CASE LoopStep
    <3>1. sessionLink' = sessionLink /\ (kept = captured => kept' = captured')
      BY <2>2 DEF LoopStep, LoopCheck, LoopReadPacket, LoopReadNothing, LoopRetain, LoopEnqueue
    <3>. QED
      BY <2>1, <3>1 DEF TableKept
  <2>3. CASE CallerStep /\ history # <<>>
    <3>1. at # "idle"
      BY <2>3 DEF CallerStep, Join, CloseBackend, ClearQueue, ClearSession, AcquireFails,
        StartLive, OpenOffline, FeedPacket, ReplayGoesOn, ReplayPacket, ReplayNothing,
        EndOffline, Offline
    <3>2. uiOp \in Ends /\ at \in {"join", "close", "idle", "gone"}
      BY <2>3, <3>1 DEF GuiInv, PhaseOfFrame, Emptied
    <3>3. Join \/ CloseBackend
      BY <2>3, <3>1, <3>2 DEF CallerStep, ClearQueue, ClearSession, AcquireFails, StartLive,
        OpenOffline, FeedPacket, ReplayGoesOn, ReplayPacket, ReplayNothing, EndOffline, Offline
    <3>4. UNCHANGED <<kept, captured, sessionLink>>
      BY <3>3 DEF Join, CloseBackend
    <3>. QED
      BY <1>1, <2>1, <3>4
  <2>. QED
    BY <1>2, <1>4, <2>1, <2>2, <2>3 DEF EngineRuns
<1>5. CASE UNCHANGED gvars
  BY <1>1, <1>5 DEF gvars, evars, view
<1>6. CASE Still
  BY <1>1, <1>6 DEF Still, EndProcess, Render, NoInput, SelectRow, Pause, PressStop,
    CloseWindow, ReturnFromEngine, Closing, SetDisplay, gvars, evars, view
<1>7. CASE ClearCapture \/ PressStart \/ OpenPcap
  BY <1>2, <1>7 DEF ClearCapture, PressStart, OpenPcap, ClearView
<1>8. CASE Resume \/ EnterEngine \/ \E f \in Filters : ApplyFilter(f)
  <2>1. UNCHANGED <<history, kept, captured, sessionLink>>
    BY <1>8 DEF Resume, EnterEngine, ApplyFilter, SetFilter, Call, Unpause, Discard, evars,
      caller, data, view
  <2>. QED
    BY <1>1, <2>1
<1>. QED
  BY <1>3, <1>4, <1>5, <1>6, <1>7, <1>8 DEF GNext, FrameStep, User, Still

(* Every packet of the table is in the session, unless SessionCap newer    *)
(* ones were retained, for all capacities, users and traffic.              *)
THEOREM ShownIsKept == GSpec => []ShownCanBeExported
<1>1. GInit => TableKept
  BY DEF GInit, TableKept
<1>2. ASSUME IInv, GuiInv, TableKept
      PROVE  ShownCanBeExported
  <2> SUFFICES ASSUME NEW i \in 1 .. Len(history)
               PROVE  /\ history[i].link = sessionLink
                      /\ \/ history[i] \in Sequence(session)
                         \/ history[i].n <= RetainedCount - SessionCap
    BY DEF ShownCanBeExported
  <2> DEFINE p == history[i]
             k == p.n - RetainedCount + Len(session)
  <2>1. history # <<>> /\ p \in Packet /\ p.src = source /\ p.n <= Passed
    BY <1>2, ElementOfSeq DEF GuiInv, TableInOrder
  <2>2. kept = captured /\ p.link = sessionLink
    BY <1>2, <2>1 DEF TableKept
  <2>3. /\ captured \in Nat /\ Len(queue) \in Nat /\ Len(session) \in Nat
        /\ p.n \in Nat \ {0} /\ SessionCap \in Nat
    BY <1>2, <2>1, CountsAreNumbers, CapsAssumption, BoundsAssumption, LenProperties
       DEF IInv, TypeOK, Packet
  <2>4. RetainedCount \in Int /\ p.n <= RetainedCount /\ KeptCount = RetainedCount
    BY <2>1, <2>2, <2>3 DEF Passed, QueuedCount, RetainedCount, KeptCount
  <2>5. Len(session) = IF RetainedCount < SessionCap THEN RetainedCount ELSE SessionCap
    BY <1>2, <2>4 DEF IInv, BuffersAreRecent
  <2>6. ASSUME p.n > RetainedCount - SessionCap
        PROVE  p \in Sequence(session)
    <3>1. k \in 1 .. Len(session)
      BY <2>3, <2>4, <2>5, <2>6
    <3>2. session[k].n = RetainedCount - Len(session) + k
      BY <1>2, <3>1 DEF IInv, BuffersAreRecent, EndsWith
    <3>3. session[k].n = p.n
      BY <2>3, <2>4, <3>2
    <3>4. session[k] \in Packet /\ session[k].src = source /\ session[k].link = sessionLink
      BY <1>2, <3>1, ElementOfSeq DEF IInv, TypeOK, Contents, PacketsOk
    <3>5. session[k] = p
      BY <2>1, <2>2, <3>3, <3>4 DEF Packet
    <3>. QED
      BY <3>1, <3>5 DEF Sequence
  <2>. QED
    BY <2>2, <2>3, <2>4, <2>6
<1>. QED
  BY <1>1, <1>2, GuiStarts, GuiSteps, TableKeptStep, PTL DEF GSpec
===========================================================================
