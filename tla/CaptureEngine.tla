--------------------------- MODULE CaptureEngine ---------------------------
(***************************************************************************)
(* capture::CaptureEngine (src/capture/CaptureEngine.cpp): one calling     *)
(* thread (the UI thread, or the CLI's main thread) runs the public        *)
(* operations, one capture thread runs captureLoop().  They share the      *)
(* backend handle, the packet queue, the session buffer and two atomics.   *)
(*                                                                         *)
(* startCapture, openFile and replayFile begin alike: stopCapture (ask the *)
(* thread to stop, join it, close the handle), clear the queue, clear the  *)
(* session, then acquire a source.  "op" is the running operation and "at" *)
(* its next step; "idle" is between two calls.                             *)
(*                                                                         *)
(* The backend (libpcap or Npcap) decides what a device, a file or a       *)
(* filter expression is worth, so every outcome it can report is a choice. *)
(* A source is numbered when it is acquired; a packet carries the number   *)
(* of its source, its own number in it, and its link type.                 *)
(***************************************************************************)
EXTENDS DropOldest

CONSTANTS
  LinkTypes,    (* core::LinkType, with Unsupported                        *)
  Unsupported,  (* a link layer NetProbe cannot decode                     *)
  Ethernet,     (* what linkType() is while no handle is open              *)
  Filters,      (* BPF expressions the user may enter, with NoFilter       *)
  NoFilter,     (* the empty expression                                    *)
  None,         (* stands for "no packet"                                  *)
  QueueCap,     (* capacity of the PacketQueue                             *)
  SessionCap,   (* maxSessionPackets                                       *)
  MaxSources,   (* bound: sources acquired in a behaviour                  *)
  MaxPackets    (* bound: packets one source delivers                      *)

Packet == [src : 1 .. MaxSources, n : 1 .. MaxPackets, link : LinkTypes]

ASSUME LinksAssumption   == {Unsupported, Ethernet} \subseteq LinkTypes
ASSUME FiltersAssumption == NoFilter \in Filters
ASSUME CapsAssumption    == QueueCap \in Nat \ {0} /\ SessionCap \in Nat \ {0}
ASSUME NoneAssumption    == None \notin Packet
ASSUME BoundsAssumption  == MaxSources \in Nat /\ MaxPackets \in Nat

VARIABLES
  op, at,         (* the calling thread                                    *)
  loop,           (* the capture thread; "none": not joinable              *)
  stopRequested,  (* m_stopRequested                                       *)
  handle,         (* the backend's pcap handle                             *)
  activeFilter,   (* m_activeFilter                                        *)
  sessionLink,    (* m_sessionLinkType                                     *)
  session,        (* m_sessionPackets                                      *)
  queue,          (* m_queue                                               *)
  inflight,       (* the packet captureLoop has read, while it has one     *)
  source,         (* history: sources acquired                             *)
  captured,       (* history: packets read from the current source         *)
  kept            (* history: packets read since the session was last      *)
                  (* emptied, without those replayFile() hands on          *)

caller == <<op, at>>
data   == <<session, queue, inflight>>
evars  == <<op, at, loop, stopRequested, handle, activeFilter, sessionLink,
            session, queue, inflight, source, captured, kept>>

Closed == [kind |-> "closed", link |-> Ethernet, filter |-> NoFilter]
Joinable == loop # "none"
Acquires == {"start", "open", "replay"}
Offline  == {"feed", "replay", "replayRead"}

EInit ==
  /\ op = "none" /\ at = "idle"
  /\ loop = "none" /\ stopRequested = FALSE
  /\ handle = Closed
  /\ activeFilter = NoFilter /\ sessionLink = Ethernet
  /\ session = <<>> /\ queue = <<>> /\ inflight = None
  /\ source = 0 /\ captured = 0 /\ kept = 0

---------------------------------------------------------------------------
(* The calling thread.                                                     *)

(* Mutant: the handle is closed without waiting for the thread.            *)
AfterStopRequest_NoJoin == "close"

(* stopCapture() joins a joinable thread, then closes the backend.         *)
AfterStopRequest == IF Joinable THEN "join" ELSE "close"

(* Entry of an operation: stopCapture() asks a joinable thread to stop.    *)
Call(o) ==
  /\ at = "idle"
  /\ o \in Acquires => source < MaxSources
  /\ op' = o
  /\ at' = AfterStopRequest
  /\ stopRequested' = (stopRequested \/ Joinable)
  /\ UNCHANGED <<loop, handle, activeFilter, sessionLink, data, source, captured, kept>>

(* m_captureThread.join() returns once captureLoop() has.                  *)
Join ==
  /\ at = "join"
  /\ loop = "exited"
  /\ loop' = "none"
  /\ at' = "close"
  /\ UNCHANGED <<op, stopRequested, handle, activeFilter, sessionLink, data,
                 source, captured, kept>>

(* m_backend->close(), the end of stopCapture() and of the destructor.     *)
CloseBackend ==
  /\ at = "close"
  /\ handle' = Closed
  /\ at' = CASE op = "stop"    -> "idle"
             [] op = "destroy" -> "gone"
             [] OTHER          -> "clearQueue"
  /\ UNCHANGED <<op, loop, stopRequested, activeFilter, sessionLink, data,
                 source, captured, kept>>

(* Mutant: the queue of the previous source is kept.                       *)
ClearQueue_Skipped ==
  /\ at = "clearQueue"
  /\ at' = "clearSession"
  /\ UNCHANGED <<op, loop, stopRequested, handle, activeFilter, sessionLink,
                 data, source, captured, kept>>

(* m_queue.clear()                                                         *)
ClearQueue ==
  /\ at = "clearQueue"
  /\ queue' = <<>>
  /\ at' = "clearSession"
  /\ UNCHANGED <<op, loop, stopRequested, handle, activeFilter, sessionLink,
                 session, inflight, source, captured, kept>>

(* clearSession()                                                          *)
ClearSession ==
  /\ at = "clearSession"
  /\ session' = <<>> /\ kept' = 0
  /\ at' = "acquire"
  /\ UNCHANGED <<op, loop, stopRequested, handle, activeFilter, sessionLink,
                 queue, inflight, source, captured>>

(* open() or openFile() fails, or the remembered filter does not compile   *)
(* on the new adapter, or replayFile() refuses the link type: the handle   *)
(* ends up closed and the operation returns.                               *)
AcquireFails ==
  /\ at = "acquire"
  /\ \/ UNCHANGED sessionLink
     \/ op = "replay" /\ sessionLink' = Unsupported
  /\ at' = "idle"
  /\ UNCHANGED <<op, loop, stopRequested, handle, activeFilter, data, source,
                 captured, kept>>

(* Mutant: the filter is not re-applied.                                   *)
FilterAtOpen_Dropped == NoFilter

(* m_sessionLinkType.store(...) and m_backend->setFilter(m_activeFilter).  *)
Snapshot(l) == sessionLink' = l
FilterAtOpen == activeFilter

(* The rest of startCapture(): open the adapter, put the remembered filter *)
(* on it, snapshot the link type, start captureLoop() in a new thread.     *)
StartLive ==
  /\ at = "acquire" /\ op = "start"
  /\ \E l \in LinkTypes :
       /\ handle' = [kind |-> "live", link |-> l, filter |-> FilterAtOpen]
       /\ Snapshot(l)
  /\ stopRequested' = FALSE
  /\ loop' = "check"
  /\ at' = "idle"
  /\ source' = source + 1 /\ captured' = 0
  /\ UNCHANGED <<op, activeFilter, data, kept>>

(* openFile() opens any file libpcap can, replayFile() only those whose    *)
(* link type it can decode.                                                *)
OpenOffline ==
  /\ at = "acquire" /\ op \in {"open", "replay"}
  /\ \E l \in LinkTypes :
       /\ op = "replay" => l # Unsupported
       /\ handle' = [kind |-> "file", link |-> l, filter |-> NoFilter]
       /\ Snapshot(l)
  /\ at' = IF op = "open" THEN "feed" ELSE "replay"
  /\ source' = source + 1 /\ captured' = 0
  /\ UNCHANGED <<op, loop, stopRequested, activeFilter, data, kept>>

NewPacket == [src |-> source, n |-> captured + 1, link |-> handle.link]

(* Mutant: a full session is emptied for the new packet.                   *)
SessionWith_Restarted(p) ==
  IF Len(session) >= SessionCap THEN <<p>> ELSE Append(session, p)

(* retainPacket()                                                          *)
SessionWith(p) == PushEvict(session, p, SessionCap)

(* openFile() consumes the file's packets on the calling thread.           *)
FeedPacket ==
  /\ at = "feed"
  /\ captured < MaxPackets
  /\ captured' = captured + 1 /\ kept' = kept + 1
  /\ session' = SessionWith(NewPacket)
  /\ queue' = PushEvict(queue, NewPacket, QueueCap)
  /\ UNCHANGED <<caller, loop, stopRequested, handle, activeFilter, sessionLink,
                 inflight, source>>

(* replayFile() asks shouldStop() before each read, and goes on to it.     *)
ReplayGoesOn ==
  /\ at = "replay"
  /\ at' = "replayRead"
  /\ UNCHANGED <<op, loop, stopRequested, handle, activeFilter, sessionLink,
                 data, source, captured, kept>>

(* It hands each packet to onPacket, past the queue and the session ...    *)
ReplayPacket ==
  /\ at = "replayRead"
  /\ captured < MaxPackets
  /\ captured' = captured + 1
  /\ at' = "replay"
  /\ UNCHANGED <<op, loop, stopRequested, handle, activeFilter, sessionLink,
                 data, source, kept>>

(* ... and asks again when the read gave none.                             *)
ReplayNothing ==
  /\ at = "replayRead"
  /\ at' = "replay"
  /\ UNCHANGED <<op, loop, stopRequested, handle, activeFilter, sessionLink,
                 data, source, captured, kept>>

(* End of file, a read error, or shouldStop() says so.                     *)
EndOffline ==
  /\ at \in Offline
  /\ handle' = Closed
  /\ at' = "idle"
  /\ UNCHANGED <<op, loop, stopRequested, activeFilter, sessionLink, data,
                 source, captured, kept>>

(* setFilter(): needs a joinable thread and an open handle; the backend    *)
(* may refuse the expression, and then nothing changes.                    *)
SetFilter(f) ==
  /\ at = "idle"
  /\ Joinable /\ handle.kind # "closed"
  /\ handle' = [handle EXCEPT !.filter = f]
  /\ activeFilter' = f
  /\ UNCHANGED <<caller, loop, stopRequested, sessionLink, data, source, captured, kept>>

(* One try_pop() of the analysing loop, which runs on the calling thread.  *)
Drain ==
  /\ at = "idle"
  /\ queue # <<>>
  /\ queue' = Tail(queue)
  /\ UNCHANGED <<caller, loop, stopRequested, handle, activeFilter, sessionLink,
                 session, inflight, source, captured, kept>>

(* The UI empties the queue itself when a paused view resumes.             *)
Discard ==
  /\ at = "idle"
  /\ queue' = <<>>
  /\ UNCHANGED <<caller, loop, stopRequested, handle, activeFilter, sessionLink,
                 session, inflight, source, captured, kept>>

---------------------------------------------------------------------------
(* The capture thread: captureLoop().                                      *)

(* Mutant: the stop flag is not looked at.                                 *)
AfterCheck_IgnoresStop == "read"

(* while (!m_stopRequested)                                                *)
AfterCheck == IF stopRequested THEN "exited" ELSE "read"

LoopCheck ==
  /\ loop = "check"
  /\ loop' = AfterCheck
  /\ UNCHANGED <<caller, stopRequested, handle, activeFilter, sessionLink, data,
                 source, captured, kept>>

(* m_backend->nextPacket() returns a packet ...                            *)
LoopReadPacket ==
  /\ loop = "read"
  /\ captured < MaxPackets
  /\ captured' = captured + 1 /\ kept' = kept + 1
  /\ inflight' = NewPacket
  /\ loop' = "retain"
  /\ UNCHANGED <<caller, stopRequested, handle, activeFilter, sessionLink,
                 session, queue, source>>

(* ... or its read timeout expired, or the adapter is gone.                *)
LoopReadNothing ==
  /\ loop = "read"
  /\ loop' \in {"check", "exited"}
  /\ UNCHANGED <<caller, stopRequested, handle, activeFilter, sessionLink, data,
                 source, captured, kept>>

LoopRetain ==
  /\ loop = "retain"
  /\ session' = SessionWith(inflight)
  /\ loop' = "enqueue"
  /\ UNCHANGED <<caller, stopRequested, handle, activeFilter, sessionLink,
                 queue, inflight, source, captured, kept>>

LoopEnqueue ==
  /\ loop = "enqueue"
  /\ queue' = PushEvict(queue, inflight, QueueCap)
  /\ inflight' = None
  /\ loop' = "check"
  /\ UNCHANGED <<caller, stopRequested, handle, activeFilter, sessionLink,
                 session, source, captured, kept>>

---------------------------------------------------------------------------
CallerStep ==
  \/ Join \/ CloseBackend \/ ClearQueue \/ ClearSession
  \/ AcquireFails \/ StartLive \/ OpenOffline
  \/ FeedPacket \/ ReplayGoesOn \/ ReplayPacket \/ ReplayNothing \/ EndOffline

LoopStep ==
  LoopCheck \/ LoopReadPacket \/ LoopReadNothing \/ LoopRetain \/ LoopEnqueue

(* After the destructor nothing of the engine is left to run.              *)
Destroyed == at = "gone" /\ UNCHANGED evars

ENext ==
  \/ \E o \in Acquires \union {"stop", "destroy"} : Call(o)
  \/ \E f \in Filters : SetFilter(f)
  \/ Drain \/ Discard \/ CallerStep \/ LoopStep \/ Destroyed

(* The capture thread runs: the handle is opened with a read timeout of    *)
(* one second, so nextPacket() returns; nothing it then does blocks.  The  *)
(* calling thread runs while it is inside an operation.                    *)
EFairness == WF_evars(LoopStep) /\ WF_evars(CallerStep)

ESpec == EInit /\ [][ENext]_evars /\ EFairness

---------------------------------------------------------------------------
Sequence(s) == {s[i] : i \in 1 .. Len(s)}
Retained    == Sequence(session) \union Sequence(queue) \union ({inflight} \ {None})

(* Types; session and queue never outgrow their capacities.                *)
TypeOK ==
  /\ op \in Acquires \union {"none", "stop", "destroy"}
  /\ at \in {"idle", "join", "close", "clearQueue", "clearSession", "acquire",
             "feed", "replay", "replayRead", "gone"}
  /\ loop \in {"none", "check", "read", "retain", "enqueue", "exited"}
  /\ stopRequested \in BOOLEAN
  /\ handle \in [kind : {"closed", "live", "file"}, link : LinkTypes,
                 filter : Filters]
  /\ activeFilter \in Filters
  /\ sessionLink \in LinkTypes
  /\ session \in Seq(Packet) /\ Len(session) <= SessionCap
  /\ queue \in Seq(Packet) /\ Len(queue) <= QueueCap
  /\ inflight \in Packet \union {None}
  /\ source \in 0 .. MaxSources
  /\ captured \in 0 .. MaxPackets /\ kept \in 0 .. MaxPackets

(* The handle is read by one thread at a time and never after it was       *)
(* closed or handed to another source: while captureLoop runs, the handle  *)
(* is the live one it was started on; while a file is read on the calling  *)
(* thread there is no capture thread.  stopCapture() closes only after the *)
(* join.                                                                   *)
HandleOwned ==
  /\ loop \in {"check", "read", "retain", "enqueue"} => handle.kind = "live"
  /\ at \in Offline => handle.kind = "file" /\ loop = "none"
  /\ at \in {"clearQueue", "clearSession", "acquire"} =>
       handle.kind = "closed" /\ loop = "none"

(* Nothing captured from an earlier source survives into the next one: the *)
(* old thread is joined before the queue and the session are cleared, so   *)
(* no late push can slip in behind the clear.                              *)
(* exportSession() writes one link type for the whole session, the one     *)
(* snapshotted at open: every retained packet has it.                      *)
NoStalePackets == \A p \in Retained : p.src = source /\ p.link = sessionLink

(* A sequence of consecutive packets of the source, the last numbered m.   *)
EndsWith(s, m) == \A i \in 1 .. Len(s) : s[i].n = m - Len(s) + i

RetainedCount == IF loop = "retain" THEN captured - 1 ELSE captured
QueuedCount   == IF loop \in {"retain", "enqueue"} THEN captured - 1 ELSE captured
KeptCount     == IF loop = "retain" THEN kept - 1 ELSE kept

(* Session and queue are both the most recent packets of the source, in    *)
(* capture order and gap-free, and the session holds as many as it has     *)
(* room for of all that were read since it was emptied, but for the one    *)
(* captureLoop has just read: no packet is evicted early, and a packet is  *)
(* in the session before the analyser can see it.                          *)
BuffersAreRecent ==
  /\ EndsWith(session, RetainedCount) /\ EndsWith(queue, QueuedCount)
  /\ Len(session) = IF KeptCount < SessionCap THEN KeptCount ELSE SessionCap

(* The filter the user last had accepted is the one the adapter filters    *)
(* with, across restarts of the capture and changes of adapter.            *)
FilterInForce ==
  loop \in {"check", "read", "retain", "enqueue"} => handle.filter = activeFilter

(* stopCapture() returns: the capture thread sees the request, or has      *)
(* ended by itself, whatever the traffic does.                             *)
JoinReturns == at = "join" ~> at # "join"

(* src/core/LinkType.hpp: the DLT exportSession() writes, and how a reader *)
(* of the file will take it.                                               *)
DltFromLinkType(l) == IF l = Unsupported THEN Ethernet ELSE l

(* "Exported PCAPs preserve the original link type" (README.md).           *)
ExportPreservesLinkType ==
  \A p \in Sequence(session) : DltFromLinkType(sessionLink) = p.link
===========================================================================
