# NetProbe in TLA+

NetProbe (`src/`) captures packets from a network adapter or a capture file,
works out of each packet which conversation ("flow") it belongs to and which
host and process it concerns, and shows the result in a window
(`netprobe`, `src/src/main.cpp` and `src/src/ui/`) or writes it to a file
(`netprobe-cli`, `src/src/cli/main.cpp`). This directory specifies the parts
whose correctness depends on order, concurrency, loss, reuse or limits, checks
them with TLC, and proves part of it with TLAPS.

Contents: 1 the system, 2 the modules, 3 the runs, 4 what the code does that
its text denies, 5 fairness, 6 proofs, 7 what is not modelled, 8 plan.
Paths below are relative to `src/src/`.

## 1. The system

```
 adapter/file -> capture backend -> CaptureEngine --(PacketQueue)--> main thread
                  (pcap handle)      capture thread                  |
                                     session buffer                  v
   GUI frame loop or CLI loop  <-- rows --  AnalysisSession.feed(packet)
     |                 |                     |-- TlsReassembler, QuicTracker
     |                 |                     |-- HostnameCache, ProcessResolver
     |                 `-- FlowExporter <----`-- FlowAggregator
     `-- Flows view (a copy of the flows) -- GeoIPResolver
```

There are two threads: the capture thread, which `CaptureEngine` starts, and the
main thread, which calls everything else. They share the packet queue (a
mutex and a condition variable), the session buffer (a mutex), two atomics
(`m_stopRequested`, `m_sessionLinkType`) and, with no lock at all, the pcap handle.

| Component | State | Operations | What is hard | What makes it correct |
|---|---|---|---|---|
| PacketQueue (`core/PacketQueue.hpp`) | a deque, its capacity, a drop counter | push, pop, try_pop, clear | notify after the unlock, spurious wake-ups, the full queue | the queue is the most recent packets; drops counted exactly; no reader sleeps on packets |
| CaptureEngine (`capture/CaptureEngine.*`) with a backend (`capture/*Backend.*`) | thread, stop flag, handle, filter, link type, session buffer | startCapture, openFile, replayFile, stopCapture, setFilter, exportSession, captureLoop | operations in any order, failures half way, the unlocked handle, two buffers filled in two steps | one user of the handle at a time; no packet of an old source in a new one; both buffers recent and gap-free; the filter stays in force; stop returns |
| GUI frame loop (`ui/GuiLayer.*`, `ui/PacketView.cpp`, `main.cpp`) | packet history, selection, cached rows, active and paused flags | a frame: drain, menus and controls, table | indexes into a history that scrolls, caches, callbacks that block the frame | the selection stays on its packet; rows are never stale; one capture on the screen; frames go on |
| netprobe-cli (`cli/main.cpp`) | phase, options, interrupt flag, deadline | validate, runLive, runOffline, writeOutput | SIGINT at any time, drain after stop, packet limit | the report covers every packet read and not dropped; an ending writes |
| AnalysisSession (`core/AnalysisSession.*`) with HostnameCache | name cache, DNS counters | feed, clear, flows | DNS answers before, after or with the flow they name | names reach every flow they concern, and none survives clear |
| FlowAggregator (`core/FlowAggregator.*`) | a table of flows | update, setHostnameForAddress, clear, snapshot | direction, unsorted timestamps, sequence wrap, resets | one flow per conversation; bytes, rate, RTT and delivery counters exact |
| TlsReassembler (`core/TlsReassembler.*`) | half-received ClientHellos | feed, clear | loss, repeats, reorder, wrap, reuse of a four-tuple, a full table | a name only from true bytes; in-order hellos recovered, nothing else kept |
| QuicTracker, QuicParser (`core/Quic*`) | CRYPTO streams by connection ID | feed, clear, extractInitialSni | fragments in any order, holes, a full table | a name only from bytes that arrived, and as soon as they have |
| ProcessResolver (`core/ProcessResolver.*`) | copies of the system's socket and process tables | lookup | the system changes between refreshes; identifiers are reused | only a recent owner is answered for, under a name it or its identifier has had |
| Flows view (`ui/FlowsView.cpp`) | a copy of the flows, the places of their peers, the order, the selected flow's rates in a ring | refreshFlowsCache, sortFlowsCache, renderFlowsTable | three caches with three lives; selections from elsewhere; a ring that wraps | what is shown is of this capture, recent, in order, at its place; the graph is of one flow |
| GeoIPResolver (`core/GeoIPResolver.*`) | an LRU cache, a list and an index of iterators into it | the choice of databases, lookup | eviction and iterators; one database of two missing or unreadable | list and index agree; it holds the addresses used last; answers are the databases' |
| FlowExporter (`core/FlowExporter.*`) | none | CSV, JSON, to a stream or a file | names of any bytes; a write that fails late | a reader gets back what was meant; success means it was written |
| ProtocolParser (`core/ProtocolParser.*`) | none | parse one packet | nested tunnels, three kinds of length, packets cut anywhere | the payload is located to the byte; the innermost packet is the one shown; names are read whole or not at all, also at a stale offset |
| DNSParser (`core/DNSParser.*`) | none | parseResponse | compression pointers, records of wrong lengths | a response is read as written, or not at all |
| Other views, ResourcePaths, icons, themes | none of the capture's | draw, find files | - | not modelled |

`PROJECT.json` lists the hazards behind the last but one column, each with its
line of code and the properties that would catch it going wrong.

## 2. The modules

A module has one action per operation, handler or locked section of its
component; where an operation is several steps that another thread can observe,
each step is an action. History variables (marked so in the declarations) record
what happened, for properties to compare with; the code has no counterpart of
them. Definitions named `X_Something` next to an `X` are plausible bugs ("mutants"):
no specification uses them, and putting one in place of `X` must make TLC find a
violation of the property `PROJECT.json` pairs it with.

**DropOldest** is the rule "when full, the oldest makes room" of the queue, the
session buffer and the GUI's history.

**RecentWindow** is the abstract specification of a drop-oldest queue: a window
`[first .. pushed]` over the stream of packets. **PacketQueue** is the class:
`queue`, `dropped`, and a program counter for each thread, since
`m_cv.notify_one()` runs after the mutex is released and `m_cv.wait` may wake for
no reason. `ImplementsRecentWindow` says the second implements the first.

**CaptureEngine** has the calling thread (`op`, `at`: inside `stopCapture`,
which every acquiring operation begins with, then clearing the queue, clearing
the session, opening), the capture thread (`loop`: where `captureLoop` is, or
`none` when not joinable) and the backend's handle as variables. Each outcome of
open, filter compilation and reading is a choice. `inflight` is the packet
`captureLoop` has read and has not finished handing on. In replayFile() the
question `shouldStop()` and the read that follows it are two steps. `kept` is history: what
was read since the session was last emptied, which BuffersAreRecent holds its length against.
The queue is here a plain
sequence: PacketQueue justifies that, as try_pop, push and clear are each one
critical section, and no thread of the programs calls the blocking pop.

**GuiCapture** EXTENDS CaptureEngine with the frame loop: processQueue pops
packets one at a time, interleaved with the capture thread; then at most one
user action; then the table is drawn, from the cached rows if they are fresh; then
a row may be clicked. A callback suspends the frame while the engine's own
actions run. Resume on a paused view throws the queue away behind the engine's back
(`Discard`, an action of the engine that only the window takes); `ShownCanBeExported` says
that the session still has what the table shows.

**CliCapture** EXTENDS CaptureEngine with `run()`: validate, live or replay,
set the filter, loop, stop, drain, then open the output, insert, flush, check and close,
of which each may fail. SIGINT and the deadline are actions
that may come at any time, between a replay's `shouldStop()` and its read as well: if that read
fails, the run ends without writing (EndingWrites says so).

**FlowKeys** is `keyFor` and `isDownstream`, **FlowAggregator** the table of flows,
with `update()` as the composition of its paragraphs (Counted, Timed, Sequenced,
Reset, Named, Sampled), and **AnalysisSession** the actions, feed and clear,
over both: AnalysisSession is FlowAggregator's only caller. The order inside
feed() is kept: DNS answers to the cache and to existing flows, then the
packet's own name, then update(). What the reassemblers return for a packet is a choice here.
`pos`, the true place of a segment in its stream, is history: the code sees
it modulo `SeqMod`.

**TlsReassembler**: one action per way feed() ends. A byte is the pair of its
connection and its position, which is what tells a splice from the true bytes.
A stream is opened by a segment that holds the record's header (`RecordHeader`, the five bytes
of `looksLikeTlsHandshake`) and not all of the record. `heard` is history: a receiver written
apart from the code, which never looks at the table, follows hellos that come in order;
InOrderIsRecovered compares the table with it in both directions.
**QuicTracker**: CRYPTO fragments as intervals of a hello, bytes as "sent" or
"zero" (the filling of a hole); the parser's attempt on the single packet comes
first, as in the code. The decryption is external.

**FlowTable** is the Flows window. A frame is refresh (one row at a time, as each may
fill the map of places or the largest size), locate (the selected flow is sought and its rate
sampled), draw (a header clicked, rows sorted if marked), rows (one may be clicked); between
frames packets come, time passes, the view is cleared or a packet's menu selects a
flow. The copy is any listing of the flows, since the session's table is a hash map, and a
sort is any order that the comparison allows. `PlaceOf` is what GeoIPResolver
answers: that it is a function of the address is CacheIsSound.
`sampled` is history: the samples since the flow was selected.

**GeoIPResolver** is the constructors' choice between two places and lookup(). An iterator
into the list is the number of a node; an erased node's number is given out again, so a
stale iterator would point at another address. (lookup of the empty string returns
nothing and touches nothing; it is not an address here.) **FlowExporter** is
`csvEscape` and `appendJsonString` byte by byte, and the row loops with three fields for
the twenty: the hostname, the address it falls back to, and one more name; names are any
bytes, an address is text without separators (`FlowsAssumption`: it comes from `inet_ntop`).
The readers of both formats, a step for each byte, are written from the formats' own
definitions (for UTF-8 from the table of well-formed sequences, which the code does not use)
and are what ExportReadsBack compares with. The reader of CSV takes a line feed as the end of
a row, as the code writes it; one that takes a lone carriage return as well would need names that hold
one to be quoted, which csvEscape does not do. When the text reaches the device is in CliCapture: of the file variants,
insertion, good() and the destructor's flush are an action each.

**ProcessResolver**: the resolver's two tables and clock against a system that
spawns, binds and exits at any time, and gives identifiers to other programs. An endpoint is an
address, a port and a protocol, and has one socket at a time. The Linux refresh is one atomic
read. `owners` and `named` are history: who had which endpoint in the last refresh period, and
the names each identifier has had.

**PacketDecoder** is the descent of `ProtocolParser::parse` through the headers of
one frame. A step is one decoder (a case of decodeNetwork, decodeUdp,
decodeGre, ...), which reads the header at `offset` if it ends by `end`, and either
returns or gives control to the next; `depth` counts the packets around the present
one, as the parameter does. A frame is a sequence of headers with their lengths and
what each says of the next, of which any number of bytes, `size`, was captured: the
code must find what the model knows.

**DnsMessage** (`DNSParser::parseMessage`, `readName`) and **ClientHello**
(`parseTlsClientHello`, `QuicParser`) are pure operators on sequences of bytes, with
recursive functions for the loops, over the numbers of **Octets**; offsets count from 0 as in
the code. What `std::optional` may lack is a set of at most one element. Keys and ciphers are
mbedTLS's: whether a QUIC packet decrypts is a mark in its tag.
**PacketParser** EXTENDS all three: decoding, then the analysis of the payload, then
`DNSParser::parseResponse` on its result, in the order of `AnalysisSession::feed`.
The analysis reads at the offset the decoders left (`Source`): at the data, or, when the packet in a
VXLAN or GENEVE tunnel set no payload, at that tunnel's header, whose bytes (`TunnelFormed`) say
what its fields do. What was meant by the data of a frame (`says`, with the number of its bytes that say it) is written
by hand beside its bytes in MCParsing and only the properties read it. `DataAssumption`, which
TLC evaluates for all frames, is that the operators read the same from the whole of the data.

**MCxxx** modules give the constants of the runs. **QueueAndTracker_proofs** (PacketQueue and
QuicTracker),
**CaptureEngine_proofs** (with CliCapture and GuiCapture), **AnalysisSession_proofs** (with FlowKeys),
**TlsReassembler_proofs**, **PacketParser_proofs** (with PacketDecoder), **ParsedNames_proofs**
(PacketParser, with DnsMessage and ClientHello) and **FlowTable_proofs** (with GeoIPResolver, ProcessResolver and FlowExporter) hold the
theorems about the modules they are named after, **SharedLemmas** what several of them rest on.

## 3. The runs

| Run | Bounds | What it checks |
|---|---|---|
| packet_queue | 3 threads, capacity 2, 5 packets | the queue counts every packet once, loses no wake-up, delivers in order, serves blocked readers, implements RecentWindow |
| capture_engine | 2 sources of 4 packets, queue 2, session 3, 2 link types, 2 filters | the handle has one owner; nothing of an old source is retained; both buffers are the recent packets, and the session is as full as it can be; the filter is in force |
| gui_capture | 2 sources of 3 packets, queue 2, session 2, history 2, one packet per frame | selection, cached rows, one capture in the table, no capture without a Stop button, the frame loop goes on, what is shown can be exported |
| cli_capture | 1 source of 4 packets, queue 2, limits none, 0 (refused), 1 and 2, every combination of options | the report is complete or cut exactly at the limit; an ending writes, unless a replay's read fails, and the program exits; success on standard output is true |
| session | four captures of 3 or 4 operations, sequence numbers modulo 8 | the flow table (conversations, bytes, rate, RTT, delivery), and the names (both caches, precedence, clear) |
| tls_reassembler | 4 connections, two on one four-tuple, records of 3 or 4 bytes with a header of 2, a table of 2, numbers modulo 16 | names only from true bytes, in-order hellos and nothing else held and recovered, nothing given up without cause |
| quic_tracker | 4 connections, hellos of 2, 4 and 5 units, a table of 2, streams of 4 units | the same for QUIC |
| flow_table | the Flows window: 3 flows of 1 or 2 packets, 2 of one host, 2 peers, a ring of 2, a limit of 0 on places, 4 clock values | what is shown is of this capture, recent, placed and in order; the rate graph is of one flow |
| | the address cache: 4 addresses, capacity 2, all 81 states of the four files | list and index agree, the recent addresses are held, answers are right |
| | processes: 2 identifiers, 2 names, one bindable port on 2 addresses for both protocols, 3 clock values, 3 changes of the system, up to symmetry of identifiers and names | a lookup answers only for a process that had the endpoint within the refresh period, under its name or an earlier one of its identifier |
| | the exported text: 0 to 2 flows, 389 names | CSV and JSON read back |
| packet_parsing | 96 frames, each cut after every number of bytes; tunnels up to five deep with a limit of 4, texts of at most 3 bytes | the payload is exact, the innermost packet is shown, DNS answers and names are those that were sent, or none, also where the payload is left at a tunnel's header |
| export_flush, quic_hole, stale_payload | as cli_capture, quic_tracker and packet_parsing | expected violations, section 4 |

Why these bounds. What the properties distinguish is: empty, partly full and
full (a capacity of two has all three), a packet evicted while another is read
(more packets than capacity and one more), an operation repeated after
another source (two sources), and a third party (three threads in the queue: a
notifier, a sleeper and a thief). Sequence numbers modulo 8 or 16 wrap within the
traffic. A timeout of 1 with times 0, 1 and 3 has a gap at the limit and one beyond
it. The session run takes four captures instead of one with all packets in it:
each is aimed at one paragraph of update(), and a flow's paragraphs do not read
each other's fields, except for a reset, which is in two of them. Every
bound is a CONSTANT (`MaxPushed`, `MaxSources`, `MaxPackets`, a capture's
`length`, `MaxTime`, `MaxChanges`) and is a guard of the actions that count. Deadlock is checked in all runs: where a program ends there is
an explicit last action (Destroyed, Closing, Exited).

The parsers' run is over a catalogue of frames instead of all byte strings: for each
decoder one that it takes and one for each way in which it refuses, the decoders
nested in each other, and for each kind of message those that are whole, those with
lengths that disagree, and (DNS) names with pointers backwards, forwards, to
themselves and past the end. Every cut of each is an initial state, so all early
returns for want of bytes are reached.

The flow_table run is four models side by side: the window, the address cache, the
process tables and the export share no state, so a behaviour is of one of them
(`part`) while the rest stay as they began. For the window a ring of two samples
wraps, three flows are enough for a tie, a third row and one of an unknown RTT, and a limit
of 0 on places empties that map at each refresh. Three changes of the system are enough to give
an identifier to another program: exit, spawn, bind. A cache of two has a hit at
the front, one at the back, and evictions; four addresses make an evicted one come back. The
names exported are all of up to two bytes that are one of each kind (control, quote, comma, letter,
each class of UTF-8 byte), and sequences of three and four bytes on either side of each
limit of UTF-8, whole, cut short and followed by another byte.

Six assumptions about the environment are explicit. The headers of a frame agree
about what follows (`FramesAssumption`): they are those of a sender, not arbitrary
bytes, though lengths need not agree. The bytes of a VXLAN or GENEVE header say what its fields
say, with reserved bits zero (`TunnelsAssumption`). Two TCP connections of one
four-tuple use disjoint sequence numbers (`DistinctNumbers`), and of each only what
it sends before its numbers come round is considered (`SegmentsAssumption`: a
position is below `SeqMod`, though the numbers may wrap): a ClientHello is at
the beginning. For the flow table, a segment is within half the
sequence space of what its stream has covered (`InWindow`), as TCP's windows make
sure; without that no receiver could tell a retransmission from new data. And what
follows a message in its packet adds nothing to it (`DataAssumption`): the names of a DNS
response point back.

## 4. Where the code does otherwise than its text says

Each of these is a run that TLC ends with a counterexample.

- **export_flush** (SuccessMeansWritten): `writeCsv` and `writeJson` to a file ask
  `good()` while the end of the text is in the stream's buffer. Its destructor writes it
  and reports to nobody, so on a full disk the program exits with success
  over a truncated file. `core/FlowExporter.hpp:26` says that they return false when the
  write fails part way through. (On standard output it flushes first: ReportIsComplete.)
- **quic_hole** (PacketNamesAreTrue): an Initial packet whose fragments leave a
  hole over the server name yields a name of zero bytes, and hides the true one.
- **stale_payload** (PayloadIsInnermost): `decodeUdp` records the payload of the
  datagram before it descends into VXLAN or GENEVE; an inner TCP segment without
  data does not overwrite it, and is reported, and counted in its flow, with the
  carrier's. `core/ParsedPacket.hpp:30` says that a length of 0 means no payload. Names and
  answers are then read at that header. That no name comes of it is part of NamesAreRead; for
  answers see ResponsesWereSent below.

Thirteen more statements of the repository are written down as definitions which TLC
refutes when a run's cfg names them, and have no run of their own in PROJECT.json:

- `ExportPreservesLinkType` (CaptureEngine): a source of a link type the program
  cannot decode is exported as Ethernet.
- `ResumeDropsOnlyPaused` (GuiCapture): Resume also throws away packets that were
  already queued when Pause was pressed.
- `QuietStreamsStop` (TlsReassembler): quiet streams are expired only by an
  opening segment that finds the table full.
- `RetransmitsAreHarmless` (TlsReassembler): a repeat of an older segment than the
  last ends the stream, though the table has all its bytes.
- `BestNameStays` (FlowAggregator): a packet without a name of its own takes the row of its flow
  back to the DNS name, although an SNI was seen in it before. `core/AnalysisSession.hpp:33` ranks
  the SNI first; the ranking holds for each packet, not for the flow.
- `ResponsesWereSent` (PacketParser): UDP from port 53 that carries GENEVE with IPv6 inside, and
  an inner packet that sets no payload, is returned (and counted) as an empty DNS response: the
  second byte pair of the header is the EtherType 0x86DD, which has the response bit.
  `core/DNSParser.hpp:43` says that no value is returned when the packet is not a DNS response.
  AnswersAreTheRecords makes exactly this exception (`LeftAtResponse`).
- `StatusReflectsCapture` (GuiCapture): the Start button shows a running
  capture also when the adapter could not be opened, because startCapture returns
  nothing and the window asks nobody. `ui/GuiLayer.hpp:85` says the flag reflects
  whether a live capture is running.
- `NameIsTheOwners` (ProcessResolver): when the system reuses a process
  identifier, the earlier program's name is given for the later one's traffic.
- `LabelsHaveNoDirection` (PacketParser): the destination's port is tried first, so
  a conversation between two known ports has two labels; `core/ProtocolParser.cpp:576`
  says that both directions resolve to the same one.
- `SpecificFirst` (PacketParser): "x.com" stands before "xbox.com" in the catalogue,
  and "microsoft" before "teams.microsoft", so the later pattern is never reached;
  `core/ProtocolParser.cpp:899` says more specific patterns come first.
- `AnalysedPassedFilter` (CliCapture): packets that arrive between startCapture
  and setFilter are analysed although the filter would reject them.
- `RttWithinOneConnection` (FlowAggregator): SYN, reset, and then the SYN-ACK of a
  later attempt from the same port yield an RTT from the refused SYN, since a reset does
  not clear `synSeen`.
- `UnknownRttAtTheBottom` (FlowTable): an unknown RTT compares as the longest, so
  that in descending order it is on top; `ui/FlowsView.cpp:124` says it sorts to the bottom
  regardless of direction.

Three more things met on the way have no statement to hold them to. `setFilter`
and `captureLoop` use one pcap handle from two threads (`capture/CaptureEngine.cpp:133`);
whether that is allowed is libpcap's to say. The host's addresses are read once, when
the ProcessResolver is made (`core/ProcessResolver.cpp:60`), so an address acquired
later is never attributed. `clearCaptureView` keeps the peak rate and the busiest service
of the capture before (`ui/GuiLayer.cpp:615`).

## 5. Fairness

Safety runs need none. The liveness properties use weak fairness only, of:

- PacketQueue: `NotifyOne(t)` and the step of a woken thread in `pop`. Both are a
  thread inside a call, and wait for nothing but a mutex held for a few
  instructions. No thread is obliged to call anything, and nothing is assumed of spurious wake-ups.
- CaptureEngine: `LoopStep` and `CallerStep`. The backend opens the adapter with a
  read timeout, so `nextPacket` returns whether there is traffic or not, and the
  calling thread, once inside an operation, goes on. Calls themselves are not fair.
- GuiCapture: the same two, and `FrameStep \/ NoInput`: the frame loop runs while
  no callback does. No user action is fair, so WindowResponds holds for every user.
- CliCapture: `MainStep`, `EngineLoop`, and `DeadlinePasses`, for the clock
  reaches the deadline. SIGINT is not fair.

## 6. Proofs

The theorems hold for every value of the constants that satisfies the named
ASSUMEs (capacities are positive, threads finite, bounds natural numbers, `None` is not a packet).

**QueueAndTracker_proofs: the queue.** The inductive invariant `QueueInv` is the type invariant, the
accounting equation, the wake-up invariant, and two facts the properties do not say themselves:
the elements of the queue are numbered consecutively up to
`pushed` (`Numbered`, pointwise: the provers handle it better than the equality of two
functions, and `NumberedIsWindow` shows it the same), and whatever was given to
a reader is older than all that is queued (`ReadIsOlder`). Without the second,
ReadsInOrder is not a consequence of any state. The wake-up invariant is the delicate one:
a push adds a packet and a notifier; a notification moves
its credit to a woken thread, or finds nobody waiting; a read by a third thread
takes a packet away; a woken thread that finds nothing blocks again, and then the
queue is empty. Results: `QueueCorrect`, `DropsAreExact`, `WakeupsAreKept`,
`ReadersSeeOrder`, and `QueueRefinesWindow`, that every step of the queue is a
step of RecentWindow or leaves it alone.

**CaptureEngine_proofs.** `IInv` adds to the five checked invariants how the two threads' program counters fit: the thread runs only while the
handle is live, the handle's link type is the recorded one while it is read, what is in flight is the newest packet,
the buffers are empty between the clears and the next source, and the session is counted from
when it was emptied (`KeptKnown`): `BuffersRecent` says that it then holds all that were read, or the
`SessionCap` latest, but for the one captureLoop has just read. NoStalePackets is
not inductive without it: nothing in the buffers themselves says that no old
thread will still push. There is one lemma per group of actions that
disturb the same parts. Results: `EngineTyped`, `HandleSafety`,
`NoPacketOutlivesItsSource`, `BuffersRecent`, `FilterHolds`.

`ReportComplete` carries the engine's invariant through netprobe-cli: CliCapture's steps are
steps of the engine with a counter and a list beside it. `CliInv` says where the engine is
in each phase (`PhaseOfEngine`: the thread is gone from the drain on), that what is
queued, in flight and analysed comes in capture order (`SeenInOrder`), and the
balance that makes the report complete: analysed, queued, in flight and dropped add up to
captured (`Counted`), in every state and not just at the end.

The window's theorems rest on the engine's in the same way: its steps
are the engine's or leave it alone. A callback calls an operation only
when the engine is idle, which is where `PhaseOfFrame` says it is whenever the frame is not
inside a callback. With that, `HistoryOfOneCapture`: what is in the table has left the queue, and entered it in
order (`TableInOrder`: no row is newer than `Passed`, the number of packets taken
out), and a new source finds the table empty (`Emptied`), since each callback clears it
before the engine is entered; that no packet of the old source follows is
NoStalePackets. `SelectionStable` and `RowsFresh` are about the two things that remember
positions in the table: a push onto a full table shifts every position and
evicts the first. `CaptureIsShown` needs to know how an operation ends: stop and open come
back without a thread (`StopIsShown`). `ShownIsKept` joins the two: while the table has rows the
session has been counting since the source began (`TableKept`), so by BuffersAreRecent a row
that is not in it is older than `SessionCap` others.

**SharedLemmas** states once what several proofs cite: what `PushEvict` and `Tail` do to a
bounded sequence, induction up to a number (on a set of numbers, not on an operator), the
greatest and the least of a set of indexes, the arithmetic of remainders and quotients, and
what a recursive function over the indexes of a sequence computes: that it is defined at each
(`StepsAreThere` upwards, a value from the one before; `ChainIsThere` downwards, a piece
and then what follows it, however many indexes the piece takes). `RecursionIsThere` and
`RankInduction` are the same for a function on any set in which each value comes from one of lower rank.

**AnalysisSession_proofs.** `KeysAreConversations`: for all addresses, ports and protocols,
two packets have the same key exactly when they belong to one
conversation. keyFor() decides by the server port first and by the order of endpoints
otherwise, so the proof is that of two opposite packets exactly one is sent by
the client (`OneClient`), which needs the order to be antisymmetric.

`OneFlowEach` carries that to the table: for any
traffic, length of capture and DNS answers, it has one flow for each conversation
since the last clear, and no other. `IInv` says the log is a sequence of events whose packets
have endpoints, and the table's keys are those of its packets. The DNS answers
are the part that needs an argument: they are logged with the packet, name
existing flows and create none.

What the rows say rests on that, with one invariant for each kind of fact. In all of them an
update is followed paragraph by paragraph (`Paragraphs`, `TimerParagraphs`): which fields
each leaves alone is most of the proof.
- `BytesAreByDirection`. `BytesInv` adds that nothing was sent in a conversation that has no
  flow (`OnlyFlowsSend`), for a row begins at zero; a path belongs to
  one key only (`PathIsOfOneKey`), so a packet disturbs one row.
- `PeersAreNamed`, `NamesOfThisCapture` and `RowsAlwaysAgree` are one invariant, `NamesInv`:
  a row may stay unnamed only while the cache knows neither endpoint, so it must be shown
  together that an answer reaches the rows as well as the cache, and that a new row asks the
  cache after the packet's own answers were stored.
- `NamesAreLatest`. What an operation gives is said from the traffic alone: a packet's SNI, its Host header,
  or what the last DNS answers said of its two addresses (`LastAnswer`), which is what the cache must
  hold. `NamingOf` is the set of operations that named a flow since it
  began; `FeedLatest` follows how it grows when several answers and a packet are logged at
  once: the packet's own name outranks its answers, the last answer the earlier ones.
- `RttIsRight`. `TimerOf` relates the timer to the log: idle and no SYN seen; or
  running since the first SYN, which nothing has answered; or stopped by the first answer to it. A
  SYN-ACK with a timestamp no later than the SYN's answers nothing, in the code and in the log.
- `RatesAreExact`. Both sides are sums over lists of different lengths: of the samples a row
  has kept, and of the whole log. `SumsOf` compares such sums by their partial sums; `RateInv`
  says that they agree at every time that no packet is later than. A packet adds one summand to
  each (`SumExtends`), and `Keeps` says that the samples dropped from the front are older than
  a second at the time of the packet, hence at every later one, where they count nothing
  (`SumDropsZeros`). Out of order timestamps may keep an old sample longer, never
  drop a recent one.
- `DeliveryCountsAreExact`. `DeliversIn` says of each direction that nothing is expected and nothing
  covered, or the expected number is that of the greatest covered position; and that the two
  counters are the sizes of two sets of logged segments. A segment within half the numbers of
  that position is below, at or above it exactly when its 32-bit difference is negative, zero
  or positive (`SerialDiffIs`), whatever wraps lie between. What was covered when an earlier segment
  came never changes (`CoveredStays`), so each packet adds at most one element to each set
  (`OneMore`). The hypothesis on the traffic, `InWindow`, is part of the model's guard and
  is that of TCP itself: its window is smaller than half the numbers.
- `DnsCountsAreExact` states the part of STypeOK that a view relies on: the DNS summary is that of
  the packets logged since the last clear, counted by the service that a recovered name gives them.

**TlsReassembler_proofs.** All four properties of the run. `NamesAreTrue`: a name is
read only from the first bytes of one connection, each at its place. `IInv` says that each
stream follows one connection of its four-tuple: its buffer is a prefix of what
that connection sends, and the number it expects is that of the next byte.
Whether a segment that carries the expected number is that connection's is the heart of the
matter: `DistinctNumbers` says so of two connections, and the remainder lemmas
(`SameRemainder`) of two places of one. The wrap of the numbers is inside this
argument. `InOrderRecovered` needs a second invariant over the first,
`RecoveryInv`: the streams are those of the four-tuples that the receiver follows, each
with its connection, as long as what was heard and last touched when it was. So the table
has room exactly when the receiver counts that it has (`SameRoom`), and a segment is
accepted by both or by neither (`FirstHeard`, `NextHeard`). The conditions are in BeginsHello:
the first segment holds the record's header, and the record fits the buffer. `TypesAndLimits` and
`LeavesOnlyForCause` are the bounds and the reasons for which a stream ends.

**QueueAndTracker_proofs: the tracker.** All four properties of its passing run. `TrackerInv`: each entry is
sound (its stream is a full array, and every unit marked present was sent), holds
exactly the units that arrived, and is not yet complete if its hello has a
name. Sizes, ends and prefixes are counts of sets of units, so that what they
mean follows from one lemma: a bounded set with all the predecessors of its
elements is the numbers below its size (`DownClosed`). `NamesAreTrue` and
`NamesAreGiven` are the two halves of "a name exactly when it can be read"
(`SniIsTrue`, `CompleteIsRead`); `ForgottenOnlyForCause` and `TypesAndLimits`
correspond to those of TLS.

**PacketParser_proofs.** Three theorems about the descent through the headers, for any frames
that satisfy FramesAssumption (what the formats make true of each header, `Formed`, and of the
header that it announces), cut anywhere, and any limit on tunnels.
- `DecodingStaysWithin`: the payload lies within the captured bytes and at most one tunnel more
  is named than the decoders may enter. No decoder checks this alone: each trusts the `end` and
  `offset` it is handed. `IInv` says what is handed on: `end` never exceeds the capture, `depth`
  is at least the number of tunnels named (`Nesting`), and the header a decoder is about to read
  is of its kind (`Finds`).
- `PayloadsAreExact`. `Place` adds that `offset` is where the header begins and that `end` is the
  least of the capture's end and the ends declared by the packets entered (`IsLeast`): a
  carried packet may declare more than its carrier has, and padding after it is not its
  data. `PayloadIs` says that a payload is what TCP or UDP leave of that, and the analysis
  of the payload and of DNS leaves it alone (`Alike`). The packet may be an outer one: that it is
  the innermost is what stale_payload refutes.
- `InnermostAlwaysShown`. Of a frame that is `Clear` (all headers captured, each of a kind
  that is read there, at most as many tunnels as allowed), `Stage` says for each decoder which
  headers the report so far is about: the addresses of the first e and the tunnels of the
  first m (`Report`; m is one more than e where a tunnel is named before its header is
  read). Three facts make it inductive: a clear frame's header always fits (`Whole`), so no
  decoder gives up; before a tunnel fewer are named than allowed (`RoomBefore`); and
  whatever is read next is what was announced, or what the first four bits of it say
  (`SniffedIs`), so no decoder takes one header for another.

**ParsedNames_proofs.** Two theorems about the whole of parse() and parseResponse(), for any
frames that satisfy FramesAssumption and DataAssumption and any cut: `NamesAlwaysRead` and
`AnswersAlwaysTheRecords`. What was captured of the data is its first bytes, so the
question is what a reading of fewer bytes than were sent may give. No parser is told that
bytes are missing, and each checks its lengths against the end of what it has; the proof
is that this is enough. It has two halves.
- A reading settles: from the number of bytes at which something is first read, more of them
  change nothing (`Settles`, from `SniGrows`, `HostGrows` and `DnsGrows`). A vector that ends within
  the shorter bytes is the same in the longer (`Begins`), and so is every walk from vector
  to vector; for the name in a TLS record, the fragments of a QUIC packet and the Host line,
  that is all. A DNS name needs more, since its walk may go back: it ends because between
  pointers it goes forward and there are fewer pointers than bytes. The rank that
  falls (`Left`) depends on the length of the message, so that `ReadName` of the shorter and the
  longer message are different recursions; `NameStays` compares them place by place, and
  a name that was read in one is read in the other. A record is another matter: of most kinds
  it says nothing if its name cannot be read, but goes on to the next record, and an HTTPS record
  falls back on its owner's. So with more bytes a response may say *more* than with fewer: a record
  whose name points past the end of what was captured is passed over in silence. This is why
  `DataAssumption` says of a message's data that what follows the bytes it is read from adds nothing:
  the names point back, as RFC 1035 (4.1.4) has them. `DnsGrows` compares three lengths, the
  shortest that reads, any in between and the whole, and the answers of the middle one are held
  between the two.
- The decoders reach that payload or leave one that says nothing. `Sought` follows them: while
  headers are read, what is reported is nothing, or begins at a tunnel's header (`Behind`); once a
  payload begins where the data does, its header is of the protocol reported and its ports
  are those reported (`Borne`, `PortsOf`), which is what decides who reads it. Of a tunnel's
  header no name is read (`HeaderTellsNothing`): it begins neither a TLS record nor a QUIC packet nor
  a request, and its third byte has no response bit, but for IPv6's EtherType in GENEVE
  (`LeftAtResponse`). `Ready` says so to the DNS parser, across the analysis in between, which
  keeps those fields (`SameEnds`).

The inductive invariant is `RInv`, which adds `Progress` to that of PayloadsAreExact: sought
until the payload is there, names told from then on, answers at the end.

**FlowTable_proofs.** `CacheSound`: the cache is a list and a map of iterators that no
assertion relates. `GeoInv` is that they agree, that the list is the beginning of the
addresses by last use, and that no address is twice in either; a hit permutes the list
(`ToFrontMoves`), a miss needs a node that is free, which counting gives
(`FreeNodeIsFree`, by the pigeonhole principle). `ShownRowsRight`: `TableInv` says what each step of a
frame has achieved: the rows are flows with bytes they have had (`RowsAreFlows`, which survives
packets because flows only gain), the rows before the cursor have their place and count for
the largest size (`RowsTreated`), an unmarked copy is in order (`RowsSorted`), and from
the refresh to the end of the frame the copy is recent. Any listing of a finite set, hence any sort of the copy,
is a sequence of the same rows (`ListingIsDistinct`, `SortKeepsRows`).

`RateGraphRight`: the ring and its offset hold, oldest first, the last of the samples taken
since the selection (`Holds`); this is an argument about remainders, for the offset turns with
the ring. `OwnerRecent`: `ProcInv` says that a copy of the tables holds only
owners the system had when it was taken (`OwnersAreKnown`), that a copy young enough to
be used lies within what the history of owners remembers (`CopyIsRemembered`), and that every
name in use, remembered or cached is one its identifier has had (`NamesWereHad`): an identifier that
has had only one name is then answered for with the owner's own.

`ExportsReadBack` is about every text of every length, so the induction is not over the steps of
the exporter (`XInv`: the rows written so far show a reader just these, and leave it where a row
begins) but within one string. Three parts:
- What a reader has after k bytes of a text is where it is and what it has seen. `Spells(R, a, w,
  m, b)` says that the bytes w take it from a to b and show it m, whatever came before and
  comes after. Two texts that spell can be joined (`SpellsThen`), hence also a number of
  pieces (`SpellsPrefixes` upwards, for the doubled quotes of CSV; `SpellsEscaped`
  downwards, for JSON, where a piece is one to four bytes of the string).
- A piece: one byte that is escaped, in the short form or as four hexadecimal digits
  (`ReadsAscii`), or a character of several bytes or the three of U+FFFD, which are
  all above 127 and so plain to the reader (`ReadsHigh`).
- What counts as a character. The code decodes the bytes and refuses a number that is
  overlong, a surrogate or too great; the reader's `Characters` looks in the table of the Unicode
  standard. `LikeTheTable` shows that both accept the same bytes, for 2, 3 and 4 of them by
  linear arithmetic (`TwoBytes`, `ThreeBytes`, `FourBytes`), and `CharactersAre` that at
  most one row of the table fits.

Only model-checked: everything about liveness (BlockedReadersAreServed, WindowResponds,
EndingWrites), which is beyond the
provers used; and DataAssumption for the frames of MCParsing, that is, that the operators read from
whole messages what was written by hand beside their bytes (`says`). The theorems about names and answers
take a message to say what the whole of it reads as, for any bytes; that this is what its
sender meant is shown for the catalogue only, as there is no theory here of how a message is written.
Every other property of a passing run is a theorem.
The type invariants `TypeOK` (CaptureEngine), `RTypeOK`, `QTypeOK` and
`QueueIsRecentWindow` are theorems and no run repeats them;
`JoinReturns` (CaptureEngine) is contained in WindowResponds, and `RowsAgree` (AnalysisSession) is
a theorem (`RowsAlwaysAgree`). `CTypeOK` (CliCapture), `STypeOK` (AnalysisSession) and
`GeoTypeOK` (GeoIPResolver) are stated, hold in the models of their runs, and are kept for the proofs.

## 7. Not modelled

- Drawing, themes, menus, the text and layout of rows and the statistics views:
  they draw what others hold. Of the export, the digits of numbers and the header
  lines. Of the command line, what is not the combination of options.
- libpcap and Npcap, mbedTLS, MaxMind, ImGui: libraries. In particular whether
  `pcap_setfilter` may run beside `pcap_next_ex` on one handle
  (`capture/CaptureEngine.cpp:133`) is theirs to say.
- The Windows and macOS versions of the process tables: the same tables read
  otherwise.
- Of the parsers: summary texts, the whole tables of ports, EtherTypes and services
  (the models take a selection in their order), frames whose headers contradict each
  other about what follows, IPv6 fragments other than the first, and
  `reverseNameToAddress`.
- File handling of exportSession and openPcapFile beyond its outcome.
  ResourcePaths, which looks where files are and keeps no state.

## 8. Plan

In this order:

1. PacketQueue, CaptureEngine and their proofs; GuiCapture and CliCapture over the
   engine; the flow table and the session; the reassemblers; the process
   resolver; the theorems of section 6. *Done.*
2. The parsers: headers and tunnels, DNS messages, ClientHellos, QUIC frames.
   *Done.*
3. FlowExporter (the text, and success reported before the flush), GeoIPResolver's
   cache, the copied rows of FlowsView, larger limits in CliCapture; the theorems
   ReportComplete, CacheSound and ShownRowsRight. *Done.*
4. Theorems: the four safety invariants of GuiCapture on top of the engine's;
   OwnerIsRecent of ProcessResolver; RateGraphIsOneFlow of FlowTable. *Done.*
5. Theorems: the bytes, the round-trip times and the names of AnalysisSession. *Done.*
   Its rates and delivery counters, with the theory of sums, remainders and counting they need.
   *Done.* PayloadIsExact and InnermostIsShown of the decoders for all frames, and
   ExportReadsBack for names of any bytes. *Done.* NamesAreRead and AnswersAreTheRecords for any
   frame and any cut. *Done.*
   The rest of STypeOK; a theory of how messages are written, from which DataAssumption would follow.
6. Runs for the refuted statements of section 4 that have none.
