----------------------------- MODULE FlowTable -----------------------------
(***************************************************************************)
(* The Flows window (src/ui/FlowsView.cpp): GuiLayer copies the session's  *)
(* flow table every half second (refreshFlowsCache), looks up where each   *)
(* peer is, sorts the copy (sortFlowsCache), and draws it; the selected    *)
(* flow's rate is sampled into a ring for the detail pane.  It is all one  *)
(* thread: between two frames packets come in, time passes, and the user   *)
(* clears the view, exports the flows or picks a flow elsewhere.           *)
(*                                                                         *)
(* "step" is where the frame is: "refresh" looks up the copied rows one by *)
(* one, in "locate" the selected flow is sought, in "rows" the table is on *)
(* the screen and may be clicked.                                          *)
(***************************************************************************)
EXTENDS Integers, Sequences, FiniteSets

CONSTANTS
  Keys,         (* flows                                                   *)
  AddressOf,    (* key.dstIP                                               *)
  PlaceOf,      (* what GeoIPResolver::lookup answers for an address: its  *)
                (* cache adds nothing and loses nothing (CacheIsSound)     *)
  HostOf,       (* what the Host column compares: ties are possible        *)
  RttOf,        (* what the handshake measures, 0 for nothing              *)
  Longest,      (* INT64_MAX                                               *)
  NoKey, Never,
  FlowGeoLimit, (* 8192: entries of m_flowGeoCache                         *)
  HistorySize,  (* 240: samples in the rate history                        *)
  Period,       (* half a second, in clock ticks                           *)
  HeaderColumns,(* bound: the headers the user clicks, of Columns          *)
  MaxNow,       (* bound: clock ticks in a behaviour                       *)
  BytesOf       (* bound: the bytes each flow may have                     *)

ASSUME TableAssumption ==
  /\ AddressOf \in [Keys -> DOMAIN PlaceOf] /\ HostOf \in [Keys -> Int]
  /\ Longest \in Nat /\ RttOf \in [Keys -> 0 .. Longest - 1]
  /\ NoKey \notin Keys /\ Never \in Int /\ Never < 0
  /\ FlowGeoLimit \in Nat /\ HistorySize \in Nat \ {0} /\ Period \in Nat \ {0}
  /\ HeaderColumns \subseteq {"host", "bytes", "rtt"}
  /\ MaxNow \in Nat /\ BytesOf \in [Keys -> Nat]

VARIABLES
  now,            (* glfwGetTime()                                         *)
  flows,          (* m_session: [flow -> bytes], those seen                *)
  step, cursor,   (* the frame                                             *)
  flowsCache,     (* m_flowsCache: rows of [key, bytes, rtt]               *)
  flowGeoCache,   (* m_flowGeoCache                                        *)
  maxFlowBytes, sortDirty, sortColumn, ascending, lastFlowsRefresh,
  selected,       (* m_packetFlowFilter                                    *)
  rateKey,        (* m_flowRateKey                                         *)
  rateHistory,    (* m_flowRateHistory: [data, offset], data of [key, at]  *)
  lastSample,     (* m_lastFlowSampleTime                                  *)
  sampled         (* history: the samples of rateKey since it was selected *)

rate  == <<rateKey, rateHistory, lastSample, sampled>>
order == <<sortDirty, sortColumn, ascending>>
copy  == <<flowsCache, flowGeoCache, maxFlowBytes, lastFlowsRefresh>>
tvars == <<now, flows, step, cursor, copy, order, selected, rate>>

EmptyRing == [data |-> <<>>, offset |-> 0]

TInit ==
  /\ now = 0 /\ flows = [k \in {} |-> 0]
  /\ step = "idle" /\ cursor = 0
  /\ flowsCache = <<>> /\ flowGeoCache = [ip \in {} |-> {}]
  /\ maxFlowBytes = 0 /\ lastFlowsRefresh = Never
  /\ sortDirty = TRUE /\ sortColumn = "bytes" /\ ascending = FALSE
  /\ selected = NoKey
  /\ rateKey = NoKey /\ rateHistory = EmptyRing /\ lastSample = 0 /\ sampled = <<>>

---------------------------------------------------------------------------
(* ScrollingBuffer: a ring once it is full.                                *)

(* Mutant: the oldest slot is not advanced.                                *)
AddPoint_Stuck(ring, x) ==
  IF Len(ring.data) < HistorySize THEN [ring EXCEPT !.data = Append(@, x)]
  ELSE [ring EXCEPT !.data[ring.offset + 1] = x]

AddPoint(ring, x) ==
  IF Len(ring.data) < HistorySize THEN [ring EXCEPT !.data = Append(@, x)]
  ELSE [data   |-> [ring.data EXCEPT ![ring.offset + 1] = x],
        offset |-> (ring.offset + 1) % HistorySize]

Erase(ring) == IF Len(ring.data) > 0 THEN EmptyRing ELSE ring

(* linearizeBuffer(): oldest first.                                        *)
Linear(ring) ==
  LET count == Len(ring.data)
      start == IF count = HistorySize THEN ring.offset ELSE 0
  IN  [i \in 1 .. count |-> ring.data[((start + i - 1) % count) + 1]]

---------------------------------------------------------------------------
(* refreshFlowsCache()                                                     *)

Due == lastFlowsRefresh < 0 \/ now - lastFlowsRefresh >= Period

(* The sequences that list each element of S once: the session's table is  *)
(* a hash map, whose order is anything.                                    *)
Listings(S) ==
  {s \in [1 .. Cardinality(S) -> S] : \A i, j \in DOMAIN s : s[i] = s[j] => i = j}

Snapshot ==
  {[key |-> k, bytes |-> flows[k],
    rtt |-> IF flows[k] > 1 THEN RttOf[k] ELSE 0] : k \in DOMAIN flows}

(* The map is emptied before it is filled, once it is past its limit.      *)
GeoAtStart ==
  IF Cardinality(DOMAIN flowGeoCache) > FlowGeoLimit
  THEN [ip \in {} |-> {}] ELSE flowGeoCache

BeginRefresh ==
  /\ step = "idle" /\ Due
  /\ lastFlowsRefresh' = now
  /\ flowsCache' \in Listings(Snapshot)
  /\ flowGeoCache' = GeoAtStart
  /\ maxFlowBytes' = 0
  /\ step' = "refresh" /\ cursor' = 1
  /\ UNCHANGED <<now, flows, order, selected, rate>>

RefreshRow ==
  /\ step = "refresh" /\ cursor <= Len(flowsCache)
  /\ LET row == flowsCache[cursor]
         ip  == AddressOf[row.key]
     IN  /\ maxFlowBytes' = IF row.bytes > maxFlowBytes THEN row.bytes ELSE maxFlowBytes
         /\ flowGeoCache' = [x \in DOMAIN flowGeoCache \union {ip} |->
                             IF x \in DOMAIN flowGeoCache THEN flowGeoCache[x]
                             ELSE PlaceOf[ip]]
  /\ cursor' = cursor + 1
  /\ UNCHANGED <<now, flows, step, flowsCache, lastFlowsRefresh, order, selected, rate>>

(* Mutant: rows copied anew are not sorted anew.                           *)
DirtyAfterRefresh_Clean == sortDirty
DirtyAfterRefresh == TRUE

EndRefresh ==
  /\ step = "refresh" /\ cursor > Len(flowsCache)
  /\ sortDirty' = DirtyAfterRefresh
  /\ step' = "locate" /\ cursor' = 0
  /\ UNCHANGED <<now, flows, copy, sortColumn, ascending, selected, rate>>

NoRefresh ==
  /\ step = "idle" /\ ~Due
  /\ step' = "locate"
  /\ UNCHANGED <<now, flows, cursor, copy, order, selected, rate>>

---------------------------------------------------------------------------
(* renderFlowsTable(): the selected flow is looked for among the rows, and *)
(* its rate sampled every half second.                                     *)
SelectedIsListed == \E i \in 1 .. Len(flowsCache) : flowsCache[i].key = selected

Sampled(ring, last, before) ==
  IF now - last >= Period
  THEN /\ rateHistory' = AddPoint(ring, [key |-> selected, at |-> now])
       /\ lastSample' = now
       /\ sampled' = Append(before, [key |-> selected, at |-> now])
  ELSE rateHistory' = ring /\ lastSample' = last /\ sampled' = before

Locate ==
  /\ step = "locate" /\ step' = "draw"
  /\ IF SelectedIsListed
     THEN /\ rateKey' = selected
          /\ IF rateKey = selected THEN Sampled(rateHistory, lastSample, sampled)
             ELSE Sampled(Erase(rateHistory), 0, <<>>)
     ELSE /\ rateKey' = NoKey /\ sampled' = <<>>
          /\ rateHistory' = IF rateKey = NoKey THEN rateHistory ELSE Erase(rateHistory)
          /\ UNCHANGED lastSample
  /\ UNCHANGED <<now, flows, cursor, copy, order, selected>>

---------------------------------------------------------------------------
(* sortFlowsCache().  The other nine columns compare like one of these     *)
(* three.                                                                  *)
(* An RTT that is not known counts as the longest.                         *)
Value(row, column) ==
  CASE column = "host"  -> HostOf[row.key]
    [] column = "bytes" -> row.bytes
    [] OTHER            -> IF row.rtt = 0 THEN Longest ELSE row.rtt

(* compareFlows: does left go before right?  A tie goes by host.           *)
CompareFlows(left, right, column, up) ==
  LET less(l, r) ==
        \/ Value(l, column) < Value(r, column)
        \/ Value(l, column) = Value(r, column) /\ HostOf[l.key] < HostOf[r.key]
  IN  IF up THEN less(left, right) ELSE less(right, left)

(* std::sort: any order of the rows in which none stands before one that   *)
(* goes before it.                                                         *)
InOrder(s, column, up) ==
  \A i, j \in DOMAIN s : i < j => ~CompareFlows(s[j], s[i], column, up)

SortedRows(column, up) ==
  {s \in Listings({flowsCache[i] : i \in DOMAIN flowsCache}) : InOrder(s, column, up)}

(* The table is drawn: a click on a header sets the order, and the rows    *)
(* are sorted if anything changed since they last were.                    *)
DrawTable(column, up) ==
  /\ step = "draw" /\ step' = "rows"
  /\ sortColumn' = column /\ ascending' = up
  /\ IF sortDirty \/ <<column, up>> # <<sortColumn, ascending>>
     THEN flowsCache' \in SortedRows(column, up)
     ELSE UNCHANGED flowsCache
  /\ sortDirty' = FALSE
  /\ UNCHANGED <<now, flows, cursor, flowGeoCache, maxFlowBytes,
                 lastFlowsRefresh, selected, rate>>

(* The window is hidden behind another tab: nothing is sorted or clicked.  *)
TableHidden ==
  /\ step = "draw" /\ step' = "idle"
  /\ UNCHANGED <<now, flows, cursor, copy, order, selected, rate>>

(* A click on a row selects its flow, or clears a selection that it is.    *)
ClickRow ==
  /\ step = "rows" /\ step' = "idle"
  /\ \E i \in DOMAIN flowsCache :
       selected' = IF selected = flowsCache[i].key THEN NoKey ELSE flowsCache[i].key
  /\ UNCHANGED <<now, flows, cursor, copy, order, rate>>

(* "Clear selection", in the detail pane or above the packets.             *)
ClearSelection ==
  /\ step = "rows" /\ step' = "idle"
  /\ selected' = NoKey
  /\ UNCHANGED <<now, flows, cursor, copy, order, rate>>

NoClick ==
  /\ step = "rows" /\ step' = "idle"
  /\ UNCHANGED <<now, flows, cursor, copy, order, selected, rate>>

---------------------------------------------------------------------------
(* Between two frames.                                                     *)

TimePasses ==
  /\ step = "idle" /\ now < MaxNow
  /\ now' = now + 1
  /\ UNCHANGED <<flows, step, cursor, copy, order, selected, rate>>

(* processQueue(): a packet of flow k.                                     *)
PacketOf(k) ==
  /\ step = "idle"
  /\ k \in DOMAIN flows => flows[k] < BytesOf[k]
  /\ flows' = [x \in DOMAIN flows \union {k} |->
                 IF x \in DOMAIN flows
                 THEN flows[x] + IF x = k THEN 1 ELSE 0 ELSE 1]
  /\ UNCHANGED <<now, step, cursor, copy, order, selected, rate>>

(* A packet's menu selects its flow, which may be one not yet in the copy. *)
FilterByPacket(k) ==
  /\ step = "idle" /\ k \in DOMAIN flows
  /\ selected' = k
  /\ UNCHANGED <<now, flows, step, cursor, copy, order, rate>>

(* clearCaptureView(), also called when a capture starts or a file opens.  *)
ClearCaptureView ==
  /\ step = "idle"
  /\ flows' = [k \in {} |-> 0]
  /\ flowsCache' = <<>> /\ flowGeoCache' = [ip \in {} |-> {}]
  /\ lastFlowsRefresh' = Never /\ maxFlowBytes' = 0
  /\ selected' = NoKey /\ rateKey' = NoKey /\ rateHistory' = Erase(rateHistory)
  /\ sampled' = <<>>
  /\ UNCHANGED <<now, step, cursor, order, lastSample>>

TNext ==
  \/ BeginRefresh \/ RefreshRow \/ EndRefresh \/ NoRefresh \/ Locate
  \/ \E c \in HeaderColumns, up \in BOOLEAN : DrawTable(c, up)
  \/ TableHidden \/ ClickRow \/ ClearSelection \/ NoClick
  \/ TimePasses \/ ClearCaptureView
  \/ \E k \in Keys : PacketOf(k) \/ FilterByPacket(k)

TSpec == TInit /\ [][TNext]_tvars

---------------------------------------------------------------------------
(* Every flow on the screen is shown where its peer is, however the cache  *)
(* of places has been filled and emptied.                                  *)
RowsArePlaced ==
  \A i \in DOMAIN flowsCache :
    LET ip == AddressOf[flowsCache[i].key]
    IN  ip \in DOMAIN flowGeoCache /\ flowGeoCache[ip] = PlaceOf[ip]

(* The rows are flows of this capture, each once, with no more bytes than  *)
(* it has, copied less than Period ago; no bar is longer than its cell.    *)
RowsAreOfThisCapture ==
  /\ \A i \in DOMAIN flowsCache :
       /\ flowsCache[i].key \in DOMAIN flows
       /\ flowsCache[i].bytes <= flows[flowsCache[i].key]
       /\ flowsCache[i].bytes <= maxFlowBytes
  /\ \A i, j \in DOMAIN flowsCache : flowsCache[i].key = flowsCache[j].key => i = j
  /\ lastFlowsRefresh >= 0 /\ now - lastFlowsRefresh < Period

(* The Flows window never shows a row of another capture, in another order *)
(* than its header says, or in another place than the peer's, although     *)
(* rows, places and order are each cached and renewed on their own terms.  *)
ShownRowsAreRight ==
  step = "rows" =>
    RowsArePlaced /\ RowsAreOfThisCapture /\ InOrder(flowsCache, sortColumn, ascending)

(* The rate graph in the detail pane is of one flow, the selected one when *)
(* the frame looked for it: its points are the last ones taken since that  *)
(* was selected, oldest first and Period apart, however often the ring has *)
(* turned and whatever flows were selected before.                         *)
RateGraphIsOneFlow ==
  LET graph == Linear(rateHistory)
      n == Len(graph)
  IN  /\ n = IF Len(sampled) < HistorySize THEN Len(sampled) ELSE HistorySize
      /\ graph = SubSeq(sampled, Len(sampled) - n + 1, Len(sampled))
      /\ \A i \in 1 .. n : graph[i].key = rateKey
      /\ \A i \in 2 .. n : graph[i].at - graph[i - 1].at >= Period
      /\ step \in {"draw", "rows"} /\ rateKey # NoKey =>
           rateKey = selected /\ now - lastSample < Period

(* "Unknown RTT (0) sorts to the bottom regardless of direction"           *)
(* (sortFlowsCache): no row with an unknown RTT stands above a known one.  *)
UnknownRttAtTheBottom ==
  step = "rows" /\ sortColumn = "rtt" =>
    \A i, j \in DOMAIN flowsCache :
      flowsCache[i].rtt = 0 /\ flowsCache[j].rtt # 0 => j < i
============================================================================
