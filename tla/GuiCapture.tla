---------------------------- MODULE GuiCapture ----------------------------
(***************************************************************************)
(* The desktop program: src/main.cpp wires ui::GuiLayer's callbacks to the *)
(* CaptureEngine, and GuiLayer::run() alternates, on one thread, between   *)
(* draining the packet queue (processQueue), rendering the packet table    *)
(* and reacting to the user.  While a callback runs an engine operation    *)
(* the whole frame loop waits for it; the capture thread does not.         *)
(*                                                                         *)
(* A frame: "process" pops packets one at a time, interleaved with the     *)
(* capture thread; "controls" takes at most one user action in the menus,  *)
(* the control bar or above the table; "calling" and "engine" are a        *)
(* callback it started, about to run and running; "render" rebuilds the    *)
(* filtered rows if they are stale; in "rows" a row may be clicked.        *)
(***************************************************************************)
EXTENDS CaptureEngine

CONSTANTS
  HistoryCap,   (* maxPacketHistory: packets the table keeps               *)
  FrameBudget   (* packets processQueue takes in one frame                 *)

ASSUME GuiCapsAssumption == HistoryCap \in Nat \ {0} /\ FrameBudget \in Nat \ {0}

VARIABLES
  phase, budget,  (* the frame loop                                        *)
  uiOp,           (* the engine operation a callback runs                  *)
  captureActive,  (* m_captureActive: Stop button or Start button          *)
  paused,         (* m_capturePaused                                       *)
  history,        (* m_packetHistory                                       *)
  selected,       (* m_selectedPacketIndex + 1, 0 for none                 *)
  display,        (* m_displayFilter, or "flow" for m_packetFlowFilter     *)
  rows,           (* m_filteredPacketIndexes (+ 1)                         *)
  rowsFor,        (* m_filterCacheSignature                                *)
  rowsFresh,      (* m_filterCacheHistoryVersion = m_packetHistoryVersion  *)
  clicked,        (* history: the packet the user selected                 *)
  pausedAt        (* history: packets queued when Pause was pressed        *)

frame == <<phase, budget, uiOp>>
view  == <<history, selected, clicked, rows, rowsFor, rowsFresh>>
gvars == <<evars, frame, view, captureActive, paused, display, pausedAt>>

DisplayFilters == {"all", "text", "flow"}

(* Which packets a filter shows is data: here, by the packet's parity.     *)
Matches(p, f) ==
  CASE f = "text" -> p.n % 2 = 1 [] f = "flow" -> p.n % 2 = 0 [] OTHER -> TRUE

(* The list goes through the history once, so its order is that of the     *)
(* indexes, and it is kept as their set.                                   *)
MatchingRows(h, f) == {i \in 1 .. Len(h) : Matches(h[i], f)}

(* main.cpp starts the first adapter, if there is one, before run().       *)
GInit ==
  /\ EInit
  /\ \/ phase = "calling" /\ uiOp = "autostart"
     \/ phase = "process" /\ uiOp = "none"
  /\ budget = FrameBudget
  /\ captureActive = FALSE /\ paused = FALSE
  /\ history = <<>> /\ selected = 0 /\ clicked = None
  /\ display = "all" /\ rows = {} /\ rowsFor = "none" /\ rowsFresh = FALSE
  /\ pausedAt = 0

NextFrame == phase' = "process" /\ budget' = FrameBudget /\ uiOp' = "none"

---------------------------------------------------------------------------
(* processQueue()                                                          *)

(* Mutant: the selection keeps its index when the oldest packet goes.      *)
SelectedAfterPush_Unshifted == selected

(* When the oldest packet leaves, every index into the history moves down. *)
SelectedAfterPush ==
  IF Len(history) >= HistoryCap /\ selected > 0 THEN selected - 1 ELSE selected

(* Mutant: the version is not bumped for a packet appended.                *)
RowsFreshAfterPush_Unbumped == rowsFresh
RowsFreshAfterPush == FALSE

ProcessPacket ==
  /\ phase = "process" /\ ~paused /\ budget > 0
  /\ Drain
  /\ history' = PushEvict(history, Head(queue), HistoryCap)
  /\ selected' = SelectedAfterPush
  /\ rowsFresh' = RowsFreshAfterPush
  /\ budget' = budget - 1
  /\ UNCHANGED <<phase, uiOp, clicked, rows, rowsFor, captureActive, paused,
                 display, pausedAt>>

(* Then the frame is drawn, or, of a minimised window, nothing more is.    *)
EndProcess ==
  /\ phase = "process"
  /\ paused \/ budget = 0 \/ queue = <<>>
  /\ \/ phase' = "controls" /\ UNCHANGED <<budget, uiOp>>
     \/ NextFrame
  /\ UNCHANGED <<evars, view, captureActive, paused, display, pausedAt>>

(* renderPacketTable(): the match list is recomputed only when the filter  *)
(* or the history changed since it was computed.                           *)
Render ==
  /\ phase = "render"
  /\ phase' = "rows"
  /\ IF display # "all" /\ (~rowsFresh \/ rowsFor # display)
     THEN /\ rows' = MatchingRows(history, display)
          /\ rowsFor' = display /\ rowsFresh' = TRUE
     ELSE UNCHANGED <<rows, rowsFor, rowsFresh>>
  /\ UNCHANGED <<evars, budget, uiOp, history, selected, clicked, captureActive,
                 paused, display, pausedAt>>

---------------------------------------------------------------------------
(* The user.                                                               *)

(* A control changed what the frame draws and called nobody.               *)
Controls == phase = "controls" /\ phase' = "render" /\ UNCHANGED <<budget, uiOp>>

NoInput ==
  /\ Controls \/ (phase = "rows" /\ NextFrame)
  /\ UNCHANGED <<evars, view, captureActive, paused, display, pausedAt>>

(* The rows on the screen: indexes into the history.                       *)
VisibleRows == IF display = "all" THEN 1 .. Len(history) ELSE rows

SelectRow ==
  /\ phase = "rows" /\ NextFrame
  /\ \E i \in VisibleRows : selected' = i /\ clicked' = history[i]
  /\ UNCHANGED <<evars, history, rows, rowsFor, rowsFresh, captureActive, paused,
                 display, pausedAt>>

SetDisplay(f) ==
  /\ Controls
  /\ display' = f
  /\ UNCHANGED <<evars, view, captureActive, paused, pausedAt>>

(* clearCaptureView(): a flow filter goes with the flows, the text stays.  *)
ClearView ==
  /\ history' = <<>> /\ selected' = 0 /\ clicked' = None
  /\ rows' = {} /\ rowsFresh' = FALSE
  /\ display' = IF display = "flow" THEN "all" ELSE display
  /\ UNCHANGED rowsFor

ClearCapture ==
  /\ Controls
  /\ ClearView
  /\ UNCHANGED <<evars, captureActive, paused, pausedAt>>

Pause ==
  /\ Controls /\ ~paused
  /\ paused' = TRUE /\ pausedAt' = QueuedCount
  /\ UNCHANGED <<evars, view, captureActive, display>>

(* Mutant: resuming also forgets the session kept for export.              *)
Unpause_DropsSession ==
  /\ paused' = FALSE
  /\ IF paused
     THEN /\ queue' = <<>> /\ session' = <<>>
          /\ UNCHANGED <<caller, loop, stopRequested, handle, activeFilter,
                         sessionLink, inflight, source, captured, kept>>
     ELSE UNCHANGED evars

(* setPaused(false): does nothing unless paused, else empties the queue.   *)
Unpause ==
  /\ paused' = FALSE
  /\ IF paused THEN Discard ELSE UNCHANGED evars

Resume ==
  /\ Controls /\ paused
  /\ Unpause
  /\ UNCHANGED <<view, captureActive, display, pausedAt>>

ApplyFilter(f) ==
  /\ Controls
  /\ SetFilter(f)
  /\ UNCHANGED <<view, captureActive, paused, display, pausedAt>>

Callback(o) ==
  phase = "controls" /\ phase' = "calling" /\ uiOp' = o /\ UNCHANGED budget

(* The adapter combo, or the Start button while no capture is shown.       *)
PressStart ==
  /\ Callback("start")
  /\ ClearView /\ Unpause
  /\ UNCHANGED <<captureActive, pausedAt>>

PressStop ==
  /\ Callback("stop") /\ captureActive
  /\ UNCHANGED <<evars, view, captureActive, paused, display, pausedAt>>

(* openPcapFile()                                                          *)
OpenPcap ==
  /\ Callback("open")
  /\ ClearView /\ Unpause
  /\ captureActive' = FALSE
  /\ UNCHANGED pausedAt

(* run() returns; the engine's destructor runs in main.cpp.                *)
CloseWindow ==
  /\ Callback("destroy")
  /\ UNCHANGED <<evars, view, captureActive, paused, display, pausedAt>>

Starts == {"start", "autostart"}

EnterEngine ==
  /\ phase = "calling" /\ phase' = "engine"
  /\ Call(IF uiOp \in Starts THEN "start" ELSE uiOp)
  /\ UNCHANGED <<budget, uiOp, view, captureActive, paused, display, pausedAt>>

(* Mutant: the adapter combo forgets to show the capture it started.       *)
ActiveAfter_Forgotten(o) == CASE o = "stop" -> FALSE [] OTHER -> captureActive

(* GuiLayer learns nothing from the callback: startCapture returns void.   *)
ActiveAfter(o) ==
  CASE o \in Starts -> TRUE [] o = "stop" -> FALSE [] OTHER -> captureActive

(* The frame goes on; the start-up call is followed by the first frame.    *)
ReturnFromEngine ==
  /\ phase = "engine" /\ at = "idle"
  /\ IF uiOp = "autostart" THEN NextFrame
     ELSE phase' = "render" /\ uiOp' = "none" /\ UNCHANGED budget
  /\ captureActive' = ActiveAfter(uiOp)
  /\ UNCHANGED <<evars, view, paused, display, pausedAt>>

EngineRuns ==
  /\ CallerStep \/ LoopStep
  /\ UNCHANGED <<frame, view, captureActive, paused, display, pausedAt>>

Closing == at = "gone" /\ UNCHANGED gvars

(* The frame loop as the program runs it, and the user's choices in it.    *)
FrameStep == ProcessPacket \/ EndProcess \/ Render \/ EnterEngine \/ ReturnFromEngine
User ==
  \/ SelectRow \/ ClearCapture \/ Pause \/ Resume
  \/ \E f \in DisplayFilters : SetDisplay(f)
  \/ \E f \in Filters : ApplyFilter(f)
  \/ source < MaxSources /\ (PressStart \/ OpenPcap)
  \/ PressStop \/ CloseWindow

GNext == FrameStep \/ NoInput \/ User \/ EngineRuns \/ Closing

(* The UI thread keeps running frames and the engine's threads run; no     *)
(* user action is ever certain.                                            *)
GFairness ==
  /\ WF_gvars(FrameStep \/ NoInput)
  /\ WF_gvars(CallerStep /\ EngineRuns) /\ WF_gvars(LoopStep /\ EngineRuns)

GSpec == GInit /\ [][GNext]_gvars /\ GFairness

(* The detail pane shows the packet the user clicked, however far the      *)
(* history has scrolled since, or nothing once it is evicted; never a      *)
(* neighbour that moved into its slot.                                     *)
SelectionIsStable == selected > 0 => selected <= Len(history) /\ history[selected] = clicked

(* The rows on the screen are the packets of the history that match the    *)
(* filter on the screen: the cached list is never used when stale.         *)
RowsAreFresh ==
  phase = "rows" => VisibleRows = MatchingRows(history, display)

(* The table never mixes captures: whatever was still queued or in flight  *)
(* when the user restarted, switched adapter or opened a file is gone      *)
(* before the first packet of the new source is processed; and it is in    *)
(* capture order without duplicates.                                       *)
HistoryIsOneCapture ==
  /\ \A i \in 1 .. Len(history) : history[i].src = source
  /\ \A i \in 2 .. Len(history) : history[i - 1].n < history[i].n

(* The program never captures behind the user's back: in every frame in    *)
(* which a capture thread exists, the window offers Stop.                  *)
NoHiddenCapture == Joinable /\ phase \notin {"calling", "engine"} => captureActive

(* Whatever the user does and whatever the traffic is, the window begins   *)
(* another frame or closes: no callback blocks the frame loop forever, and *)
(* no flood of packets keeps it in processQueue.                           *)
WindowResponds == []<>((phase = "process" /\ budget = FrameBudget) \/ at = "gone")

(* What the table shows can be exported: the packet, as captured and with  *)
(* the session's link type, is still in the session unless SessionCap      *)
(* newer ones came.  The table is emptied before the engine forgets the    *)
(* session, and resuming a paused view, which throws the queue away        *)
(* behind the engine's back, loses nothing of it.                          *)
ShownCanBeExported ==
  \A i \in 1 .. Len(history) :
    history[i].link = sessionLink /\
    (history[i] \in Sequence(session) \/ history[i].n <= RetainedCount - SessionCap)

(* "Reflects whether a live capture is currently running"                  *)
(* (src/ui/GuiLayer.hpp, setCaptureActive).                                *)
StatusReflectsCapture ==
  captureActive /\ phase \notin {"calling", "engine"} => Joinable

(* "Packets that piled up while paused are stale" (GuiLayer::setPaused):   *)
(* what Resume throws away was captured while the view was paused.         *)
ResumeDropsOnlyPaused ==
  [][Resume => \A i \in 1 .. Len(queue) : queue[i].n > pausedAt]_gvars
===========================================================================
