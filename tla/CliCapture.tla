----------------------------- MODULE CliCapture -----------------------------
(***************************************************************************)
(* netprobe-cli (src/cli/main.cpp): run() drives one CaptureEngine through *)
(* a live capture (runLive) or the replay of a file (runOffline), analyses *)
(* the packets, and writes the flows.  The main thread is the engine's     *)
(* calling thread; SIGINT may arrive at any time and only sets a flag.     *)
(*                                                                         *)
(* "stage" is where run() is.  A packet is analysed by AnalysisSession,    *)
(* of which only the number of the packet matters here.                    *)
(***************************************************************************)
EXTENDS CaptureEngine

CONSTANTS
  Plans,    (* option combinations                                         *)
  NoLimit   (* --packet-count was not given                                *)

Options == [live : BOOLEAN, filter : Filters, timed : BOOLEAN,
            limit : Nat \union {NoLimit}, output : {"-", "file"}]

ASSUME PlansAssumption == Plans \subseteq Options /\ NoLimit \notin Nat

VARIABLES
  stage,
  plan,         (* Options                                                 *)
  interrupted,  (* g_stopRequested                                         *)
  expired,      (* the deadline has passed                                 *)
  dropped,      (* m_queue.droppedPackets()                                *)
  seen,         (* history: the packets analysed, in order; its length is  *)
                (* packetsAnalyzed                                         *)
  early,        (* history: packets read before the filter was set         *)
  text,         (* the flows' text: "none" yet, "buffered" if some of it   *)
                (* is still in the stream, "written", or part of it "lost" *)
  outcome       (* exit code                                               *)

tally   == <<dropped, seen, early>>
cli     == <<stage, plan, interrupted, expired, tally, text, outcome>>
cvars   == <<evars, cli>>

LimitReached == plan.limit # NoLimit /\ Len(seen) >= plan.limit

CInit ==
  /\ EInit
  /\ stage = "begin" /\ plan \in Plans
  /\ interrupted = FALSE /\ expired = FALSE
  /\ dropped = 0 /\ seen = <<>> /\ early = 0
  /\ text = "none" /\ outcome = "none"

---------------------------------------------------------------------------
(* parseArguments(): a packet count is positive.                           *)
Parsed(o) == o.limit # 0

(* validate(): duration, packet count and filter need a live capture.      *)
Valid(o) ==
  Parsed(o) /\ (o.live \/ (~o.timed /\ o.limit = NoLimit /\ o.filter = NoFilter))

Reject ==
  /\ stage = "begin" /\ ~Valid(plan)
  /\ stage' = "exited" /\ outcome' = "usage"
  /\ UNCHANGED <<evars, plan, interrupted, expired, tally, text>>

Open ==
  /\ stage = "begin" /\ Valid(plan)
  /\ Call(IF plan.live THEN "start" ELSE "replay")
  /\ stage' = IF plan.live THEN "starting" ELSE "replaying"
  /\ UNCHANGED <<plan, interrupted, expired, tally, outcome, text>>

(* startCapture() has returned; isCapturing() tells whether it worked.     *)
Started ==
  /\ stage = "starting" /\ at = "idle"
  /\ IF ~Joinable THEN stage' = "leaving" /\ outcome' = "runtime"
     ELSE /\ stage' = IF plan.filter = NoFilter THEN "loop" ELSE "filter"
          /\ UNCHANGED outcome
  /\ UNCHANGED <<evars, plan, interrupted, expired, tally, text>>

Filtered ==
  /\ stage = "filter"
  /\ SetFilter(plan.filter)
  /\ stage' = "loop"
  /\ early' = captured
  /\ UNCHANGED <<plan, interrupted, expired, dropped, seen, outcome, text>>

(* The expression does not compile: stopCapture() and give up.             *)
FilterRefused ==
  /\ stage = "filter"
  /\ Call("stop")
  /\ stage' = "givingUp" /\ outcome' = "runtime"
  /\ UNCHANGED <<plan, interrupted, expired, tally, text>>

GaveUp ==
  /\ stage = "givingUp" /\ at = "idle"
  /\ stage' = "leaving"
  /\ UNCHANGED <<evars, plan, interrupted, expired, tally, outcome, text>>

---------------------------------------------------------------------------
(* Mutant: an interrupt does not end the loop.                             *)
Enough_Uninterrupted == (plan.timed /\ expired) \/ LimitReached

(* The conditions that end runLive()'s loop.                               *)
Enough == interrupted \/ (plan.timed /\ expired) \/ LimitReached

Analyse ==
  /\ Drain
  /\ seen' = Append(seen, Head(queue).n)

LoopAnalyse ==
  /\ stage = "loop" /\ ~Enough
  /\ Analyse
  /\ UNCHANGED <<stage, plan, interrupted, expired, dropped, early, outcome, text>>

(* Nothing queued: sleep five milliseconds.                                *)
LoopSleeps ==
  /\ stage = "loop" /\ ~Enough
  /\ queue = <<>>
  /\ UNCHANGED cvars

LoopEnds ==
  /\ stage = "loop" /\ Enough
  /\ Call("stop")
  /\ stage' = "stopping"
  /\ UNCHANGED <<plan, interrupted, expired, tally, outcome, text>>

(* Mutant: what is still queued when the capture stops is not analysed.    *)
AfterStop_NoDrain == "write"

(* After stopCapture() the queue is drained.                               *)
AfterStop == "drain"

Stopped ==
  /\ stage = "stopping" /\ at = "idle"
  /\ stage' = AfterStop
  /\ UNCHANGED <<evars, plan, interrupted, expired, tally, outcome, text>>

DrainStops == LimitReached

(* The packet popped when the limit is met is thrown away.                 *)
DrainOne ==
  /\ stage = "drain" /\ queue # <<>>
  /\ IF DrainStops THEN Drain /\ stage' = "write" /\ UNCHANGED seen
     ELSE Analyse /\ UNCHANGED stage
  /\ UNCHANGED <<plan, interrupted, expired, dropped, early, outcome, text>>

Drained ==
  /\ stage = "drain" /\ queue = <<>>
  /\ stage' = "write"
  /\ UNCHANGED <<evars, plan, interrupted, expired, tally, outcome, text>>

---------------------------------------------------------------------------
(* replayFile() asks shouldStop(), which is g_stopRequested, before every  *)
(* read: an interrupt that comes later finds that read under way.          *)
ReplayAsks ==
  /\ stage = "replaying" /\ ~interrupted
  /\ ReplayGoesOn
  /\ UNCHANGED cli

ReplayOne ==
  /\ stage = "replaying"
  /\ ReplayPacket
  /\ seen' = Append(seen, captured')
  /\ UNCHANGED <<stage, plan, interrupted, expired, dropped, early, outcome, text>>

(* The end of the file, or shouldStop().                                   *)
ReplayEnds ==
  /\ stage = "replaying"
  /\ at = "replay" => interrupted
  /\ EndOffline
  /\ stage' = "write"
  /\ UNCHANGED <<plan, interrupted, expired, tally, outcome, text>>

(* The file cannot be opened or decoded, or a read of it fails.            *)
ReplayFails ==
  /\ stage = "replaying"
  /\ AcquireFails \/ (at = "replayRead" /\ EndOffline)
  /\ stage' = "leaving" /\ outcome' = "runtime"
  /\ UNCHANGED <<plan, interrupted, expired, tally, text>>

(* flows() and writeOutput(): a file is opened, standard output is there.  *)
OpenOutput ==
  /\ stage = "write"
  /\ \/ stage' = "insert" /\ UNCHANGED outcome
     \/ plan.output = "file" /\ stage' = "leaving" /\ outcome' = "runtime"
  /\ UNCHANGED <<evars, plan, interrupted, expired, tally, text>>

(* FlowExporter's stream variants: what does not fit into the stream's     *)
(* buffer goes to the device, which may refuse it.                         *)
InsertFlows ==
  /\ stage = "insert"
  /\ text' \in {"buffered", "written", "lost"}
  /\ stage' = IF plan.output = "-" THEN "flush" ELSE "check"
  /\ UNCHANGED <<evars, plan, interrupted, expired, tally, outcome>>

Flushed == IF text = "buffered" THEN {"written", "lost"} ELSE {text}

FlushOutput ==
  /\ stage = "flush" /\ stage' = "check"
  /\ text' \in Flushed
  /\ UNCHANGED <<evars, plan, interrupted, expired, tally, outcome>>

(* good(): false once an insertion or a flush has failed.                  *)
CheckOutput ==
  /\ stage = "check"
  /\ outcome' = IF text = "lost" THEN "runtime" ELSE "success"
  /\ stage' = IF plan.output = "-" THEN "leaving" ELSE "close"
  /\ UNCHANGED <<evars, plan, interrupted, expired, tally, text>>

(* The stream of a file is flushed by its destructor, which tells nobody.  *)
CloseFile ==
  /\ stage = "close" /\ stage' = "leaving"
  /\ text' \in Flushed
  /\ UNCHANGED <<evars, plan, interrupted, expired, tally, outcome>>

(* run() returns and destroys the engine.                                  *)
Leave ==
  /\ stage = "leaving"
  /\ Call("destroy")
  /\ stage' = "exited"
  /\ UNCHANGED <<plan, interrupted, expired, tally, outcome, text>>

---------------------------------------------------------------------------
(* handleInterrupt()                                                       *)
Interrupt ==
  /\ stage # "exited" /\ ~interrupted
  /\ interrupted' = TRUE
  /\ UNCHANGED <<evars, stage, plan, expired, tally, outcome, text>>

DeadlinePasses ==
  /\ stage = "loop" /\ plan.timed /\ ~expired
  /\ expired' = TRUE
  /\ UNCHANGED <<evars, stage, plan, interrupted, tally, outcome, text>>

(* The rest of the engine's operations, on the main thread ...             *)
EngineCall ==
  /\ \/ Join \/ CloseBackend \/ ClearQueue \/ ClearSession \/ StartLive \/ OpenOffline
     \/ ReplayNothing
     \/ (stage = "starting" /\ AcquireFails)
  /\ UNCHANGED cli

(* ... and its capture thread, whose pushes may drop packets.              *)
EngineLoop ==
  /\ LoopStep
  /\ dropped' = dropped + IF loop = "enqueue" THEN Evicted(queue, QueueCap) ELSE 0
  /\ UNCHANGED <<stage, plan, interrupted, expired, seen, early, outcome, text>>

MainStep ==
  \/ Reject \/ Open \/ Started \/ Filtered \/ FilterRefused \/ GaveUp
  \/ LoopAnalyse \/ LoopSleeps \/ LoopEnds \/ Stopped \/ DrainOne \/ Drained
  \/ ReplayAsks \/ ReplayOne \/ ReplayEnds \/ ReplayFails
  \/ OpenOutput \/ InsertFlows \/ FlushOutput \/ CheckOutput \/ CloseFile
  \/ Leave \/ EngineCall

Exited == stage = "exited" /\ at \in {"idle", "gone"} /\ UNCHANGED cvars

CNext == MainStep \/ EngineLoop \/ Interrupt \/ DeadlinePasses \/ Exited

(* The two threads run; the clock reaches the deadline.                    *)
CFairness ==
  WF_cvars(MainStep) /\ WF_cvars(EngineLoop) /\ WF_cvars(DeadlinePasses)

CSpec == CInit /\ [][CNext]_cvars /\ CFairness

---------------------------------------------------------------------------
CTypeOK ==
  /\ TypeOK
  /\ stage \in {"begin", "starting", "filter", "givingUp", "loop", "stopping",
                "drain", "replaying", "write", "insert", "flush", "check",
                "close", "leaving", "exited"}
  /\ plan \in Plans
  /\ interrupted \in BOOLEAN /\ expired \in BOOLEAN
  /\ dropped \in 0 .. MaxPackets /\ early \in 0 .. MaxPackets
  /\ seen \in Seq(1 .. MaxPackets)
  /\ text \in {"none", "buffered", "written", "lost"}
  /\ outcome \in {"none", "success", "usage", "runtime"}

(* The flows that are written stand for every packet of the capture, each  *)
(* analysed once and in capture order, except those the queue reported as  *)
(* dropped, and those past the packet limit, which neither the loop nor    *)
(* the drain after it exceeds; nothing is still arriving.  Success on      *)
(* standard output means that all of it was taken.                         *)
ReportIsComplete ==
  stage = "write" \/ outcome = "success" =>
    /\ loop = "none"
    /\ outcome = "success" /\ plan.output = "-" => text = "written"
    /\ \A i, j \in 1 .. Len(seen) : i < j => seen[i] < seen[j]
    /\ IF LimitReached THEN Len(seen) = plan.limit
       ELSE Len(seen) + dropped = captured

(* A capture that an interrupt, the deadline or the packet limit ends has  *)
(* its output written, whatever the capture thread is doing.  So has a     *)
(* replay that is interrupted, unless a read is under way and fails: then  *)
(* the run ends as one whose file cannot be read.  An interrupted run      *)
(* ends, and so does one with a deadline: the program does not hang.       *)
EndingWrites ==
  /\ \/ stage = "loop" /\ (interrupted \/ expired \/ LimitReached)
     \/ at = "replay" /\ interrupted
     ~> stage = "write"
  /\ at = "replayRead" /\ interrupted
     ~> stage = "write" \/ (stage = "leaving" /\ outcome = "runtime")
  /\ interrupted \/ plan.timed ~> stage = "exited" /\ at \in {"idle", "gone"}

(* "File variants. Return false and set `error` when the destination       *)
(* cannot be opened or the write fails part way through."                  *)
(* (FlowExporter.hpp): a success means that the flows are in the file.     *)
SuccessMeansWritten ==
  stage \in {"leaving", "exited"} /\ outcome = "success" => text = "written"

(* "-f, --filter: BPF capture filter" (README.md): what was analysed       *)
(* passed the filter.                                                      *)
AnalysedPassedFilter ==
  plan.filter # NoFilter => \A i \in 1 .. Len(seen) : seen[i] > early
=============================================================================
