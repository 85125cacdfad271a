---------------------------- MODULE DropOldest ----------------------------
(***************************************************************************)
(* The eviction rule three components of NetProbe share: when a bounded    *)
(* FIFO is full, the oldest element makes room for the new one.            *)
(*   - core::PacketQueue::push             (src/core/PacketQueue.hpp)      *)
(*   - capture::CaptureEngine::retainPacket (src/capture/CaptureEngine.cpp)*)
(*   - the packet history of ui::GuiLayer::processQueue                    *)
(***************************************************************************)
EXTENDS Integers, Sequences

(* Mutant: a full buffer refuses the new one.                              *)
PushEvict_KeepOld(q, e, cap) == IF Len(q) >= cap THEN q ELSE Append(q, e)

(* The sequence q after element e entered it, at most cap elements long.   *)
PushEvict(q, e, cap) == Append(IF Len(q) >= cap THEN Tail(q) ELSE q, e)

(* How many elements that push throws away: 0 or 1.                        *)
Evicted(q, cap) == IF Len(q) >= cap THEN 1 ELSE 0

(* The numbers lo .. hi in increasing order.                               *)
Window(lo, hi) == [i \in 1 .. (hi - lo + 1) |-> lo + i - 1]
===========================================================================
