---------------------------- MODULE PacketQueue ----------------------------
(***************************************************************************)
(* core::PacketQueue (src/core/PacketQueue.hpp): the mutex-protected,      *)
(* bounded, drop-oldest queue between the capture thread and the analysing *)
(* thread.  Every critical section is one action; the condition variable's *)
(* notify_one runs after the lock is released, so it is an action of its   *)
(* own, and a thread blocked in pop() may wake for no reason.              *)
(*                                                                         *)
(* A packet is its number in push order.                                   *)
(***************************************************************************)
EXTENDS DropOldest, FiniteSets

CONSTANTS
  Threads,    (* the threads that use the queue                *)
  MaxSize,    (* m_maxSize: at least 1, see the constructor    *)
  MaxPushed   (* bound: packets pushed in a behaviour          *)

ASSUME MaxSizePositive == MaxSize \in Nat \ {0}
ASSUME MaxPushedNat    == MaxPushed \in Nat
ASSUME ThreadsFinite   == IsFiniteSet(Threads)

VARIABLES
  queue,     (* m_queue                                                    *)
  dropped,   (* m_droppedPackets                                           *)
  pc,        (* where each thread is: outside, before notify_one, blocked  *)
             (* in m_cv.wait, or woken and about to re-check the predicate *)
  pushed,    (* history: packets pushed                                    *)
  taken,     (* history: packets given to a reader                         *)
  cleared,   (* history: packets discarded by clear()                      *)
  got        (* history: the last packet given to a reader, 0 before       *)

vars == <<queue, dropped, pc, pushed, taken, cleared, got>>

Waiting == {t \in Threads : pc[t] = "waiting"}
Woken   == {t \in Threads : pc[t] = "woken"}
Pending == {t \in Threads : pc[t] = "notify"}

Init ==
  /\ queue = <<>>
  /\ dropped = 0
  /\ pc = [t \in Threads |-> "idle"]
  /\ pushed = 0 /\ taken = 0 /\ cleared = 0 /\ got = 0

(* Mutants: notify only on the empty-to-nonempty edge; forget to notify.   *)
AfterPush_OnlyWhenEmpty(t) ==
  IF queue = <<>> THEN [pc EXCEPT ![t] = "notify"] ELSE pc
AfterPush_NoNotify(t) == pc

AfterPush(t) == [pc EXCEPT ![t] = "notify"]

(* The locked block of push(): evict the oldest when full, then enqueue.   *)
Push(t) ==
  /\ pc[t] = "idle"
  /\ pushed < MaxPushed
  /\ queue' = PushEvict(queue, pushed + 1, MaxSize)
  /\ dropped' = dropped + Evicted(queue, MaxSize)
  /\ pushed' = pushed + 1
  /\ pc' = AfterPush(t)
  /\ UNCHANGED <<taken, cleared, got>>

(* m_cv.notify_one(): wakes one blocked thread, if there is one.           *)
NotifyOne(t) ==
  /\ pc[t] = "notify"
  /\ \/ /\ Waiting = {}
        /\ pc' = [pc EXCEPT ![t] = "idle"]
     \/ \E w \in Waiting : pc' = [pc EXCEPT ![t] = "idle", ![w] = "woken"]
  /\ UNCHANGED <<queue, dropped, pushed, taken, cleared, got>>

(* Mutant: the packet is handed out but left in the queue.                 *)
TakeFront_NoPop ==
  /\ queue # <<>>
  /\ queue' = queue
  /\ got' = Head(queue)
  /\ taken' = taken + 1
  /\ UNCHANGED <<dropped, pushed, cleared>>

(* front() and pop() of the underlying queue.                              *)
TakeFront ==
  /\ queue # <<>>
  /\ queue' = Tail(queue)
  /\ got' = Head(queue)
  /\ taken' = taken + 1
  /\ UNCHANGED <<dropped, pushed, cleared>>

(* try_pop(); on an empty queue it returns nullopt and changes nothing.    *)
TryPop(t) ==
  /\ pc[t] = "idle"
  /\ TakeFront
  /\ UNCHANGED pc

(* The predicate loop of m_cv.wait in pop(), entered from the outside or   *)
(* after a wake-up: take a packet, or block and release the lock at once.  *)
Pop(t) ==
  /\ pc[t] \in {"idle", "woken"}
  /\ \/ /\ TakeFront
        /\ pc' = [pc EXCEPT ![t] = "idle"]
     \/ /\ queue = <<>>
        /\ pc' = [pc EXCEPT ![t] = "waiting"]
        /\ UNCHANGED <<queue, dropped, pushed, taken, cleared, got>>

SpuriousWakeup(t) ==
  /\ pc[t] = "waiting"
  /\ pc' = [pc EXCEPT ![t] = "woken"]
  /\ UNCHANGED <<queue, dropped, pushed, taken, cleared, got>>

(* Mutant: clear() also forgets the drops.                                 *)
DroppedAfterClear_Reset == 0

(* clear() swaps the queue away; the drop counter keeps counting.          *)
DroppedAfterClear == dropped

Clear(t) ==
  /\ pc[t] = "idle"
  /\ queue' = <<>>
  /\ dropped' = DroppedAfterClear
  /\ cleared' = cleared + Len(queue)
  /\ UNCHANGED <<pc, pushed, taken, got>>

Next == \E t \in Threads :
  \/ Push(t) \/ NotifyOne(t) \/ TryPop(t) \/ Pop(t) \/ SpuriousWakeup(t)
  \/ Clear(t)

(* A thread inside push() or woken inside pop() keeps running: neither     *)
(* waits for anything but the short critical sections.  Nothing obliges a  *)
(* thread to call push, pop, try_pop or clear.                             *)
Fairness == \A t \in Threads :
  WF_vars(NotifyOne(t)) /\ WF_vars(pc[t] = "woken" /\ Pop(t))

Spec == Init /\ [][Next]_vars /\ Fairness

---------------------------------------------------------------------------
(* Types; the queue never outgrows its capacity.                           *)
TypeOK ==
  /\ queue \in Seq(1 .. MaxPushed) /\ Len(queue) <= MaxSize
  /\ dropped \in Nat /\ taken \in Nat /\ cleared \in Nat
  /\ pc \in [Threads -> {"idle", "notify", "waiting", "woken"}]
  /\ pushed \in 0 .. MaxPushed
  /\ got \in 0 .. MaxPushed

(* The queue always holds the most recent packets, in push order and       *)
(* without a gap: an eviction, a clear or a read removes only from the old *)
(* end.                                                                    *)
QueueIsRecentWindow == queue = Window(pushed - Len(queue) + 1, pushed)

(* Every packet pushed is accounted for exactly once, so droppedPackets(), *)
(* which the UI shows, is the number of packets the reader never saw       *)
(* because of overruns: neither clear() nor a read is counted as a drop.   *)
EveryPacketAccounted == pushed = taken + dropped + cleared + Len(queue)

(* No wake-up is lost although notify_one runs after the unlock: as long   *)
(* as some thread is blocked in pop(), every packet in the queue has a     *)
(* thread about to notify or to re-check the predicate.                    *)
NoLostWakeup ==
  Waiting # {} => Len(queue) <= Cardinality(Pending) + Cardinality(Woken)

(* A reader never sees a packet twice, or an older one after a newer one.  *)
ReadsInOrder == [][taken' # taken => got' > got]_vars

(* Threads blocked in pop() do not sleep on packets: the queue is drained  *)
(* or nobody is blocked any more.                                          *)
BlockedReadersAreServed ==
  (queue # <<>> /\ Waiting # {}) ~> (queue = <<>> \/ Waiting = {})

(* The number of the next packet a reader gets.                            *)
First == IF queue = <<>> THEN pushed + 1 ELSE Head(queue)

Recent == INSTANCE RecentWindow WITH
  Capacity <- MaxSize, first <- First, lost <- dropped

(* The queue implements the window of recent packets: a push loses at most *)
(* the oldest packet and only when full, a read gets the oldest.           *)

ImplementsRecentWindow == Recent!Spec
===========================================================================
