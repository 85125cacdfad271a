----------------------- MODULE QueueAndTracker_proofs -----------------------
(***************************************************************************)
(* The two components that keep a bounded number of things, whatever is    *)
(* given to them in whatever order, and what may be lost of it.            *)
(*                                                                         *)
(* PacketQueue, for every capacity, every finite set of threads and every  *)
(* number of packets: the queue is the most recent window of what was      *)
(* pushed, what fell out is counted, and no wakeup is lost.                *)
(*                                                                         *)
(* QuicTracker reads names only from bytes that arrived, gives every name  *)
(* as soon as it can be read, and forgets a connection only for cause: for *)
(* any ClientHellos, fragments in any order and number, holes, table size  *)
(* and stream limit.                                                       *)
(***************************************************************************)
EXTENDS PacketQueue, QuicTracker, SharedLemmas

---------------------------------------------------------------------------
(* PacketQueue.                                                            *)

(* Element by element, what QueueIsRecentWindow says of the queue.         *)
Numbered == \A i \in 1 .. Len(queue) : queue[i] = pushed - Len(queue) + i

(* The last packet read is older than everything in the queue.             *)
ReadIsOlder == got <= pushed - Len(queue)

(* The inductive invariant.                                                *)
QueueInv ==
  TypeOK /\ Numbered /\ ReadIsOlder /\ EveryPacketAccounted /\ NoLostWakeup

LEMMA NumberedIsWindow ==
  ASSUME TypeOK
  PROVE  Numbered <=> QueueIsRecentWindow
<1> DEFINE w == Window(pushed - Len(queue) + 1, pushed)
<1>1. Len(queue) \in Nat /\ pushed \in Int /\ queue \in Seq(1 .. MaxPushed)
  BY MaxPushedNat, LenProperties DEF TypeOK
<1>2. pushed - (pushed - Len(queue) + 1) + 1 = Len(queue)
  BY <1>1
<1>3. w = [i \in 1 .. Len(queue) |-> pushed - Len(queue) + 1 + i - 1]
  BY <1>2 DEF Window
<1>4. \A i \in 1 .. Len(queue) : w[i] = pushed - Len(queue) + i
  BY <1>1, <1>3
<1>5. queue = [i \in 1 .. Len(queue) |-> queue[i]]
  BY <1>1, LenProperties
<1>6. QueueIsRecentWindow => Numbered
  BY <1>4 DEF QueueIsRecentWindow, Numbered
<1>7. ASSUME Numbered PROVE QueueIsRecentWindow
  <2>1. \A i \in 1 .. Len(queue) : queue[i] = pushed - Len(queue) + 1 + i - 1
    BY <1>1, <1>7 DEF Numbered
  <2>2. queue = [i \in 1 .. Len(queue) |-> pushed - Len(queue) + 1 + i - 1]
    BY <1>5, <2>1
  <2>. QED
    BY <1>3, <2>2 DEF QueueIsRecentWindow
<1>. QED
  BY <1>6, <1>7

(* A push leaves the queue numbered, for the new count.                    *)
LEMMA PushQueue ==
  ASSUME QueueInv, NEW t \in Threads, Push(t)
  PROVE  /\ queue' \in Seq(1 .. MaxPushed) /\ Len(queue') \in 1 .. MaxSize
         /\ Len(queue') = Len(queue) + 1 - Evicted(queue, MaxSize)
         /\ Evicted(queue, MaxSize) \in {0, 1}
         /\ Numbered'
<1>1. /\ queue \in Seq(1 .. MaxPushed) /\ Len(queue) <= MaxSize /\ pushed \in Nat
      /\ pushed + 1 \in 1 .. MaxPushed /\ pushed' = pushed + 1
      /\ queue' = PushEvict(queue, pushed + 1, MaxSize)
  BY MaxPushedNat DEF QueueInv, TypeOK, Push
<1>2. Len(queue) \in Nat
  BY <1>1, LenProperties
<1>3. /\ queue' \in Seq(1 .. MaxPushed)
      /\ Len(queue') = Len(queue) + 1 - Evicted(queue, MaxSize)
      /\ Len(queue') \in 1 .. MaxSize
      /\ queue'[Len(queue')] = pushed + 1
      /\ \A i \in 1 .. Len(queue') - 1 : queue'[i] = queue[i + Evicted(queue, MaxSize)]
  <2> DEFINE S == 1 .. MaxPushed
             e == pushed + 1
  <2>0. queue \in Seq(S) /\ e \in S /\ Len(queue) <= MaxSize
    BY <1>1
  <2> HIDE DEF S, e
  <2>1. LET r == PushEvict(queue, e, MaxSize)
        IN  /\ r \in Seq(S)
            /\ Len(r) = Len(queue) + 1 - Evicted(queue, MaxSize)
            /\ Len(r) \in 1 .. MaxSize
            /\ r[Len(r)] = e
            /\ \A i \in 1 .. Len(r) - 1 : r[i] = queue[i + Evicted(queue, MaxSize)]
    BY <2>0, MaxSizePositive, PushEvictProperties
  <2>. QED
    BY <1>1, <2>1 DEF S, e
<1>4. Evicted(queue, MaxSize) \in {0, 1}
  BY DEF Evicted
<1>5. ASSUME NEW i \in 1 .. Len(queue')
      PROVE  queue'[i] = pushed' - Len(queue') + i
  <2>1. CASE i = Len(queue')
    BY <1>1, <1>2, <1>3, <2>1, MaxSizePositive
  <2>2. CASE i # Len(queue')
    <3>1. i \in 1 .. Len(queue') - 1 /\ i + Evicted(queue, MaxSize) \in 1 .. Len(queue)
      BY <1>2, <1>3, <1>4, <2>2, MaxSizePositive
    <3>2. queue[i + Evicted(queue, MaxSize)]
            = pushed - Len(queue) + (i + Evicted(queue, MaxSize))
      BY <3>1 DEF QueueInv, Numbered
    <3>. QED
      BY <1>1, <1>2, <1>3, <1>4, <3>1, <3>2, SMTT(30)
  <2>. QED
    BY <2>1, <2>2
<1>. QED
  BY <1>3, <1>4, <1>5 DEF Numbered

(* Taking the front keeps the queue numbered and the reads in order.       *)
LEMMA TakeQueue ==
  ASSUME QueueInv, TakeFront
  PROVE  /\ queue' \in Seq(1 .. MaxPushed)
         /\ Len(queue) \in Nat \ {0} /\ Len(queue') = Len(queue) - 1
         /\ got' = pushed - Len(queue) + 1 /\ got' \in 1 .. MaxPushed
         /\ Numbered' /\ ReadIsOlder'
<1>1. /\ queue \in Seq(1 .. MaxPushed) /\ queue # <<>> /\ queue' = Tail(queue)
      /\ pushed' = pushed /\ got' = Head(queue) /\ pushed \in Nat
  BY MaxPushedNat DEF QueueInv, TypeOK, TakeFront
<1>2. /\ Len(queue) \in Nat \ {0}
      /\ Tail(queue) \in Seq(1 .. MaxPushed) /\ Len(Tail(queue)) = Len(queue) - 1
      /\ \A i \in 1 .. Len(Tail(queue)) : Tail(queue)[i] = queue[i + 1]
      /\ Head(queue) = queue[1] /\ Head(queue) \in 1 .. MaxPushed
  <2>1. Len(queue) \in Nat \ {0}
    BY <1>1, EmptySeq
  <2>2. /\ Head(queue) \in 1 .. MaxPushed
        /\ Tail(queue) \in Seq(1 .. MaxPushed) /\ Len(Tail(queue)) = Len(queue) - 1
        /\ \A i \in 1 .. Len(Tail(queue)) : Tail(queue)[i] = queue[i + 1]
    BY <1>1, HeadTailProperties
  <2>3. Head(queue) = queue[1]
    BY <1>1
  <2>. QED
    BY <2>1, <2>2, <2>3
<1>3. queue[1] = pushed - Len(queue) + 1
  BY <1>2 DEF QueueInv, Numbered
<1>4. ASSUME NEW i \in 1 .. Len(queue')
      PROVE  queue'[i] = pushed' - Len(queue') + i
  <2>1. i + 1 \in 1 .. Len(queue)
    BY <1>1, <1>2
  <2>2. queue[i + 1] = pushed - Len(queue) + (i + 1)
    BY <2>1 DEF QueueInv, Numbered
  <2>. QED
    BY <1>1, <1>2, <2>2
<1>. QED
  BY <1>1, <1>2, <1>3, <1>4 DEF Numbered, ReadIsOlder

LEMMA ThreadSets ==
  /\ IsFiniteSet(Waiting) /\ IsFiniteSet(Woken) /\ IsFiniteSet(Pending)
  /\ Cardinality(Woken) \in Nat /\ Cardinality(Pending) \in Nat
<1>1. Waiting \in SUBSET Threads /\ Woken \in SUBSET Threads
      /\ Pending \in SUBSET Threads
  BY DEF Waiting, Woken, Pending
<1>. QED
  BY <1>1, ThreadsFinite, FS_Subset, FS_CardinalityType

---------------------------------------------------------------------------
LEMMA InitQueueInv == Init => QueueInv
<1> SUFFICES ASSUME Init PROVE QueueInv
  OBVIOUS
<1>1. TypeOK
  BY MaxPushedNat, MaxSizePositive DEF Init, TypeOK
<1>2. Numbered /\ ReadIsOlder /\ EveryPacketAccounted
  BY DEF Init, Numbered, ReadIsOlder, EveryPacketAccounted
<1>3. Waiting = {}
  BY DEF Init, Waiting
<1>. QED
  BY <1>1, <1>2, <1>3 DEF QueueInv, NoLostWakeup

LEMMA PushStep ==
  ASSUME QueueInv, NEW t \in Threads, Push(t)
  PROVE  QueueInv'
<1>1. /\ pc \in [Threads -> {"idle", "notify", "waiting", "woken"}]
      /\ pc[t] = "idle" /\ pc' = [pc EXCEPT ![t] = "notify"]
      /\ pushed \in Nat /\ pushed' = pushed + 1 /\ pushed' \in 0 .. MaxPushed
      /\ dropped \in Nat /\ dropped' = dropped + Evicted(queue, MaxSize)
      /\ taken \in Nat /\ cleared \in Nat /\ got \in 0 .. MaxPushed
      /\ UNCHANGED <<taken, cleared, got>>
      /\ queue \in Seq(1 .. MaxPushed)
  BY MaxPushedNat DEF QueueInv, TypeOK, Push, AfterPush
<1>2. Len(queue) \in Nat /\ Len(queue') \in Nat
  BY <1>1, PushQueue, MaxSizePositive, LenProperties
<1>3. TypeOK'
  BY <1>1, PushQueue, MaxSizePositive DEF TypeOK
<1>4. ReadIsOlder' /\ EveryPacketAccounted'
  <2>1. /\ Len(queue') = Len(queue) + 1 - Evicted(queue, MaxSize)
        /\ Evicted(queue, MaxSize) \in {0, 1}
    BY PushQueue
  <2>2. got <= pushed - Len(queue) /\ pushed = taken + dropped + cleared + Len(queue)
    BY DEF QueueInv, ReadIsOlder, EveryPacketAccounted
  <2>3. got \in Int
    BY <1>1, MaxPushedNat
  <2>4. got' <= pushed' - Len(queue')
    BY <1>1, <1>2, <2>1, <2>2, <2>3
  <2>5. pushed' = taken' + dropped' + cleared' + Len(queue')
    BY <1>1, <1>2, <2>1, <2>2, SMTT(30)
  <2>. QED
    BY <2>4, <2>5 DEF ReadIsOlder, EveryPacketAccounted
<1>5. NoLostWakeup'
  <2>1. Waiting' = Waiting /\ Woken' = Woken /\ Pending' = Pending \cup {t}
        /\ t \notin Pending
    BY <1>1 DEF Waiting, Woken, Pending
  <2>2. Cardinality(Pending') = Cardinality(Pending) + 1
    BY <2>1, ThreadSets, FS_AddElement
  <2>. QED
    BY <1>2, <2>1, <2>2, ThreadSets, PushQueue DEF QueueInv, NoLostWakeup
<1>. QED
  BY <1>3, <1>4, <1>5, PushQueue DEF QueueInv

LEMMA NotifyStep ==
  ASSUME QueueInv, NEW t \in Threads, NotifyOne(t)
  PROVE  QueueInv'
<1>1. /\ pc \in [Threads -> {"idle", "notify", "waiting", "woken"}]
      /\ pc[t] = "notify"
      /\ UNCHANGED <<queue, dropped, pushed, taken, cleared, got>>
  BY DEF QueueInv, TypeOK, NotifyOne
<1>2. Numbered' /\ ReadIsOlder' /\ EveryPacketAccounted'
  BY <1>1 DEF QueueInv, Numbered, ReadIsOlder, EveryPacketAccounted
<1>3. CASE Waiting = {} /\ pc' = [pc EXCEPT ![t] = "idle"]
  <2>1. TypeOK'
    BY <1>1, <1>3 DEF QueueInv, TypeOK
  <2>2. Waiting' = {}
    BY <1>1, <1>3 DEF Waiting
  <2>. QED
    BY <1>2, <2>1, <2>2 DEF QueueInv, NoLostWakeup
<1>4. ASSUME NEW w \in Waiting, pc' = [pc EXCEPT ![t] = "idle", ![w] = "woken"]
      PROVE  QueueInv'
  <2>1. TypeOK'
    BY <1>1, <1>4 DEF QueueInv, TypeOK, Waiting
  <2>2. /\ Pending' = Pending \ {t} /\ t \in Pending
        /\ Woken' = Woken \cup {w} /\ w \notin Woken
    BY <1>1, <1>4 DEF Waiting, Woken, Pending
  <2>3. /\ Cardinality(Pending') = Cardinality(Pending) - 1
        /\ Cardinality(Woken') = Cardinality(Woken) + 1
    BY <2>2, ThreadSets, FS_AddElement, FS_RemoveElement
  <2>4. Len(queue) <= Cardinality(Pending) + Cardinality(Woken)
    BY <1>4 DEF QueueInv, NoLostWakeup
  <2>5. NoLostWakeup'
    BY <1>1, <2>3, <2>4, ThreadSets DEF NoLostWakeup
  <2>. QED
    BY <1>2, <2>1, <2>5 DEF QueueInv
<1>. QED
  BY <1>3, <1>4 DEF NotifyOne

(* Common to try_pop() and pop(): everything but the threads.              *)
LEMMA TakeStep ==
  ASSUME QueueInv, TakeFront
  PROVE  /\ Numbered' /\ ReadIsOlder' /\ EveryPacketAccounted'
         /\ pc' \in [Threads -> {"idle", "notify", "waiting", "woken"}] => TypeOK'
<1>1. /\ UNCHANGED <<dropped, pushed, cleared>> /\ taken' = taken + 1
      /\ pushed \in 0 .. MaxPushed
      /\ dropped \in Nat /\ taken \in Nat /\ cleared \in Nat
      /\ Len(queue) <= MaxSize
  BY DEF QueueInv, TypeOK, TakeFront
<1>2. EveryPacketAccounted'
  BY <1>1, TakeQueue, MaxPushedNat DEF QueueInv, EveryPacketAccounted
<1>3. ASSUME pc' \in [Threads -> {"idle", "notify", "waiting", "woken"}]
      PROVE  TypeOK'
  BY <1>1, <1>3, TakeQueue, MaxSizePositive DEF TypeOK
<1>. QED
  BY <1>2, <1>3, TakeQueue

LEMMA TryPopStep ==
  ASSUME QueueInv, NEW t \in Threads, TryPop(t)
  PROVE  QueueInv'
<1>1. TakeFront /\ pc' = pc
  BY DEF TryPop
<1>2. Waiting' = Waiting /\ Woken' = Woken /\ Pending' = Pending
  BY <1>1 DEF Waiting, Woken, Pending
<1>3. NoLostWakeup'
  BY <1>1, <1>2, TakeQueue, ThreadSets DEF QueueInv, NoLostWakeup
<1>. QED
  BY <1>1, <1>3, TakeStep DEF QueueInv, TypeOK

LEMMA PopStep ==
  ASSUME QueueInv, NEW t \in Threads, Pop(t)
  PROVE  QueueInv'
<1>1. /\ pc \in [Threads -> {"idle", "notify", "waiting", "woken"}]
      /\ pc[t] \in {"idle", "woken"}
  BY DEF QueueInv, TypeOK, Pop
<1>2. CASE TakeFront /\ pc' = [pc EXCEPT ![t] = "idle"]
  <2>1. TypeOK' /\ Numbered' /\ ReadIsOlder' /\ EveryPacketAccounted'
    BY <1>1, <1>2, TakeStep
  <2>2. /\ Waiting' = Waiting /\ Pending' = Pending
        /\ Woken' = Woken \ {t}
    BY <1>1, <1>2 DEF Waiting, Woken, Pending
  <2>3. Cardinality(Woken') >= Cardinality(Woken) - 1
    <3>1. Cardinality(Woken \ {t})
            = IF t \in Woken THEN Cardinality(Woken) - 1 ELSE Cardinality(Woken)
      BY ThreadSets, FS_RemoveElement
    <3>. QED
      BY <2>2, <3>1, ThreadSets
  <2>4. Cardinality(Woken') \in Nat
    BY <2>2, ThreadSets, FS_RemoveElement, FS_CardinalityType
  <2>5. NoLostWakeup'
    BY <1>2, <2>2, <2>3, <2>4, TakeQueue, ThreadSets DEF QueueInv, NoLostWakeup
  <2>. QED
    BY <2>1, <2>5 DEF QueueInv
<1>3. CASE /\ queue = <<>> /\ pc' = [pc EXCEPT ![t] = "waiting"]
           /\ UNCHANGED <<queue, dropped, pushed, taken, cleared, got>>
  <2>1. TypeOK' /\ Numbered' /\ ReadIsOlder' /\ EveryPacketAccounted'
    BY <1>1, <1>3 DEF QueueInv, TypeOK, Numbered, ReadIsOlder, EveryPacketAccounted
  <2>2. IsFiniteSet(Pending') /\ IsFiniteSet(Woken')
    <3>1. Pending' \in SUBSET Threads /\ Woken' \in SUBSET Threads
      BY DEF Pending, Woken
    <3>. QED
      BY <3>1, ThreadsFinite, FS_Subset
  <2>3. Cardinality(Pending') \in Nat /\ Cardinality(Woken') \in Nat
    BY <2>2, FS_CardinalityType
  <2>4. Len(queue') = 0
    BY <1>3
  <2>. QED
    BY <2>1, <2>3, <2>4 DEF QueueInv, NoLostWakeup
<1>. QED
  BY <1>2, <1>3 DEF Pop

LEMMA SpuriousStep ==
  ASSUME QueueInv, NEW t \in Threads, SpuriousWakeup(t)
  PROVE  QueueInv'
<1>1. /\ pc \in [Threads -> {"idle", "notify", "waiting", "woken"}]
      /\ pc[t] = "waiting" /\ pc' = [pc EXCEPT ![t] = "woken"]
      /\ UNCHANGED <<queue, dropped, pushed, taken, cleared, got>>
  BY DEF QueueInv, TypeOK, SpuriousWakeup
<1>2. TypeOK' /\ Numbered' /\ ReadIsOlder' /\ EveryPacketAccounted'
  BY <1>1 DEF QueueInv, TypeOK, Numbered, ReadIsOlder, EveryPacketAccounted
<1>3. /\ Pending' = Pending /\ Woken' = Woken \cup {t} /\ t \notin Woken
      /\ t \in Waiting
  BY <1>1 DEF Waiting, Woken, Pending
<1>4. Cardinality(Woken') = Cardinality(Woken) + 1
  BY <1>3, ThreadSets, FS_AddElement
<1>5. Len(queue) <= Cardinality(Pending) + Cardinality(Woken)
  BY <1>3 DEF QueueInv, NoLostWakeup
<1>6. Len(queue) \in Nat
  BY LenProperties DEF QueueInv, TypeOK
<1>. QED
  BY <1>1, <1>2, <1>3, <1>4, <1>5, <1>6, ThreadSets DEF QueueInv, NoLostWakeup

LEMMA ClearStep ==
  ASSUME QueueInv, NEW t \in Threads, Clear(t)
  PROVE  QueueInv'
<1>1. /\ queue' = <<>> /\ cleared' = cleared + Len(queue)
      /\ UNCHANGED <<dropped, pc, pushed, taken, got>>
      /\ queue \in Seq(1 .. MaxPushed)
      /\ dropped \in Nat /\ taken \in Nat /\ cleared \in Nat
      /\ pushed \in 0 .. MaxPushed /\ got \in 0 .. MaxPushed
  BY DEF QueueInv, TypeOK, Clear, DroppedAfterClear
<1>2. Len(queue) \in Nat /\ Len(queue') = 0
  BY <1>1, LenProperties
<1>3. TypeOK'
  BY <1>1, <1>2, MaxSizePositive DEF QueueInv, TypeOK
<1>4. Numbered' /\ ReadIsOlder' /\ EveryPacketAccounted'
  BY <1>1, <1>2, MaxPushedNat
     DEF QueueInv, Numbered, ReadIsOlder, EveryPacketAccounted
<1>5. Woken' = Woken /\ Pending' = Pending
  BY <1>1 DEF Woken, Pending
<1>. QED
  BY <1>2, <1>3, <1>4, <1>5, ThreadSets DEF QueueInv, NoLostWakeup

LEMMA StepQueueInv == QueueInv /\ [Next]_vars => QueueInv'
<1> SUFFICES ASSUME QueueInv, [Next]_vars PROVE QueueInv'
  OBVIOUS
<1>1. ASSUME NEW t \in Threads,
             \/ Push(t) \/ NotifyOne(t) \/ TryPop(t) \/ Pop(t)
             \/ SpuriousWakeup(t) \/ Clear(t)
      PROVE  QueueInv'
  BY <1>1, PushStep, NotifyStep, TryPopStep, PopStep, SpuriousStep, ClearStep
<1>2. CASE UNCHANGED vars
  BY <1>2 DEF vars, QueueInv, TypeOK, Numbered, ReadIsOlder, EveryPacketAccounted,
              NoLostWakeup, Waiting, Woken, Pending
<1>. QED
  BY <1>1, <1>2 DEF Next

LEMMA QueueInductive == Spec => []QueueInv
  BY InitQueueInv, StepQueueInv, PTL DEF Spec

---------------------------------------------------------------------------
(* The queue always holds the most recent packets, gap-free, in order, and *)
(* never more than m_maxSize of them (PacketQueue::push, try_pop, clear).  *)
THEOREM QueueCorrect == Spec => [](TypeOK /\ QueueIsRecentWindow)
<1>1. QueueInv => TypeOK /\ QueueIsRecentWindow
  BY NumberedIsWindow DEF QueueInv
<1>. QED
  BY <1>1, QueueInductive, PTL

(* droppedPackets() is exactly what the readers missed through overruns.   *)
THEOREM DropsAreExact == Spec => []EveryPacketAccounted
<1>1. QueueInv => EveryPacketAccounted
  BY DEF QueueInv
<1>. QED
  BY <1>1, QueueInductive, PTL

(* Notifying after the unlock loses no wake-up.                            *)
THEOREM WakeupsAreKept == Spec => []NoLostWakeup
<1>1. QueueInv => NoLostWakeup
  BY DEF QueueInv
<1>. QED
  BY <1>1, QueueInductive, PTL

(* Reads are strictly in push order.                                       *)
THEOREM ReadersSeeOrder == Spec => ReadsInOrder
<1>1. ASSUME QueueInv, [Next]_vars
      PROVE  [taken' # taken => got' > got]_vars
  <2>1. CASE TakeFront
    <3>1. got \in Int /\ pushed \in Int
      BY <1>1, MaxPushedNat DEF QueueInv, TypeOK
    <3>. QED
      BY <1>1, <2>1, <3>1, TakeQueue DEF QueueInv, ReadIsOlder
  <2>2. CASE ~TakeFront
    <3>1. taken' = taken
      BY <1>1, <2>2
         DEF Next, vars, Push, NotifyOne, TryPop, Pop, SpuriousWakeup, Clear
    <3>. QED
      BY <3>1
  <2>. QED
    BY <2>1, <2>2
<1>. QED
  BY <1>1, QueueInductive, PTL DEF Spec, ReadsInOrder

---------------------------------------------------------------------------
(* The refinement: the abstract window begins at the oldest queued packet. *)
FirstKnown ==
  First = pushed - Len(queue) + 1 /\ Len(queue) \in Nat /\ pushed \in Nat

LEMMA FirstIsOldest == QueueInv => FirstKnown
<1> SUFFICES ASSUME QueueInv PROVE FirstKnown
  OBVIOUS
<1> USE DEF FirstKnown
<1>1. queue \in Seq(1 .. MaxPushed) /\ pushed \in Nat
  BY MaxPushedNat DEF QueueInv, TypeOK
<1>2. CASE queue = <<>>
  BY <1>1, <1>2 DEF First
<1>3. CASE queue # <<>>
  <2>1. Len(queue) \in Nat \ {0}
    BY <1>1, <1>3, EmptySeq
  <2>2. queue[1] = pushed - Len(queue) + 1
    BY <2>1 DEF QueueInv, Numbered
  <2>3. Head(queue) = queue[1]
    BY <1>1, <1>3
  <2>. QED
    BY <1>1, <1>3, <2>1, <2>2, <2>3 DEF First
<1>. QED
  BY <1>2, <1>3

LEMMA StepRefines ==
  ASSUME QueueInv, FirstKnown', [Next]_vars
  PROVE  [Recent!Next]_(Recent!wvars)
<1> USE DEF FirstKnown
<1>1. First = pushed - Len(queue) + 1 /\ Len(queue) \in Nat /\ pushed \in Nat
      /\ Len(queue) <= MaxSize
  BY FirstIsOldest DEF QueueInv, TypeOK
<1>2. ASSUME NEW t \in Threads, Push(t)
      PROVE  Recent!Push
  <2>1. /\ pushed' = pushed + 1 /\ dropped' = dropped + Evicted(queue, MaxSize)
        /\ Len(queue') = Len(queue) + 1 - Evicted(queue, MaxSize)
        /\ dropped \in Nat
    BY <1>2, PushQueue DEF Push, QueueInv, TypeOK
  <2>2. CASE Len(queue) < MaxSize
    <3>1. Evicted(queue, MaxSize) = 0
      BY <1>1, <2>2, MaxSizePositive DEF Evicted
    <3>. QED
      BY <1>1, <2>1, <2>2, <3>1, MaxSizePositive DEF Recent!Push, Recent!Holds
  <2>3. CASE Len(queue) = MaxSize
    <3>1. Evicted(queue, MaxSize) = 1
      BY <1>1, <2>3, MaxSizePositive DEF Evicted
    <3>. QED
      BY <1>1, <2>1, <2>3, <3>1, MaxSizePositive DEF Recent!Push, Recent!Holds
  <2>. QED
    BY <1>1, <2>2, <2>3, MaxSizePositive
<1>3. ASSUME TakeFront
      PROVE  Recent!Take
  <2>1. /\ Len(queue) \in Nat \ {0} /\ Len(queue') = Len(queue) - 1
        /\ UNCHANGED <<dropped, pushed>>
    BY <1>3, TakeQueue DEF TakeFront
  <2>. QED
    BY <1>1, <2>1 DEF Recent!Take, Recent!Holds
<1>4. ASSUME NEW t \in Threads, Clear(t)
      PROVE  Recent!Clear
  BY <1>4 DEF Clear, DroppedAfterClear, First, Recent!Clear
<1>5. CASE UNCHANGED <<queue, dropped, pushed>>
  BY <1>5 DEF First, Recent!wvars
<1>6. ASSUME NEW t \in Threads,
             \/ Push(t) \/ NotifyOne(t) \/ TryPop(t) \/ Pop(t)
             \/ SpuriousWakeup(t) \/ Clear(t)
      PROVE  Recent!Next \/ UNCHANGED <<queue, dropped, pushed>>
  BY <1>2, <1>3, <1>4, <1>6
     DEF NotifyOne, TryPop, Pop, SpuriousWakeup, Recent!Next
<1>7. CASE UNCHANGED vars
  BY <1>5, <1>7 DEF vars
<1>. QED
  BY <1>5, <1>6, <1>7 DEF Next

(* Every behaviour of the queue, threads and wake-ups included, is one of  *)
(* the abstract drop-oldest window.                                        *)
THEOREM QueueRefinesWindow == Spec => ImplementsRecentWindow
<1>1. Init => Recent!Init
  BY DEF Init, Recent!Init, First
<1>2. QueueInv /\ FirstKnown' /\ [Next]_vars => [Recent!Next]_(Recent!wvars)
  BY StepRefines
<1>. QED
  BY <1>1, <1>2, FirstIsOldest, QueueInductive, PTL
     DEF Spec, ImplementsRecentWindow, Recent!Spec

---------------------------------------------------------------------------
(* QuicTracker.                                                            *)

(* Counting an initial segment of the numbers.                             *)

LEMMA Below ==
  ASSUME NEW n \in Nat
  PROVE  IsFiniteSet(0 .. n - 1) /\ Cardinality(0 .. n - 1) = n
<1>1. 0 \in Int /\ n - 1 \in Int
  OBVIOUS
<1>2. /\ IsFiniteSet(0 .. n - 1)
      /\ Cardinality(0 .. n - 1) = IF 0 > n - 1 THEN 0 ELSE (n - 1) - 0 + 1
  BY ONLY <1>1, FS_Interval
<1>. QED
  BY <1>2

(* A bounded set that has all the predecessors of its elements is the      *)
(* numbers below its size.                                                 *)
LEMMA DownClosed ==
  ASSUME NEW D \in SUBSET Nat, NEW m \in Nat, D \subseteq 0 .. m - 1,
         \A u \in D : 0 .. u \subseteq D
  PROVE  Cardinality(D) \in Nat /\ D = 0 .. Cardinality(D) - 1
<1> DEFINE n == Cardinality(D)
<1>1. IsFiniteSet(D) /\ n \in Nat
  BY Below, FS_Subset, FS_CardinalityType
<1>2. ASSUME NEW u \in D PROVE u < n
  <2>1. u \in Nat /\ u + 1 \in Nat /\ 0 .. (u + 1) - 1 \in SUBSET D
    OBVIOUS
  <2>2. Cardinality(0 .. (u + 1) - 1) <= n
    BY <1>1, <2>1, FS_Subset
  <2>. QED
    BY <1>1, <2>1, <2>2, Below
<1>3. ASSUME NEW u \in Nat, u \notin D PROVE n <= u
  <2>1. D \in SUBSET (0 .. u - 1)
    <3>1. ASSUME NEW v \in D PROVE v \in 0 .. u - 1
      BY <1>3
    <3>. QED
      BY <3>1
  <2>2. IsFiniteSet(0 .. u - 1) /\ Cardinality(0 .. u - 1) = u
    BY Below
  <2>. QED
    BY <2>1, <2>2, FS_Subset, ZenonT(60)
<1> HIDE DEF n
<1>4. \A u : u \in D <=> u \in 0 .. n - 1
  <2>1. ASSUME NEW u, u \in D PROVE u \in 0 .. n - 1
    BY <1>1, <1>2, <2>1
  <2>2. ASSUME NEW u, u \in 0 .. n - 1 PROVE u \in D
    <3>1. u \in Nat /\ ~(n <= u)
      BY <1>1, <2>2
    <3>. QED
      BY <1>3, <3>1
  <2>. QED
    BY <2>1, <2>2
<1>. QED
  BY <1>1, <1>4 DEF n

(* The fragments of a packet lie below the end it reaches.                 *)
LEMMA PacketExtent ==
  ASSUME NEW p \in Packets
  PROVE  End(p) \in Nat /\ Units(p) \subseteq 0 .. End(p) - 1
<1> DEFINE D == UNION {0 .. f.offset + f.len - 1 : f \in p.crypto}
<1>1. /\ p.conn \in Conns /\ Needed[p.conn] \in Nat
      /\ \A f \in p.crypto : /\ f.offset \in Nat /\ f.len \in Nat
                             /\ f.offset + f.len <= Needed[p.conn]
  BY PacketsAssumption, HellosAssumption DEF Fragment
<1>2. D \in SUBSET Nat /\ D \subseteq 0 .. Needed[p.conn] - 1 /\ \A u \in D : 0 .. u \subseteq D
  BY <1>1
<1>3. Units(p) \subseteq D
  BY <1>1 DEF Units
<1>4. End(p) = Cardinality(D)
  BY DEF End
<1> HIDE DEF D
<1>. QED
  BY <1>1, <1>2, <1>3, <1>4, DownClosed

---------------------------------------------------------------------------
(* An entry's stream is as long as its size says, and what is present in   *)
(* it was sent.                                                            *)
Sound(e) ==
  /\ Size(e.stream) \in Nat
  /\ DOMAIN e.stream = 0 .. Size(e.stream) - 1
  /\ e.present \subseteq DOMAIN e.stream
  /\ \A u \in e.present : e.stream[u] = Sent

(* The prefix that can be parsed ends at the first unit that is missing.   *)
LEMMA PrefixIsPresent ==
  ASSUME NEW e, Sound(e)
  PROVE  /\ ContiguousPrefix(e) \in Nat
         /\ \A u \in Nat : u < ContiguousPrefix(e) <=> 0 .. u \subseteq e.present
<1> DEFINE D == {u \in e.present : 0 .. u \subseteq e.present}
<1>1. e.present \subseteq 0 .. Size(e.stream) - 1 /\ Size(e.stream) \in Nat
  BY DEF Sound
<1>2. D \in SUBSET Nat /\ D \subseteq 0 .. Size(e.stream) - 1 /\ \A u \in D : 0 .. u \subseteq D
  BY <1>1
<1>3. Cardinality(D) \in Nat /\ D = 0 .. Cardinality(D) - 1
  <2> HIDE DEF D
  <2>. QED
    BY <1>1, <1>2, DownClosed
<1>4. ContiguousPrefix(e) = Cardinality(D)
  BY DEF ContiguousPrefix
<1>5. \A u \in Nat : u \in D <=> 0 .. u \subseteq e.present
  OBVIOUS
<1> HIDE DEF D
<1>. QED
  BY <1>3, <1>4, <1>5

LEMMA FilledSound ==
  ASSUME NEW e, Sound(e), NEW p \in Packets, NEW t
  PROVE  /\ Sound(Filled(e, p, t))
         /\ Size(Filled(e, p, t).stream) = Larger(Size(e.stream), End(p))
         /\ Filled(e, p, t).present = e.present \union Units(p)
         /\ Filled(e, p, t).lastSeen = t
<1> DEFINE new == Filled(e, p, t)
<1> DEFINE m == Larger(Size(e.stream), End(p))
<1>1. /\ End(p) \in Nat /\ Units(p) \subseteq 0 .. End(p) - 1
      /\ Size(e.stream) \in Nat
  BY PacketExtent DEF Sound
<1>2. m \in Nat /\ Size(e.stream) <= m /\ End(p) <= m
  BY <1>1 DEF Larger
<1>3. /\ new.stream = Written(p, e.stream, m)
      /\ new.present = e.present \union Units(p) /\ new.lastSeen = t
  BY DEF Filled
<1> HIDE DEF new, m
<1>4. DOMAIN new.stream = 0 .. m - 1 /\ Size(new.stream) = m
  BY <1>2, <1>3, Below DEF Written, Size
<1>5. new.present \subseteq 0 .. m - 1
  BY <1>1, <1>2, <1>3 DEF Sound
<1>6. ASSUME NEW u \in new.present PROVE new.stream[u] = Sent
  <2>1. u \in Units(p) \/ (u \in DOMAIN e.stream /\ e.stream[u] = Sent)
    BY <1>3, <1>6 DEF Sound
  <2>. QED
    BY <1>3, <1>5, <1>6, <2>1 DEF Written
<1>7. Sound(new)
  BY <1>2, <1>4, <1>5, <1>6 DEF Sound
<1>. QED
  BY <1>3, <1>4, <1>7 DEF new, m

(* A name read from the prefix is the true one, and the hello is complete. *)
LEMMA SniIsTrue ==
  ASSUME NEW e, Sound(e), NEW c \in Conns, Sni(e, c) # NoSni
  PROVE  Sni(e, c) = TrueName(c) /\ 0 .. Needed[c] - 1 \subseteq e.present
<1> DEFINE n == ContiguousPrefix(e)
<1>1. /\ Needed[c] \in Nat \ {0} /\ NameAt[c] \subseteq 1 .. Needed[c] - 1
  BY HellosAssumption
<1>2. n \in Nat /\ \A u \in Nat : u < n <=> 0 .. u \subseteq e.present
  BY PrefixIsPresent
<1>3. Sni(e, c) = SniFromClientHello(c, e.stream, n)
  BY DEF Sni
<1> HIDE DEF n
<1>4. ~(Needed[c] > n) /\ Sni(e, c) = {<<u, e.stream[u]>> : u \in NameAt[c]}
  BY <1>3 DEF SniFromClientHello
<1>5. 0 .. Needed[c] - 1 \subseteq e.present
  BY <1>1, <1>2, <1>4
<1>6. \A u \in NameAt[c] : e.stream[u] = Sent
  BY <1>1, <1>5 DEF Sound
<1>. QED
  BY <1>4, <1>5, <1>6 DEF TrueName

(* A complete hello that has a name yields it.                             *)
LEMMA CompleteIsRead ==
  ASSUME NEW e, Sound(e), NEW c \in Conns, NameAt[c] # {},
         0 .. Needed[c] - 1 \subseteq e.present
  PROVE  Sni(e, c) # NoSni
<1> DEFINE n == ContiguousPrefix(e)
<1>1. Needed[c] \in Nat /\ Needed[c] # 0 /\ Needed[c] - 1 \in Nat
  BY HellosAssumption
<1>2. n \in Nat /\ \A u \in Nat : u < n <=> 0 .. u \subseteq e.present
  BY PrefixIsPresent
<1>3. Sni(e, c) = SniFromClientHello(c, e.stream, n)
  BY DEF Sni
<1> HIDE DEF n
<1>4. ~(Needed[c] > n) /\ n # 0
  BY <1>1, <1>2
<1>5. e.stream[0] # Zero
  BY <1>1 DEF Sound, Sent, Zero
<1>6. Sni(e, c) = {<<u, e.stream[u]>> : u \in NameAt[c]}
  BY <1>3, <1>4, <1>5 DEF SniFromClientHello
<1>. QED
  BY <1>6 DEF NoSni

---------------------------------------------------------------------------
(* An entry c of the table.                                                *)
Good(c) ==
  /\ c \in Conns
  /\ Sound(tracked[c]) /\ Size(tracked[c].stream) <= MaxStream
  /\ tracked[c].lastSeen \in Times
  /\ tracked[c].present = arrived[c]
  /\ NameAt[c] # {} => ~(0 .. Needed[c] - 1 \subseteq arrived[c])

(* The inductive invariant.                                                *)
TrackerInv ==
  /\ IsFiniteSet(DOMAIN tracked) /\ Cardinality(DOMAIN tracked) <= MaxConnections
  /\ \A c \in DOMAIN tracked : Good(c)
  /\ \A c \in Conns \ DOMAIN tracked : arrived[c] = {}
  /\ TrackerNamesAreTrue

LEMMA InitTrackerInv == QInit => TrackerInv
<1> SUFFICES ASSUME QInit PROVE TrackerInv
  OBVIOUS
<1>1. DOMAIN tracked = {} /\ named = {} /\ \A c \in Conns : arrived[c] = {}
  BY DEF QInit
<1>. QED
  BY <1>1, FS_EmptySet, LimitsAssumption DEF TrackerInv, TrackerNamesAreTrue

(* Expiry only removes, and only what was quiet in a full table.           *)
LEMMA RoomIsPart ==
  ASSUME TrackerInv, NEW p \in Packets, NEW t \in Times
  PROVE  /\ Room(p, t) \in SUBSET DOMAIN tracked
         /\ p.conn \in DOMAIN tracked => p.conn \in Room(p, t)
         /\ \A c \in DOMAIN tracked \ Room(p, t) :
              Quiet(c, t) /\ Cardinality(DOMAIN tracked) >= MaxConnections
  BY DEF Room, ExpireStale, Full

(* The entries of K stay as they are, and no other stays.                  *)
Kept(K) == DOMAIN tracked' = K /\ \A c \in K : tracked'[c] = tracked[c]

(* Entries that are kept as they are stay good.                            *)
LEMMA KeptEntries ==
  ASSUME TrackerInv, NEW K \in SUBSET DOMAIN tracked, Kept(K),
         \A c \in K : arrived'[c] = arrived[c]
  PROVE  /\ IsFiniteSet(DOMAIN tracked') /\ Cardinality(DOMAIN tracked') <= MaxConnections
         /\ \A c \in DOMAIN tracked' : Good(c)'
<1>1. DOMAIN tracked' = K /\ \A c \in K : tracked'[c] = tracked[c]
  BY DEF Kept
<1>2. /\ IsFiniteSet(DOMAIN tracked) /\ Cardinality(DOMAIN tracked) \in Nat
      /\ Cardinality(DOMAIN tracked) <= MaxConnections
  BY FS_CardinalityType DEF TrackerInv
<1>3. IsFiniteSet(K) /\ Cardinality(K) \in Nat /\ Cardinality(K) <= Cardinality(DOMAIN tracked)
  BY <1>2, FS_Subset, FS_CardinalityType
<1>4. \A c \in DOMAIN tracked' : Good(c)'
  BY <1>1 DEF TrackerInv, Good
<1>. QED
  BY <1>1, <1>2, <1>3, <1>4, LimitsAssumption

(* An entry that is not the packet's keeps the units that arrived.         *)
LEMMA OthersArrived ==
  ASSUME NEW p, NEW t, Observe(p, t), NEW c \in DOMAIN tracked', c \in Conns,
         c # p.conn \/ ExtractInitialSni(p) # NoSni
  PROVE  arrived'[c] = arrived[c]
  BY DEF Observe

(* A step after which the table has some of its entries, unchanged.        *)
LEMMA ShrinkStep ==
  ASSUME TrackerInv, NEW p \in Packets, NEW t \in Times, Observe(p, t),
         NEW K \in SUBSET DOMAIN tracked, Kept(K),
         p.conn \notin K \/ ExtractInitialSni(p) # NoSni,
         TrackerNamesAreTrue'
  PROVE  TrackerInv'
<1>1. DOMAIN tracked' = K
  BY DEF Kept
<1>2. \A c \in K : arrived'[c] = arrived[c]
  BY <1>1, OthersArrived DEF TrackerInv, Good
<1>3. \A c \in Conns \ DOMAIN tracked' : arrived'[c] = {}
  BY DEF Observe
<1>. QED
  BY <1>2, <1>3, KeptEntries DEF TrackerInv

(* What the packet does to its entry, new or not.                          *)
LEMMA EntrySound ==
  ASSUME TrackerInv, NEW c
  PROVE  Sound(Entry(c))
<1>1. CASE c \in DOMAIN tracked
  BY <1>1 DEF TrackerInv, Good, Entry
<1>2. CASE c \notin DOMAIN tracked
  <2>1. Entry(c).stream = <<>> /\ Entry(c).present = {}
    BY <1>2 DEF Entry
  <2>2. DOMAIN Entry(c).stream = {} /\ Size(Entry(c).stream) = 0
    BY <2>1, FS_EmptySet DEF Size
  <2>. QED
    BY <2>1, <2>2 DEF Sound
<1>. QED
  BY <1>1, <1>2

LEMMA TrackStep ==
  ASSUME TrackerInv, NEW p \in Packets, NEW t \in Times, Track(p, t), Observe(p, t)
  PROVE  TrackerInv'
<1> DEFINE e == Filled(Entry(p.conn), p, t)
<1> DEFINE K == Room(p, t)
<1>1. p.conn \in Conns /\ ExtractInitialSni(p) = NoSni
  BY PacketsAssumption DEF Track, Admitted
<1>2. /\ Sound(e) /\ e.present = Entry(p.conn).present \union Units(p)
      /\ e.lastSeen = t
      /\ Size(e.stream) = Larger(Size(Entry(p.conn).stream), End(p))
  BY EntrySound, FilledSound
<1>3. /\ Sni(e, p.conn) = NoSni
      /\ tracked' = [c \in K \union {p.conn} |-> IF c = p.conn THEN e ELSE tracked[c]]
      /\ UNCHANGED named /\ ~TooLong(p)
  BY DEF Track
<1>4. K \in SUBSET DOMAIN tracked /\ (p.conn \in DOMAIN tracked => p.conn \in K)
  BY RoomIsPart
<1>5. arrived'[p.conn] = e.present
  <2>1. arrived'[p.conn] = arrived[p.conn] \union Units(p)
    BY <1>1, <1>3 DEF Observe
  <2>2. Entry(p.conn).present = arrived[p.conn]
    BY <1>1 DEF Entry, TrackerInv, Good
  <2>. QED
    BY <1>2, <2>1, <2>2
<1>6. Size(e.stream) <= MaxStream
  <2>1. End(p) <= MaxStream
    BY <1>3, PacketExtent, LimitsAssumption DEF TooLong
  <2>2. Size(Entry(p.conn).stream) <= MaxStream
    <3>1. CASE p.conn \in DOMAIN tracked
      BY <3>1 DEF TrackerInv, Good, Entry
    <3>2. CASE p.conn \notin DOMAIN tracked
      <4>1. Entry(p.conn).stream = <<>>
        BY <3>2 DEF Entry
      <4>. QED
        BY <4>1, FS_EmptySet, LimitsAssumption DEF Size
    <3>. QED
      BY <3>1, <3>2
  <2>. QED
    BY <1>2, <2>1, <2>2 DEF Larger
<1> HIDE DEF e, K
<1>7. Good(p.conn)'
  <2>1. tracked'[p.conn] = e
    BY <1>3
  <2>2. NameAt[p.conn] # {} => ~(0 .. Needed[p.conn] - 1 \subseteq e.present)
    BY <1>1, <1>2, <1>3, CompleteIsRead
  <2>. QED
    BY <1>1, <1>2, <1>5, <1>6, <2>1, <2>2 DEF Good
<1>8. ASSUME NEW c \in DOMAIN tracked', c # p.conn PROVE Good(c)'
  <2>1. c \in K /\ c \in DOMAIN tracked /\ tracked'[c] = tracked[c]
    BY <1>3, <1>4, <1>8
  <2>2. c \in Conns
    BY <2>1 DEF TrackerInv, Good
  <2>3. arrived'[c] = arrived[c]
    BY <1>8, <2>2, OthersArrived
  <2>. QED
    BY <2>1, <2>3 DEF TrackerInv, Good
<1>9. IsFiniteSet(DOMAIN tracked') /\ Cardinality(DOMAIN tracked') <= MaxConnections
  <2>1. DOMAIN tracked' = K \union {p.conn}
    BY <1>3
  <2>2. IsFiniteSet(DOMAIN tracked) /\ Cardinality(DOMAIN tracked) <= MaxConnections
        /\ Cardinality(DOMAIN tracked) \in Nat
    BY FS_CardinalityType DEF TrackerInv
  <2>3. IsFiniteSet(K) /\ Cardinality(K) \in Nat /\ Cardinality(K) <= Cardinality(DOMAIN tracked)
    BY <1>4, <2>2, FS_Subset, FS_CardinalityType
  <2>4. p.conn \in K \/ ~(Cardinality(K) >= MaxConnections)
    BY <1>4 DEF K, Track, Admitted, Full
  <2>5. /\ IsFiniteSet(K \union {p.conn})
        /\ Cardinality(K \union {p.conn}) = IF p.conn \in K THEN Cardinality(K)
                                            ELSE Cardinality(K) + 1
    BY <2>3, FS_AddElement
  <2>. QED
    BY <2>1, <2>2, <2>3, <2>4, <2>5, LimitsAssumption
<1>10. TrackerNamesAreTrue'
  BY <1>3 DEF TrackerInv, TrackerNamesAreTrue
<1>11. \A c \in Conns \ DOMAIN tracked' : arrived'[c] = {}
  BY DEF Observe
<1>. QED
  BY <1>7, <1>8, <1>9, <1>10, <1>11 DEF TrackerInv

(* The steps after which the table has lost entries or is as it was.       *)
LEMMA OtherSteps ==
  ASSUME TrackerInv, NEW p \in Packets, NEW t \in Times, Observe(p, t),
         \/ NamedByPacket(p) \/ NotTracked(p, t)
         \/ Forget(p, t) \/ NamedByTracker(p, t)
  PROVE  TrackerInv'
<1>1. p.conn \in Conns
  BY PacketsAssumption
<1>2. CASE NamedByPacket(p)
  <2>1. Kept(DOMAIN tracked)
    BY <1>2 DEF NamedByPacket, Kept
  <2>2. TrackerNamesAreTrue'
    BY <1>2 DEF NamedByPacket, TrackerInv, TrackerNamesAreTrue
  <2>. QED
    BY <1>2, <2>1, <2>2, ShrinkStep DEF NamedByPacket
<1>3. CASE NotTracked(p, t)
  <2>1. TrackerNamesAreTrue'
    BY <1>3 DEF NotTracked, TrackerInv, TrackerNamesAreTrue
  <2>2. CASE p.crypto = {} /\ UNCHANGED tracked
    <3>1. Units(p) = {}
      BY <2>2 DEF Units
    <3>2. \A c \in Conns : c \in DOMAIN tracked => arrived'[c] = arrived[c]
      BY <2>2, <3>1 DEF Observe
    <3>3. Kept(DOMAIN tracked)
      BY <2>2 DEF Kept
    <3>4. \A c \in Conns \ DOMAIN tracked' : arrived'[c] = {}
      BY DEF Observe
    <3>5. \A c \in DOMAIN tracked : arrived'[c] = arrived[c]
      BY <3>2 DEF TrackerInv, Good
    <3>. QED
      BY <2>1, <3>3, <3>4, <3>5, KeptEntries DEF TrackerInv
  <2>3. CASE p.conn \notin DOMAIN tracked /\ tracked' = Only(Room(p, t))
    <3>1. Room(p, t) \in SUBSET DOMAIN tracked /\ p.conn \notin Room(p, t)
      BY <2>3, RoomIsPart
    <3>2. Kept(Room(p, t))
      BY <2>3 DEF Only, Kept
    <3>. QED
      BY <2>1, <3>1, <3>2, ShrinkStep
  <2>. QED
    BY <1>3, <2>2, <2>3 DEF NotTracked
<1>4. ASSUME tracked' = Only(Room(p, t) \ {p.conn}), TrackerNamesAreTrue' PROVE TrackerInv'
  <2>1. Room(p, t) \ {p.conn} \in SUBSET DOMAIN tracked
    BY RoomIsPart
  <2>2. Kept(Room(p, t) \ {p.conn})
    BY <1>4 DEF Only, Kept
  <2>. QED
    BY <1>4, <2>1, <2>2, ShrinkStep
<1>5. CASE Forget(p, t)
  <2>1. TrackerNamesAreTrue'
    BY <1>5 DEF Forget, TrackerInv, TrackerNamesAreTrue
  <2>. QED
    BY <1>4, <1>5, <2>1 DEF Forget
<1>6. CASE NamedByTracker(p, t)
  <2> DEFINE e == Filled(Entry(p.conn), p, t)
  <2>1. Sound(e)
    BY EntrySound, FilledSound
  <2>2. /\ Sni(e, p.conn) # NoSni
        /\ named' = named \union {[conn |-> p.conn, by |-> "tracker", name |-> Sni(e, p.conn)]}
        /\ tracked' = Only(Room(p, t) \ {p.conn})
    BY <1>6 DEF NamedByTracker
  <2> HIDE DEF e
  <2>3. Sni(e, p.conn) = TrueName(p.conn)
    BY <1>1, <2>1, <2>2, SniIsTrue
  <2>4. TrackerNamesAreTrue'
    BY <2>2, <2>3 DEF TrackerInv, TrackerNamesAreTrue
  <2>. QED
    BY <1>4, <2>2, <2>4
<1>. QED
  BY <1>2, <1>3, <1>5, <1>6

LEMMA StepTrackerInv == TrackerInv /\ [QNext]_qvars => TrackerInv'
<1> SUFFICES ASSUME TrackerInv, [QNext]_qvars PROVE TrackerInv'
  OBVIOUS
<1>1. ASSUME NEW p \in Packets, NEW t \in Times, Feed(p, t), Observe(p, t)
      PROVE  TrackerInv'
  BY <1>1, TrackStep, OtherSteps DEF Feed
<1>2. CASE ClearTracked
  <2>1. DOMAIN tracked' = {} /\ named' = named /\ \A c \in Conns : arrived'[c] = {}
    BY <1>2 DEF ClearTracked
  <2>2. TrackerNamesAreTrue'
    BY <2>1 DEF TrackerInv, TrackerNamesAreTrue
  <2>. QED
    BY <2>1, <2>2, FS_EmptySet, LimitsAssumption DEF TrackerInv
<1>3. CASE UNCHANGED qvars
  BY <1>3 DEF qvars, TrackerInv, TrackerNamesAreTrue, Good
<1>. QED
  BY <1>1, <1>2, <1>3 DEF QNext

LEMMA TrackerInductive == QSpec => []TrackerInv
  BY InitTrackerInv, StepTrackerInv, PTL DEF QSpec

---------------------------------------------------------------------------
(* The table and the streams stay within their limits, and what is present *)
(* is part of the stream.                                                  *)
THEOREM TypesAndLimits == QSpec => []QTypeOK
<1>1. TrackerInv => QTypeOK
  BY DEF TrackerInv, Good, Sound, QTypeOK
<1>. QED
  BY <1>1, TrackerInductive, PTL

(* The tracker reads names only from bytes that have arrived.              *)
THEOREM NamesAreTrue == QSpec => []TrackerNamesAreTrue
<1>1. TrackerInv => TrackerNamesAreTrue
  BY DEF TrackerInv
<1>. QED
  BY <1>1, TrackerInductive, PTL

(* No unit given to the tracker is forgotten while its entry lives, and no *)
(* complete ClientHello stays unread.                                      *)
THEOREM NamesAreGiven == QSpec => []NothingIsWithheld
<1>1. TrackerInv => NothingIsWithheld
  BY DEF TrackerInv, Good, NothingIsWithheld
<1>. QED
  BY <1>1, TrackerInductive, PTL

(* A connection leaves the table for one of three reasons.                 *)
LEMMA StepForgets == TrackerInv /\ [QNext]_qvars => [Forgets]_qvars
<1> SUFFICES ASSUME TrackerInv, QNext PROVE Forgets
  BY DEF Forgets, qvars
<1>1. ASSUME NEW p \in Packets, NEW t \in Times, Feed(p, t), Observe(p, t),
             NEW c \in DOMAIN tracked \ DOMAIN tracked'
      PROVE  \/ /\ p.conn = c
                /\ \/ 0 .. Needed[c] - 1 \subseteq arrived[c] \union Units(p)
                   \/ End(p) > MaxStream
             \/ Quiet(c, t) /\ Cardinality(DOMAIN tracked) >= MaxConnections
  <2>1. /\ Room(p, t) \in SUBSET DOMAIN tracked
        /\ \A d \in DOMAIN tracked \ Room(p, t) :
             Quiet(d, t) /\ Cardinality(DOMAIN tracked) >= MaxConnections
    BY RoomIsPart
  <2>2. CASE NamedByPacket(p)
    BY <1>1, <2>2 DEF NamedByPacket
  <2>3. CASE NotTracked(p, t)
    BY <1>1, <2>1, <2>3 DEF NotTracked, Only
  <2>4. CASE Forget(p, t)
    BY <1>1, <2>1, <2>4 DEF Forget, Only, TooLong
  <2>5. CASE Track(p, t)
    BY <1>1, <2>1, <2>5 DEF Track
  <2>6. CASE NamedByTracker(p, t)
    <3>1. CASE c = p.conn
      <4> DEFINE e == Filled(Entry(c), p, t)
      <4>1. Sound(e) /\ e.present = Entry(c).present \union Units(p)
        BY EntrySound, FilledSound
      <4>2. Sni(e, c) # NoSni
        BY <2>6, <3>1 DEF NamedByTracker
      <4>3. c \in Conns /\ Entry(c).present = arrived[c]
        BY <1>1 DEF Entry, TrackerInv, Good
      <4> HIDE DEF e
      <4>4. 0 .. Needed[c] - 1 \subseteq e.present
        BY <4>1, <4>2, <4>3, SniIsTrue
      <4>. QED
        BY <3>1, <4>1, <4>3, <4>4
    <3>2. CASE c # p.conn
      BY <1>1, <2>1, <2>6, <3>2 DEF NamedByTracker, Only
    <3>. QED
      BY <3>1, <3>2
  <2>. QED
    BY <1>1, <2>2, <2>3, <2>4, <2>5, <2>6 DEF Feed
<1>2. ASSUME NEW p \in Packets, NEW t \in Times, Feed(p, t), Observe(p, t)
      PROVE  Forgets
  <2>1. fed'.packet = p /\ fed'.time = t
    BY <1>2 DEF Observe
  <2>. QED
    BY <1>1, <1>2, <2>1 DEF Forgets
<1>3. CASE ClearTracked
  BY <1>3 DEF ClearTracked, Forgets
<1>. QED
  BY <1>2, <1>3 DEF QNext

(* A connection in progress is forgotten only for cause.                   *)
THEOREM ForgottenOnlyForCause == QSpec => ForgottenForCause
<1>1. QSpec => [][QNext]_qvars
  BY DEF QSpec
<1>. QED
  BY <1>1, TrackerInductive, StepForgets, PTL DEF ForgottenForCause
=============================================================================
