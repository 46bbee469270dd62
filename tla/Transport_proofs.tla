---------------------------- MODULE Transport_proofs ----------------------------
(***************************************************************************)
(* The uploader loses no wake-up, bounds its memory, keeps the promise of  *)
(* flush() and implements an ordered queue, for every set of callers,      *)
(* every payload that fits, and every configuration.  The transport on top *)
(* of it keeps the order of writing, and its flush() covers what had been  *)
(* written, for all writes, flushes, timers and stream events.             *)
(***************************************************************************)
EXTENDS HybridTransport, OrderLemmas, TLAPS

\* What the other invariants rest on: where the batch is, that a batch being
\* retried is at the front and cannot be thrown out, that every call fits.
Shape ==
  /\ drain = "sending" <=> batch # << >>
  /\ Len(batch) <= MaxBatchSize
  /\ \A i \in 1..Len(batch) : Keeps(batch[i])
  /\ drain = "sleeping" /\ ~closed => pending # << >> /\ Keeps(pending[1])
  /\ closed => blocked = << >>
  /\ \A c \in Calls : Len(held[c]) <= MaxQueueSize

IInv == TypeOK /\ Shape /\ DrainRuns /\ WaitersHaveADrain /\ MemoryBound

\* The state that a drain loop started on queue q leaves behind.
LoopResult(q) ==
  /\ pending' \in Seq(Events) /\ batch' \in Seq(Events)
  /\ drain' \in {"idle", "sending"}
  /\ failures' \in FailureBudget
  /\ flush' \in [Flushes -> States]
  /\ dropped' \subseteq Events
  /\ drain' = "sending" <=> batch' # << >>
  /\ \A i \in 1..Len(batch') : Keeps(batch'[i])
  /\ Len(batch') <= MaxBatchSize
  /\ Len(pending') + Len(batch') <= Len(q)
  /\ ~closed /\ drain' = "idle" =>
       pending' = << >> /\ \A f \in Flushes : flush'[f] # "waiting"
  /\ ~closed /\ q # << >> /\ Keeps(q[1]) => drain' = "sending"

LEMMA NoFailures == 0 \in FailureBudget
  BY UploaderAssumption DEF FailureBudget

-------------------------------------------------------------------------------
(* takeBatch *)

LEMMA KeptFinite ==
  ASSUME NEW q, NEW k \in Nat
  PROVE  IsFiniteSet(Kept(q, k)) /\ Cardinality(Kept(q, k)) \in 0..k
<1>1. IsFiniteSet(1..k) /\ Cardinality(1..k) = k
  BY FS_Interval
<1>2. Kept(q, k) \in SUBSET (1..k)
  BY DEF Kept
<1>. QED
  BY <1>1, <1>2, FS_Subset, FS_CardinalityType

\* A batch never exceeds maxBatchSize.
LEMMA KeptBounded ==
  ASSUME NEW q, NEW k \in Nat, ScanStopsAt(q, k)
  PROVE  Cardinality(Kept(q, k)) <= MaxBatchSize
<1>. USE UploaderAssumption
<1>1. CASE k = 0
  <2>1. Cardinality(Kept(q, k)) \in 0..0
    BY <1>1, KeptFinite
  <2>. QED
    BY <2>1
<1>2. CASE k # 0
  <2>1. k - 1 \in Nat /\ k \in 1..k
    BY <1>2
  <2>2. ScansPast(q, k)
    BY <2>1 DEF ScanStopsAt
  <2>3. Cardinality(Kept(q, k - 1)) < MaxBatchSize
    BY <2>2 DEF ScansPast
  <2>4. Kept(q, k) \in SUBSET (Kept(q, k - 1) \cup {k})
    BY <2>1 DEF Kept
  <2>5. IsFiniteSet(Kept(q, k - 1)) /\ Cardinality(Kept(q, k - 1)) \in Nat
    BY <2>1, KeptFinite
  <2>a. /\ IsFiniteSet(Kept(q, k - 1) \cup {k})
        /\ Cardinality(Kept(q, k - 1) \cup {k}) =
             IF k \in Kept(q, k - 1) THEN Cardinality(Kept(q, k - 1))
                                     ELSE Cardinality(Kept(q, k - 1)) + 1
    BY <2>5, FS_AddElement, Zenon
  <2>6. /\ IsFiniteSet(Kept(q, k - 1) \cup {k})
        /\ Cardinality(Kept(q, k - 1) \cup {k}) <= Cardinality(Kept(q, k - 1)) + 1
    BY <2>a, <2>5
  <2>7. Cardinality(Kept(q, k)) <= Cardinality(Kept(q, k - 1) \cup {k})
    BY <2>4, <2>6, FS_Subset
  <2>8. /\ Cardinality(Kept(q, k)) \in Nat
        /\ Cardinality(Kept(q, k - 1) \cup {k}) \in Nat
    BY <2>6, KeptFinite, FS_CardinalityType
  <2>. QED
    BY <2>3, <2>5, <2>6, <2>7, <2>8
<1>. QED
  BY <1>1, <1>2

\* takeBatch() returns an empty batch only when it emptied the queue, and
\* never when the first event can be sent.
LEMMA EmptyBatch ==
  ASSUME NEW q \in Seq(Events), q # << >>, NEW k \in 0..Len(q),
         ScanStopsAt(q, k), Kept(q, k) = {}
  PROVE  k = Len(q) /\ ~Keeps(q[1])
<1>. USE UploaderAssumption
<1>1. Cardinality({}) = 0
  BY FS_EmptySet
<1>2. k = Len(q)
  <2>. SUFFICES ASSUME k < Len(q) PROVE FALSE
    OBVIOUS
  <2>1. Kept(q, (k + 1) - 1) = {} /\ 0 < MaxBatchSize
    OBVIOUS
  <2>2. ScansPast(q, k + 1)
    BY <1>1, <2>1 DEF ScansPast
  <2>. QED
    BY <2>2 DEF ScanStopsAt
<1>3. 1 \in 1..k
  BY <1>2, EmptySeq, LenProperties
<1>. QED
  BY <1>2, <1>3 DEF Kept
-------------------------------------------------------------------------------
(* drain *)

LEMMA ExitResult ==
  ASSUME TypeOK, NEW q \in Seq(Events), NEW r \in Seq(Events), Len(r) <= Len(q),
         DrainExits(r), dropped' \subseteq Events,
         closed \/ r = << >>,
         closed \/ q = << >> \/ ~Keeps(q[1])
  PROVE  LoopResult(q)
<1>1. Len(<< >>) = 0 /\ << >> \in Seq(Events) /\ Len(q) \in Nat /\ Len(r) \in Nat
  BY EmptySeq, LenProperties
<1>2. flush' \in [Flushes -> States]
  BY DEF TypeOK, DrainExits, States
<1>3. r = << >> => \A f \in Flushes : flush'[f] # "waiting"
  BY DEF TypeOK, DrainExits
<1>. QED
  BY <1>1, <1>2, <1>3, NoFailures, UploaderAssumption DEF DrainExits, LoopResult

\* drain() runs on with the next batch, or ends with nothing left to do.
LEMMA LoopLemma ==
  ASSUME TypeOK, NEW q \in Seq(Events), NEW n \in FailureBudget,
         NEW gone \in SUBSET Events, DrainLoop(q, n, gone)
  PROVE  LoopResult(q)
<1>0. Len(q) \in Nat /\ q \in [1..Len(q) -> Events] /\ Len(<< >>) = 0
  BY LenProperties, EmptySeq
<1>1. CASE q = << >> \/ closed
  <2>1. DrainExits(q) /\ dropped' = dropped \cup gone
    BY <1>1 DEF DrainLoop
  <2>2. dropped' \subseteq Events
    BY <2>1 DEF TypeOK
  <2>. QED
    BY <1>0, <1>1, <2>1, <2>2, ExitResult
<1>2. CASE q # << >> /\ ~closed
  <2>1. PICK k \in 0..Len(q) :
          /\ ScanStopsAt(q, k)
          /\ dropped' = dropped \cup gone
                          \cup {q[i] : i \in (1..k) \ Kept(q, k)}
          /\ \/ Kept(q, k) = {} /\ DrainExits(SubSeq(q, k + 1, Len(q)))
             \/ /\ Kept(q, k) # {}
                /\ batch' = Selected(q, Kept(q, k))
                /\ pending' = SubSeq(q, k + 1, Len(q))
                /\ drain' = "sending" /\ failures' = n
                /\ UNCHANGED flush
    BY <1>2 DEF DrainLoop
  <2>2. dropped' \subseteq Events
    <3>1. \A i \in 1..k : q[i] \in Events
      BY <1>0
    <3>2. {q[i] : i \in (1..k) \ Kept(q, k)} \subseteq Events
      BY <3>1
    <3>. QED
      BY <2>1, <3>2 DEF TypeOK
  <2>3. /\ SubSeq(q, k + 1, Len(q)) \in Seq(Events)
        /\ Len(SubSeq(q, k + 1, Len(q))) = Len(q) - k
    <3>1. k \in Nat /\ k <= Len(q) /\ k + 1 \in Int /\ Len(q) \in Int
      BY <1>0
    <3>2. \A i \in k + 1 .. Len(q) : q[i] \in Events
      BY <1>0
    <3>. QED
      BY <3>1, <3>2
  <2>4. CASE Kept(q, k) = {}
    <3>1. k = Len(q) /\ ~Keeps(q[1])
      BY <1>2, <2>1, <2>4, EmptyBatch
    <3>2. SubSeq(q, k + 1, Len(q)) = << >>
      BY <1>0, <3>1, SubSeqEmpty
    <3>3. DrainExits(<< >>)
      BY <2>1, <2>4, <3>2
    <3>4. << >> \in Seq(Events) /\ Len(<< >>) <= Len(q)
      BY <1>0
    <3>. QED
      BY <2>2, <3>1, <3>3, <3>4, ExitResult
  <2>5. CASE Kept(q, k) # {}
    <3>. DEFINE b == Cardinality(Kept(q, k))
    <3>1. b \in 0..k /\ IsFiniteSet(Kept(q, k))
      BY KeptFinite
    <3>2. b # 0
      BY <2>5, <3>1, FS_EmptySet
    <3>3. b <= MaxBatchSize
      BY <2>1, KeptBounded
    <3>4. Kept(q, k) \in SUBSET DOMAIN q
      BY <1>0 DEF Kept
    <3>a. batch' = Selected(q, Kept(q, k)) /\ b \in Nat
      BY <2>1, <2>5, <3>1
    <3>5. /\ batch' \in Seq(Events) /\ Len(batch') = b
          /\ \A m \in 1..b : \E i \in Kept(q, k) : batch'[m] = q[i]
      BY <3>4, <3>a, SelectedType
    <3>6. \A m \in 1..b : Keeps(batch'[m])
      BY <3>5 DEF Kept
    <3>. HIDE DEF b
    <3>8. batch' \in Seq(Events) /\ Len(batch') = b
      BY <3>5
    <3>9. batch' # << >>
      BY <3>2, <3>8, <1>0
    <3>10. \A i \in 1..Len(batch') : Keeps(batch'[i])
      BY <3>6, <3>8
    <3>11. Len(pending') + Len(batch') <= Len(q)
      BY <1>0, <2>1, <2>3, <2>5, <3>1, <3>8 DEF b
    <3>. QED
      BY <2>1, <2>2, <2>3, <2>5, <3>3, <3>8, <3>9, <3>10, <3>11
         DEF LoopResult, TypeOK
  <2>. QED
    BY <2>4, <2>5
<1>. QED
  BY <1>1, <1>2
-------------------------------------------------------------------------------
(* The inductive step, action by action *)

\* Starting or continuing the drain loop on the queue keeps the invariant, if
\* the callers blocked at that point keep their drain loop.
LEMMA LoopStep ==
  ASSUME IInv, NEW q \in Seq(Events), LoopResult(q), UNCHANGED closed,
         Len(q) <= MaxQueueSize + MaxBatchSize,
         blocked' \in Seq(Calls), woken' \in Seq(Calls),
         call' \in [Calls -> States],
         held' \in [Calls -> Seq(Events)],
         \A c \in Calls : Len(held'[c]) <= MaxQueueSize,
         accepted' \in Seq(Events), acked' \subseteq Events,
         droppedBatches' \in Nat,
         closed => blocked' = << >>,
         blocked' # << >> => drain' # "idle"
  PROVE  IInv'
<1>1. TypeOK'
  BY DEF IInv, TypeOK, LoopResult
<1>2. Shape'
  BY DEF IInv, Shape, TypeOK, LoopResult
<1>3. DrainRuns' /\ WaitersHaveADrain'
  BY DEF IInv, DrainRuns, WaitersHaveADrain, LoopResult, TypeOK, Waiting
<1>4. MemoryBound'
  <2>1. Len(pending') \in Nat /\ Len(batch') \in Nat /\ Len(q) \in Nat
    <3>1. pending' \in Seq(Events) /\ batch' \in Seq(Events)
      BY DEF LoopResult
    <3>. QED
      BY <3>1, LenProperties
  <2>. QED
    BY <2>1, UploaderAssumption DEF MemoryBound, LoopResult
<1>. QED
  BY <1>1, <1>2, <1>3, <1>4 DEF IInv

LEMMA InitIInv == Init => IInv
<1>. SUFFICES ASSUME Init PROVE IInv
  OBVIOUS
<1>. USE UploaderAssumption
<1>1. \A S : << >> \in Seq(S)
  BY EmptySeq
<1>2. Len(<< >>) = 0
  BY EmptySeq
<1>3. TypeOK
  BY <1>1, NoFailures DEF Init, TypeOK, States
<1>4. Shape
  BY <1>2 DEF Init, Shape
<1>5. DrainRuns /\ WaitersHaveADrain /\ MemoryBound
  BY <1>2 DEF Init, DrainRuns, WaitersHaveADrain, MemoryBound, Waiting
<1>. QED
  BY <1>3, <1>4, <1>5 DEF IInv

LEMMA BatchElems == ASSUME TypeOK PROVE Elems(batch) \subseteq Events /\ Elems(pending) \subseteq Events
  BY DEF TypeOK, Elems

LEMMA SendSucceedsIInv == ASSUME IInv, SendSucceeds PROVE IInv'
<1>1. TypeOK
  BY DEF IInv
<1>2. DrainLoop(pending, 0, {})
  BY DEF SendSucceeds
<1>3. LoopResult(pending)
  BY <1>1, <1>2, LoopLemma, NoFailures DEF TypeOK
<1>4. Len(pending) <= MaxQueueSize + MaxBatchSize
  BY UploaderAssumption, <1>1 DEF IInv, MemoryBound, TypeOK
<1>5. blocked' = << >> /\ blocked' \in Seq(Calls) /\ woken' \in Seq(Calls)
  BY <1>1, EmptySeq DEF SendSucceeds, ReleaseBackpressure, TypeOK
<1>6. acked' \subseteq Events
  BY <1>1, BatchElems DEF SendSucceeds, TypeOK
<1>. QED
  BY <1>1, <1>3, <1>4, <1>5, <1>6, LoopStep DEF SendSucceeds, TypeOK, IInv, Shape

LEMMA SendFailsForGoodIInv == ASSUME IInv, SendFailsForGood PROVE IInv'
<1>1. TypeOK
  BY DEF IInv
<1>2. DrainLoop(pending, 0, Elems(batch))
  BY DEF SendFailsForGood
<1>3. LoopResult(pending)
  BY <1>1, <1>2, LoopLemma, NoFailures, BatchElems DEF TypeOK
<1>4. Len(pending) <= MaxQueueSize + MaxBatchSize
  BY UploaderAssumption, <1>1 DEF IInv, MemoryBound, TypeOK
<1>5. blocked' = << >> /\ blocked' \in Seq(Calls) /\ woken' \in Seq(Calls)
  BY <1>1, EmptySeq DEF SendFailsForGood, ReleaseBackpressure, TypeOK
<1>6. droppedBatches' \in Nat
  BY <1>1 DEF SendFailsForGood, TypeOK
<1>. QED
  BY <1>1, <1>3, <1>4, <1>5, <1>6, LoopStep
     DEF SendFailsForGood, TypeOK, IInv, Shape

\* A retry puts the batch, which is not empty, in front of the queue.
LEMMA SendFailsIInv == ASSUME IInv, SendFails PROVE IInv'
<1>. USE UploaderAssumption DEF SendFails
<1>1. TypeOK /\ Shape /\ batch # << >>
  BY DEF IInv, Shape
<1>2. /\ pending' \in Seq(Events) /\ batch' \in Seq(Events)
      /\ Len(pending') = Len(batch) + Len(pending) /\ Len(batch') = 0
      /\ Len(batch) \in Nat \ {0} /\ Len(pending) \in Nat
  BY <1>1 DEF TypeOK
<1>3. pending' # << >> /\ pending'[1] = batch[1]
  BY <1>1, <1>2 DEF TypeOK
<1>4. TypeOK'
  BY <1>1, <1>2 DEF TypeOK, FailureBudget, histVars
<1>5. Shape'
  BY <1>1, <1>2, <1>3 DEF Shape
<1>6. DrainRuns' /\ WaitersHaveADrain'
  BY DEF DrainRuns, WaitersHaveADrain
<1>7. MemoryBound'
  BY <1>2 DEF IInv, MemoryBound
<1>. QED
  BY <1>4, <1>5, <1>6, <1>7 DEF IInv

\* After the backoff the batch at the front is taken again, so blocked callers
\* keep their drain loop although nobody released them.
LEMMA SleepEndsIInv == ASSUME IInv, SleepEnds PROVE IInv'
<1>1. TypeOK /\ Shape /\ pending \in Seq(Events) /\ failures \in FailureBudget
  BY DEF IInv, TypeOK
<1>2. LoopResult(pending)
  <2>1. DrainLoop(pending, failures, {})
    BY DEF SleepEnds
  <2>. QED
    BY <1>1, <2>1, LoopLemma
<1>3. Len(pending) <= MaxQueueSize + MaxBatchSize
  BY UploaderAssumption, <1>1 DEF IInv, MemoryBound, TypeOK
<1>4. blocked' # << >> => drain' # "idle"
  BY <1>1, <1>2 DEF SleepEnds, Shape, LoopResult
<1>. QED
  BY <1>1, <1>2, <1>3, <1>4, LoopStep DEF SleepEnds, TypeOK, IInv, Shape

\* Pushing items that fit, whether or not this starts the drain loop.
LEMMA PushIInv ==
  ASSUME IInv, ~closed, NEW c \in Calls, NEW items \in Seq(Events),
         HasRoom(items), Push(c, items),
         UNCHANGED <<closed, blocked, droppedBatches, acked>>,
         woken' \in Seq(Calls), held' \in [Calls -> Seq(Events)],
         \A d \in Calls : Len(held'[d]) <= MaxQueueSize
  PROVE  IInv'
<1>. DEFINE q == pending \o items
<1>1. TypeOK /\ Shape
  BY DEF IInv
<1>2. /\ q \in Seq(Events) /\ Len(q) = Len(pending) + Len(items)
      /\ Len(items) \in Nat /\ Len(pending) \in Nat /\ Len(batch) \in Nat
  BY <1>1 DEF TypeOK
<1>3. pending # << >> => q # << >> /\ q[1] = pending[1]
  BY <1>1, <1>2 DEF TypeOK
<1>4. Len(q) <= MaxQueueSize
  BY <1>2 DEF HasRoom
<1>5. /\ accepted' \in Seq(Events) /\ call' \in [Calls -> States]
      /\ blocked' \in Seq(Calls)
  BY <1>1 DEF Push, TypeOK, States
<1>. HIDE DEF q
<1>6. CASE drain = "idle"
  <2>1. DrainLoop(q, 0, {})
    BY <1>6 DEF Push, KickDrain, q
  <2>2. LoopResult(q)
    BY <1>1, <1>2, <2>1, LoopLemma, NoFailures
  <2>3. blocked' = << >>
    BY <1>6 DEF IInv, WaitersHaveADrain
  <2>4. Len(q) <= MaxQueueSize + MaxBatchSize
    BY <1>2, <1>4, UploaderAssumption
  <2>. QED
    BY <1>1, <1>2, <1>5, <2>2, <2>3, <2>4, LoopStep DEF TypeOK
<1>7. CASE drain # "idle"
  <2>1. pending' = q /\ UNCHANGED <<batch, drain, failures, flush, dropped>>
    BY <1>7 DEF Push, KickDrain, q
  <2>2. TypeOK'
    BY <1>1, <1>2, <1>5, <2>1 DEF TypeOK
  <2>3. Shape'
    BY <1>1, <1>3, <2>1 DEF Shape
  <2>4. DrainRuns' /\ WaitersHaveADrain'
    BY <1>7, <2>1 DEF DrainRuns, WaitersHaveADrain
  <2>5. MemoryBound'
    BY <1>1, <1>2, <1>4, <2>1, UploaderAssumption DEF MemoryBound, Shape
  <2>. QED
    BY <2>2, <2>3, <2>4, <2>5 DEF IInv
<1>. QED
  BY <1>6, <1>7

\* A call that has no room although it fits meets a queue that is not empty,
\* and so a drain loop.
LEMMA NoRoomMeansDrain ==
  ASSUME IInv, ~closed, NEW items \in Seq(Events), ~HasRoom(items),
         Len(items) <= MaxQueueSize
  PROVE  drain # "idle"
<1>1. Len(items) \in Nat /\ pending \in Seq(Events) /\ Len(pending) \in Nat
  BY DEF IInv, TypeOK
<1>2. Len(pending) # 0
  BY <1>1, UploaderAssumption DEF HasRoom
<1>. QED
  BY <1>1, <1>2 DEF IInv, DrainRuns

\* A caller joins the waiters, the queue is left alone.
LEMMA BlockIInv ==
  ASSUME IInv, ~closed, drain # "idle", NEW c \in Calls,
         blocked' = Append(blocked, c), woken' \in Seq(Calls),
         call' \in [Calls -> States], held' \in [Calls -> Seq(Events)],
         \A d \in Calls : Len(held'[d]) <= MaxQueueSize,
         UNCHANGED <<queueVars, closed, flush, histVars, accepted>>
  PROVE  IInv'
<1>. USE DEF queueVars, histVars
<1>1. TypeOK'
  BY DEF IInv, TypeOK
<1>2. Shape'
  BY DEF IInv, Shape
<1>3. DrainRuns' /\ WaitersHaveADrain' /\ MemoryBound'
  BY DEF IInv, DrainRuns, WaitersHaveADrain, MemoryBound
<1>. QED
  BY <1>1, <1>2, <1>3 DEF IInv

LEMMA EnqueueIInv ==
  ASSUME IInv, NEW c \in Calls, Enqueue(c, Payload[c])
  PROVE  IInv'
<1>. DEFINE items == Payload[c]
<1>1. TypeOK /\ Shape
  BY DEF IInv
<1>2. items \in Seq(Events) /\ Len(items) <= MaxQueueSize
  BY UploaderAssumption, PayloadFits
<1>3. /\ held' \in [Calls -> Seq(Events)]
      /\ \A d \in Calls : Len(held'[d]) <= MaxQueueSize
  BY <1>1, <1>2 DEF Enqueue, TypeOK, Shape
<1>4. woken' \in Seq(Calls) /\ UNCHANGED <<closed, droppedBatches, acked>>
  BY <1>1 DEF Enqueue, TypeOK
<1>5. CASE closed \/ items = << >>
  <2>1. UNCHANGED <<queueVars, blocked, flush, histVars, accepted>>
    BY <1>4, <1>5 DEF Enqueue, Push, histVars, queueVars
  <2>2. call' \in [Calls -> States]
    BY <1>1, <1>5 DEF Enqueue, Push, TypeOK, States
  <2>3. TypeOK' /\ Shape'
    BY <1>1, <1>3, <1>4, <2>1, <2>2 DEF TypeOK, Shape, queueVars, histVars
  <2>4. DrainRuns' /\ WaitersHaveADrain' /\ MemoryBound'
    BY <1>4, <2>1
       DEF IInv, DrainRuns, WaitersHaveADrain, MemoryBound, Waiting, queueVars
  <2>. QED
    BY <2>3, <2>4 DEF IInv
<1>6. CASE ~closed /\ items # << >> /\ ~HasRoom(items)
  <2>1. drain # "idle"
    BY <1>2, <1>6, NoRoomMeansDrain
  <2>2. /\ blocked' = Append(blocked, c) /\ call' \in [Calls -> States]
        /\ UNCHANGED <<queueVars, flush, histVars, accepted>>
    BY <1>1, <1>4, <1>6 DEF Enqueue, TypeOK, States, histVars
  <2>. QED
    BY <1>3, <1>4, <1>6, <2>1, <2>2, BlockIInv
<1>7. CASE ~closed /\ items # << >> /\ HasRoom(items)
  <2>1. Push(c, items) /\ UNCHANGED blocked
    BY <1>7 DEF Enqueue
  <2>. QED
    BY <1>2, <1>3, <1>4, <1>7, <2>1, PushIInv
<1>. QED
  BY <1>5, <1>6, <1>7

LEMMA ResumeIInv == ASSUME IInv, Resume PROVE IInv'
<1>. DEFINE c == Head(woken)
<1>1. TypeOK /\ Shape
  BY DEF IInv
<1>2. c \in Calls /\ woken' \in Seq(Calls)
  BY <1>1 DEF Resume, TypeOK
<1>3. UNCHANGED <<closed, held, droppedBatches, acked>>
  BY DEF Resume
<1>4. /\ held' \in [Calls -> Seq(Events)] /\ held[c] \in Seq(Events)
      /\ \A d \in Calls : Len(held'[d]) <= MaxQueueSize
      /\ Len(held[c]) <= MaxQueueSize
  BY <1>1, <1>2, <1>3 DEF TypeOK, Shape
<1>5. CASE closed
  <2>1. UNCHANGED <<queueVars, blocked, flush, histVars, accepted>>
    BY <1>3, <1>5 DEF Resume, histVars
  <2>2. call' \in [Calls -> States]
    BY <1>1, <1>5 DEF Resume, TypeOK, States
  <2>3. TypeOK' /\ Shape'
    BY <1>1, <1>2, <1>4, <1>3, <2>1, <2>2 DEF TypeOK, Shape, queueVars, histVars
  <2>4. DrainRuns' /\ WaitersHaveADrain' /\ MemoryBound'
    BY <1>3, <2>1
       DEF IInv, DrainRuns, WaitersHaveADrain, MemoryBound, Waiting, queueVars
  <2>. QED
    BY <2>3, <2>4 DEF IInv
<1>6. CASE ~closed /\ ~HasRoom(held[c])
  <2>1. drain # "idle"
    BY <1>4, <1>6, NoRoomMeansDrain
  <2>2. /\ blocked' = Append(blocked, c) /\ UNCHANGED call
        /\ UNCHANGED <<queueVars, flush, histVars, accepted>>
    BY <1>3, <1>6 DEF Resume, histVars
  <2>3. call' \in [Calls -> States]
    BY <1>1, <2>2 DEF TypeOK
  <2>. QED
    BY <1>2, <1>3, <1>4, <1>6, <2>1, <2>2, <2>3, BlockIInv
<1>7. CASE ~closed /\ HasRoom(held[c])
  <2>1. Push(c, held[c]) /\ UNCHANGED blocked
    BY <1>7 DEF Resume
  <2>. QED
    BY <1>2, <1>3, <1>4, <1>7, <2>1, PushIInv
<1>. QED
  BY <1>5, <1>6, <1>7

LEMMA FlushIInv == ASSUME IInv, NEW f \in Flushes, Flush(f) PROVE IInv'
<1>. USE DEF Flush, queueVars, histVars
<1>1. TypeOK'
  BY DEF IInv, TypeOK, States
<1>2. Shape' /\ MemoryBound' /\ DrainRuns'
  BY DEF IInv, Shape, MemoryBound, DrainRuns
<1>3. WaitersHaveADrain'
  <2>1. ~closed /\ flush'[f] = "waiting" => drain # "idle"
    BY DEF IInv, TypeOK, DrainRuns
  <2>. QED
    BY <2>1 DEF IInv, TypeOK, WaitersHaveADrain, Waiting
<1>. QED
  BY <1>1, <1>2, <1>3 DEF IInv

LEMMA CloseIInv == ASSUME IInv, Close PROVE IInv'
<1>. USE DEF Close, ReleaseBackpressure
<1>1. << >> \in Seq(Events) /\ << >> \in Seq(Calls) /\ Len(<< >>) = 0
  BY EmptySeq
<1>2. TypeOK'
  <2>1. dropped' \subseteq Events
    BY BatchElems DEF IInv, TypeOK
  <2>. QED
    BY <1>1, <2>1 DEF IInv, TypeOK, States
<1>3. Shape' /\ DrainRuns' /\ WaitersHaveADrain'
  BY <1>1 DEF IInv, Shape, DrainRuns, WaitersHaveADrain
<1>4. MemoryBound'
  BY <1>1, UploaderAssumption DEF IInv, TypeOK, MemoryBound
<1>. QED
  BY <1>2, <1>3, <1>4 DEF IInv

LEMMA StutterIInv == ASSUME IInv, UNCHANGED vars PROVE IInv'
  BY DEF IInv, TypeOK, Shape, DrainRuns, WaitersHaveADrain, MemoryBound,
         Waiting, vars

LEMMA NextIInv == IInv /\ [Next]_vars => IInv'
<1>. SUFFICES ASSUME IInv, [Next]_vars PROVE IInv'
  OBVIOUS
<1>1. CASE DrainStep
  BY <1>1, SendSucceedsIInv, SendFailsForGoodIInv, SendFailsIInv, SleepEndsIInv
     DEF DrainStep
<1>2. CASE Resume
  BY <1>2, ResumeIInv
<1>3. CASE \E c \in Calls : Enqueue(c, Payload[c])
  BY <1>3, EnqueueIInv
<1>4. CASE \E f \in Flushes : Flush(f)
  BY <1>4, FlushIInv
<1>5. CASE Close
  BY <1>5, CloseIInv
<1>6. CASE UNCHANGED vars
  BY <1>6, StutterIInv
<1>. QED
  BY <1>1, <1>2, <1>3, <1>4, <1>5, <1>6 DEF Next

-------------------------------------------------------------------------------
\* The inductive invariant holds in every reachable state.
THEOREM Invariance == Spec => []IInv
  BY InitIInv, NextIInv, PTL DEF Spec

\* Every state of the uploader is well typed.
THEOREM TypeCorrect == Spec => []TypeOK
<1>1. IInv => TypeOK
  BY DEF IInv
<1>. QED
  BY <1>1, Invariance, PTL

\* An open uploader with queued events, or with a caller blocked in enqueue()
\* or flush(), has a running drain() that will come back to it: the single
\* draining flag and the unconditional release after every settled POST never
\* lose a wake-up, whatever fails and whatever is thrown out.
THEOREM NoLostWakeup == Spec => [](DrainRuns /\ WaitersHaveADrain)
<1>1. IInv => DrainRuns /\ WaitersHaveADrain
  BY DEF IInv
<1>. QED
  BY <1>1, Invariance, PTL

\* The events held in memory never exceed maxQueueSize by more than a batch,
\* however often a batch is put back into a queue that filled up meanwhile.
THEOREM BoundedMemory == Spec => []MemoryBound
<1>1. IInv => MemoryBound
  BY DEF IInv
<1>. QED
  BY <1>1, Invariance, PTL
-------------------------------------------------------------------------------
(* The uploader as an ordered queue.  What is in flight counts as the front *)
(* of the queue, so that only the scan of takeBatch() changes what the      *)
(* queue holds behind it.                                                   *)

\* A drain loop started on queue q loses, of q, the events at some positions
\* that cannot be sent, and keeps the others in their order.
LEMMA LoopLeaves ==
  ASSUME TypeOK, NEW q \in Seq(Events), NEW n, NEW gone \in SUBSET Events,
         DrainLoop(q, n, gone)
  PROVE  \E P \in SUBSET {i \in DOMAIN q : q[i] \in Unserializable} :
           /\ batch' \o pending' = Selected(q, DOMAIN q \ P)
           /\ dropped' = dropped \cup gone \cup {q[i] : i \in P}
<1>0. Len(q) \in Nat /\ DOMAIN q = 1..Len(q)
  BY LenProperties
<1>1. CASE q = << >> \/ closed
  <2>1. batch' = << >> /\ pending' = q /\ dropped' = dropped \cup gone
    BY <1>1 DEF DrainLoop, DrainExits
  <2>2. batch' \o pending' = Selected(q, DOMAIN q \ {})
    BY <2>1, SelectedAll, ConcatEmptySeq
  <2>3. {} \in SUBSET {i \in DOMAIN q : q[i] \in Unserializable}
    OBVIOUS
  <2>4. dropped' = dropped \cup gone \cup {q[i] : i \in {}}
    BY <2>1
  <2>. QED
    BY <2>2, <2>3, <2>4
<1>2. CASE q # << >> /\ ~closed
  <2>1. PICK k \in 0..Len(q) :
          /\ dropped' = dropped \cup gone
                          \cup {q[i] : i \in (1..k) \ Kept(q, k)}
          /\ \/ Kept(q, k) = {} /\ DrainExits(SubSeq(q, k + 1, Len(q)))
             \/ /\ Kept(q, k) # {}
                /\ batch' = Selected(q, Kept(q, k))
                /\ pending' = SubSeq(q, k + 1, Len(q))
    BY <1>2 DEF DrainLoop
  <2>. DEFINE P == (1..k) \ Kept(q, k)
  <2>2. P \in SUBSET {i \in DOMAIN q : q[i] \in Unserializable}
    BY <1>0 DEF Kept, Keeps
  <2>3. Kept(q, k) \in SUBSET (1..k)
    BY DEF Kept
  <2>4. batch' = Selected(q, Kept(q, k)) /\ pending' = SubSeq(q, k + 1, Len(q))
    <3>1. CASE Kept(q, k) = {}
      <4>1. {} \in SUBSET DOMAIN q
        OBVIOUS
      <4>2. Selected(q, {}) \in Seq(Events) /\ Len(Selected(q, {})) = 0
        BY <4>1, SelectedType, FS_EmptySet
      <4>3. Selected(q, {}) = << >>
        BY <4>2, EmptySeq
      <4>. QED
        BY <2>1, <3>1, <4>3 DEF DrainExits
    <3>. QED
      BY <2>1, <3>1
  <2>5. batch' \o pending' = Selected(q, DOMAIN q \ P)
    BY <2>3, <2>4, SelectedAndRest
  <2>. QED
    BY <2>1, <2>2, <2>5
<1>. QED
  BY <1>1, <1>2

\* A flush() that a drain loop releases finds nothing pending.
LEMMA LoopReturns ==
  ASSUME NEW q, NEW n, NEW gone, DrainLoop(q, n, gone), NEW f \in Flushes,
         flush[f] # "returned", flush'[f] = "returned"
  PROVE  pending' = << >> /\ batch' = << >>
  BY DEF DrainLoop, DrainExits

\* The two parts of a concatenation.
LEMMA Parts ==
  ASSUME NEW C, NEW s \in Seq(C), NEW t \in Seq(C)
  PROVE  /\ s \o t \in Seq(C) /\ Len(s \o t) = Len(s) + Len(t)
         /\ SubSeq(s \o t, 1, Len(s)) = s
         /\ SubSeq(s \o t, Len(s) + 1, Len(s \o t)) = t
         /\ {(s \o t)[i] : i \in 1..Len(s)} = Elems(s)
         /\ {(s \o t)[i] : i \in (Len(s) + 1)..Len(s \o t)} = Elems(t)
         /\ Elems(s \o t) = Elems(s) \cup Elems(t)
<1>1. /\ s \o t \in Seq(C) /\ Len(s \o t) = Len(s) + Len(t)
      /\ Len(s) \in Nat /\ Len(t) \in Nat
      /\ \A i \in 1..Len(s) : (s \o t)[i] = s[i]
      /\ \A i \in 1..Len(t) : (s \o t)[Len(s) + i] = t[i]
  BY ConcatProperties, LenProperties
<1>2. \A i \in (Len(s) + 1)..(Len(s) + Len(t)) :
        i - Len(s) \in 1..Len(t) /\ Len(s) + (i - Len(s)) = i /\ (s \o t)[i] = t[i - Len(s)]
  BY <1>1
<1>3. \A i \in 1..Len(t) : Len(s) + i \in (Len(s) + 1)..(Len(s) + Len(t))
  BY <1>1
<1>4. SubSeq(s \o t, 1, Len(s)) = s
  <2>1. SubSeq(s \o t, 1, Len(s)) = SubSeq(s, 1, Len(s))
    <3>1. CASE Len(s) = 0
      BY <1>1, <3>1, SubSeqEmpty
    <3>2. CASE Len(s) # 0
      <4>1. 1 \in 1..Len(s) /\ Len(s) \in 1..Len(s)
        BY <1>1, <3>2
      <4>. QED
        BY <4>1, SubSeqOfConcat1
    <3>. QED
      BY <3>1, <3>2
  <2>. QED
    BY <2>1, SubSeqFull
<1>5. SubSeq(s \o t, Len(s) + 1, Len(s \o t)) = t
  <2>1. CASE Len(t) = 0
    <3>1. Len(s) + 1 \in Int /\ Len(s \o t) \in Int /\ Len(s \o t) < Len(s) + 1
      BY <1>1, <2>1
    <3>2. t = << >>
      BY <2>1, EmptySeq
    <3>. QED
      BY <3>1, <3>2, SubSeqEmpty
  <2>2. CASE Len(t) # 0
    <3>1. /\ Len(s) + 1 \in Len(s) + 1 .. Len(s) + Len(t)
          /\ Len(s) + Len(t) \in Len(s) + 1 .. Len(s) + Len(t)
          /\ (Len(s) + 1) - Len(s) = 1 /\ (Len(s) + Len(t)) - Len(s) = Len(t)
      BY <1>1, <2>2
    <3>2. SubSeq(s \o t, Len(s) + 1, Len(s) + Len(t)) =
            SubSeq(t, (Len(s) + 1) - Len(s), (Len(s) + Len(t)) - Len(s))
      BY <3>1, SubSeqOfConcat2
    <3>. QED
      BY <1>1, <3>1, <3>2, SubSeqFull
  <2>. QED
    BY <2>1, <2>2
<1>6. {(s \o t)[i] : i \in 1..Len(s)} = Elems(s)
  BY <1>1 DEF Elems
<1>7. {(s \o t)[i] : i \in (Len(s) + 1)..Len(s \o t)} = Elems(t)
  <2>1. ASSUME NEW i \in (Len(s) + 1)..Len(s \o t) PROVE (s \o t)[i] \in Elems(t)
    BY <1>1, <1>2 DEF Elems
  <2>2. ASSUME NEW i \in 1..Len(t)
        PROVE  t[i] \in {(s \o t)[j] : j \in (Len(s) + 1)..Len(s \o t)}
    BY <1>1, <1>3
  <2>. QED
    BY <2>1, <2>2 DEF Elems
<1>8. Elems(s \o t) = Elems(s) \cup Elems(t)
  <2>1. \A i \in 1..Len(s \o t) :
          i \in 1..Len(s) \/ i \in (Len(s) + 1)..Len(s \o t)
    BY <1>1
  <2>2. \A i \in 1..Len(s) : i \in 1..Len(s \o t)
    BY <1>1
  <2>3. \A i \in (Len(s) + 1)..Len(s \o t) : i \in 1..Len(s \o t)
    BY <1>1
  <2>. QED
    BY <1>6, <1>7, <2>1, <2>2, <2>3 DEF Elems
<1>. QED
  BY <1>1, <1>4, <1>5, <1>6, <1>7, <1>8

\* Nothing of q is lost by a drain loop: it is pending, in flight or recorded.
LEMMA LoopKeepsEvents ==
  ASSUME TypeOK, NEW q \in Seq(Events), NEW n \in FailureBudget,
         NEW gone \in SUBSET Events, DrainLoop(q, n, gone)
  PROVE  /\ Elems(q) \subseteq dropped' \cup Elems(batch') \cup Elems(pending')
         /\ dropped \cup gone \subseteq dropped'
<1>1. PICK P \in SUBSET {i \in DOMAIN q : q[i] \in Unserializable} :
        /\ batch' \o pending' = Selected(q, DOMAIN q \ P)
        /\ dropped' = dropped \cup gone \cup {q[i] : i \in P}
  BY LoopLeaves
<1>2. batch' \in Seq(Events) /\ pending' \in Seq(Events)
  BY LoopLemma DEF LoopResult
<1>3. Elems(batch' \o pending') = Elems(batch') \cup Elems(pending')
  BY <1>2, Parts
<1>. DEFINE K == DOMAIN q \ P
<1>4. /\ Selected(q, K) \in Seq(Events) /\ Len(Selected(q, K)) = Cardinality(K)
      /\ \A i \in K : /\ Rank(K, i) \in 1..Cardinality(K)
                      /\ Selected(q, K)[Rank(K, i)] = q[i]
  <2>1. K \in SUBSET DOMAIN q
    OBVIOUS
  <2>. HIDE DEF K
  <2>. QED
    BY <2>1, SelectedType
<1>5. ASSUME NEW i \in 1..Len(q)
      PROVE  q[i] \in dropped' \cup Elems(batch') \cup Elems(pending')
  <2>1. CASE i \in P
    BY <1>1, <2>1
  <2>2. CASE i \in K
    BY <1>1, <1>3, <1>4, <2>2 DEF Elems
  <2>3. DOMAIN q = 1..Len(q)
    BY LenProperties
  <2>. QED
    BY <2>1, <2>2, <2>3
<1>. QED
  BY <1>1, <1>5 DEF Elems
-------------------------------------------------------------------------------
(* No event vanishes: what enqueue() accepted is acknowledged, recorded as   *)
(* dropped, in flight or pending.                                            *)

\* A caller in the wait loop of enqueue() still holds the items it came with.
HeldIsPayload ==
  \A c \in Elems(blocked) \cup Elems(woken) : held[c] = Payload[c]

NothingVanishes ==
  Elems(accepted) \subseteq acked \cup dropped \cup Elems(batch) \cup Elems(pending)

QInv == HeldIsPayload /\ NothingVanishes

LEMMA NoElems == Elems(<< >>) = {}
<1>1. Len(<< >>) = 0
  BY EmptySeq
<1>. QED
  BY <1>1 DEF Elems

LEMMA AppendElems ==
  ASSUME NEW C, NEW s \in Seq(C), NEW e \in C
  PROVE  Elems(Append(s, e)) = Elems(s) \cup {e}
<1>1. /\ Len(Append(s, e)) = Len(s) + 1 /\ Len(s) \in Nat
      /\ \A i \in 1..Len(s) : Append(s, e)[i] = s[i]
      /\ Append(s, e)[Len(s) + 1] = e
  BY AppendProperties, LenProperties
<1>2. \A i \in 1..(Len(s) + 1) : i \in 1..Len(s) \/ i = Len(s) + 1
  BY <1>1
<1>3. Len(s) + 1 \in 1..(Len(s) + 1) /\ \A i \in 1..Len(s) : i \in 1..(Len(s) + 1)
  BY <1>1
<1>. QED
  BY <1>1, <1>2, <1>3 DEF Elems

LEMMA TailElems ==
  ASSUME NEW C, NEW s \in Seq(C), s # << >>
  PROVE  Elems(Tail(s)) \subseteq Elems(s) /\ Head(s) \in Elems(s)
<1>1. /\ Len(Tail(s)) = Len(s) - 1 /\ Len(s) \in Nat \ {0} /\ Head(s) = s[1]
      /\ \A i \in 1..Len(Tail(s)) : Tail(s)[i] = s[i + 1]
  BY HeadTailProperties, SetOfHead
<1>2. \A i \in 1..(Len(s) - 1) : i + 1 \in 1..Len(s)
  BY <1>1
<1>3. 1 \in 1..Len(s)
  BY <1>1
<1>. QED
  BY <1>1, <1>2, <1>3 DEF Elems

LEMMA ReleaseKeepsHeld ==
  ASSUME TypeOK, HeldIsPayload, ReleaseBackpressure, UNCHANGED held
  PROVE  HeldIsPayload'
<1>1. Elems(woken') = Elems(woken) \cup Elems(blocked)
  BY Parts DEF ReleaseBackpressure, TypeOK
<1>2. Elems(blocked') = {}
  BY NoElems DEF ReleaseBackpressure
<1>. QED
  BY <1>1, <1>2 DEF HeldIsPayload

LEMMA SendSucceedsQInv == ASSUME IInv, QInv, SendSucceeds PROVE QInv'
<1>1. TypeOK /\ HeldIsPayload /\ NothingVanishes
  BY DEF IInv, QInv
<1>2. HeldIsPayload'
  BY <1>1, ReleaseKeepsHeld DEF SendSucceeds
<1>3. /\ Elems(pending) \subseteq dropped' \cup Elems(batch') \cup Elems(pending')
      /\ dropped \cup {} \subseteq dropped'
  <2>1. pending \in Seq(Events) /\ DrainLoop(pending, 0, {}) /\ {} \in SUBSET Events
    BY <1>1 DEF TypeOK, SendSucceeds
  <2>. QED
    BY <1>1, <2>1, NoFailures, LoopKeepsEvents
<1>4. NothingVanishes'
  BY <1>1, <1>3 DEF NothingVanishes, SendSucceeds
<1>. QED
  BY <1>2, <1>4 DEF QInv

LEMMA SendFailsForGoodQInv == ASSUME IInv, QInv, SendFailsForGood PROVE QInv'
<1>1. TypeOK /\ HeldIsPayload /\ NothingVanishes
  BY DEF IInv, QInv
<1>2. HeldIsPayload'
  BY <1>1, ReleaseKeepsHeld DEF SendFailsForGood
<1>3. /\ Elems(pending) \subseteq dropped' \cup Elems(batch') \cup Elems(pending')
      /\ dropped \cup Elems(batch) \subseteq dropped'
  <2>1. pending \in Seq(Events) /\ DrainLoop(pending, 0, Elems(batch))
    BY <1>1 DEF TypeOK, SendFailsForGood
  <2>. QED
    BY <1>1, <2>1, NoFailures, BatchElems, LoopKeepsEvents
<1>4. NothingVanishes'
  BY <1>1, <1>3 DEF NothingVanishes, SendFailsForGood
<1>. QED
  BY <1>2, <1>4 DEF QInv

LEMMA SendFailsQInv == ASSUME IInv, QInv, SendFails PROVE QInv'
<1>1. TypeOK /\ HeldIsPayload /\ NothingVanishes
  BY DEF IInv, QInv
<1>2. Elems(pending') = Elems(batch) \cup Elems(pending) /\ Elems(batch') = {}
  BY <1>1, Parts, NoElems DEF TypeOK, SendFails
<1>3. NothingVanishes'
  BY <1>1, <1>2 DEF NothingVanishes, SendFails, histVars
<1>4. HeldIsPayload'
  BY <1>1 DEF HeldIsPayload, SendFails
<1>. QED
  BY <1>3, <1>4 DEF QInv

LEMMA SleepEndsQInv == ASSUME IInv, QInv, SleepEnds PROVE QInv'
<1>1. TypeOK /\ Shape /\ HeldIsPayload /\ NothingVanishes
  BY DEF IInv, QInv
<1>2. batch = << >>
  BY <1>1 DEF Shape, SleepEnds
<1>3. /\ Elems(pending) \subseteq dropped' \cup Elems(batch') \cup Elems(pending')
      /\ dropped \cup {} \subseteq dropped'
  <2>1. /\ pending \in Seq(Events) /\ DrainLoop(pending, failures, {})
        /\ failures \in FailureBudget /\ {} \in SUBSET Events
    BY <1>1 DEF TypeOK, SleepEnds
  <2>. QED
    BY <1>1, <2>1, LoopKeepsEvents
<1>4. NothingVanishes'
  BY <1>1, <1>2, <1>3, NoElems DEF NothingVanishes, SleepEnds
<1>5. HeldIsPayload'
  BY <1>1 DEF HeldIsPayload, SleepEnds
<1>. QED
  BY <1>4, <1>5 DEF QInv

\* What is pushed is pending, or taken and thrown out by the drain loop it starts.
LEMMA PushKeepsEvents ==
  ASSUME IInv, NothingVanishes, NEW c \in Calls, NEW items \in Seq(Events),
         Push(c, items), UNCHANGED acked
  PROVE  NothingVanishes'
<1>1. TypeOK /\ Shape /\ pending \in Seq(Events) /\ accepted \in Seq(Events)
  BY DEF IInv, TypeOK
<1>. DEFINE q == pending \o items
<1>2. q \in Seq(Events) /\ Elems(q) = Elems(pending) \cup Elems(items)
  BY <1>1, Parts
<1>3. Elems(accepted') = Elems(accepted) \cup Elems(items)
  BY <1>1, Parts DEF Push
<1>4. CASE drain # "idle" \/ closed
  <2>1. pending' = q /\ UNCHANGED <<batch, dropped>>
    BY <1>4 DEF Push, KickDrain
  <2>. QED
    BY <1>2, <1>3, <2>1 DEF NothingVanishes
<1>5. CASE ~(drain # "idle" \/ closed)
  <2>1. DrainLoop(q, 0, {}) /\ batch = << >> /\ {} \in SUBSET Events
    BY <1>1, <1>5 DEF Push, KickDrain, Shape
  <2>2. /\ Elems(q) \subseteq dropped' \cup Elems(batch') \cup Elems(pending')
        /\ dropped \cup {} \subseteq dropped'
    <3>. HIDE DEF q
    <3>. QED
      BY <1>1, <1>2, <2>1, NoFailures, LoopKeepsEvents
  <2>. QED
    BY <1>2, <1>3, <2>1, <2>2, NoElems DEF NothingVanishes
<1>. QED
  BY <1>4, <1>5

LEMMA EnqueueQInv ==
  ASSUME IInv, QInv, NEW c \in Calls, Enqueue(c, Payload[c])
  PROVE  QInv'
<1>1. TypeOK /\ HeldIsPayload /\ NothingVanishes /\ Payload[c] \in Seq(Events)
  BY UploaderAssumption DEF IInv, QInv
<1>2. HeldIsPayload'
  <2>1. held' = [held EXCEPT ![c] = Payload[c]] /\ woken' = woken
    BY DEF Enqueue
  <2>2. Elems(blocked') \subseteq Elems(blocked) \cup {c}
    <3>1. blocked' = blocked \/ blocked' = Append(blocked, c)
      BY DEF Enqueue
    <3>2. Elems(Append(blocked, c)) = Elems(blocked) \cup {c}
      BY <1>1, AppendElems DEF TypeOK
    <3>. QED
      BY <3>1, <3>2
  <2>3. \A d \in Calls : held'[d] = IF d = c THEN Payload[c] ELSE held[d]
    BY <1>1, <2>1 DEF TypeOK
  <2>4. Elems(blocked) \subseteq Calls /\ Elems(woken) \subseteq Calls
    <3>1. /\ \A i \in 1..Len(blocked) : blocked[i] \in Calls
          /\ \A i \in 1..Len(woken) : woken[i] \in Calls
      BY <1>1 DEF TypeOK
    <3>. QED
      BY <3>1 DEF Elems
  <2>5. \A d \in Elems(blocked') \cup Elems(woken') :
          d \in Calls /\ (d = c \/ d \in Elems(blocked) \cup Elems(woken))
    BY <2>1, <2>2, <2>4
  <2>. QED
    BY <1>1, <2>3, <2>5 DEF HeldIsPayload
<1>3. CASE Push(c, Payload[c])
  <2>1. UNCHANGED acked
    BY DEF Enqueue
  <2>. QED
    BY <1>1, <1>2, <1>3, <2>1, PushKeepsEvents DEF QInv
<1>4. CASE UNCHANGED <<queueVars, accepted, dropped>>
  BY <1>1, <1>2, <1>4 DEF QInv, NothingVanishes, queueVars, Enqueue
<1>. QED
  BY <1>3, <1>4 DEF Enqueue

LEMMA ResumeQInv == ASSUME IInv, QInv, Resume PROVE QInv'
<1>. DEFINE c == Head(woken)
<1>1. TypeOK /\ HeldIsPayload /\ NothingVanishes /\ woken \in Seq(Calls) /\ woken # << >>
  BY DEF IInv, QInv, TypeOK, Resume
<1>2. /\ c \in Elems(woken) /\ c \in Calls /\ Elems(Tail(woken)) \subseteq Elems(woken)
      /\ held[c] \in Seq(Events)
  BY <1>1, TailElems DEF TypeOK
<1>3. HeldIsPayload'
  <2>1. UNCHANGED held /\ woken' = Tail(woken)
    BY DEF Resume
  <2>2. Elems(blocked') \subseteq Elems(blocked) \cup {c}
    <3>1. blocked' = blocked \/ blocked' = Append(blocked, c)
      BY DEF Resume
    <3>2. Elems(Append(blocked, c)) = Elems(blocked) \cup {c}
      BY <1>1, <1>2, AppendElems DEF TypeOK
    <3>. QED
      BY <3>1, <3>2
  <2>. QED
    BY <1>1, <1>2, <2>1, <2>2 DEF HeldIsPayload
<1>4. CASE Push(c, held[c])
  <2>1. UNCHANGED acked
    BY DEF Resume
  <2>. QED
    BY <1>1, <1>2, <1>3, <1>4, <2>1, PushKeepsEvents DEF QInv
<1>5. CASE UNCHANGED <<queueVars, accepted, dropped>>
  BY <1>1, <1>3, <1>5 DEF QInv, NothingVanishes, queueVars, Resume
<1>. QED
  BY <1>4, <1>5 DEF Resume

LEMMA CloseQInv == ASSUME IInv, QInv, Close PROVE QInv'
<1>1. TypeOK /\ HeldIsPayload /\ NothingVanishes
  BY DEF IInv, QInv
<1>2. HeldIsPayload'
  BY <1>1, ReleaseKeepsHeld DEF Close
<1>3. NothingVanishes'
  BY <1>1 DEF NothingVanishes, Close
<1>. QED
  BY <1>2, <1>3 DEF QInv

LEMMA NextQInv == IInv /\ QInv /\ [Next]_vars => QInv'
<1>. SUFFICES ASSUME IInv, QInv, [Next]_vars PROVE QInv'
  OBVIOUS
<1>1. CASE DrainStep
  BY <1>1, SendSucceedsQInv, SendFailsForGoodQInv, SendFailsQInv, SleepEndsQInv
     DEF DrainStep
<1>2. CASE Resume
  BY <1>2, ResumeQInv
<1>3. CASE \E c \in Calls : Enqueue(c, Payload[c])
  BY <1>3, EnqueueQInv
<1>4. CASE (\E f \in Flushes : Flush(f)) \/ UNCHANGED vars
  BY <1>4 DEF QInv, HeldIsPayload, NothingVanishes, Flush, queueVars, histVars,
              vars
<1>5. CASE Close
  BY <1>5, CloseQInv
<1>. QED
  BY <1>1, <1>2, <1>3, <1>4, <1>5 DEF Next

\* The second invariant holds in every reachable state.
THEOREM EventsInvariance == Spec => [](IInv /\ QInv)
<1>1. Init => QInv
  BY NoElems DEF Init, QInv, HeldIsPayload, NothingVanishes
<1>. QED
  BY <1>1, NextQInv, Invariance, PTL DEF Spec

\* A flush() of an open uploader returns with nothing pending and nothing in flight.
LEMMA FlushReturnsEmpty ==
  ASSUME IInv, [Next]_vars, NEW f \in Flushes,
         flush[f] # "returned", flush'[f] = "returned", ~closed'
  PROVE  pending' = << >> /\ batch' = << >>
<1>1. CASE DrainStep
  <2>1. PICK n, gone : DrainLoop(pending, n, gone)
    BY <1>1 DEF DrainStep, SendSucceeds, SendFailsForGood, SendFails, SleepEnds
  <2>. QED
    BY <2>1, LoopReturns
<1>2. CASE Resume \/ \E c \in Calls : Enqueue(c, Payload[c])
  <2>1. PICK c, items : Push(c, items)
    BY <1>2 DEF Resume, Enqueue
  <2>2. DrainLoop(pending \o items, 0, {})
    BY <2>1 DEF Push, KickDrain
  <2>. QED
    BY <2>2, LoopReturns
<1>3. CASE \E g \in Flushes : Flush(g)
  BY <1>3 DEF IInv, TypeOK, Shape, Flush, queueVars
<1>4. CASE Close \/ UNCHANGED vars
  BY <1>4 DEF Close, vars
<1>. QED
  BY <1>1, <1>2, <1>3, <1>4 DEF Next

LEMMA AcceptedGrows ==
  ASSUME IInv, [Next]_vars
  PROVE  Elems(accepted) \subseteq Elems(accepted')
<1>1. TypeOK
  BY DEF IInv
<1>2. ASSUME NEW c, NEW items \in Seq(Events), Push(c, items)
      PROVE  Elems(accepted) \subseteq Elems(accepted')
  BY <1>1, <1>2, Parts DEF Push, TypeOK
<1>3. CASE Resume
  <2>1. held[Head(woken)] \in Seq(Events)
    BY <1>1, <1>3 DEF TypeOK, Resume
  <2>2. accepted' = accepted \/ Push(Head(woken), held[Head(woken)])
    BY <1>3 DEF Resume
  <2>. QED
    BY <1>2, <2>1, <2>2
<1>4. CASE \E c \in Calls : Enqueue(c, Payload[c])
  <2>1. PICK c \in Calls : Enqueue(c, Payload[c])
    BY <1>4
  <2>2. accepted' = accepted \/ Push(c, Payload[c])
    BY <2>1 DEF Enqueue
  <2>. QED
    BY <1>2, <2>2, UploaderAssumption
<1>5. CASE ~Resume /\ ~(\E c \in Calls : Enqueue(c, Payload[c]))
  <2>1. accepted' = accepted
    BY <1>5 DEF Next, DrainStep, SendSucceeds, SendFailsForGood, SendFails, SleepEnds,
                Flush, Close, vars
  <2>. QED
    BY <2>1
<1>. QED
  BY <1>3, <1>4, <1>5

\* flush() keeps its promise: when it returns from an uploader that was not closed,
\* every event that enqueue() ever accepted was acknowledged or given up.
THEOREM FlushSettles == Spec => FlushMeansSettled
<1>1. IInv /\ QInv /\ QInv' /\ [Next]_vars =>
        [\A f \in Flushes :
           flush[f] # "returned" /\ flush'[f] = "returned" /\ ~closed'
             => Elems(accepted) \subseteq acked' \cup dropped']_vars
  <2>. SUFFICES ASSUME IInv, QInv', [Next]_vars, NEW f \in Flushes,
                       flush[f] # "returned", flush'[f] = "returned", ~closed'
                PROVE  Elems(accepted) \subseteq acked' \cup dropped'
    OBVIOUS
  <2>1. Elems(accepted') \subseteq acked' \cup dropped'
    BY FlushReturnsEmpty, NoElems DEF QInv, NothingVanishes
  <2>2. Elems(accepted) \subseteq Elems(accepted')
    BY AcceptedGrows
  <2>. QED
    BY <2>1, <2>2
<1>. QED
  BY <1>1, EventsInvariance, PTL DEF Spec, FlushMeansSettled
-------------------------------------------------------------------------------
(* Every step of the uploader is a step of the ordered queue, or invisible.  *)

LEMMA WithoutIs ==
  ASSUME NEW s, NEW P
  PROVE  Promise!Without(s, P) = Selected(s, DOMAIN s \ P)
  BY Zenon DEF Promise!Without, Promise!Selected, Promise!Rank, Promise!Cardinality,
               Promise!IsFiniteSet, Selected, Rank, Cardinality, IsFiniteSet

\* A POST that settles takes the batch off the front of the queue.
LEMMA BatchIsFront ==
  ASSUME IInv, drain = "sending"
  PROVE  /\ Len(batch) \in Promise!Sizes \ {0}
         /\ Promise!Rest(batch \o pending, Len(batch)) = pending
         /\ Promise!At(batch \o pending, 1..Len(batch)) = Elems(batch)
<1>1. /\ batch \in Seq(Events) /\ pending \in Seq(Events) /\ batch # << >>
      /\ Len(batch) <= MaxBatchSize
  BY DEF IInv, TypeOK, Shape
<1>2. Len(batch) \in Nat \ {0} /\ Len(pending) \in Nat
  BY <1>1, LenProperties, EmptySeq
<1>3. Len(batch) \in 0..Len(batch \o pending)
  BY <1>1, <1>2, Parts
<1>. QED
  BY <1>1, <1>2, <1>3, Parts DEF Promise!Sizes, Promise!Rest, Promise!At

LEMMA SendSucceedsDelivers ==
  ASSUME IInv, SendSucceeds
  PROVE  Promise!Next
<1>1. TypeOK /\ pending \in Seq(Events) /\ DrainLoop(pending, 0, {}) /\ {} \in SUBSET Events
  BY DEF IInv, TypeOK, SendSucceeds
<1>2. PICK P \in SUBSET {i \in DOMAIN pending : pending[i] \in Unserializable} :
        /\ batch' \o pending' = Selected(pending, DOMAIN pending \ P)
        /\ dropped' = dropped \cup {} \cup {pending[i] : i \in P}
  BY <1>1, LoopLeaves
<1>. DEFINE n == Len(batch)
<1>3. /\ n \in Promise!Sizes \ {0}
      /\ Promise!Rest(batch \o pending, n) = pending
      /\ Promise!At(batch \o pending, 1..n) = Elems(batch)
  BY BatchIsFront DEF SendSucceeds
<1>4. P \in Promise!Vanishing(Promise!Rest(batch \o pending, n))
  BY <1>2, <1>3 DEF Promise!Vanishing
<1>5. acked' = acked \cup Elems(batch) /\ closed' = closed
  BY DEF SendSucceeds
<1>6. Promise!Deliver(n, P)
  BY <1>2, <1>3, <1>5, WithoutIs DEF Promise!Deliver, Promise!At
<1>. QED
  BY <1>3, <1>4, <1>6 DEF Promise!Next

LEMMA SendFailsForGoodGivesUp ==
  ASSUME IInv, SendFailsForGood
  PROVE  Promise!Next
<1>1. /\ TypeOK /\ pending \in Seq(Events) /\ DrainLoop(pending, 0, Elems(batch))
      /\ Elems(batch) \in SUBSET Events
  BY BatchElems DEF IInv, TypeOK, SendFailsForGood
<1>2. PICK P \in SUBSET {i \in DOMAIN pending : pending[i] \in Unserializable} :
        /\ batch' \o pending' = Selected(pending, DOMAIN pending \ P)
        /\ dropped' = dropped \cup Elems(batch) \cup {pending[i] : i \in P}
  BY <1>1, LoopLeaves
<1>. DEFINE n == Len(batch)
<1>3. /\ n \in Promise!Sizes \ {0}
      /\ Promise!Rest(batch \o pending, n) = pending
      /\ Promise!At(batch \o pending, 1..n) = Elems(batch)
  BY BatchIsFront DEF SendFailsForGood
<1>4. P \in Promise!Vanishing(Promise!Rest(batch \o pending, n))
  BY <1>2, <1>3 DEF Promise!Vanishing
<1>5. acked' = acked /\ closed' = closed /\ MaxFailures > 0
  BY DEF SendFailsForGood
<1>6. Promise!GiveUp(n, P)
  BY <1>2, <1>3, <1>5, WithoutIs DEF Promise!GiveUp, Promise!At
<1>. QED
  BY <1>3, <1>4, <1>6 DEF Promise!Next

\* A retry puts the batch back where it was: the queue does not change.
LEMMA SendFailsIsInvisible ==
  ASSUME IInv, SendFails
  PROVE  UNCHANGED Promise!vars
<1>1. batch' \o pending' = batch \o pending
  <2>1. batch \o pending \in Seq(Events)
    BY Parts DEF IInv, TypeOK
  <2>2. batch' = << >> /\ pending' = batch \o pending
    BY DEF SendFails
  <2>. QED
    BY <2>1, <2>2, ConcatEmptySeq
<1>. QED
  BY <1>1 DEF SendFails, histVars, Promise!vars

LEMMA SleepEndsDiscards ==
  ASSUME IInv, SleepEnds
  PROVE  Promise!Next
<1>1. /\ TypeOK /\ pending \in Seq(Events) /\ DrainLoop(pending, failures, {})
      /\ {} \in SUBSET Events
  BY DEF IInv, TypeOK, SleepEnds
<1>2. PICK P \in SUBSET {i \in DOMAIN pending : pending[i] \in Unserializable} :
        /\ batch' \o pending' = Selected(pending, DOMAIN pending \ P)
        /\ dropped' = dropped \cup {} \cup {pending[i] : i \in P}
  BY <1>1, LoopLeaves
<1>3. batch \o pending = pending
  <2>1. batch = << >>
    BY DEF IInv, Shape, SleepEnds
  <2>. QED
    BY <1>1, <2>1, ConcatEmptySeq
<1>4. P \in Promise!Vanishing(batch \o pending)
  BY <1>2, <1>3 DEF Promise!Vanishing
<1>5. Promise!Discard(P)
  BY <1>2, <1>3, WithoutIs DEF Promise!Discard, Promise!At, SleepEnds
<1>. QED
  BY <1>4, <1>5 DEF Promise!Next

\* What is pushed joins the queue at the end, behind the batch in flight, unless
\* the drain loop it starts throws it out.
LEMMA PushAccepts ==
  ASSUME IInv, ~closed, NEW c \in Calls, NEW d \in Calls, Push(c, Payload[d]),
         UNCHANGED <<closed, acked>>
  PROVE  Promise!Next
<1>. DEFINE g == Payload[d]
<1>. DEFINE q == pending \o g
<1>1. /\ TypeOK /\ Shape /\ pending \in Seq(Events) /\ batch \in Seq(Events)
      /\ g \in Seq(Events) /\ q \in Seq(Events)
  BY UploaderAssumption, Parts DEF IInv, TypeOK
<1>2. (batch \o pending) \o g = batch \o q
  <2>. HIDE DEF g
  <2>. QED
    BY <1>1, ConcatAssociative
<1>3. \E P \in SUBSET {i \in DOMAIN (batch \o q) : (batch \o q)[i] \in Unserializable} :
        /\ batch' \o pending' = Selected(batch \o q, DOMAIN (batch \o q) \ P)
        /\ dropped' = dropped \cup {(batch \o q)[i] : i \in P}
  <2>1. CASE drain # "idle"
    <3>1. batch' = batch /\ pending' = q /\ dropped' = dropped
      BY <2>1 DEF Push, KickDrain
    <3>2. batch \o q \in Seq(Events)
      BY <1>1, Parts
    <3>3. Selected(batch \o q, DOMAIN (batch \o q) \ {}) = batch \o q
      BY <3>2, SelectedAll
    <3>4. {} \in SUBSET {i \in DOMAIN (batch \o q) : (batch \o q)[i] \in Unserializable}
      OBVIOUS
    <3>. QED
      BY <3>1, <3>3, <3>4
  <2>2. CASE drain = "idle"
    <3>1. DrainLoop(q, 0, {}) /\ batch = << >> /\ {} \in SUBSET Events
      BY <1>1, <2>2 DEF Push, KickDrain, Shape
    <3>2. batch \o q = q
      BY <1>1, <3>1, ConcatEmptySeq
    <3>. DEFINE r == batch \o q
    <3>. HIDE DEF q
    <3>3. r \in Seq(Events) /\ DrainLoop(r, 0, {})
      BY <1>1, <3>1, <3>2
    <3>4. \E P \in SUBSET {i \in DOMAIN r : r[i] \in Unserializable} :
            /\ batch' \o pending' = Selected(r, DOMAIN r \ P)
            /\ dropped' = dropped \cup {} \cup {r[i] : i \in P}
      <4>. HIDE DEF r
      <4>. QED
        BY <1>1, <3>1, <3>3, LoopLeaves
    <3>5. dropped \cup {} = dropped
      OBVIOUS
    <3>. QED
      BY <3>4, <3>5
  <2>. QED
    BY <2>1, <2>2
<1>4. PICK P \in SUBSET {i \in DOMAIN (batch \o q) : (batch \o q)[i] \in Unserializable} :
        /\ batch' \o pending' = Selected(batch \o q, DOMAIN (batch \o q) \ P)
        /\ dropped' = dropped \cup {(batch \o q)[i] : i \in P}
  BY <1>3
<1>. HIDE DEF q
<1>5. P \in Promise!Vanishing((batch \o pending) \o g)
  BY <1>2, <1>4 DEF Promise!Vanishing
<1>6. Promise!Accept(g, P)
  BY <1>2, <1>4, WithoutIs DEF Promise!Accept, Promise!At
<1>7. g \in {Payload[e] : e \in Calls}
  OBVIOUS
<1>. QED
  BY <1>5, <1>6, <1>7 DEF Promise!Next

LEMMA EnqueueAccepts ==
  ASSUME IInv, NEW c \in Calls, Enqueue(c, Payload[c])
  PROVE  Promise!Next \/ UNCHANGED Promise!vars
<1>1. CASE ~closed /\ Push(c, Payload[c])
  BY <1>1, PushAccepts DEF Enqueue
<1>2. CASE UNCHANGED <<queueVars, accepted, dropped>>
  BY <1>2 DEF Enqueue, queueVars, Promise!vars
<1>. QED
  BY <1>1, <1>2 DEF Enqueue

LEMMA ResumeAccepts ==
  ASSUME IInv, QInv, Resume
  PROVE  Promise!Next \/ UNCHANGED Promise!vars
<1>. DEFINE c == Head(woken)
<1>1. c \in Calls /\ held[c] = Payload[c]
  <2>1. woken \in Seq(Calls) /\ woken # << >>
    BY DEF IInv, TypeOK, Resume
  <2>2. c \in Calls /\ c \in Elems(woken)
    BY <2>1, TailElems
  <2>. QED
    BY <2>2 DEF QInv, HeldIsPayload
<1>2. CASE ~closed /\ Push(c, held[c])
  BY <1>1, <1>2, PushAccepts DEF Resume
<1>3. CASE UNCHANGED <<queueVars, accepted, dropped>>
  BY <1>3 DEF Resume, queueVars, Promise!vars
<1>. QED
  BY <1>2, <1>3 DEF Resume

\* Closing keeps the batch in flight and throws the rest away.
LEMMA CloseCloses ==
  ASSUME IInv, Close
  PROVE  Promise!Next
<1>. DEFINE n == Len(batch)
<1>1. /\ batch \in Seq(Events) /\ pending \in Seq(Events) /\ n \in Nat
      /\ n <= MaxBatchSize /\ n \in 0..Len(batch \o pending)
  <2>1. batch \in Seq(Events) /\ pending \in Seq(Events) /\ n <= MaxBatchSize
    BY DEF IInv, TypeOK, Shape
  <2>2. n \in Nat /\ Len(pending) \in Nat /\ Len(batch \o pending) = n + Len(pending)
    BY <2>1, Parts, LenProperties
  <2>. QED
    BY <2>1, <2>2
<1>2. n \in Promise!Sizes
  BY <1>1 DEF Promise!Sizes
<1>3. batch' \o pending' = batch
  BY <1>1, ConcatEmptySeq DEF Close
<1>4. /\ SubSeq(batch \o pending, 1, n) = batch
      /\ {(batch \o pending)[i] : i \in (n + 1)..Len(batch \o pending)} = Elems(pending)
  BY <1>1, Parts
<1>5. Promise!Close(n)
  BY <1>3, <1>4 DEF Close, Promise!Close, Promise!Front, Promise!At
<1>. QED
  BY <1>2, <1>5 DEF Promise!Next

LEMMA StepIsQueueStep ==
  IInv /\ QInv /\ [Next]_vars => [Promise!Next]_(Promise!vars)
<1>. SUFFICES ASSUME IInv, QInv, [Next]_vars
              PROVE  Promise!Next \/ UNCHANGED Promise!vars
  OBVIOUS
<1>1. CASE DrainStep
  BY <1>1, SendSucceedsDelivers, SendFailsForGoodGivesUp, SendFailsIsInvisible,
     SleepEndsDiscards DEF DrainStep
<1>2. CASE Resume
  BY <1>2, ResumeAccepts
<1>3. CASE \E c \in Calls : Enqueue(c, Payload[c])
  BY <1>3, EnqueueAccepts
<1>4. CASE (\E f \in Flushes : Flush(f)) \/ UNCHANGED vars
  BY <1>4 DEF Flush, queueVars, histVars, vars, Promise!vars
<1>5. CASE Close
  BY <1>5, CloseCloses
<1>. QED
  BY <1>1, <1>2, <1>3, <1>4, <1>5 DEF Next

\* The uploader implements a first-in first-out queue: whatever fails, is retried,
\* dropped or woken in between, events leave from the front and in order.
THEOREM ImplementsQueue == Spec => OrderedQueueRefined
<1>1. Init => Promise!Init
  <2>1. << >> \o << >> = << >>
    OBVIOUS
  <2>. QED
    BY <2>1 DEF Init, Promise!Init
<1>. QED
  BY <1>1, StepIsQueueStep, EventsInvariance, PTL
     DEF Spec, OrderedQueueRefined, Promise!Spec
-------------------------------------------------------------------------------
(***************************************************************************)
(* The transport.  It hands the uploader more than a payload at a time, so *)
(* that a call need not fit; what is kept then is Base.                    *)
(***************************************************************************)
Base ==
  /\ TypeOK /\ NothingVanishes
  /\ drain = "sending" <=> batch # << >>

UploaderStep ==
  \/ DrainStep \/ Resume \/ Close
  \/ \E c \in Calls : \E items \in Seq(Events) : Enqueue(c, items)
  \/ \E f \in Flushes : Flush(f)

\* What else a step may do when it starts or continues the drain loop.
OthersTyped ==
  /\ closed' \in BOOLEAN /\ blocked' \in Seq(Calls) /\ woken' \in Seq(Calls)
  /\ held' \in [Calls -> Seq(Events)] /\ call' \in [Calls -> States]
  /\ droppedBatches' \in Nat /\ accepted' \in Seq(Events) /\ acked' \subseteq Events

LEMMA LoopKeepsBase ==
  ASSUME Base, OthersTyped, NEW q \in Seq(Events), NEW n \in FailureBudget,
         NEW gone \in SUBSET Events, DrainLoop(q, n, gone),
         Elems(accepted') \subseteq acked' \cup dropped \cup gone \cup Elems(q)
  PROVE  Base'
<1>1. TypeOK
  BY DEF Base
<1>2. LoopResult(q)
  BY <1>1, LoopLemma
<1>3. /\ Elems(q) \subseteq dropped' \cup Elems(batch') \cup Elems(pending')
      /\ dropped \cup gone \subseteq dropped'
  BY <1>1, LoopKeepsEvents
<1>4. TypeOK'
  BY <1>2 DEF OthersTyped, LoopResult, TypeOK
<1>5. NothingVanishes'
  BY <1>3 DEF NothingVanishes
<1>. QED
  BY <1>2, <1>4, <1>5 DEF Base, LoopResult

LEMMA DrainKeepsBase ==
  ASSUME Base, DrainStep
  PROVE  Base'
<1>0. /\ TypeOK /\ NothingVanishes /\ pending \in Seq(Events) /\ batch \in Seq(Events)
      /\ drain = "sending" <=> batch # << >>
  BY DEF Base, TypeOK
<1>1. CASE SendSucceeds
  <2>1. DrainLoop(pending, 0, {}) /\ {} \in SUBSET Events
    BY <1>1 DEF SendSucceeds
  <2>2. OthersTyped
    BY <1>0, <1>1, BatchElems, EmptySeq
       DEF OthersTyped, SendSucceeds, ReleaseBackpressure, TypeOK
  <2>3. Elems(accepted') \subseteq acked' \cup dropped \cup {} \cup Elems(pending)
    BY <1>0, <1>1 DEF SendSucceeds, NothingVanishes
  <2>. QED
    BY <1>0, <2>1, <2>2, <2>3, NoFailures, LoopKeepsBase
<1>2. CASE SendFailsForGood
  <2>1. DrainLoop(pending, 0, Elems(batch)) /\ Elems(batch) \in SUBSET Events
    BY <1>0, <1>2, BatchElems DEF SendFailsForGood
  <2>2. OthersTyped
    BY <1>0, <1>2, EmptySeq
       DEF OthersTyped, SendFailsForGood, ReleaseBackpressure, TypeOK
  <2>3. Elems(accepted') \subseteq acked' \cup dropped \cup Elems(batch) \cup Elems(pending)
    BY <1>0, <1>2 DEF SendFailsForGood, NothingVanishes
  <2>. QED
    BY <1>0, <2>1, <2>2, <2>3, NoFailures, LoopKeepsBase
<1>3. CASE SleepEnds
  <2>1. DrainLoop(pending, failures, {}) /\ {} \in SUBSET Events /\ failures \in FailureBudget
    BY <1>0, <1>3 DEF SleepEnds, TypeOK
  <2>2. OthersTyped
    BY <1>0, <1>3 DEF OthersTyped, SleepEnds, TypeOK
  <2>3. Elems(batch) = {}
    BY <1>0, <1>3, NoElems DEF SleepEnds
  <2>4. Elems(accepted') \subseteq acked' \cup dropped \cup {} \cup Elems(pending)
    BY <1>0, <1>3, <2>3 DEF SleepEnds, NothingVanishes
  <2>. QED
    BY <1>0, <2>1, <2>2, <2>4, LoopKeepsBase
<1>4. CASE SendFails
  <2>1. Elems(pending') = Elems(batch) \cup Elems(pending) /\ Elems(batch') = {}
    BY <1>0, <1>4, Parts, NoElems DEF SendFails
  <2>2. pending' \in Seq(Events) /\ batch' \in Seq(Events)
    BY <1>0, <1>4, Parts, EmptySeq DEF SendFails
  <2>3. failures' \in FailureBudget
    BY <1>0, <1>4, UploaderAssumption DEF SendFails, FailureBudget, TypeOK
  <2>4. TypeOK'
    BY <1>0, <1>4, <2>2, <2>3 DEF SendFails, TypeOK, histVars
  <2>5. NothingVanishes'
    BY <1>0, <1>4, <2>1 DEF SendFails, NothingVanishes, histVars
  <2>. QED
    BY <1>4, <2>4, <2>5 DEF Base, SendFails
<1>. QED
  BY <1>1, <1>2, <1>3, <1>4 DEF DrainStep

LEMMA PushKeepsBase ==
  ASSUME Base, NEW c \in Calls, NEW items \in Seq(Events), Push(c, items),
         UNCHANGED <<closed, droppedBatches, acked>>,
         blocked' \in Seq(Calls), woken' \in Seq(Calls), held' \in [Calls -> Seq(Events)]
  PROVE  Base' /\ Elems(accepted') = Elems(accepted) \cup Elems(items)
<1>. DEFINE q == pending \o items
<1>1. /\ TypeOK /\ NothingVanishes
      /\ drain = "sending" <=> batch # << >>
      /\ pending \in Seq(Events) /\ accepted \in Seq(Events)
  BY DEF Base, TypeOK
<1>2. q \in Seq(Events) /\ Elems(q) = Elems(pending) \cup Elems(items)
  BY <1>1, Parts
<1>3. accepted' \in Seq(Events) /\ Elems(accepted') = Elems(accepted) \cup Elems(items)
  BY <1>1, Parts DEF Push
<1>4. OthersTyped
  BY <1>1, <1>3 DEF OthersTyped, TypeOK, Push, States
<1>5. CASE drain # "idle" \/ closed
  <2>1. pending' = q /\ UNCHANGED <<batch, drain, failures, flush, dropped>>
    BY <1>5 DEF Push, KickDrain
  <2>. HIDE DEF q
  <2>2. TypeOK'
    BY <1>1, <1>2, <1>4, <2>1 DEF TypeOK, OthersTyped
  <2>3. NothingVanishes'
    BY <1>1, <1>2, <1>3, <2>1 DEF NothingVanishes
  <2>. QED
    BY <1>1, <1>3, <2>1, <2>2, <2>3 DEF Base
<1>6. CASE ~(drain # "idle" \/ closed)
  <2>1. DrainLoop(q, 0, {}) /\ batch = << >> /\ {} \in SUBSET Events
    BY <1>1, <1>6 DEF Push, KickDrain
  <2>. HIDE DEF q
  <2>2. Elems(accepted') \subseteq acked' \cup dropped \cup {} \cup Elems(q)
    BY <1>1, <1>2, <1>3, <2>1, NoElems DEF NothingVanishes
  <2>. QED
    BY <1>2, <1>3, <1>4, <2>1, <2>2, NoFailures, LoopKeepsBase
<1>. QED
  BY <1>5, <1>6

LEMMA EnqueueKeepsBase ==
  ASSUME Base, NEW c \in Calls, NEW items \in Seq(Events), Enqueue(c, items)
  PROVE  /\ Base'
         /\ \/ accepted' = accepted \o items
            \/ accepted' = accepted /\ (closed \/ items = << >> \/ call'[c] = "waiting")
<1>1. TypeOK /\ NothingVanishes
  BY DEF Base
<1>2. /\ UNCHANGED <<closed, droppedBatches, acked, woken>>
      /\ held' \in [Calls -> Seq(Events)]
  BY <1>1 DEF Enqueue, TypeOK
<1>3. CASE Push(c, items) /\ blocked' = blocked
  BY <1>1, <1>2, <1>3, PushKeepsBase DEF TypeOK, Push
<1>4. ASSUME UNCHANGED <<queueVars, flush, accepted, dropped>>,
             blocked' \in Seq(Calls), call' \in [Calls -> States]
      PROVE  Base'
  <2>1. TypeOK' /\ NothingVanishes'
    BY <1>1, <1>2, <1>4 DEF TypeOK, NothingVanishes, queueVars
  <2>. QED
    BY <1>4, <2>1 DEF Base, queueVars
<1>5. CASE /\ closed \/ items = << >>
           /\ call' = [call EXCEPT ![c] = "returned"]
           /\ UNCHANGED <<queueVars, blocked, flush, accepted, dropped>>
  BY <1>1, <1>4, <1>5 DEF TypeOK, States
<1>6. CASE /\ call' = [call EXCEPT ![c] = "waiting"]
           /\ blocked' = Append(blocked, c)
           /\ UNCHANGED <<queueVars, flush, accepted, dropped>>
  BY <1>1, <1>4, <1>6, AppendProperties DEF TypeOK, States
<1>. QED
  BY <1>3, <1>5, <1>6 DEF Enqueue

LEMMA ResumeKeepsBase ==
  ASSUME Base, Resume
  PROVE  Base' /\ Elems(accepted) \subseteq Elems(accepted')
<1>. DEFINE c == Head(woken)
<1>1. /\ TypeOK /\ NothingVanishes /\ c \in Calls /\ woken' \in Seq(Calls)
      /\ held[c] \in Seq(Events)
  BY HeadTailProperties DEF Base, Resume, TypeOK
<1>2. UNCHANGED <<closed, held, droppedBatches, acked>>
  BY DEF Resume
<1>3. CASE Push(c, held[c]) /\ blocked' = blocked
  BY <1>1, <1>2, <1>3, PushKeepsBase DEF TypeOK
<1>4. CASE /\ UNCHANGED <<queueVars, flush, accepted, dropped>>
           /\ blocked' \in Seq(Calls) /\ call' \in [Calls -> States]
  <2>1. TypeOK' /\ NothingVanishes'
    BY <1>1, <1>2, <1>4 DEF TypeOK, NothingVanishes, queueVars
  <2>. QED
    BY <1>4, <2>1 DEF Base, queueVars
<1>5. CASE /\ call' = [call EXCEPT ![c] = "returned"]
           /\ UNCHANGED <<queueVars, blocked, flush, accepted, dropped>>
  BY <1>1, <1>4, <1>5 DEF TypeOK, States
<1>6. CASE /\ blocked' = Append(blocked, c)
           /\ UNCHANGED <<queueVars, call, flush, accepted, dropped>>
  BY <1>1, <1>4, <1>6, AppendProperties DEF TypeOK
<1>. QED
  BY <1>3, <1>5, <1>6 DEF Resume

LEMMA FlushAndCloseKeepBase ==
  ASSUME Base, Close \/ \E f \in Flushes : Flush(f)
  PROVE  Base'
<1>1. TypeOK /\ NothingVanishes
  BY DEF Base
<1>2. CASE Close
  <2>1. /\ pending' = << >> /\ << >> \in Seq(Events) /\ Elems(pending') = {}
        /\ blocked' \in Seq(Calls) /\ woken' \in Seq(Calls)
    BY <1>1, <1>2, NoElems, EmptySeq DEF Close, ReleaseBackpressure, TypeOK
  <2>2. dropped' = dropped \cup Elems(pending) /\ dropped' \subseteq Events
    BY <1>1, <1>2, BatchElems DEF Close, TypeOK
  <2>3. flush' \in [Flushes -> States]
    BY <1>1, <1>2 DEF Close, TypeOK, States
  <2>4. TypeOK'
    BY <1>1, <1>2, <2>1, <2>2, <2>3 DEF Close, TypeOK
  <2>5. NothingVanishes'
    BY <1>1, <1>2, <2>1, <2>2 DEF Close, NothingVanishes
  <2>. QED
    BY <1>2, <2>4, <2>5 DEF Base, Close
<1>3. CASE \E f \in Flushes : Flush(f)
  <2>1. TypeOK' /\ NothingVanishes'
    BY <1>1, <1>3 DEF TypeOK, NothingVanishes, Flush, queueVars, histVars, States
  <2>. QED
    BY <1>3, <2>1 DEF Base, Flush, queueVars
<1>. QED
  BY <1>2, <1>3

LEMMA UploaderKeepsBase ==
  ASSUME Base, UploaderStep
  PROVE  Base' /\ Elems(accepted) \subseteq Elems(accepted')
<1>1. CASE DrainStep
  <2>1. accepted' = accepted
    BY <1>1 DEF DrainStep, SendSucceeds, SendFailsForGood, SendFails, SleepEnds
  <2>. QED
    BY <1>1, <2>1, DrainKeepsBase
<1>2. CASE Resume
  BY <1>2, ResumeKeepsBase
<1>3. CASE \E c \in Calls : \E items \in Seq(Events) : Enqueue(c, items)
  <2>1. PICK c \in Calls, items \in Seq(Events) : Enqueue(c, items)
    BY <1>3
  <2>2. Base' /\ accepted' \in {accepted, accepted \o items}
    BY <2>1, EnqueueKeepsBase
  <2>3. Elems(accepted \o items) = Elems(accepted) \cup Elems(items)
    BY Parts DEF Base, TypeOK
  <2>. QED
    BY <2>2, <2>3
<1>4. CASE Close \/ \E f \in Flushes : Flush(f)
  <2>1. accepted' = accepted
    BY <1>4 DEF Close, Flush
  <2>. QED
    BY <1>4, <2>1, FlushAndCloseKeepBase
<1>. QED
  BY <1>1, <1>2, <1>3, <1>4 DEF UploaderStep

\* What is settled stays settled; and a flush() that returns from an open uploader
\* leaves nothing there.
LEMMA SettledGrows ==
  ASSUME Base, UploaderStep
  PROVE  acked \subseteq acked' /\ dropped \subseteq dropped' /\ (closed => closed')
<1>1. TypeOK /\ pending \in Seq(Events)
  BY DEF Base, TypeOK
<1>2. ASSUME NEW q \in Seq(Events), NEW n, NEW gone, DrainLoop(q, n, gone)
      PROVE  dropped \subseteq dropped'
  BY <1>2 DEF DrainLoop
<1>3. CASE DrainStep
  <2>1. acked \subseteq acked' /\ closed' = closed
    BY <1>3 DEF DrainStep, SendSucceeds, SendFailsForGood, SendFails, SleepEnds, histVars
  <2>2. dropped' = dropped \/ \E n, gone : DrainLoop(pending, n, gone)
    BY <1>3 DEF DrainStep, SendSucceeds, SendFailsForGood, SendFails, SleepEnds, histVars
  <2>. QED
    BY <1>1, <1>2, <2>1, <2>2
<1>4. CASE Resume \/ \E c \in Calls : \E items \in Seq(Events) : Enqueue(c, items)
  <2>1. acked' = acked /\ closed' = closed
    BY <1>4 DEF Resume, Enqueue
  <2>2. dropped' = dropped \/ \E c, items : Push(c, items)
    BY <1>4 DEF Resume, Enqueue
  <2>3. dropped \subseteq dropped'
    BY <2>2 DEF Push, KickDrain, DrainLoop
  <2>. QED
    BY <2>1, <2>3
<1>5. CASE Close \/ \E f \in Flushes : Flush(f)
  BY <1>5 DEF Close, Flush, histVars
<1>. QED
  BY <1>3, <1>4, <1>5 DEF UploaderStep

LEMMA ReturnsWhenEmpty ==
  ASSUME Base, UploaderStep, NEW f \in Flushes,
         flush[f] # "returned", flush'[f] = "returned", ~closed'
  PROVE  pending' = << >> /\ batch' = << >>
<1>1. CASE DrainStep
  <2>1. PICK n, gone : DrainLoop(pending, n, gone)
    BY <1>1 DEF DrainStep, SendSucceeds, SendFailsForGood, SendFails, SleepEnds
  <2>. QED
    BY <2>1, LoopReturns
<1>2. CASE Resume \/ \E c \in Calls : \E items \in Seq(Events) : Enqueue(c, items)
  <2>1. PICK c, items : Push(c, items)
    BY <1>2 DEF Resume, Enqueue
  <2>2. DrainLoop(pending \o items, 0, {})
    BY <2>1 DEF Push, KickDrain
  <2>. QED
    BY <2>2, LoopReturns
<1>3. CASE \E g \in Flushes : Flush(g)
  BY <1>3 DEF Base, TypeOK, Flush, queueVars
<1>4. CASE Close
  BY <1>4 DEF Close
<1>. QED
  BY <1>1, <1>2, <1>3, <1>4 DEF UploaderStep

\* Only a flush() that is called leaves "ready", and a call to enqueue() never is
\* "ready" again.
LEMMA OnlyFlushAsks ==
  ASSUME Base, NEW f \in Flushes, flush[f] = "ready",
         \/ DrainStep \/ Resume \/ Close
         \/ \E c \in Calls : \E items \in Seq(Events) : Enqueue(c, items)
  PROVE  flush'[f] = "ready"
<1>1. flush \in [Flushes -> States]
  BY DEF Base, TypeOK
<1>2. ASSUME NEW q, NEW n, NEW gone, DrainLoop(q, n, gone)
      PROVE  flush'[f] = "ready"
  BY <1>1, <1>2 DEF DrainLoop, DrainExits
<1>3. CASE DrainStep
  <2>1. flush' = flush \/ \E n, gone : DrainLoop(pending, n, gone)
    BY <1>3 DEF DrainStep, SendSucceeds, SendFailsForGood, SendFails, SleepEnds
  <2>. QED
    BY <1>2, <2>1
<1>4. CASE Resume \/ \E c \in Calls : \E items \in Seq(Events) : Enqueue(c, items)
  <2>1. flush' = flush \/ \E c, items : Push(c, items)
    BY <1>4 DEF Resume, Enqueue
  <2>2. flush' = flush \/ \E q : DrainLoop(q, 0, {})
    BY <2>1 DEF Push, KickDrain
  <2>. QED
    BY <1>2, <2>2
<1>5. CASE Close
  BY <1>1, <1>5 DEF Close
<1>. QED
  BY <1>3, <1>4, <1>5

LEMMA CallsAdvance ==
  ASSUME Base, UploaderStep, NEW c \in Calls, call[c] # "ready"
  PROVE  call'[c] # "ready"
<1>1. call \in [Calls -> States]
  BY DEF Base, TypeOK
<1>2. CASE DrainStep \/ Close \/ \E f \in Flushes : Flush(f)
  BY <1>2 DEF DrainStep, SendSucceeds, SendFailsForGood, SendFails, SleepEnds, Close, Flush
<1>3. CASE Resume \/ \E d \in Calls : \E items \in Seq(Events) : Enqueue(d, items)
  <2>1. \/ call' = call
        \/ \E d, s : s # "ready" /\ call' = [call EXCEPT ![d] = s]
    BY <1>3 DEF Resume, Enqueue, Push
  <2>. QED
    BY <1>1, <2>1
<1>. QED
  BY <1>2, <1>3 DEF UploaderStep
-------------------------------------------------------------------------------
(* The order of what is written. *)

\* What is appended to a sequence does not disturb what is selected from it, ...
LEMMA SelectedStays ==
  ASSUME NEW C, NEW s \in Seq(C), NEW t \in Seq(C), NEW K \in SUBSET DOMAIN s
  PROVE  Selected(s \o t, K) = Selected(s, K)
<1>. DEFINE r == Selected(s, K)
<1>1. /\ IsFiniteSet(K) /\ K \subseteq Int /\ r \in Seq(C) /\ Len(r) = Cardinality(K)
      /\ \A i \in K : r[Rank(K, i)] = s[i]
  BY SelectedType
<1>2. \A i \in K : (s \o t)[i] = s[i]
  BY ConcatProperties, LenProperties
<1>3. \A i \in K : r[Rank(K, i)] = (s \o t)[i]
  BY <1>1, <1>2
<1>. HIDE DEF r
<1>4. r = Selected(s \o t, K)
  BY <1>1, <1>3, SelectedIs
<1>. QED
  BY <1>4 DEF r

\* ... and can be selected with it.
LEMMA SelectedGrows ==
  ASSUME NEW C, NEW s \in Seq(C), NEW t \in Seq(C), NEW K \in SUBSET DOMAIN s
  PROVE  Selected(s \o t, K \cup (Len(s) + 1)..Len(s \o t)) = Selected(s, K) \o t
<1>. DEFINE w == s \o t
            k == Len(s)
<1>1. /\ w \in Seq(C) /\ DOMAIN s = 1..k /\ k \in Nat /\ Len(t) \in Nat
      /\ Len(w) = k + Len(t) /\ DOMAIN w = 1..Len(w) /\ k \in 0..Len(w)
      /\ SubSeq(w, k + 1, Len(w)) = t
  BY Parts, LenProperties
<1>2. Selected(w, K) = Selected(s, K)
  BY SelectedStays
<1>3. K \in SUBSET (1..k) /\ DOMAIN w \ ((1..k) \ K) = K \cup (k + 1)..Len(w)
  BY <1>1
<1>. HIDE DEF w, k
<1>4. Selected(w, K) \o SubSeq(w, k + 1, Len(w)) = Selected(w, DOMAIN w \ ((1..k) \ K))
  <2>1. w \in Seq(C) /\ k \in 0..Len(w) /\ K \in SUBSET (1..k)
    BY <1>1, <1>3
  <2>. QED
    BY <2>1, SelectedAndRest, Zenon
<1>5. Selected(w, K \cup (k + 1)..Len(w)) = Selected(s, K) \o t
  BY <1>1, <1>2, <1>3, <1>4
<1>. QED
  BY <1>5 DEF w, k

\* Two selections, one behind the other, are one.
LEMMA SelectedJoin ==
  ASSUME NEW C, NEW s \in Seq(C), NEW K \in SUBSET DOMAIN s, NEW L \in SUBSET DOMAIN s,
         \A i \in K : \A j \in L : i < j
  PROVE  Selected(s, K) \o Selected(s, L) = Selected(s, K \cup L)
<1>. DEFINE a == Selected(s, K)
            b == Selected(s, L)
            M == K \cup L
<1>1. /\ IsFiniteSet(K) /\ K \subseteq Int /\ Cardinality(K) \in Nat
      /\ a \in Seq(C) /\ Len(a) = Cardinality(K)
      /\ \A i \in K : Rank(K, i) \in 1..Cardinality(K) /\ a[Rank(K, i)] = s[i]
  BY SelectedType
<1>2. /\ IsFiniteSet(L) /\ L \subseteq Int /\ Cardinality(L) \in Nat
      /\ b \in Seq(C) /\ Len(b) = Cardinality(L)
      /\ \A i \in L : Rank(L, i) \in 1..Cardinality(L) /\ b[Rank(L, i)] = s[i]
  BY SelectedType
<1>3. K \cap L = {}
  BY <1>1
<1>4. IsFiniteSet(M) /\ M \subseteq Int /\ Cardinality(M) = Cardinality(K) + Cardinality(L)
  <2>1. Cardinality(K \cap L) = 0
    BY <1>3, FS_EmptySet
  <2>2. /\ IsFiniteSet(K \cup L)
        /\ Cardinality(K \cup L)
             = Cardinality(K) + Cardinality(L) - Cardinality(K \cap L)
    BY <1>1, <1>2, FS_Union, Zenon
  <2>. QED
    BY <1>1, <1>2, <2>1, <2>2
<1>5. /\ a \o b \in Seq(C) /\ Len(a \o b) = Cardinality(M)
      /\ \A n \in 1..Cardinality(K) : (a \o b)[n] = a[n]
      /\ \A n \in 1..Cardinality(L) : (a \o b)[Cardinality(K) + n] = b[n]
  <2>. HIDE DEF a, b, M
  <2>1. /\ a \o b \in Seq(C) /\ Len(a \o b) = Len(a) + Len(b)
        /\ \A n \in 1..(Len(a) + Len(b)) :
             (a \o b)[n] = IF n <= Len(a) THEN a[n] ELSE b[n - Len(a)]
    BY <1>1, <1>2, ConcatProperties
  <2>. QED
    BY <1>1, <1>2, <1>4, <2>1
<1>6. ASSUME NEW i \in K PROVE (a \o b)[Rank(M, i)] = s[i]
  <2>1. {j \in M : j <= i} = {j \in K : j <= i}
    BY <1>1, <1>2
  <2>2. Rank(M, i) = Rank(K, i)
    BY <2>1 DEF Rank
  <2>. QED
    BY <1>1, <1>5, <2>2
<1>7. ASSUME NEW i \in L PROVE (a \o b)[Rank(M, i)] = s[i]
  <2>. DEFINE U == {j \in L : j <= i}
  <2>1. {j \in M : j <= i} = K \cup U /\ K \cap U = {}
    BY <1>1, <1>2
  <2>2. IsFiniteSet(U)
    BY <1>2, FS_Subset
  <2>3. Cardinality(K \cup U) = Cardinality(K) + Cardinality(U)
    <3>1. Cardinality(K \cap U) = 0
      BY <2>1, FS_EmptySet
    <3>2. Cardinality(U) \in Nat
      BY <2>2, FS_CardinalityType
    <3>. HIDE DEF U
    <3>3. Cardinality(K \cup U)
            = Cardinality(K) + Cardinality(U) - Cardinality(K \cap U)
      BY <1>1, <2>2, FS_Union, Zenon
    <3>. QED
      BY <1>1, <3>1, <3>2, <3>3
  <2>4. Rank(M, i) = Cardinality(K) + Rank(L, i)
    BY <2>1, <2>3 DEF Rank
  <2>. QED
    BY <1>2, <1>5, <2>4
<1>8. \A i \in M : (a \o b)[Rank(M, i)] = s[i]
  BY <1>6, <1>7
<1>. DEFINE r == a \o b
<1>9. r \in Seq(C) /\ Len(r) = Cardinality(M) /\ \A i \in M : r[Rank(M, i)] = s[i]
  BY <1>5, <1>8
<1>10. r = Selected(s, M)
  <2>. HIDE DEF r, M
  <2>. QED
    BY <1>4, <1>9, SelectedIs
<1>. QED
  BY <1>10

\* What is accepted, and after it what is buffered, was written in that order, and
\* all that is missing is lost.
InOrder(K, B) ==
  /\ accepted = Selected(written, K) /\ buffer = Selected(written, B)
  /\ \A i \in K : \A j \in B : i < j
  /\ \A i \in DOMAIN written \ (K \cup B) : written[i] \in lost

Ordered == ~waited => \E K, B \in SUBSET DOMAIN written : InOrder(K, B)

\* What a flush() was asked for was accepted, or is lost.
Covered ==
  /\ \A f \in Writes \cup Flushings : flush[f] # "ready" => call[f] # "ready"
  /\ ~waited =>
       \A f \in Writes \cup Flushings :
         call[f] # "ready" => before[f] \subseteq Elems(accepted) \cup lost

Calm == ~waited => blocked = << >> /\ woken = << >>

HybridInv ==
  /\ Base /\ HybridTypeOK
  /\ Calm /\ Ordered /\ Covered /\ FlushCoversWritten

LEMMA SelectedAreAll ==
  ASSUME NEW w \in Seq(Events), NEW K \in SUBSET DOMAIN w, NEW B \in SUBSET DOMAIN w,
         NEW gone, \A i \in DOMAIN w \ (K \cup B) : w[i] \in gone
  PROVE  Elems(w) \subseteq Elems(Selected(w, K)) \cup Elems(Selected(w, B)) \cup gone
<1>1. DOMAIN w = 1..Len(w)
  BY LenProperties
<1>2. ASSUME NEW S \in SUBSET DOMAIN w, NEW i \in S
      PROVE  w[i] \in Elems(Selected(w, S))
  <2>1. /\ Len(Selected(w, S)) = Cardinality(S)
        /\ Rank(S, i) \in 1..Cardinality(S)
        /\ Selected(w, S)[Rank(S, i)] = w[i]
    BY SelectedType
  <2>. QED
    BY <2>1 DEF Elems
<1>3. ASSUME NEW i \in 1..Len(w)
      PROVE  w[i] \in Elems(Selected(w, K)) \cup Elems(Selected(w, B)) \cup gone
  BY <1>1, <1>2
<1>. QED
  BY <1>3 DEF Elems

LEMMA NoneSelected ==
  ASSUME NEW C, NEW s \in Seq(C)
  PROVE  Selected(s, {}) = << >>
<1>1. Selected(s, {}) \in Seq(C) /\ Len(Selected(s, {})) = 0
  BY SelectedType, FS_EmptySet
<1>. QED
  BY <1>1, EmptySeq

\* A step that writes nothing and loses at most what is buffered.
LEMMA OrderStays ==
  ASSUME HybridTypeOK, Ordered, waited => waited',
         UNCHANGED <<accepted, written>>, lost \subseteq lost',
         \/ buffer' = buffer
         \/ buffer' = << >> /\ Elems(buffer) \subseteq lost'
  PROVE  Ordered'
<1>. SUFFICES ASSUME ~waited' PROVE \E K, B \in SUBSET DOMAIN written' : InOrder(K, B)'
  BY DEF Ordered
<1>1. PICK K, B \in SUBSET DOMAIN written : InOrder(K, B)
  BY DEF Ordered
<1>2. written \in Seq(Events)
  BY DEF HybridTypeOK
<1>3. CASE buffer' = buffer
  <2>1. InOrder(K, B)'
    BY <1>1, <1>3 DEF InOrder
  <2>. QED
    BY <2>1
<1>4. CASE buffer' = << >> /\ Elems(buffer) \subseteq lost'
  <2>1. ASSUME NEW i \in B PROVE written[i] \in Elems(buffer)
    <3>1. /\ Len(Selected(written, B)) = Cardinality(B)
          /\ Rank(B, i) \in 1..Cardinality(B)
          /\ Selected(written, B)[Rank(B, i)] = written[i]
      BY <1>2, SelectedType
    <3>. QED
      BY <1>1, <3>1 DEF Elems, InOrder
  <2>2. InOrder(K, {})'
    BY <1>1, <1>2, <1>4, <2>1, NoneSelected DEF InOrder
  <2>. QED
    BY <2>2
<1>. QED
  BY <1>3, <1>4

LEMMA StreamKeepsOrder ==
  ASSUME HybridTypeOK, Ordered, NEW e \in Streams, WriteStream(e)
  PROVE  Ordered'
<1>. SUFFICES ASSUME ~waited' PROVE \E K, B \in SUBSET DOMAIN written' : InOrder(K, B)'
  BY DEF Ordered
<1>1. PICK K, B \in SUBSET DOMAIN written : InOrder(K, B)
  BY DEF Ordered, WriteStream
<1>2. /\ written \in Seq(Events) /\ buffer \in Seq(Streams) /\ e \in Events
      /\ DOMAIN written = 1..Len(written) /\ Len(written) \in Nat
  BY HybridAssumption, LenProperties DEF HybridTypeOK
<1>. DEFINE one == <<e>>
<1>0. PICK new : new = (Len(written) + 1)..Len(written')
  OBVIOUS
<1>3. /\ written' = written \o one /\ buffer' = buffer \o one /\ one \in Seq(Events)
      /\ UNCHANGED <<accepted, lost>>
  BY <1>2, AppendIsConcat DEF WriteStream, vars
<1>. HIDE DEF one
<1>4. /\ B \cup new \subseteq DOMAIN written'
      /\ Selected(written', B \cup new) = Selected(written, B) \o one
  <2>1. Selected(written \o one, B \cup (Len(written) + 1)..Len(written \o one))
          = Selected(written, B) \o one
    <3>1. written \in Seq(Events) /\ one \in Seq(Events) /\ B \in SUBSET DOMAIN written
      BY <1>2, <1>3
    <3>. QED
      BY ONLY <3>1, SelectedGrows, Zenon
  <2>2. B \cup new \subseteq DOMAIN written'
    BY <1>0, <1>2, <1>3, ConcatProperties, LenProperties
  <2>. QED
    BY <1>0, <1>3, <2>1, <2>2, Zenon
<1>5. Selected(written', K) = Selected(written, K)
  BY <1>2, <1>3, SelectedStays
<1>6. /\ \A i \in 1..Len(written) : written'[i] = written[i]
      /\ DOMAIN written' = 1..Len(written') /\ new = (Len(written) + 1)..Len(written')
      /\ Len(written') = Len(written) + Len(one) /\ Len(one) \in Nat
  BY <1>0, <1>2, <1>3, ConcatProperties, LenProperties
<1>7. accepted' = Selected(written', K) /\ buffer' = Selected(written', B \cup new)
  BY <1>1, <1>3, <1>4, <1>5 DEF InOrder
<1>8. \A i \in K : \A j \in B \cup new : i < j
  BY <1>1, <1>2, <1>6 DEF InOrder
<1>9. \A i \in DOMAIN written' \ (K \cup (B \cup new)) : written'[i] \in lost'
  BY <1>1, <1>2, <1>3, <1>6 DEF InOrder
<1>10. InOrder(K, B \cup new)'
  BY <1>7, <1>8, <1>9 DEF InOrder
<1>11. K \subseteq DOMAIN written'
  BY <1>2, <1>6
<1>. QED
  BY <1>4, <1>10, <1>11

\* What is buffered, and what is written now, is taken along: all of it is accepted,
\* or lost, or has to wait for room.
LEMMA TakeKeepsOrder ==
  ASSUME Base, HybridTypeOK, Ordered, NEW c \in Calls, NEW more \in Seq(Events),
         TakeAndEnqueue(c, buffer \o more), written' = written \o more
  PROVE  Ordered'
<1>. SUFFICES ASSUME ~waited' PROVE \E K, B \in SUBSET DOMAIN written' : InOrder(K, B)'
  BY DEF Ordered
<1>. DEFINE items == buffer \o more
<1>0. PICK new : new = (Len(written) + 1)..Len(written')
  OBVIOUS
<1>1. ~waited /\ call'[c] # "waiting"
  BY DEF TakeAndEnqueue
<1>2. PICK K, B \in SUBSET DOMAIN written : InOrder(K, B)
  BY <1>1 DEF Ordered
<1>3. /\ written \in Seq(Events) /\ buffer \in Seq(Events) /\ accepted \in Seq(Events)
      /\ DOMAIN written = 1..Len(written) /\ Len(written) \in Nat
  BY HybridAssumption, LenProperties DEF HybridTypeOK, TypeOK
<1>4. items \in Seq(Events) /\ Elems(items) = Elems(buffer) \cup Elems(more)
  BY <1>3, Parts
<1>5. /\ \/ accepted' = accepted \o items
         \/ accepted' = accepted /\ (closed \/ items = << >>)
      /\ buffer' = << >>
      /\ lost' = IF closed THEN lost \cup Elems(items) ELSE lost
  <2>1. Enqueue(c, items)
    BY DEF TakeAndEnqueue
  <2>. HIDE DEF items
  <2>2. \/ accepted' = accepted \o items
        \/ accepted' = accepted /\ (closed \/ items = << >> \/ call'[c] = "waiting")
    BY <1>4, <2>1, EnqueueKeepsBase
  <2>. USE DEF items
  <2>. QED
    BY <1>1, <2>2 DEF TakeAndEnqueue
<1>6. /\ \A i \in 1..Len(written) : written'[i] = written[i]
      /\ \A i \in new : written'[i] \in Elems(more)
      /\ DOMAIN written' = 1..Len(written') /\ new = (Len(written) + 1)..Len(written')
      /\ Len(written') = Len(written) + Len(more) /\ Len(more) \in Nat
      /\ written' \in Seq(Events)
  <2>1. /\ {(written \o more)[i] : i \in (Len(written) + 1)..Len(written \o more)}
             = Elems(more)
        /\ written \o more \in Seq(Events)
    <3>1. written \in Seq(Events) /\ more \in Seq(Events)
      BY <1>3
    <3>. QED
      BY ONLY <3>1, Parts
  <2>2. \A i \in new : written'[i] \in Elems(more)
    BY <1>0, <2>1
  <2>. QED
    BY <1>0, <1>3, <2>1, <2>2, ConcatProperties, LenProperties
<1>7. buffer' = Selected(written', {})
  BY <1>5, <1>6, NoneSelected
<1>8. CASE accepted' = accepted \o items
  <2>1. Selected(written, K) \o Selected(written, B) = Selected(written, K \cup B)
    BY <1>2, <1>3, SelectedJoin DEF InOrder
  <2>2. accepted \o items = (accepted \o buffer) \o more
    <3>1. accepted \in Seq(Events) /\ buffer \in Seq(Events) /\ more \in Seq(Events)
      BY <1>3
    <3>. QED
      BY ONLY <3>1, ConcatAssociative
  <2>3. /\ (K \cup B) \cup new \subseteq DOMAIN written'
        /\ Selected(written', (K \cup B) \cup new) = Selected(written, K \cup B) \o more
    <3>1. /\ written \in Seq(Events) /\ more \in Seq(Events)
          /\ K \cup B \in SUBSET DOMAIN written
      BY <1>3
    <3>2. PICK J \in SUBSET DOMAIN written : J = K \cup B
      BY <3>1
    <3>3. Selected(written \o more, J \cup (Len(written) + 1)..Len(written \o more))
            = Selected(written, J) \o more
      BY <3>1, SelectedGrows, Zenon
    <3>4. (K \cup B) \cup new \subseteq DOMAIN written'
      BY <1>3, <1>6
    <3>. QED
      BY <1>0, <3>2, <3>3, <3>4, Zenon
  <2>. DEFINE all == (K \cup B) \cup new
  <2>4. accepted' = Selected(written', all)
    BY <1>2, <1>8, <2>1, <2>2, <2>3 DEF InOrder
  <2>5. \A i \in DOMAIN written' \ (all \cup {}) : written'[i] \in lost'
    BY <1>2, <1>3, <1>5, <1>6 DEF InOrder
  <2>6. InOrder(all, {})'
    BY <1>7, <2>4, <2>5 DEF InOrder
  <2>. QED
    BY <2>3, <2>6
<1>9. CASE accepted' = accepted /\ (closed \/ items = << >>)
  <2>1. Elems(items) \subseteq lost'
    <3>1. CASE closed
      BY <1>5, <3>1
    <3>2. CASE items = << >>
      <4>. HIDE DEF items
      <4>. QED
        BY <3>2, NoElems
    <3>. QED
      BY <1>9, <3>1, <3>2
  <2>2. Selected(written', K) = Selected(written, K) /\ K \subseteq DOMAIN written'
    BY <1>3, <1>6, SelectedStays
  <2>3. ASSUME NEW i \in B PROVE written[i] \in Elems(buffer)
    <3>1. /\ Len(Selected(written, B)) = Cardinality(B)
          /\ Rank(B, i) \in 1..Cardinality(B)
          /\ Selected(written, B)[Rank(B, i)] = written[i]
      BY <1>3, SelectedType
    <3>. QED
      BY <1>2, <3>1 DEF Elems, InOrder
  <2>4. ASSUME NEW i \in DOMAIN written' \ (K \cup {}) PROVE written'[i] \in lost'
    <3>1. CASE i \in new
      BY <1>4, <1>6, <2>1, <3>1
    <3>2. CASE i \in B
      BY <1>3, <1>4, <1>6, <2>1, <2>3, <3>2
    <3>3. CASE i \in 1..Len(written) /\ i \notin B
      BY <1>2, <1>3, <1>5, <1>6, <3>3 DEF InOrder
    <3>. QED
      BY <1>3, <1>6, <3>1, <3>2, <3>3
  <2>5. InOrder(K, {})'
    BY <1>2, <1>7, <1>9, <2>2, <2>4 DEF InOrder
  <2>. QED
    BY <2>2, <2>5
<1>. QED
  BY <1>5, <1>8, <1>9
-------------------------------------------------------------------------------
(* The inductive invariant of the transport, step by step. *)

\* What is appended in a step of the uploader covers what a flush() waits for.
LEMMA CoverHolds ==
  ASSUME Base, Covered, FlushCoversWritten, UploaderStep, Covered',
         waited => waited', lost \subseteq lost',
         \A f \in Writes \cup Flushings : call[f] # "ready" => before'[f] = before[f]
  PROVE  FlushCoversWritten'
<1>. SUFFICES ASSUME ~waited', NEW f \in Writes \cup Flushings, flush'[f] = "returned"
              PROVE  closed' \/ before'[f] \subseteq acked' \cup dropped' \cup lost'
  BY DEF FlushCoversWritten
<1>1. ~waited /\ f \in Flushes
  BY HybridAssumption
<1>2. acked \subseteq acked' /\ dropped \subseteq dropped' /\ (closed => closed')
  BY SettledGrows
<1>3. CASE flush[f] = "returned"
  <2>1. before'[f] = before[f]
    BY <1>3 DEF Covered
  <2>. QED
    BY <1>1, <1>2, <1>3, <2>1 DEF FlushCoversWritten
<1>4. CASE flush[f] # "returned"
  <2>. SUFFICES ASSUME ~closed' PROVE before'[f] \subseteq acked' \cup dropped' \cup lost'
    OBVIOUS
  <2>1. pending' = << >> /\ batch' = << >>
    BY <1>1, <1>4, ReturnsWhenEmpty
  <2>2. Base'
    BY UploaderKeepsBase
  <2>3. Elems(accepted') \subseteq acked' \cup dropped'
    BY <2>1, <2>2, NoElems DEF Base, NothingVanishes
  <2>4. before'[f] \subseteq Elems(accepted') \cup lost'
    BY DEF Covered
  <2>. QED
    BY <2>3, <2>4
<1>. QED
  BY <1>3, <1>4

\* Everything a write() or a flush() hands to the uploader it takes along at once.
LEMMA TakeKeepsInv ==
  ASSUME HybridInv, NEW c \in Calls, NEW more \in Seq(Events),
         TakeAndEnqueue(c, buffer \o more), written' = written \o more,
         UNCHANGED <<closing, rejected>>,
         \/ before' = before /\ c \notin Writes \cup Flushings
         \/ before' = [before EXCEPT ![c] = Elems(written')] /\ c \in Writes \cup Flushings
  PROVE  HybridInv'
<1>. PICK items : items = buffer \o more
  OBVIOUS
<1>1. /\ Base /\ HybridTypeOK /\ Calm /\ Ordered /\ Covered /\ FlushCoversWritten
      /\ call \in [Calls -> States] /\ before \in [Writes \cup Flushings -> SUBSET Events]
  BY DEF HybridInv, HybridTypeOK, TypeOK
<1>2. /\ buffer \in Seq(Events) /\ written \in Seq(Events) /\ accepted \in Seq(Events)
      /\ lost \subseteq Events
  BY <1>1, HybridAssumption DEF HybridTypeOK, TypeOK
<1>3. /\ items \in Seq(Events) /\ written' \in Seq(Events)
      /\ Elems(items) \subseteq Events /\ Elems(written') \subseteq Events
  <2>1. /\ buffer \o more \in Seq(Events) /\ written \o more \in Seq(Events)
    BY <1>2, Parts
  <2>2. \A s \in Seq(Events) : Elems(s) \subseteq Events
    BY LenProperties DEF Elems
  <2>. QED
    BY <2>1, <2>2
<1>4. /\ Enqueue(c, items) /\ buffer' = << >> /\ timer' = FALSE
      /\ waited' = (waited \/ call'[c] = "waiting")
      /\ lost' = IF closed THEN lost \cup Elems(items) ELSE lost
  BY DEF TakeAndEnqueue
<1>5. UploaderStep
  BY <1>3, <1>4 DEF UploaderStep
<1>6. Base' /\ TypeOK' /\ Elems(accepted) \subseteq Elems(accepted')
  BY <1>1, <1>5, UploaderKeepsBase DEF Base
<1>7. HybridTypeOK'
  <2>1. before' \in [Writes \cup Flushings -> SUBSET Events]
    BY <1>1, <1>3
  <2>2. << >> \in Seq(Streams) /\ waited' \in BOOLEAN
    BY <1>1, <1>4, EmptySeq DEF HybridTypeOK
  <2>. QED
    BY <1>1, <1>2, <1>3, <1>4, <1>6, <2>1, <2>2 DEF HybridTypeOK
<1>8. Calm'
  <2>. SUFFICES ASSUME ~waited' PROVE blocked' = << >> /\ woken' = << >>
    BY DEF Calm
  <2>1. blocked = << >> /\ woken = << >> /\ call'[c] # "waiting"
    BY <1>1, <1>4 DEF Calm
  <2>. QED
    BY <1>1, <1>4, <2>1 DEF Enqueue
<1>9. Ordered'
  BY <1>1, TakeKeepsOrder
<1>10. \A f \in Calls : f # c => call'[f] = call[f]
  BY <1>1, <1>4 DEF Enqueue, Push
<1>11. call[c] = "ready"
  BY <1>4 DEF Enqueue
<1>12. Covered'
  <2>1. ASSUME NEW f \in Writes \cup Flushings, flush'[f] # "ready"
        PROVE  call'[f] # "ready"
    <3>1. f \in Flushes /\ f \in Calls
      BY HybridAssumption
    <3>2. flush[f] # "ready"
      BY <1>1, <1>3, <1>4, <2>1, <3>1, OnlyFlushAsks
    <3>. QED
      BY <1>1, <1>5, <3>1, <3>2, CallsAdvance DEF Covered
  <2>2. ASSUME ~waited', NEW f \in Writes \cup Flushings, call'[f] # "ready"
        PROVE  before'[f] \subseteq Elems(accepted') \cup lost'
    <3>1. CASE f = c
      <4>1. before'[f] = Elems(written')
        BY <1>1, <3>1
      <4>2. Elems(written') \subseteq Elems(accepted') \cup Elems(buffer') \cup lost'
        <5>1. PICK K, B \in SUBSET DOMAIN written' : InOrder(K, B)'
          BY <1>9, <2>2 DEF Ordered
        <5>. QED
          BY <1>3, <5>1, SelectedAreAll DEF InOrder
      <4>. QED
        BY <1>4, <4>1, <4>2, NoElems
    <3>2. CASE f # c
      <4>1. before'[f] = before[f] /\ call[f] # "ready" /\ ~waited
        BY <1>1, <1>4, <1>10, <2>2, <3>2, HybridAssumption
      <4>. QED
        BY <1>1, <1>4, <1>6, <4>1 DEF Covered
    <3>. QED
      BY <3>1, <3>2
  <2>. QED
    BY <2>1, <2>2 DEF Covered
<1>13. FlushCoversWritten'
  <2>1. \A f \in Writes \cup Flushings : call[f] # "ready" => before'[f] = before[f]
    BY <1>1, <1>11
  <2>2. (waited => waited') /\ lost \subseteq lost'
    BY <1>4
  <2>. QED
    BY <1>1, <1>5, <1>12, <2>1, <2>2, CoverHolds
<1>. QED
  BY <1>6, <1>7, <1>8, <1>9, <1>12, <1>13 DEF HybridInv

\* A step that hands the uploader nothing.
LEMMA QuietKeepsInv ==
  ASSUME HybridInv, DrainStep \/ Resume \/ Close, HybridTypeOK',
         UNCHANGED <<written, before, waited>>, lost \subseteq lost',
         \/ buffer' = buffer
         \/ buffer' = << >> /\ Elems(buffer) \subseteq lost'
  PROVE  HybridInv'
<1>1. /\ Base /\ HybridTypeOK /\ Calm /\ Ordered /\ Covered /\ FlushCoversWritten
  BY DEF HybridInv
<1>2. UploaderStep
  BY DEF UploaderStep
<1>3. Base' /\ Elems(accepted) \subseteq Elems(accepted')
  BY <1>1, <1>2, UploaderKeepsBase
<1>4. ~waited => /\ accepted' = accepted /\ call' = call
                 /\ blocked' = << >> /\ woken' = << >>
  <2>. SUFFICES ASSUME ~waited
                PROVE  /\ accepted' = accepted /\ call' = call
                       /\ blocked' = << >> /\ woken' = << >>
    OBVIOUS
  <2>1. blocked = << >> /\ woken = << >> /\ << >> \o << >> = << >>
    BY <1>1, ConcatEmptySeq, EmptySeq DEF Calm
  <2>2. ~Resume
    BY <2>1 DEF Resume
  <2>3. DrainStep \/ Close
    BY <2>2
  <2>. QED
    BY <2>1, <2>3 DEF DrainStep, SendSucceeds, SendFailsForGood, SendFails, SleepEnds,
                     Close, ReleaseBackpressure
<1>5. Calm'
  BY <1>4 DEF Calm
<1>6. Ordered'
  <2>1. CASE waited
    BY <2>1 DEF Ordered
  <2>2. CASE ~waited
    BY <1>1, <1>4, <2>2, OrderStays
  <2>. QED
    BY <2>1, <2>2
<1>7. Covered'
  <2>1. ASSUME NEW f \in Writes \cup Flushings, flush'[f] # "ready"
        PROVE  call'[f] # "ready"
    <3>1. f \in Flushes /\ f \in Calls
      BY HybridAssumption
    <3>2. flush[f] # "ready"
      BY <1>1, <2>1, <3>1, OnlyFlushAsks
    <3>. QED
      BY <1>1, <1>2, <3>1, <3>2, CallsAdvance DEF Covered
  <2>2. ASSUME ~waited', NEW f \in Writes \cup Flushings, call'[f] # "ready"
        PROVE  before'[f] \subseteq Elems(accepted') \cup lost'
    BY <1>1, <1>3, <1>4, <2>2 DEF Covered
  <2>. QED
    BY <2>1, <2>2 DEF Covered
<1>8. FlushCoversWritten'
  BY <1>1, <1>2, <1>7, CoverHolds
<1>. QED
  BY <1>1, <1>3, <1>5, <1>6, <1>7, <1>8 DEF HybridInv

\* A call of the uploader's flush(), by a write() or a flush() that enqueued, or by
\* close().
LEMMA FlushKeepsInv ==
  ASSUME HybridInv, NEW f \in Flushes, Flush(f), HybridTypeOK',
         f = Closing \/ call[f] # "ready",
         UNCHANGED <<written, before, waited>>, lost \subseteq lost',
         \/ buffer' = buffer
         \/ buffer' = << >> /\ Elems(buffer) \subseteq lost'
  PROVE  HybridInv'
<1>1. /\ Base /\ HybridTypeOK /\ Calm /\ Ordered /\ Covered /\ FlushCoversWritten
      /\ flush \in [Flushes -> States]
  BY DEF HybridInv, Base, TypeOK
<1>2. UploaderStep
  BY DEF UploaderStep
<1>3. Base'
  BY <1>1, <1>2, UploaderKeepsBase
<1>4. /\ UNCHANGED <<accepted, call, blocked, woken>>
      /\ \A g \in Flushes : g # f => flush'[g] = flush[g]
  BY <1>1 DEF Flush
<1>5. Calm'
  BY <1>1, <1>4 DEF Calm
<1>6. Ordered'
  BY <1>1, <1>4, OrderStays
<1>7. Covered'
  BY <1>1, <1>4, HybridAssumption DEF Covered
<1>8. FlushCoversWritten'
  BY <1>1, <1>2, <1>7, CoverHolds
<1>. QED
  BY <1>1, <1>3, <1>5, <1>6, <1>7, <1>8 DEF HybridInv

LEMMA StreamKeepsInv ==
  ASSUME HybridInv, NEW e \in Streams, WriteStream(e)
  PROVE  HybridInv'
<1>1. /\ Base /\ HybridTypeOK /\ Calm /\ Ordered /\ Covered /\ FlushCoversWritten
  BY DEF HybridInv
<1>2. Base' /\ TypeOK' /\ Calm' /\ Covered' /\ FlushCoversWritten'
  BY <1>1 DEF WriteStream, vars, Base, TypeOK, NothingVanishes, Calm, Covered,
              FlushCoversWritten
<1>3. HybridTypeOK'
  <2>1. buffer' \in Seq(Streams) /\ written' \in Seq(Events)
    BY <1>1, HybridAssumption, AppendProperties DEF WriteStream, HybridTypeOK
  <2>. QED
    BY <1>1, <1>2, <2>1 DEF WriteStream, HybridTypeOK
<1>. QED
  BY <1>1, <1>2, <1>3, StreamKeepsOrder DEF HybridInv

LEMMA IdleKeepsInv ==
  ASSUME HybridInv, UNCHANGED hybridVars
  PROVE  HybridInv'
<1>1. /\ Base /\ HybridTypeOK /\ Calm /\ Ordered /\ Covered /\ FlushCoversWritten
  BY DEF HybridInv
<1>2. /\ UNCHANGED <<buffer, timer, closing, rejected, written, lost, before, waited>>
      /\ UNCHANGED vars
  BY DEF hybridVars, writeVars
<1>3. Base' /\ TypeOK' /\ Calm' /\ Covered' /\ FlushCoversWritten'
  BY <1>1, <1>2 DEF vars, Base, TypeOK, NothingVanishes, Calm, Covered,
                    FlushCoversWritten
<1>4. HybridTypeOK'
  BY <1>1, <1>2, <1>3 DEF HybridTypeOK
<1>5. accepted' = accepted
  BY <1>2 DEF vars
<1>. QED
  BY <1>1, <1>2, <1>3, <1>4, <1>5, OrderStays DEF HybridInv

LEMMA HybridInitInv == HybridInit => HybridInv
<1>. SUFFICES ASSUME HybridInit PROVE HybridInv
  OBVIOUS
<1>1. TypeOK
  BY InitIInv DEF HybridInit, IInv
<1>2. NothingVanishes /\ ~(drain = "sending") /\ batch = << >>
  BY NoElems DEF HybridInit, Init, NothingVanishes
<1>3. HybridTypeOK
  BY <1>1, EmptySeq DEF HybridInit, HybridTypeOK
<1>4. Calm
  BY DEF HybridInit, Init, Calm
<1>5. Covered /\ FlushCoversWritten
  <2>1. \A f \in Writes \cup Flushings : flush[f] = "ready" /\ call[f] = "ready"
    BY HybridAssumption DEF HybridInit, Init
  <2>. QED
    BY <2>1 DEF Covered, FlushCoversWritten
<1>6. Ordered
  <2>1. written = << >> /\ accepted = << >> /\ buffer = << >>
    BY DEF HybridInit, Init
  <2>2. << >> \in Seq(Events) /\ Len(<< >>) = 0 /\ DOMAIN << >> = {}
    BY EmptySeq
  <2>3. Selected(<< >>, {}) = << >>
    BY <2>2, NoneSelected
  <2>4. InOrder({}, {})
    BY <2>1, <2>2, <2>3 DEF InOrder
  <2>. QED
    BY <2>4 DEF Ordered
<1>. QED
  BY <1>1, <1>2, <1>3, <1>4, <1>5, <1>6 DEF HybridInv, Base

LEMMA HybridStepInv == HybridInv /\ [HybridNext]_hybridVars => HybridInv'
<1>. SUFFICES ASSUME HybridInv, [HybridNext]_hybridVars PROVE HybridInv'
  OBVIOUS
<1>1. /\ Base /\ TypeOK /\ HybridTypeOK
      /\ buffer \in Seq(Streams) /\ buffer \in Seq(Events) /\ written \in Seq(Events)
      /\ << >> \in Seq(Events) /\ buffer \o << >> = buffer /\ written \o << >> = written
  BY HybridAssumption, EmptySeq, ConcatEmptySeq DEF HybridInv, HybridTypeOK, Base
<1>2. \A s \in Seq(Events) : Elems(s) \subseteq Events
  BY LenProperties DEF Elems
<1>3. CASE \E e \in Streams : WriteStream(e)
  BY <1>3, StreamKeepsInv
<1>4. ASSUME NEW c \in Writes, Write(c) PROVE HybridInv'
  <2>1. c \in Calls /\ c \in Writes \cup Flushings /\ Payload[c] \in Seq(Events)
    BY HybridAssumption, UploaderAssumption
  <2>. QED
    BY <1>4, <2>1, TakeKeepsInv DEF Write
<1>5. ASSUME NEW f \in Writes \cup Flushings, Flush(f), call[f] # "ready",
             UNCHANGED writeVars
      PROVE  HybridInv'
  <2>1. f \in Flushes
    BY HybridAssumption
  <2>2. UNCHANGED <<buffer, timer, closing, rejected, written, lost, before, waited>>
    BY <1>5 DEF writeVars
  <2>3. HybridTypeOK'
    <3>1. TypeOK'
      BY <1>1, <1>5, <2>1, FlushAndCloseKeepBase DEF Base
    <3>. QED
      BY <1>1, <2>2, <3>1 DEF HybridTypeOK
  <2>. QED
    BY <1>5, <2>1, <2>2, <2>3, FlushKeepsInv
<1>6. CASE \E c \in Writes : WriteFlushes(c)
  BY <1>5, <1>6 DEF WriteFlushes
<1>7. ASSUME NEW f \in Flushings, FlushAll(f) PROVE HybridInv'
  <2>1. f \in Calls /\ f \in Writes \cup Flushings
    BY HybridAssumption
  <2>2. /\ TakeAndEnqueue(f, buffer \o << >>) /\ written' = written \o << >>
        /\ before' = [before EXCEPT ![f] = Elems(written')]
        /\ UNCHANGED <<closing, rejected>>
    BY <1>1, <1>7 DEF FlushAll
  <2>. QED
    BY <1>1, <2>1, <2>2, TakeKeepsInv
<1>8. CASE \E f \in Flushings : FlushAllFlushes(f)
  BY <1>5, <1>8 DEF FlushAllFlushes
<1>9. ASSUME NEW k \in Ticks, TimerFires(k) PROVE HybridInv'
  <2>1. k \in Calls /\ k \notin Writes \cup Flushings
    BY HybridAssumption
  <2>2. /\ TakeAndEnqueue(k, buffer \o << >>) /\ written' = written \o << >>
        /\ before' = before /\ UNCHANGED <<closing, rejected>>
    BY <1>1, <1>9 DEF TimerFires
  <2>. QED
    BY <1>1, <2>1, <2>2, TakeKeepsInv
<1>10. CASE CloseTransport
  <2>1. /\ Closing \in Flushes /\ Flush(Closing) /\ buffer' = << >>
        /\ lost' = lost \cup Elems(buffer) /\ timer' = FALSE /\ closing' = "grace"
        /\ UNCHANGED <<rejected, written, before, waited>>
    BY <1>10, HybridAssumption DEF CloseTransport
  <2>2. TypeOK' /\ << >> \in Seq(Streams)
    BY <1>1, <2>1, FlushAndCloseKeepBase, EmptySeq DEF Base
  <2>3. HybridTypeOK'
    BY <1>1, <1>2, <2>1, <2>2 DEF HybridTypeOK
  <2>4. lost \subseteq lost' /\ Elems(buffer) \subseteq lost'
    BY <2>1
  <2>. QED
    BY <2>1, <2>3, <2>4, FlushKeepsInv
<1>11. CASE GraceEnds
  <2>1. /\ Close /\ closing' = "done"
        /\ UNCHANGED <<buffer, timer, rejected, written, before, waited>>
        /\ lost' = lost \cup UNION {Elems(held[c]) : c \in Elems(blocked) \cup Elems(woken)}
    BY <1>11 DEF GraceEnds
  <2>2. TypeOK'
    BY <1>1, <2>1, FlushAndCloseKeepBase DEF Base
  <2>3. lost' \subseteq Events
    <3>0. blocked \in Seq(Calls) /\ woken \in Seq(Calls)
      BY <1>1 DEF TypeOK
    <3>1. Elems(blocked) \subseteq Calls /\ Elems(woken) \subseteq Calls
      BY ONLY <3>0, LenProperties DEF Elems
    <3>2. \A c \in Calls : Elems(held[c]) \subseteq Events
      BY <1>1, <1>2 DEF TypeOK
    <3>. QED
      BY <1>1, <2>1, <3>1, <3>2 DEF HybridTypeOK
  <2>4. HybridTypeOK'
    BY <1>1, <2>1, <2>2, <2>3 DEF HybridTypeOK
  <2>. QED
    BY <2>1, <2>4, QuietKeepsInv
<1>12. CASE PostSettles \/ BackoffEnds \/ EnqueueResumes
  <2>1. /\ DrainStep \/ Resume
        /\ UNCHANGED <<buffer, timer, closing, written, lost, before, waited>>
        /\ rejected' \in {rejected, rejected \cup Elems(batch)}
    BY <1>12 DEF PostSettles, PostAccepted, PostRejected, PostThrows, BackoffEnds,
                 EnqueueResumes, DrainStep, writeVars
  <2>2. TypeOK'
    BY <1>1, <2>1, DrainKeepsBase, ResumeKeepsBase DEF Base
  <2>3. HybridTypeOK'
    BY <1>1, <1>2, <2>1, <2>2 DEF HybridTypeOK, TypeOK
  <2>. QED
    BY <2>1, <2>3, QuietKeepsInv
<1>13. CASE UNCHANGED hybridVars
  BY <1>13, IdleKeepsInv
<1>. QED
  BY <1>3, <1>4, <1>6, <1>7, <1>8, <1>9, <1>10, <1>11, <1>12, <1>13 DEF HybridNext

THEOREM HybridInvariance == HybridSpec => []HybridInv
<1>. QED
  BY HybridInitInv, HybridStepInv, PTL DEF HybridSpec

\* What was accepted, and behind it what is buffered, is in the order of the calls
\* that wrote it, and what is missing there was thrown away by close(), through the
\* delay timer, flushes, retries, failed POSTs and close(), for every number and
\* size of writes, as long as no call had to wait for room.
THEOREM WriteOrderHolds == HybridSpec => []WriteOrder
<1>1. HybridInv => WriteOrder
  <2>. SUFFICES ASSUME HybridInv PROVE WriteOrder
    OBVIOUS
  <2>1. HybridTypeOK /\ Ordered /\ written \in Seq(Events)
    BY DEF HybridInv, HybridTypeOK
  <2>2. ASSUME ~waited
        PROVE  \E M \in SUBSET DOMAIN written :
                 /\ accepted \o buffer = Selected(written, M)
                 /\ \A i \in DOMAIN written \ M : written[i] \in lost
    <3>1. PICK K, B \in SUBSET DOMAIN written : InOrder(K, B)
      BY <2>1, <2>2 DEF Ordered
    <3>2. Selected(written, K) \o Selected(written, B) = Selected(written, K \cup B)
      BY <2>1, <3>1, SelectedJoin DEF InOrder
    <3>. QED
      BY <3>1, <3>2 DEF InOrder
  <2>. QED
    BY <2>1, <2>2 DEF WriteOrder
<1>. QED
  BY <1>1, HybridInvariance, PTL

\* When flush(), or an awaited write(), returns, all that was written before it was
\* called is acknowledged or dropped, or close() threw it away, as long as no call
\* had to wait for room.
THEOREM FlushCoversWrittenHolds == HybridSpec => []FlushCoversWritten
<1>1. HybridInv => FlushCoversWritten
  BY DEF HybridInv
<1>. QED
  BY <1>1, HybridInvariance, PTL
-------------------------------------------------------------------------------
(* The drain loop under the transport.  A call may carry more than the queue *)
(* can hold, and waits for ever then; nothing else does.                     *)

\* What is queued, and who waits in flush(), has a drain loop, and the memory is
\* bounded whatever the size of a call.
AtWork ==
  /\ DrainRuns
  /\ (\E f \in Flushes : Waiting(f)) /\ ~closed => drain # "idle"
  /\ Len(batch) <= MaxBatchSize /\ MemoryBound

LEMMA LoopWorks ==
  ASSUME Base, NEW q \in Seq(Events), NEW n \in FailureBudget, NEW gone \in SUBSET Events,
         DrainLoop(q, n, gone), UNCHANGED closed,
         Len(q) <= MaxQueueSize + MaxBatchSize
  PROVE  AtWork'
<1>1. LoopResult(q)
  BY LoopLemma DEF Base
<1>2. DrainRuns' /\ ((\E f \in Flushes : Waiting(f)) /\ ~closed => drain # "idle")'
  BY <1>1 DEF LoopResult, DrainRuns, Waiting
<1>3. Len(batch') <= MaxBatchSize /\ MemoryBound'
  <2>1. Len(pending') \in Nat /\ Len(batch') \in Nat /\ Len(q) \in Nat
    <3>1. pending' \in Seq(Events) /\ batch' \in Seq(Events)
      BY <1>1 DEF LoopResult
    <3>. QED
      BY <3>1, LenProperties
  <2>. QED
    BY <1>1, <2>1, UploaderAssumption DEF LoopResult, MemoryBound
<1>. QED
  BY <1>2, <1>3 DEF AtWork

LEMMA DrainWorks ==
  ASSUME Base, AtWork, DrainStep
  PROVE  AtWork'
<1>0. /\ TypeOK /\ pending \in Seq(Events) /\ batch \in Seq(Events) /\ {} \in SUBSET Events
      /\ failures \in FailureBudget /\ Elems(batch) \in SUBSET Events
      /\ Len(pending) \in Nat /\ Len(batch) \in Nat
  BY BatchElems, LenProperties DEF Base, TypeOK
<1>1. Len(pending) <= MaxQueueSize + MaxBatchSize
  BY <1>0, UploaderAssumption DEF AtWork, MemoryBound
<1>2. CASE SendSucceeds \/ SendFailsForGood \/ SleepEnds
  <2>1. /\ UNCHANGED closed
        /\ \E n \in FailureBudget, gone \in SUBSET Events : DrainLoop(pending, n, gone)
    BY <1>0, <1>2, NoFailures DEF SendSucceeds, SendFailsForGood, SleepEnds
  <2>. QED
    BY <1>0, <1>1, <2>1, LoopWorks
<1>3. CASE SendFails
  <2>1. /\ drain' = "sleeping" /\ pending' = batch \o pending /\ batch' = << >>
        /\ UNCHANGED <<closed, flush>>
    BY <1>3 DEF SendFails
  <2>2. Len(pending') = Len(batch) + Len(pending) /\ Len(batch') = 0
    BY <1>0, <2>1, ConcatProperties, EmptySeq
  <2>. QED
    BY <1>0, <2>1, <2>2, UploaderAssumption DEF AtWork, DrainRuns, MemoryBound
<1>. QED
  BY <1>2, <1>3 DEF DrainStep

LEMMA PushWorks ==
  ASSUME Base, AtWork, NEW c \in Calls, NEW items \in Seq(Events), Push(c, items),
         HasRoom(items), UNCHANGED closed
  PROVE  AtWork'
<1>. DEFINE q == pending \o items
<1>0. /\ pending \in Seq(Events) /\ batch \in Seq(Events) /\ Len(items) \in Nat
      /\ Len(pending) \in Nat /\ Len(batch) \in Nat /\ {} \in SUBSET Events
  BY LenProperties DEF Base, TypeOK
<1>1. q \in Seq(Events) /\ Len(q) = Len(pending) + Len(items)
  BY <1>0, ConcatProperties
<1>2. Len(q) <= MaxQueueSize
  BY <1>1 DEF HasRoom
<1>. HIDE DEF q
<1>3. CASE drain # "idle" \/ closed
  <2>1. pending' = q /\ UNCHANGED <<batch, drain, flush>>
    BY <1>3 DEF Push, KickDrain, q
  <2>2. MemoryBound'
    BY <1>0, <1>1, <1>2, <2>1, UploaderAssumption DEF AtWork, MemoryBound
  <2>. QED
    BY <1>3, <2>1, <2>2 DEF AtWork, DrainRuns, Waiting
<1>4. CASE ~(drain # "idle" \/ closed)
  <2>1. DrainLoop(q, 0, {})
    BY <1>4 DEF Push, KickDrain, q
  <2>2. Len(q) <= MaxQueueSize + MaxBatchSize
    BY <1>0, <1>1, <1>2, UploaderAssumption
  <2>. QED
    BY <1>0, <1>1, <2>1, <2>2, NoFailures, LoopWorks
<1>. QED
  BY <1>3, <1>4

LEMMA UploaderWorks ==
  ASSUME Base, AtWork, UploaderStep
  PROVE  AtWork'
<1>1. CASE DrainStep
  BY <1>1, DrainWorks
<1>2. ASSUME UNCHANGED <<queueVars, closed, flush>>
      PROVE  AtWork'
  BY <1>2 DEF AtWork, queueVars, DrainRuns, Waiting, MemoryBound
<1>3. CASE Resume
  <2>1. CASE UNCHANGED <<queueVars, closed, flush>>
    BY <1>2, <2>1
  <2>2. CASE HasRoom(held[Head(woken)]) /\ Push(Head(woken), held[Head(woken)])
    <3>1. Head(woken) \in Calls /\ UNCHANGED closed
      BY <1>3, HeadTailProperties DEF Resume, Base, TypeOK
    <3>2. held[Head(woken)] \in Seq(Events)
      BY <3>1 DEF Base, TypeOK
    <3>. QED
      BY <2>2, <3>1, <3>2, PushWorks
  <2>. QED
    BY <1>3, <2>1, <2>2 DEF Resume
<1>4. ASSUME NEW c \in Calls, NEW items \in Seq(Events), Enqueue(c, items)
      PROVE  AtWork'
  <2>1. CASE UNCHANGED <<queueVars, closed, flush>>
    BY <1>2, <2>1
  <2>2. CASE HasRoom(items) /\ Push(c, items)
    BY <1>4, <2>2, PushWorks DEF Enqueue
  <2>. QED
    BY <1>4, <2>1, <2>2 DEF Enqueue
<1>5. CASE Close
  <2>1. closed' /\ pending' = << >> /\ batch' = batch
    BY <1>5 DEF Close
  <2>2. Len(pending') = 0 /\ Len(pending) \in Nat /\ Len(batch) \in Nat
    BY <2>1, EmptySeq, LenProperties DEF Base, TypeOK
  <2>. QED
    BY <2>1, <2>2, UploaderAssumption DEF AtWork, DrainRuns, MemoryBound
<1>6. ASSUME NEW f \in Flushes, Flush(f)
      PROVE  AtWork'
  <2>1. UNCHANGED <<queueVars, closed>> /\ flush \in [Flushes -> States]
    BY <1>6 DEF Flush, Base, TypeOK
  <2>2. ASSUME \E g \in Flushes : Waiting(g)', ~closed
        PROVE  drain # "idle"
    <3>1. PICK g \in Flushes : flush'[g] = "waiting"
      BY <2>2 DEF Waiting
    <3>2. CASE flush[g] = "waiting"
      BY <2>2, <3>2 DEF AtWork, Waiting
    <3>3. CASE flush[g] # "waiting"
      <4>1. ~(pending = << >> /\ drain = "idle")
        BY <1>6, <2>1, <3>1, <3>3 DEF Flush
      <4>. QED
        BY <2>2, <4>1 DEF AtWork, DrainRuns
    <3>. QED
      BY <3>2, <3>3
  <2>. QED
    BY <2>1, <2>2 DEF AtWork, DrainRuns, MemoryBound, queueVars
<1>. QED
  BY <1>1, <1>3, <1>4, <1>5, <1>6 DEF UploaderStep

\* Each step of the transport is one of the uploader, or does not concern it.
LEMMA HybridStepUploads ==
  ASSUME HybridInv, [HybridNext]_hybridVars
  PROVE  UploaderStep \/ UNCHANGED vars
<1>1. \A c \in Calls : buffer \in Seq(Events) /\ buffer \o Payload[c] \in Seq(Events)
  <2>1. buffer \in Seq(Events) /\ \A c \in Calls : Payload[c] \in Seq(Events)
    BY HybridAssumption, UploaderAssumption DEF HybridInv, HybridTypeOK
  <2>. QED
    BY <2>1, ConcatProperties
<1>2. CASE \E c \in Writes : Write(c) \/ WriteFlushes(c)
  BY <1>1, <1>2, HybridAssumption DEF Write, WriteFlushes, TakeAndEnqueue, UploaderStep
<1>3. CASE \E f \in Flushings : FlushAll(f) \/ FlushAllFlushes(f)
  BY <1>1, <1>3, HybridAssumption DEF FlushAll, FlushAllFlushes, TakeAndEnqueue, UploaderStep
<1>4. CASE \E k \in Ticks : TimerFires(k)
  BY <1>1, <1>4, HybridAssumption DEF TimerFires, TakeAndEnqueue, UploaderStep
<1>5. CASE CloseTransport \/ GraceEnds
  BY <1>5, HybridAssumption DEF CloseTransport, GraceEnds, UploaderStep
<1>6. CASE PostSettles \/ BackoffEnds \/ EnqueueResumes
  BY <1>6 DEF PostSettles, PostAccepted, PostRejected, PostThrows, BackoffEnds,
              EnqueueResumes, DrainStep, UploaderStep
<1>7. CASE (\E e \in Streams : WriteStream(e)) \/ UNCHANGED hybridVars
  BY <1>7 DEF WriteStream, hybridVars
<1>. QED
  BY <1>2, <1>3, <1>4, <1>5, <1>6, <1>7 DEF HybridNext

\* Under the transport, too, whatever is queued in an open uploader and whoever waits
\* in flush() has a drain loop at work, and the queue and the batch in flight stay
\* within maxQueueSize + maxBatchSize, although a call may carry more than fits.
THEOREM TransportAtWork == HybridSpec => []AtWork
<1>1. HybridInit => AtWork
  <2>. SUFFICES ASSUME HybridInit PROVE AtWork
    OBVIOUS
  <2>1. IInv /\ batch = << >> /\ pending = << >> /\ drain = "idle"
    BY InitIInv DEF HybridInit, Init
  <2>. QED
    BY <2>1 DEF AtWork, IInv, Shape, WaitersHaveADrain
<1>2. HybridInv /\ AtWork /\ [HybridNext]_hybridVars => AtWork'
  <2>. SUFFICES ASSUME HybridInv, AtWork, [HybridNext]_hybridVars PROVE AtWork'
    OBVIOUS
  <2>1. CASE UploaderStep
    BY <2>1, UploaderWorks DEF HybridInv
  <2>2. CASE UNCHANGED vars
    BY <2>2 DEF vars, AtWork, DrainRuns, Waiting, MemoryBound
  <2>. QED
    BY <2>1, <2>2, HybridStepUploads
<1>. QED
  BY <1>1, <1>2, HybridInvariance, PTL DEF HybridSpec
===============================================================================
