----------------------- MODULE SerialBatchEventUploader -----------------------
(***************************************************************************)
(* The serial, batching, retrying uploader behind HybridTransport and      *)
(* ccrClient (cli/transports/SerialBatchEventUploader.ts).                 *)
(*                                                                         *)
(* The program is single threaded: an action is the code that runs between *)
(* two awaits.  drain() is a process of its own (drain = "idle" when it is *)
(* not running); every enqueue() and flush() invocation is a caller.       *)
(* A promise resolver is a caller waiting in "blocked" (enqueue) or in     *)
(* state "waiting" (flush); resolving it moves the caller to "woken", and  *)
(* its continuation runs later, after which its condition is read again.   *)
(***************************************************************************)
EXTENDS Naturals, Sequences, FiniteSets, FiniteSetsExt, Subsequence

CONSTANTS
  Calls,          \* the enqueue() invocations
  Flushes,        \* the flush() invocations
  Events,         \* the events they may carry
  Payload,        \* Payload[c]: the events that call c enqueues
  Unserializable, \* the events jsonStringify throws on
  Bytes,          \* Bytes[e]: the serialized size of event e
  MaxBatchSize,   \* config.maxBatchSize
  MaxBatchBytes,  \* config.maxBatchBytes, 0 when it is undefined
  MaxQueueSize,   \* config.maxQueueSize
  MaxFailures     \* config.maxConsecutiveFailures, 0 when it is undefined

ASSUME UploaderAssumption ==
  /\ Payload \in [Calls -> Seq(Events)]
  /\ Bytes \in [Events -> Nat]
  /\ Unserializable \subseteq Events
  /\ MaxBatchSize \in Nat \ {0}
  /\ MaxBatchBytes \in Nat
  /\ MaxQueueSize \in Nat \ {0}
  /\ MaxFailures \in Nat

\* "A batch > maxQueueSize deadlocks" (HybridTransport.ts:80): callers keep to
\* batches that fit.
ASSUME PayloadFits == \A c \in Calls : Len(Payload[c]) <= MaxQueueSize

VARIABLES
  pending,   \* this.pending
  batch,     \* the batch drain() awaits the POST of, else << >>
  drain,     \* where drain() is: "idle", "sending" or "sleeping"
  failures,  \* drain()'s consecutive failures, counted only up to the limit
  closed,    \* this.closed
  blocked,   \* this.backpressureResolvers, as the callers behind them
  woken,     \* callers whose resolver was called, in microtask order
  held,      \* held[c]: the items of a call that is inside enqueue()
  call,      \* state of each enqueue() invocation
  flush,     \* state of each flush() invocation
  droppedBatches, \* this.droppedBatches
  accepted,  \* history: the events pushed to pending, in order
  acked,     \* history: the events of a POST that returned normally
  dropped    \* history: the events thrown away

queueVars == <<pending, batch, drain, failures>>
histVars == <<droppedBatches, acked, dropped>>
vars == <<pending, batch, drain, failures, closed, blocked, woken, held, call,
          flush, droppedBatches, accepted, acked, dropped>>

Elems(s) == {s[i] : i \in 1..Len(s)}

States == {"ready", "waiting", "returned"}

\* The failure counts that do not end in a dropped batch.
FailureBudget == IF MaxFailures = 0 THEN {0} ELSE 0..(MaxFailures - 1)

TypeOK ==
  /\ pending \in Seq(Events)
  /\ batch \in Seq(Events)
  /\ drain \in {"idle", "sending", "sleeping"}
  /\ failures \in FailureBudget
  /\ closed \in BOOLEAN
  /\ blocked \in Seq(Calls)
  /\ woken \in Seq(Calls)
  /\ held \in [Calls -> Seq(Events)]
  /\ call \in [Calls -> States]
  /\ flush \in [Flushes -> States]
  /\ droppedBatches \in Nat
  /\ accepted \in Seq(Events)
  /\ acked \subseteq Events
  /\ dropped \subseteq Events

Init ==
  /\ pending = << >> /\ batch = << >> /\ drain = "idle" /\ failures = 0
  /\ closed = FALSE /\ blocked = << >> /\ woken = << >>
  /\ held = [c \in Calls |-> << >>]
  /\ call = [c \in Calls |-> "ready"]
  /\ flush = [f \in Flushes |-> "ready"]
  /\ droppedBatches = 0
  /\ accepted = << >> /\ acked = {} /\ dropped = {}
-------------------------------------------------------------------------------
(* takeBatch *)

\* Only the byte-limited branch of takeBatch() serializes, and drops, events.
Keeps(e) == MaxBatchBytes = 0 \/ e \notin Unserializable

\* The positions of queue q that takeBatch() keeps, among the first k.
Kept(q, k) == {i \in 1..k : Keeps(q[i])}

\* The scan moves past position i: the batch still has room for an item, and
\* the item is dropped, or is the first one, or is within the byte limit.
ScansPast(q, i) ==
  /\ Cardinality(Kept(q, i - 1)) < MaxBatchSize
  /\ \/ MaxBatchBytes = 0
     \/ i \notin Kept(q, i)
     \/ Kept(q, i - 1) = {}
     \/ MapThenSumSet(LAMBDA j : Bytes[q[j]], Kept(q, i)) <= MaxBatchBytes

\* takeBatch() reads q up to position k and no further.
ScanStopsAt(q, k) ==
  /\ \A i \in 1..k : ScansPast(q, i)
  /\ k < Len(q) => ~ScansPast(q, k + 1)
-------------------------------------------------------------------------------
(* drain *)

\* (mutant of DrainExits) The finally block forgets the flush waiters.
DrainExitsSilently(q) ==
  /\ drain' = "idle" /\ batch' = << >> /\ failures' = 0
  /\ pending' = q
  /\ UNCHANGED flush

\* The finally block of drain(), with queue q left in pending.
DrainExits(q) ==
  /\ drain' = "idle" /\ batch' = << >> /\ failures' = 0
  /\ pending' = q
  /\ flush' = IF q = << >>
              THEN [f \in Flushes |->
                      IF flush[f] = "waiting" THEN "returned" ELSE flush[f]]
              ELSE flush

\* From the loop condition of drain() to its next await, with queue q in
\* pending and n consecutive failures: either the loop ends, or a batch is
\* taken and its POST starts.  An empty batch means that every item left was
\* spliced out, so the "continue" ends the loop.
DrainLoop(q, n, lost) ==
  \/ /\ q = << >> \/ closed
     /\ DrainExits(q)
     /\ dropped' = dropped \cup lost
  \/ /\ q # << >> /\ ~closed
     /\ \E k \in 0..Len(q) :
        /\ ScanStopsAt(q, k)
        /\ dropped' = dropped \cup lost
                        \cup {q[i] : i \in (1..k) \ Kept(q, k)}
        /\ \/ Kept(q, k) = {} /\ DrainExits(SubSeq(q, k + 1, Len(q)))
           \/ /\ Kept(q, k) # {}
              /\ batch' = Selected(q, Kept(q, k))
              /\ pending' = SubSeq(q, k + 1, Len(q))
              /\ drain' = "sending" /\ failures' = n
              /\ UNCHANGED flush

\* drain() is called with queue q in pending: at most one instance runs.
KickDrain(q) ==
  IF drain # "idle" \/ closed
  THEN /\ pending' = q
       /\ UNCHANGED <<batch, drain, failures, flush, dropped>>
  ELSE DrainLoop(q, 0, {})

\* releaseBackpressure(): every waiter is woken, each will look again.
ReleaseBackpressure == woken' = woken \o blocked /\ blocked' = << >>

\* The POST resolves: reset the failures, release the waiters, next batch.
\* A batch that cannot be serialized never gets this far.
SendSucceeds ==
  /\ drain = "sending"
  /\ Elems(batch) \cap Unserializable = {}
  /\ acked' = acked \cup Elems(batch)
  /\ ReleaseBackpressure
  /\ DrainLoop(pending, 0, {})
  /\ UNCHANGED <<closed, held, call, droppedBatches, accepted>>

\* (mutant of SendFailsForGood) Dropping a batch does not release the waiters.
SendFailsForGoodSilently ==
  /\ drain = "sending"
  /\ MaxFailures > 0 /\ failures + 1 >= MaxFailures
  /\ droppedBatches' = droppedBatches + 1
  /\ DrainLoop(pending, 0, Elems(batch))
  /\ UNCHANGED <<closed, blocked, woken, held, call, accepted, acked>>

\* The POST fails and the failure budget is used up: the batch is dropped.
SendFailsForGood ==
  /\ drain = "sending"
  /\ MaxFailures > 0 /\ failures + 1 >= MaxFailures
  /\ droppedBatches' = droppedBatches + 1
  /\ ReleaseBackpressure
  /\ DrainLoop(pending, 0, Elems(batch))
  /\ UNCHANGED <<closed, held, call, accepted, acked>>

\* (mutant of SendFails) One retry too many.
SendFailsOnceMore ==
  /\ drain = "sending"
  /\ MaxFailures = 0 \/ failures + 1 <= MaxFailures
  /\ failures' = IF MaxFailures = 0 THEN 0 ELSE failures + 1
  /\ pending' = batch \o pending /\ batch' = << >>
  /\ drain' = "sleeping"
  /\ UNCHANGED <<closed, blocked, woken, held, call, flush, histVars, accepted>>

\* (mutant of SendFails) The failed batch goes to the back of the queue.
SendFailsToBack ==
  /\ drain = "sending"
  /\ MaxFailures = 0 \/ failures + 1 < MaxFailures
  /\ failures' = IF MaxFailures = 0 THEN 0 ELSE failures + 1
  /\ pending' = pending \o batch /\ batch' = << >>
  /\ drain' = "sleeping"
  /\ UNCHANGED <<closed, blocked, woken, held, call, flush, histVars, accepted>>

\* The POST fails and will be retried: the batch goes back to the front.
SendFails ==
  /\ drain = "sending"
  /\ MaxFailures = 0 \/ failures + 1 < MaxFailures
  /\ failures' = IF MaxFailures = 0 THEN 0 ELSE failures + 1
  /\ pending' = batch \o pending /\ batch' = << >>
  /\ drain' = "sleeping"
  /\ UNCHANGED <<closed, blocked, woken, held, call, flush, histVars, accepted>>

\* The backoff timer fires, or close() resolved the sleep.
SleepEnds ==
  /\ drain = "sleeping"
  /\ DrainLoop(pending, failures, {})
  /\ UNCHANGED <<closed, blocked, woken, held, call, droppedBatches, accepted,
                 acked>>
-------------------------------------------------------------------------------
(* enqueue, flush, close *)

\* (mutant of HasRoom) The size of the new items is not counted.
HasRoomForOne(items) == Len(pending) < MaxQueueSize

HasRoom(items) == Len(pending) + Len(items) <= MaxQueueSize

\* The code of enqueue() after its wait loop was left because of room.
Push(c, items) ==
  /\ accepted' = accepted \o items
  /\ call' = [call EXCEPT ![c] = "returned"]
  /\ KickDrain(pending \o items)

\* Call c enters enqueue(items), up to its return or its first await.
Enqueue(c, items) ==
  /\ call[c] = "ready"
  /\ held' = [held EXCEPT ![c] = items]
  /\ UNCHANGED <<closed, woken, droppedBatches, acked>>
  /\ \/ /\ closed \/ items = << >>
        /\ call' = [call EXCEPT ![c] = "returned"]
        /\ UNCHANGED <<queueVars, blocked, flush, accepted, dropped>>
     \/ /\ ~closed /\ items # << >> /\ ~HasRoom(items)
        /\ call' = [call EXCEPT ![c] = "waiting"]
        /\ blocked' = Append(blocked, c)
        /\ UNCHANGED <<queueVars, flush, accepted, dropped>>
     \/ /\ ~closed /\ items # << >> /\ HasRoom(items)
        /\ Push(c, items)
        /\ UNCHANGED blocked

\* The continuation of a released enqueue(): the loop condition is read again.
Resume ==
  /\ woken # << >>
  /\ woken' = Tail(woken)
  /\ UNCHANGED <<closed, held, droppedBatches, acked>>
  /\ LET c == Head(woken) IN
     \/ /\ closed
        /\ call' = [call EXCEPT ![c] = "returned"]
        /\ UNCHANGED <<queueVars, blocked, flush, accepted, dropped>>
     \/ /\ ~closed /\ ~HasRoom(held[c])
        /\ blocked' = Append(blocked, c)
        /\ UNCHANGED <<queueVars, call, flush, accepted, dropped>>
     \/ /\ ~closed /\ HasRoom(held[c])
        /\ Push(c, held[c])
        /\ UNCHANGED blocked

\* (mutant of Flush) Only the pending queue is looked at.
FlushIgnoresInFlight(f) ==
  /\ flush[f] = "ready"
  /\ flush' = [flush EXCEPT ![f] =
                 IF pending = << >> THEN "returned" ELSE "waiting"]
  /\ UNCHANGED <<queueVars, closed, blocked, woken, held, call, histVars,
                 accepted>>

\* flush(): whenever drain() can start here, pending is empty, so the call to
\* drain() before the wait never changes the queue (see DrainRuns below).
Flush(f) ==
  /\ flush[f] = "ready"
  /\ flush' = [flush EXCEPT ![f] =
                 IF pending = << >> /\ drain = "idle"
                 THEN "returned" ELSE "waiting"]
  /\ UNCHANGED <<queueVars, closed, blocked, woken, held, call, histVars,
                 accepted>>

\* close(): the queue is thrown away, every waiter is released.
Close ==
  /\ ~closed
  /\ closed' = TRUE
  /\ dropped' = dropped \cup Elems(pending)
  /\ pending' = << >>
  /\ ReleaseBackpressure
  /\ flush' = [f \in Flushes |->
                 IF flush[f] = "waiting" THEN "returned" ELSE flush[f]]
  /\ UNCHANGED <<batch, drain, failures, held, call, droppedBatches, accepted,
                 acked>>

DrainStep == SendSucceeds \/ SendFailsForGood \/ SendFails \/ SleepEnds

Next ==
  \/ DrainStep
  \/ Resume
  \/ \E c \in Calls : Enqueue(c, Payload[c])
  \/ \E f \in Flushes : Flush(f)
  \/ Close

Spec == Init /\ [][Next]_vars

\* What the program may rely on: an HTTP request settles (it has a timeout),
\* a timer fires, a microtask runs.  Nothing makes a caller call.
SendSettles == SendSucceeds \/ SendFailsForGood \/ SendFails

Fairness == WF_vars(SendSettles) /\ WF_vars(SleepEnds) /\ WF_vars(Resume)

FairSpec == Spec /\ Fairness
-------------------------------------------------------------------------------
(* Properties *)

\* The uploader as an ordered queue: a batch in flight is still in the queue.
Promise == INSTANCE OrderedQueue WITH
  Groups <- {Payload[c] : c \in Calls}, Unsendable <- Unserializable,
  MaxGroup <- MaxBatchSize, MayGiveUp <- MaxFailures > 0,
  queue <- batch \o pending, delivered <- acked, discarded <- dropped,
  open <- ~closed

\* Every step of the uploader is a step of the ordered queue, or invisible.
OrderedQueueRefined == Promise!Spec

\* Events in an open uploader always have a drain loop working on them.
DrainRuns == pending # << >> /\ ~closed => drain # "idle"

Waiting(f) == flush[f] = "waiting"

\* No lost wake-up: a caller blocked on backpressure or on flush() has a drain
\* loop that will wake it, although neither retries nor poisoned batches
\* release the waiters.
WaitersHaveADrain ==
  /\ blocked # << >> => drain # "idle"
  /\ (\E f \in Flushes : Waiting(f)) /\ ~closed => drain # "idle"

\* The memory held is bounded although a failed batch goes back to a queue
\* that was refilled while it was in flight.
MemoryBound == Len(pending) + Len(batch) <= MaxQueueSize + MaxBatchSize

\* When flush() returns from an open uploader nothing accepted is unsettled.
FlushMeansSettled ==
  [][\A f \in Flushes :
       flush[f] # "returned" /\ flush'[f] = "returned" /\ ~closed'
         => Elems(accepted) \subseteq acked' \cup dropped']_vars

\* A caller that waits for room gets it, or is released by close(); a flush() of an
\* open uploader returns once the queue was worked off.
CallersReturn ==
  /\ \A c \in Calls : call[c] = "waiting" ~> call[c] = "returned"
  /\ \A f \in Flushes : Waiting(f) ~> ~Waiting(f) \/ closed

\* close() "resolves any blocked enqueue() and flush() callers" (line 137):
\* nobody waits for ever on a closed uploader.  (Does not hold: README, section 5.)
CloseReleasesFlush ==
  \A f \in Flushes : closed /\ Waiting(f) ~> ~Waiting(f)
===============================================================================
