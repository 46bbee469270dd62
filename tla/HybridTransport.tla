---------------------------- MODULE HybridTransport ----------------------------
(***************************************************************************)
(* The write side of the bridge's transport (cli/transports/               *)
(* HybridTransport.ts) on top of its uploader: stream events are held for  *)
(* up to 100 ms, everything else takes them along to enqueue() and then    *)
(* waits for flush().  An invocation of write() or writeBatch() is a call  *)
(* of the uploader's enqueue() and, when that returned, of its flush().    *)
(***************************************************************************)
EXTENDS SerialBatchEventUploader

CONSTANTS
  Writes,    \* the write(message) and writeBatch(messages) invocations
  Flushings, \* the flush() invocations
  Ticks,     \* firings of the delay timer; as many as stream events suffice
  Closing,   \* the flush() that close() starts
  Streams    \* the stream events

\* Whoever calls the uploader's enqueue(), and whoever calls its flush(): every
\* invocation is an invocation of its own.
ASSUME HybridAssumption ==
  /\ Calls = Writes \cup Flushings \cup Ticks
  /\ Flushes = Writes \cup Flushings \cup {Closing}
  /\ Closing \notin Writes \cup Flushings /\ Ticks \cap (Writes \cup Flushings) = {}
  /\ Streams \subseteq Events

VARIABLES
  buffer,   \* this.streamEventBuffer
  timer,    \* is this.streamEventTimer set?
  closing,  \* "open"; "grace" from close() on; "done": uploader.close() called
  rejected, \* history: events of POSTs that failed permanently (4xx, no token)
  written,  \* history: the events handed to the transport, in order
  lost,     \* history: the events a closed transport or uploader threw away
  before,   \* history: what had been written when a flush was asked for
  waited    \* history: did an enqueue() ever have to wait for room?

writeVars == <<buffer, timer, closing, rejected, written, lost, before, waited>>
hybridVars == <<writeVars, vars>>

HybridTypeOK ==
  /\ buffer \in Seq(Streams) /\ timer \in BOOLEAN
  /\ closing \in {"open", "grace", "done"}
  /\ rejected \subseteq Events /\ written \in Seq(Events) /\ lost \subseteq Events
  /\ before \in [Writes \cup Flushings -> SUBSET Events] /\ waited \in BOOLEAN
  /\ TypeOK

HybridInit ==
  /\ buffer = << >> /\ timer = FALSE /\ closing = "open"
  /\ rejected = {} /\ written = << >> /\ lost = {}
  /\ before = [f \in Writes \cup Flushings |-> {}] /\ waited = FALSE
  /\ Init
-------------------------------------------------------------------------------
\* (mutant of WriteStream) Only the first event of all starts the timer.
WriteStreamUntimed(e) ==
  /\ \A i \in 1..Len(written) : written[i] # e
  /\ buffer' = Append(buffer, e) /\ timer' = (timer \/ written = << >>)
  /\ written' = Append(written, e)
  /\ UNCHANGED <<closing, rejected, lost, before, waited, vars>>

\* write(stream_event): buffered, even after close().
WriteStream(e) ==
  /\ \A i \in 1..Len(written) : written[i] # e
  /\ buffer' = Append(buffer, e) /\ timer' = TRUE
  /\ written' = Append(written, e)
  /\ UNCHANGED <<closing, rejected, lost, before, waited, vars>>

\* takeStreamEvents() and enqueue() of items that start with them.
TakeAndEnqueue(c, items) ==
  /\ Enqueue(c, items)
  /\ buffer' = << >> /\ timer' = FALSE
  /\ waited' = (waited \/ call'[c] = "waiting")
  /\ lost' = IF closed THEN lost \cup Elems(items) ELSE lost

\* (mutant of Write) The message goes out ahead of the buffered events.
WriteAhead(c) ==
  /\ TakeAndEnqueue(c, Payload[c] \o buffer)
  /\ written' = written \o Payload[c]
  /\ before' = [before EXCEPT ![c] = Elems(written')]
  /\ UNCHANGED <<closing, rejected>>

\* write(message) and writeBatch(messages), up to the first await.
Write(c) ==
  /\ TakeAndEnqueue(c, buffer \o Payload[c])
  /\ written' = written \o Payload[c]
  /\ before' = [before EXCEPT ![c] = Elems(written')]
  /\ UNCHANGED <<closing, rejected>>

\* ... and from there on: return this.uploader.flush().
WriteFlushes(c) ==
  /\ call[c] = "returned"
  /\ Flush(c)
  /\ UNCHANGED writeVars

\* (mutant of FlushAll) The buffered stream events are not taken along.
FlushWithoutBuffer(f) ==
  /\ TakeAndEnqueue(f, << >>)
  /\ before' = [before EXCEPT ![f] = Elems(written)]
  /\ UNCHANGED <<closing, rejected, written>>

\* flush(): enqueue() is not awaited; its synchronous part runs first.
FlushAll(f) ==
  /\ TakeAndEnqueue(f, buffer)
  /\ before' = [before EXCEPT ![f] = Elems(written)]
  /\ UNCHANGED <<closing, rejected, written>>

\* The synchronous rest of flush(): uploader.flush(), whatever enqueue() did.
FlushAllFlushes(f) ==
  /\ call[f] # "ready"
  /\ Flush(f)
  /\ UNCHANGED writeVars

\* flushStreamEvents(): the delay timer fired.
TimerFires(k) ==
  /\ timer
  /\ TakeAndEnqueue(k, buffer)
  /\ UNCHANGED <<closing, rejected, written, before>>

\* close(): the buffer is discarded, the queue gets a period of grace.
CloseTransport ==
  /\ closing = "open"
  /\ closing' = "grace"
  /\ lost' = lost \cup Elems(buffer)
  /\ buffer' = << >> /\ timer' = FALSE
  /\ Flush(Closing)
  /\ UNCHANGED <<rejected, written, before, waited>>

\* The flush of close() returned, or CLOSE_GRACE_MS have passed.
GraceEnds ==
  /\ closing = "grace"
  /\ closing' = "done"
  /\ Close
  /\ lost' = lost \cup UNION {Elems(held[c]) : c \in Elems(blocked) \cup Elems(woken)}
  /\ UNCHANGED <<buffer, timer, rejected, written, before, waited>>

\* postOnce(): success, a permanent failure (both return normally), or an
\* error that the uploader retries.
PostAccepted == SendSucceeds /\ UNCHANGED writeVars

PostRejected ==
  /\ SendSucceeds
  /\ rejected' = rejected \cup Elems(batch)
  /\ UNCHANGED <<buffer, timer, closing, written, lost, before, waited>>

PostThrows ==
  (SendFails \/ SendFailsForGood) /\ UNCHANGED writeVars

BackoffEnds == SleepEnds /\ UNCHANGED writeVars
EnqueueResumes == Resume /\ UNCHANGED writeVars
-------------------------------------------------------------------------------
PostSettles == PostAccepted \/ PostRejected \/ PostThrows

HybridNext ==
  \/ \E e \in Streams : WriteStream(e)
  \/ \E c \in Writes : Write(c) \/ WriteFlushes(c)
  \/ \E f \in Flushings : FlushAll(f) \/ FlushAllFlushes(f)
  \/ \E k \in Ticks : TimerFires(k)
  \/ CloseTransport \/ GraceEnds
  \/ PostSettles \/ BackoffEnds \/ EnqueueResumes

HybridSpec == HybridInit /\ [][HybridNext]_hybridVars

\* Timers fire, requests settle (POST_TIMEOUT_MS), continuations run.
FairHybridSpec ==
  /\ HybridSpec
  /\ WF_hybridVars(\E k \in Ticks : TimerFires(k)) /\ WF_hybridVars(GraceEnds)
  /\ WF_hybridVars(PostSettles) /\ WF_hybridVars(BackoffEnds) /\ WF_hybridVars(EnqueueResumes)
  /\ \A c \in Writes : WF_hybridVars(WriteFlushes(c))
  /\ \A f \in Flushings : WF_hybridVars(FlushAllFlushes(f))
-------------------------------------------------------------------------------
(* Properties *)

\* "A non-stream write flushes any buffered stream_events first to preserve
\* order" (line 42): what was accepted, then what is buffered, is in the order
\* of the write() calls, through timers, flushes and close(), as long as the
\* queue has always had room.  (And the state is well typed.)
WriteOrder ==
  /\ HybridTypeOK
  /\ ~waited =>
       \E K \in SUBSET DOMAIN written :
         /\ accepted \o buffer = Selected(written, K)
         /\ \A i \in DOMAIN written \ K : written[i] \in lost

\* "Block until all pending events are POSTed" (line 146), and the same for an
\* awaited write(): when it returns, all that had been written by then is
\* settled, unless close() threw it away; as long as the queue has always had
\* room (flush() does not await its enqueue()).
FlushCoversWritten ==
  ~waited =>
  \A f \in Writes \cup Flushings :
    flush[f] = "returned" => closed \/ before[f] \subseteq acked \cup dropped \cup lost

\* Whatever was written is settled in the end: again and again nothing is left
\* to settle.
EventuallySettled ==
  []<>(closed \/ Elems(written) \subseteq acked \cup dropped \cup lost)

\* "Snapshot before/after writeBatch() to detect silent drops" (line 140):
\* while no batch was dropped, a write that returned was delivered.  (Does not hold:
\* README, section 5.)
NoSilentDrops ==
  \A c \in Writes :
    flush[c] = "returned" /\ droppedBatches = 0
      => Elems(Payload[c]) \subseteq acked \ rejected
===============================================================================
