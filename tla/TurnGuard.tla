------------------------------- MODULE TurnGuard -------------------------------
(***************************************************************************)
(* Who may start a turn.  The REPL keeps one QueryGuard                    *)
(* (utils/QueryGuard.ts) and one queue of commands                         *)
(* (utils/messageQueueManager.ts).  Whatever reaches the model goes        *)
(* through a call of onQuery() (screens/REPL.tsx), most of them from       *)
(* executeUserInput() (utils/handlePromptSubmit.ts); such a call, from     *)
(* its reservation to its finally block, is a *chain*.  A step is the code *)
(* between two awaits, so that chains that were cancelled go on beside     *)
(* their successors.                                                       *)
(*                                                                         *)
(* The state of React (the abort controller that Esc aborts, the effect of *)
(* useQueueProcessor) is taken as rendered at once.                        *)
(***************************************************************************)
EXTENDS Naturals, Sequences, SequencesExt, Subsequence

CONSTANTS
  None,
  Chains,
  Commands,
  Slash, Bash, Notifications, \* kinds of commands; the others are prompts
  Meta,      \* commands with isMeta
  Later,     \* commands of priority 'later', the others have 'next'
  MaxCancels \* bound on cancellations by the user

ASSUME TurnGuardAssumption ==
  /\ {Slash, Bash, Notifications, Meta, Later} \subseteq SUBSET Commands
  /\ Slash \cap Bash = {} /\ (Slash \cup Bash) \cap Notifications = {}
  /\ None \notin Chains
  /\ MaxCancels \in Nat

VARIABLES
  status, generation, \* the fields of QueryGuard
  queue,      \* commandQueue: what is addressed to the main thread
  pc,         \* pc[c]: where the chain c is
  gen,        \* gen[c]: its thisGeneration
  batch,      \* batch[c]: the commands it carries
  direct,     \* the chains that called onQuery() without executeUserInput()
  snap,       \* snap[c]: queuedCommandsSnapshot of its query, until removed
  controller, \* the chain whose abortController the REPL holds, or None
  cancelled,  \* the chains that Esc has aborted
  transcript, \* the commands that turns have been started with, in order
  attached,   \* those that were attached in the middle of a turn
  input,      \* those that went back to the input box
  settled,    \* those handled without a turn
  lost,       \* history: those that are nowhere any more, by what lost them
  requeued,   \* those that the concurrent path put back, as prompts
  arrived,    \* history: all commands so far
  cancels

guard == <<status, generation>>
chain == <<pc, gen, batch, direct, snap>>
places == <<transcript, attached, input, settled, lost, requeued>>
vars == <<guard, queue, chain, controller, cancelled, places, arrived, cancels>>

Mode(k) == IF k \in requeued THEN "prompt"
           ELSE IF k \in Bash THEN "bash"
           ELSE IF k \in Notifications THEN "task-notification" ELSE "prompt"
IsSlashCommand(k) == k \in Slash \ requeued
Urgent(k) == k \notin Later \/ k \in requeued
IsEditable(k) == Mode(k) # "task-notification" /\ (k \notin Meta \/ k \in requeued)

Init ==
  /\ status = "idle" /\ generation = 0 /\ queue = <<>>
  /\ pc = [c \in Chains |-> "free"] /\ gen = [c \in Chains |-> 0]
  /\ batch = [c \in Chains |-> <<>>] /\ snap = [c \in Chains |-> {}]
  /\ direct = {} /\ controller = None /\ cancelled = {}
  /\ transcript = <<>> /\ attached = {} /\ input = {} /\ settled = {}
  /\ lost = [thrown |-> {}, refused |-> {}, cleared |-> {}]
  /\ requeued = {} /\ arrived = {} /\ cancels = 0

(***************************************************************************)
(* QueryGuard, as functions of its state where a caller combines them.     *)
(***************************************************************************)
Reserved == IF status = "idle" THEN "dispatching" ELSE status
ReservationCancelled == IF status = "dispatching" THEN "idle" ELSE status

\* mutant: end() looks at the status only
IsRunning(c) == status = "running"

\* end(): whether c still has the turn.
IsCurrent(c) == gen[c] = generation /\ status = "running"

\* tryStart() when no query is running.
TryStart(c) ==
  /\ status' = "running" /\ generation' = generation + 1
  /\ gen' = [gen EXCEPT ![c] = generation + 1]
  /\ transcript' = transcript \o batch'[c]

\* forceEnd().
ForceEnd ==
  /\ status' = "idle"
  /\ generation' = IF status = "idle" THEN generation ELSE generation + 1

(***************************************************************************)
(* A chain begins.                                                         *)
(***************************************************************************)
\* The names of chains mean nothing: a new one gets any that is free.
NewChain(c) == pc[c] = "free" /\ c = CHOOSE d \in Chains : pc[d] = "free"

Holds(c, commands) ==
  /\ NewChain(c)
  /\ batch' = [batch EXCEPT ![c] = commands]
  /\ controller' = c

\* The chain is over.
Frees(c) ==
  /\ pc' = [pc EXCEPT ![c] = "free"]
  /\ batch' = [batch EXCEPT ![c] = <<>>]
  /\ gen' = [gen EXCEPT ![c] = 0]
  /\ direct' = direct \ {c}
  /\ cancelled' = cancelled \ {c}
  /\ UNCHANGED snap

\* executeUserInput() up to the await of processUserInput().  What reserve()
\* returns is ignored.
ExecuteUserInput(c, commands) ==
  /\ Holds(c, commands)
  /\ status' = Reserved
  /\ pc' = [pc EXCEPT ![c] = "preparing"]
  /\ UNCHANGED <<generation, gen, direct, snap, cancelled>>

\* The user submits k: it is queued while the guard is active.
Submit(k) ==
  /\ k \notin arrived \cup Notifications \cup Meta
  /\ arrived' = arrived \cup {k}
  /\ \/ /\ status # "idle"
        /\ queue' = Append(queue, k)
        /\ UNCHANGED <<guard, chain, controller, cancelled>>
     \/ /\ status = "idle"
        /\ \E c \in Chains : ExecuteUserInput(c, <<k>>)
        /\ UNCHANGED queue
  /\ UNCHANGED <<places, cancels>>

\* A task, the cron scheduler or a channel queues k.
Notify(k) ==
  /\ k \in (Notifications \cup Meta) \ arrived
  /\ arrived' = arrived \cup {k}
  /\ queue' = Append(queue, k)
  /\ UNCHANGED <<guard, chain, controller, cancelled, places, cancels>>

\* A message of a teammate starts a turn at once if there is no other and the user
\* has nothing in the queue (handleIncomingPrompt).
Incoming(k) ==
  /\ k \in Meta \ arrived
  /\ status = "idle"
  /\ \A q \in ToSet(queue) : Mode(q) = "task-notification"
  /\ arrived' = arrived \cup {k}
  /\ \E c \in Chains :
       /\ Holds(c, <<k>>)
       /\ TryStart(c)
       /\ pc' = [pc EXCEPT ![c] = "querying"]
       /\ direct' = direct \cup {c}
  /\ UNCHANGED <<queue, snap, cancelled, attached, input, settled, lost, requeued,
                 cancels>>

\* The command that peek() returns.
Peek ==
  IF \E k \in ToSet(queue) : Urgent(k)
  THEN queue[CHOOSE i \in DOMAIN queue :
               /\ Urgent(queue[i])
               /\ \A j \in 1..(i - 1) : ~Urgent(queue[j])]
  ELSE Head(queue)

\* What processQueueIfReady() takes together.
Goes(k) ==
  IF IsSlashCommand(Peek) \/ Mode(Peek) = "bash" THEN k = Peek
  ELSE ~IsSlashCommand(k) /\ Mode(k) = Mode(Peek)
\* mutant: only the first command is removed
StaysBehind(k) == k # Peek
Stays(k) == ~Goes(k)

\* The effect of useQueueProcessor.
ProcessQueue ==
  /\ status = "idle"
  /\ queue # <<>>
  /\ \E c \in Chains : ExecuteUserInput(c, Subsequence(queue, {k \in Commands : Goes(k)}))
  /\ queue' = Subsequence(queue, {k \in Commands : Stays(k)})
  /\ UNCHANGED <<places, arrived, cancels>>

(***************************************************************************)
(* processUserInput() returns, and the chain goes on.                      *)
(***************************************************************************)
\* mutant: no safety net in the finally block
LeavesReserved(c) ==
  /\ pc[c] = "preparing"
  /\ Frees(c)
  /\ UNCHANGED <<guard, queue, transcript, attached, input, requeued, arrived, cancels>>

LeavesWithoutQuery(c) ==
  /\ pc[c] = "preparing"
  /\ status' = ReservationCancelled
  /\ Frees(c)
  /\ UNCHANGED <<generation, queue, transcript, attached, input, requeued, arrived, cancels>>

\* A local command without messages, such as /model.
HasNoMessages(c) ==
  /\ LeavesWithoutQuery(c)
  /\ IsSlashCommand(Head(batch[c]))
  /\ settled' = settled \cup ToSet(batch[c])
  /\ controller' = None
  /\ UNCHANGED lost

\* It throws: the finally block runs, and the commands are nowhere.
Throws(c) ==
  /\ LeavesWithoutQuery(c)
  /\ lost' = [lost EXCEPT !.thrown = @ \cup ToSet(batch[c])]
  /\ UNCHANGED <<controller, settled>>

\* onQuery() takes the turn, whoever the reservation is of.
OnQueryStarts(c) ==
  /\ pc[c] = "preparing"
  /\ status # "running"
  /\ UNCHANGED batch
  /\ TryStart(c)
  /\ pc' = [pc EXCEPT ![c] = "querying"]
  /\ UNCHANGED <<direct, snap, queue, controller, cancelled, attached, input, settled,
                 lost, requeued, arrived, cancels>>

\* mutant: onQuery() returns and puts nothing back
OnQueryGivesUp(c) ==
  /\ pc[c] = "preparing"
  /\ status = "running"
  /\ batch' = [batch EXCEPT ![c] = <<>>]
  /\ pc' = [pc EXCEPT ![c] = "returned"]
  /\ UNCHANGED <<guard, queue, gen, direct, snap, controller, cancelled, places, arrived,
                 cancels>>

\* Another query is running: the text goes back to the queue, what is meta is dropped.
OnQueryIsConcurrent(c) ==
  /\ pc[c] = "preparing"
  /\ status = "running"
  /\ queue' = queue \o Subsequence(batch[c], Commands \ Meta)
  /\ requeued' = requeued \cup (ToSet(batch[c]) \ Meta)
  /\ lost' = [lost EXCEPT !.refused = @ \cup (ToSet(batch[c]) \cap Meta)]
  /\ snap' = [d \in Chains |-> snap[d] \ ToSet(batch[c])] \* the copy is another object
  /\ batch' = [batch EXCEPT ![c] = <<>>]
  /\ pc' = [pc EXCEPT ![c] = "returned"]
  /\ UNCHANGED <<guard, gen, direct, controller, cancelled, transcript, attached,
                 input, settled, arrived, cancels>>

(***************************************************************************)
(* The query.                                                              *)
(***************************************************************************)
\* Between two requests the query reads what is queued for it (query.ts), with
\* the notifications of priority 'later' if a Sleep ran, and attaches it ...
DrainReads(c) ==
  /\ pc[c] = "querying"
  /\ c \notin cancelled
  /\ pc' = [pc EXCEPT ![c] = "draining"]
  /\ \E sleepRan \in BOOLEAN :
       LET taken == {k \in ToSet(queue) : /\ sleepRan \/ Urgent(k)
                                          /\ ~IsSlashCommand(k) /\ Mode(k) # "bash"}
       IN taken # {} /\ snap' = [snap EXCEPT ![c] = taken] /\ attached' = attached \cup taken
  /\ UNCHANGED <<guard, queue, gen, batch, direct, controller, cancelled, transcript, input,
                 settled, lost, requeued, arrived, cancels>>

\* ... and removes it some awaits later.
DrainRemoves(c) ==
  /\ pc[c] = "draining"
  /\ pc' = [pc EXCEPT ![c] = "querying"]
  /\ queue' = Subsequence(queue, Commands \ snap[c])
  /\ snap' = [snap EXCEPT ![c] = {}]
  /\ UNCHANGED <<guard, gen, batch, direct, controller, cancelled, places, arrived,
                 cancels>>

\* onQueryImpl() is over or was aborted, and the finally block calls end().
QueryEnds(c) ==
  /\ pc[c] = "querying"
  /\ status' = IF IsCurrent(c) THEN "idle" ELSE status
  /\ pc' = [pc EXCEPT ![c] = IF IsCurrent(c) THEN "ended" ELSE "stale"]
  /\ UNCHANGED <<generation, gen, batch, direct, snap, queue, controller, cancelled, places,
                 arrived, cancels>>

\* The auto-restore of a cancelled turn rewinds to the last prompt and puts it
\* into the input box (unless there was an answer).
Restores(c) ==
  /\ pc[c] \in {"ended", "stale"}
  /\ c \in cancelled
  /\ status = "idle"
  /\ queue = <<>> /\ input = {} /\ transcript # <<>>
  /\ transcript' = Front(transcript)
  /\ input' = {Last(transcript)}
  /\ UNCHANGED <<attached, settled, lost, requeued>>

\* After the await of mrOnTurnComplete(): the end of onQuery() and, for a chain of
\* executeUserInput(), of its finally block, which cancels a reservation.
Returns(c) ==
  /\ pc[c] \in {"ended", "stale", "returned"}
  /\ controller' = IF pc[c] = "ended" THEN None ELSE controller
  /\ Restores(c) \/ UNCHANGED places
  /\ status' = IF c \in direct THEN status ELSE ReservationCancelled
  /\ Frees(c)
  /\ UNCHANGED <<generation, queue, arrived, cancels>>

(***************************************************************************)
(* The user.                                                               *)
(***************************************************************************)
\* Esc while there is something to abort (onCancel).
Cancel ==
  /\ cancels < MaxCancels
  /\ controller # None
  /\ ForceEnd
  /\ cancelled' = cancelled \cup {c \in {controller} : pc[c] # "free"}
  /\ controller' = None
  /\ cancels' = cancels + 1
  /\ UNCHANGED <<queue, chain, places, arrived>>

\* Up, or Esc when there is nothing to abort: the queue goes to the input box.
PopAllEditable ==
  /\ \E k \in ToSet(queue) : IsEditable(k)
  /\ input' = input \cup {k \in ToSet(queue) : IsEditable(k)}
  /\ queue' = Subsequence(queue, {k \in Commands : ~IsEditable(k)})
  /\ UNCHANGED <<guard, chain, controller, cancelled, transcript, attached, settled,
                 lost, requeued, arrived, cancels>>

\* Stopping all agents clears the queue and leaves one notification in it
\* (useCancelRequest.ts).
KillAgents ==
  /\ queue # <<>>
  /\ lost' = [lost EXCEPT !.cleared = @ \cup ToSet(queue)]
  /\ \E k \in Notifications \ arrived : queue' = <<k>> /\ arrived' = arrived \cup {k}
  /\ UNCHANGED <<guard, chain, controller, cancelled, transcript, attached, input, settled,
                 requeued, cancels>>

Prepared(c) == HasNoMessages(c) \/ Throws(c) \/ OnQueryStarts(c) \/ OnQueryIsConcurrent(c)

Next ==
  \/ \E k \in Commands : Submit(k) \/ Notify(k) \/ Incoming(k)
  \/ ProcessQueue \/ Cancel \/ PopAllEditable \/ KillAgents
  \/ \E c \in Chains :
       Prepared(c) \/ DrainReads(c) \/ DrainRemoves(c) \/ QueryEnds(c) \/ Returns(c)

Spec == Init /\ [][Next]_vars

\* The effect runs, and the input processing and the query of every chain end.
Fairness ==
  /\ WF_vars(ProcessQueue)
  /\ \A c \in Chains : /\ WF_vars(Prepared(c)) /\ WF_vars(DrainRemoves(c))
                       /\ WF_vars(QueryEnds(c)) /\ WF_vars(Returns(c))
FairSpec == Spec /\ Fairness

(***************************************************************************)
(* Properties.                                                             *)
(***************************************************************************)
InQuery(c) == pc[c] \in {"querying", "draining"}
Preparing == {c \in Chains : pc[c] = "preparing"}

TypeOK ==
  /\ status \in {"idle", "dispatching", "running"} /\ generation \in Nat
  /\ queue \in Seq(Commands) /\ transcript \in Seq(Commands)
  /\ pc \in [Chains -> {"free", "preparing", "querying", "draining", "ended", "stale",
                        "returned"}]
  /\ gen \in [Chains -> 0..generation]
  /\ batch \in [Chains -> Seq(Commands)] /\ snap \in [Chains -> SUBSET Commands]
  /\ direct \subseteq Chains /\ cancelled \subseteq Chains
  /\ controller \in Chains \cup {None}
  /\ {attached, input, settled, requeued, arrived} \subseteq SUBSET Commands
  /\ lost \in [thrown : SUBSET Commands, refused : SUBSET Commands, cleared : SUBSET Commands]
  /\ cancels \in 0..MaxCancels

\* One turn at a time: the guard is running exactly while one query has the current
\* generation.  The late end() of a query that was cancelled does not end the turn of
\* its successor, and no turn starts beside one that is current.  (And the state is
\* well typed.)
OneCurrentTurn ==
  /\ TypeOK
  /\ status = "running" <=> \E c \in Chains : InQuery(c) /\ gen[c] = generation
  /\ \A c, d \in Chains : InQuery(c) /\ InQuery(d) /\ gen[c] = gen[d] => c = d

\* Through concurrent turns, cancelled ones, drains and what the user takes back, a
\* command is somewhere: queued, carried by a chain, part of a turn, in the input box,
\* or a local command handled without a turn.  It is nowhere any more only if it was
\* carried when the processing of the input threw, or queued when all agents were
\* stopped, or if it is meta (a prompt of the cron scheduler, a teammate's message) and
\* met another query that was running (REPL.tsx:2896): what the user types is put back
\* there.
Done == ToSet(transcript) \cup attached \cup input \cup settled
Carried == UNION {ToSet(batch[c]) : c \in Preparing}
Lost == lost.thrown \cup lost.refused \cup lost.cleared
LostOnlyThere ==
  /\ arrived \subseteq ToSet(queue) \cup Carried \cup Done \cup Lost
  /\ lost.refused \subseteq Meta
  /\ settled \subseteq Slash

\* No command is lost.  (Does not hold: README, section 5.)
NothingIsLost == arrived \subseteq ToSet(queue) \cup Carried \cup Done

\* A command starts one turn at most: what a chain carries or a turn was started with
\* is not in the queue and not with another chain, and what the current turn has
\* attached and not yet removed from the queue is not started as a turn of its own.
StartedOnce ==
  /\ (Carried \cup ToSet(transcript)) \cap ToSet(queue) = {}
  /\ Carried \cap ToSet(transcript) = {}
  /\ \A c, d \in Preparing : c # d => ToSet(batch[c]) \cap ToSet(batch[d]) = {}
  /\ \A i, j \in DOMAIN queue : queue[i] = queue[j] => i = j
  /\ \A c \in Chains : pc[c] = "draining" /\ IsCurrent(c) =>
       snap[c] \cap (Carried \cup ToSet(transcript)) = {}

\* Whatever arrives is dealt with in the end, or lost in one of the three ways,
\* whoever frees whose reservation: the queue does not stall.
EverythingIsServed == \A k \in Commands : k \in arrived ~> k \in Done \cup Lost

\* "queryGuard guarantees no concurrent executeUserInput call"
\* (handlePromptSubmit.ts:418): of the chains that process input only one was not
\* cancelled.
NoConcurrentInput == \A c, d \in Preparing \ cancelled : c = d
===============================================================================
