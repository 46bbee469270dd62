# Formal models of the Evensong CLI

TLA+ models of the concurrent core of this repository's command line program
(`src/src/…` in the paths below: the repository is mounted at `src/`, its own
source directory is `src/src/`).  The program is a terminal coding agent: a query
loop talks to a language model, runs the tools the model asks for, talks to a
remote "bridge", schedules prompts, and works with other sessions and agents
through files that they share.

- [1 The system](#1-the-system)
- [2 What is modelled](#2-what-is-modelled): module by module, and how it maps to the code
- [3 The runs](#3-the-runs): what TLC checks, the bounds, the fairness
- [4 The proofs](#4-the-proofs): what TLAPS proves, and how
- [5 What the models found](#5-what-the-models-found)
- [6 What is not modelled](#6-what-is-not-modelled)
- [7 Plan](#7-plan)

To check a run: `tlc -workers 2 -config SchedulerLock.cfg MCSchedulerLock.tla`.
To check the proofs: `tlapm Scheduler_proofs.tla`.  `PROJECT.json` lists the
runs, the lines that every definition models, the hazards, and for every property
a mutant of the model that violates it.

## 1 The system

Two kinds of concurrency matter.  *Within a process* JavaScript runs to completion
between two awaits, so that an atomic step of the code is the code between two
awaits, and a continuation may find everything changed.  *Between processes*
(sessions of a project, agents of a swarm) only single file operations are atomic.

| Component | State it keeps | Operations | Talks to | What is hard | What makes it correct |
|---|---|---|---|---|---|
| Uploader (`cli/transports/SerialBatchEventUploader.ts`) | `pending`, drain loop, backpressure and flush resolvers | `enqueue`, `flush`, `close`, `drain` | server; used by the transport and by `ccrClient` | retries put a batch back while callers wait; close during a POST | no event lost, doubled or reordered; no lost wake-up; bounded memory |
| Hybrid transport (`cli/transports/HybridTransport.ts`) | stream event buffer and its timer, uploader | `write`, `writeBatch`, `flush`, `close` | uploader, bridge | a 100 ms buffer beside a queue, the period of grace after `close` | order of writes; what was written is settled; drops are noticed |
| Tool executor (`services/tools/StreamingToolExecutor.ts`) | tools with their statuses, overlapping `processQueue` loops | `addTool`, `discard`, `getCompletedResults`, `getRemainingResults` | query loop (consumer), tools, UI, abort signals | every completion starts another loop; sibling errors, aborts | exclusive tools run alone, each tool is answered, order |
| Scheduler lock (`utils/cronTasksLock.ts`) | lock file, `isOwner` of each process | try, release | processes with a project's sessions | recovery of a dead owner's lock; two processes with one session | one owner; some process drives; a stopped one leaves no lock |
| Cron scheduler (`utils/cronScheduler.ts`, `cronTasks.ts`) | tasks on file and in memory, `nextFireAt`, `inFlight` | `check`, `load`, add, remove, mark fired | lock, file watcher, REPL | file updates overlap, a memory that lags behind the file, missed tasks, take-over | a one-shot fires once; none is forgotten |
| Task list (`utils/tasks.ts`) | a file for each task, high water mark, locks | create, update, block, claim, delete, reset, unassign | agents of a swarm | operations with different locks, or none | ids are fresh, claims exclude one another |
| Turn guard and command queue (`utils/QueryGuard.ts`, `messageQueueManager.ts`, `queueProcessor.ts`, `handlePromptSubmit.ts`) | guard status and generation, queued commands | reserve, start, end, force-end; enqueue, dequeue, drain in a turn, take back | REPL, hooks, cron, mailbox poller | a cancelled turn ends after the next one has begun | one turn at a time; no command lost |
| Permission prompt (`hooks/toolPermission/`) | who has claimed the decision | dialog, hooks, classifier, bridge, channel | executor (a tool waits for it) | six racers and aborts, effects before the claim | one decision, exactly once, and all others withdrawn |
| Worker state uploader (`cli/transports/WorkerStateUploader.ts`) | one patch in flight, one pending | `enqueue`, `close` | server; used by `ccrClient` | patches merge during retries, a timed-out PUT was applied after all | the last write of each key wins, no patch is left behind |
| Session state (`utils/sessionState.ts`, parts of `cli/structuredIO.ts`, `cli/print.ts`, `cli/transports/ccrClient.ts`, `state/onChangeAppState.ts`) | state last reported, open requests, pending action, permission mode | notify, ask, answer, change the mode, initialise | worker state uploader, host, hooks | prompts and requests for hosts open and close in any order; a worker dies and the next takes over, with the mode or without | the server shows what the session waits for, and its mode |
| Locks of the dream and of computer use (`services/autoDream/consolidationLock.ts`, `utils/computerUse/computerUseLock.ts`) | a lock file, its mtime | acquire, roll back, release | sessions | reclaiming a dead holder's lock | one holder |
| Mailboxes (`utils/teammateMailbox.ts`) | one inbox file for each agent | write, read unread, mark read | swarm runner, REPL pollers | what is marked is not what was read | each message is shown |
| Bridge (`bridge/`) | transport, flush gate, sessions | connect, replace, flush, write | hybrid transport | history and live messages on a new transport | no message lost or out of order |
| Query loop, API client, compaction, session storage, memory extraction, MCP, LSP, retrieval | — | — | all of the above | mostly sequential, or wrapped around external services | — |

Interactions: the query loop consumes the executor's results; a tool that needs
permission waits for the prompt, which also tells the server, through the
session state and the worker state uploader, that somebody is wanted; the bridge writes through the hybrid transport,
which writes through the uploader; the cron scheduler fires into the command
queue, whose processor is gated by the turn guard; the sessions of a project
share the lock and the task file; the agents of a swarm share the task list and
the mailboxes.

The rest of the repository is a UI (React on a terminal), commands, configuration,
a benchmark suite with recorded results, benchmark services that keep their data in
maps, a stateless relay, and a small vault server with synchronous file access.

## 2 What is modelled

A comment at the head of each module says what a step is.  Variables have the
names of the fields they model; a *history* variable only records.  Operators
whose comment begins with "mutant" are variants with a plausible bug, used by no
specification.

### SerialBatchEventUploader, with OrderedQueue

`pending`, `drain` ("idle", "sending", "sleeping"), `failures` (the local of
`drain()`), `closed`, `blocked` (the callers behind `backpressureResolvers`), and
for each invocation of `enqueue` and `flush` where it is.  The actions are
`Enqueue`, `Flush`, `Close` (the public methods), `SendSucceeds`, `SendFails`,
`SendFailsForGood` (the POST settles, and the code up to the next await),
`SleepEnds` (the backoff) and `Resume` (a released caller looks at its condition
again).  `DrainLoop` is the loop with `takeBatch()` up to its next await: it is
stated by the positions that the scan keeps (`Kept`, `ScanStopsAt`) and those that it leaves
in `pending` (`Selected`, in `Subsequence`), because the theorems below are about it.  Delays and jitter are abstracted: a sleep ends some
time.  Left out: enqueue calls with no events, and the contents of events.

`OrderedQueue` is what the uploader promises: a first-in first-out queue with no
batches in flight, retries, waiters or timers.  What vanishes from it is given by
positions, not by events, since two calls may carry equal ones.  `OrderedQueueRefined`
shows that the uploader implements it, where the abstract queue is the batch in flight
followed by `pending`.

### HybridTransport

EXTENDS the uploader (whose `Init` and `Next` it replaces by its own) with the buffer of
stream events, its timer and the states of `close()`.  A `write()` is the call of `enqueue()`
that it makes and, when that has returned, the call of `flush()`.  So every action of the transport is
a joint action with one of the uploader (`TakeAndEnqueue`, `WriteFlushes`,
`PostSettles`, `CloseTransport`, `GraceEnds`).  A permanent refusal by the server
(4xx, no token) is a POST that "succeeds"; `rejected` remembers it.  `waited`
records whether an `enqueue()` ever found the queue full: `flush()` does not await
its own `enqueue()`, so that what it promises about order and coverage is promised
only while there is room, and the two properties say so.  Two writes may carry equal events, so
`WriteOrder` speaks of the positions in `written` of what was accepted and what is buffered.

### StreamingToolExecutor

One message with `N` tool blocks of any mixture of kinds (Bash or not, safe to run
concurrently or not, unknown, willing to be cancelled or not).  `passes` is the set
of suspended `processQueue()` loops: each completion starts one, each goes on at
its old position over statuses that others have changed.  The consumer (`pc`) is
the query loop: while it streams it adds tools and collects results, then it runs
`getRemainingResults()`.  The generator `getCompletedResults()` keeps its place in the list
while its caller handles what it yields (`"taking"`, `TakeNext`).  Microtasks come before timers and I/O: `LoopIdle` is the
condition under which the event loop delivers a result or an abort.  (The blocks of one
stream event are added in one turn of the loop, `query.ts:851`, so `AddTool` does not need it.)  Without it the model would not show that the consumer can starve its own
tools (section 5).

### SchedulerLock

Processes, their sessions and one lock file, which names both; every file operation
(exclusive open, write, read, unlink) is a step, and a crash may come between any two.  A
file written through a descriptor after it was unlinked is written to nobody (`fd = "orphan"`).
`Try` is the probe of the scheduler (`cronScheduler.ts`, at its start and every
`LOCK_PROBE_INTERVAL_MS`).  A process starts with any session, one that another runs included, and
may go on to another (`SwitchSession`: /resume, /clear).  So the lock may bear one's session and the
pid of a process that lives: `Read` takes it over and `ReleaseReads` gives it back without asking
`isProcessRunning()`, as in the code, and `shared` remembers when that was done beside a live process.
`Running` is `isProcessRunning()`: it does not see the processes of other users (EPERM), nor pid 1, which
are the pairs in `Unseen`.  `ExitCleanup` is the cleanup that
`registerLockCleanup()` installs: it gives the lock back and leaves `isOwner` as it
is, and `exiting` remembers that.  (Its definitions have names of their own, `LockInit`,
`LockSpec`, `ProcessDies`, where CronScheduler has `Init`, `Spec`, `Crash`: their theorems are in one module.)

### CronScheduler

The lock is an abstract one here (one owner at most; SchedulerLock shows when that
is so).  Each update of the file is a *job* with a read and a write; nothing in
the code keeps two jobs apart.  `Check` is one tick, with every task that is due;
`Over(f, g)` is what an update makes of the file it read, `Reload` is the watcher's event; `Start` is `enable()` with the first `load()`,
which asks the user about missed one-shots.  The clock advances only when no job
and no reload is outstanding: the units of time are long for a file operation.
A tick, however, needs not wait for the watcher: `inFlight` is cleared when the removal is written
(`cronScheduler.ts:342`), the memory has the task until the change is reported, and a `Check` in
between fires it again.  Two history variables say why a task fired once more than it should:
`undone` (its removal was written over, or failed) and `outrun` (that window).

### TaskList

Agents and files; every access to a file or to a lock is a step, except that
`listTasks()`, the deletions of a reset and the two reads of `blockTask()` are one
each.  All the operations end in a sequence of `updateTask()` calls, so an agent
has a list `todo` of updates, and for each it checks, locks, reads and writes.
`claimTask()` takes the lock of the task before it looks, the variant with the busy
check takes the lock of the list, `deleteTask()` takes none before its cascade.
`LockFails` is the end of the retries of `LOCK_OPTIONS`; an agent that dies keeps
its locks until `LockGoesStale`.  `WithFile` is a file written, `Changed` a task with the
fields of an update; three history variables follow the ids: `used`, `reused` (given to a second
task) and `deleted` (the last task of that id was deleted; an update that had read it may still
write it back).  `Kinds` says which operations an agent calls.

### TurnGuard

Whatever reaches the model goes through a call of `onQuery()`, most often at the end
of `executeUserInput()`; such a call is a *chain*, and its steps are the code between
two awaits.  `status` and `generation` are QueryGuard's, `queue` is the command queue,
and for each chain there is the place it is at (`pc`), the generation its turn got
(`gen`) and the commands it carries (`batch`).  `Cancel` is Esc: `forceEnd()` makes the guard idle
at once, but the cancelled chain goes on and runs its finally blocks (`QueryEnds`,
`Returns`, `LeavesWithoutQuery`) some time later, beside its successors.
`DrainReads` and `DrainRemoves` are the two halves of the attachment of queued
commands in the middle of a turn.  Commands are of the kinds that the code tells apart
(prompt, slash, bash, notification, meta; urgent or later), and a command whose text
is put back into the queue becomes a prompt (`requeued`).  `lost` records the commands that are nowhere
any more, by the line that loses them: `thrown` (the processing of the input threw), `refused` (a meta
command on the concurrent path of `onQuery()`) and `cleared` (all agents were stopped).  The effect of
`useQueueProcessor` and the abort controller are taken as rendered at once.  Left out:
commands of subagents, local JSX dialogs, priority 'now', `nextInput`, and the abort of
an interruptible tool.

### PermissionRace

The prompts of one turn.  `claim[p]` is the racer whose `claim()` came first,
`answer[p]` what was delivered; `checks` holds the hooks, classifiers and rechecks
that are on their way; `queue` is the queue of dialogs and `rendered` the one on the
screen, which lags behind.  Each racer (user, recheck, web page, chat channel, hook,
classifier) is an action or two: what comes before an await and what comes after.
`Cancel` is Esc at the REPL, `SiblingError` and `RemoteInterrupt` are the aborts that
come from elsewhere.  The effects of a hook (saved rules, an interrupt) come before its
claim, as in the code.  Left out: what `useCanUseTool()` does before the dialog
(coordinator, swarm worker, speculative classifier), and the escalation prompt.

### Mailbox

One inbox, a file with a lock.  Senders (`writeToMailbox`), the poller and the attachments
of a turn are processes whose steps are file operations: create with 'wx', lock, read,
truncate, write, unlock.  `writeFile()` truncates first, so that a writer that dies leaves
a blank or mangled file, which `readMailbox()` takes for an empty inbox.  The poller
reads without a lock, and marks some awaits later, under the lock, what it finds by then; `late`
records what arrived in between.  `queued` is the inbox in the session's state, `snapshot` the part of it
from which the attachments were built.  Left out: the by-index marking of in-process
teammates, the loop of the print mode, and `clearMailbox()`.  A call that does not get
the lock gives up (`GivesUp`): a sender's message is then not sent, a reader's messages stay
unread and are dealt with again; its retries, 0.7 s, end before the next poll.

### WorkerStateUploader, with PublishedDocument

The uploader is one record `up` (what is in flight, what waits, `closed`, and as history the versions
that `enqueue()` has written and how many of them the patch in flight covers).  `drain()` and
`enqueue()` are operators on that record (`Drained`, `Enqueued`), because
`ccrClient` makes several calls in one step.  A patch is two partial functions, of the top level and of the
metadata; `CoalescePatches` overlays both, and the server does the same with what arrives.
`SendFails` has two outcomes: the server has applied the body, or it has not.

`PublishedDocument` is the promise: a document is written again and again, and readers see some of its
versions, in order.  `PublishedInOrder` is the refinement, where the version on show is
the last one that arrived (`seen`).

### SessionState

EXTENDS the uploader.  The handlers of `structuredIO.ts` (ask, answer, a hook that decides
first, the abort of a turn), of `print.ts` (the start and the end of a run) and of
`onChangeAppState.ts` (the permission mode) make the patches that `sessionState.ts` and
`ccrClient.ts` make, in their order.  `Hosts` are the requests to connect to a host
(`createSandboxAskCallback()`): they are pending requests like those of tools, but notify nothing, are not
aborted with the turn, and count when `structuredIO.ts:659` looks for others.  `unannounced` records that the
last prompt of a tool ended beside one, or beside a hook's aborted request, and 'running' was not
reported.  `Restart` is the death of a worker with the
`initialize()` of the next: the epoch keeps the requests of the old one away, prompts are
gone, and the mode is read back from the server, or is not (`getWorkerState()` gives up after ten failures
or has no token, or there is no `--resume`): then `unrestored` holds until the worker's mode is changed, which
publishes it.

### Subsequence

`Subsequence(s, S)` is what `Array.prototype.filter` makes of `s`, by the positions that
stay (`Selected`, which is also what `splice()` leaves).  The queues of TurnGuard,
PermissionRace and the uploader are filtered with it; it is stated
without recursion because the theorems are about those queues.

## 3 The runs

| Run | Question | Instance | Distinct states |
|---|---|---|---|
| `uploader_limited` | Is the uploader an ordered queue, with bounded memory, whose callers all return? | 3 calls of 1 or 2 events, 2 flushes, batches of 2 events and 3 bytes, an event that cannot be serialised, one that alone exceeds the bytes, a queue of 2, give up after 2 failures, close | 10 084 |
| `hybrid_transport` | Do writes keep their order, and is what was written settled? | a write, a batch of 2, a stream event, a flush, a tick, close; a queue of 3 | 550 878 |
| `executor_tools` | Exclusive tools, order, one answer for each tool, progress | every message of 3 blocks of the kinds unknown, Edit (exclusive), Bash that reads (safe, cancels siblings) | 819 629 |
| `executor_spin` | Does the consumer always finish? (violated) | 2 blocks of all kinds | |
| `scheduler_lock` | One owner until a recovery or a shared session; some process drives; no lock left by a stop | 3 processes, 2 sessions, one process that another cannot see, each may die, stop, exit or change its session, torn writes | 1 272 008 |
| `cron_scheduler` | No double fire unless a removal was undone or outrun, no catch-up, nothing forgotten | 2 sessions, a recurring task, a one-shot created, and perhaps deleted, while they run, 1 crash, 1 failure | 577 473 |
| `task_list` | No write over a task that its writer does not know, no stolen claim, no hanging call | 3 agents, 2 tasks, 3 calls, 1 death; one agent creates, resets, deletes, blocks and unassigns, one creates, deletes and claims, one updates and claims | 375 001 |
| `turn_guard` | One turn at a time, nothing lost but in three places, nothing started twice, nothing forgotten | 2 chains; a prompt, a slash command, a notification, a meta command; 1 cancellation | 509 035 |
| `turn_concurrent` | Does one chain at most process input? (violated) | 3 chains, 4 commands, 1 cancellation | |
| `permission_race` | Does one racer decide each prompt, are the others withdrawn, is every prompt decided? | a Bash prompt with every racer but the channel, a prompt on the channel, aborts, a cancellation | 265 872 |
| `mailbox` | Is nothing in the inbox overwritten, and does every message arrive? | 3 senders, one message of the protocol, poller and attachments, 1 death | 135 292 |
| `session_state` | Does the server show what the session waits for, through lost answers and a new worker? | 2 prompts, a host, 2 modes, 6 patches, 1 restart | 1 004 685 |

### The properties, and what they are aimed at

*Uploader.*  `OrderedQueueRefined` (safety, by refinement): a retry neither loses,
doubles nor reorders events although new events arrive during the POST, and only
what cannot be serialised is skipped.  `WaitersHaveADrain`: no lost
wake-up although neither a retry nor a batch that ended up empty releases the
waiters.  `MemoryBound`: a failed batch returns to a queue that was refilled
meanwhile.  `FlushMeansSettled`: when `flush()` returns nothing accepted is outstanding;
`CallersReturn`: every call of `enqueue()` and `flush()` does return.

*Transport.*  `WriteOrder`, `FlushCoversWritten`, `EventuallySettled`: the buffer and the
queue together behave like one queue, and no buffered event is forgotten.

*Executor.*  `Exclusive`, `StartedInOrder`, `QueueIsWatched`: several loops walk one
list.  `ErrorReportedOnce`: a tool that failed gets no second error for the siblings it cancels.  `AllAnswered`:
a message whose tools were all yielded has answered each of them with one `tool_result`, or with two if a result of it was already there when a
sibling failed or the user aborted (section 5).
`UnsafeInOrder`: an exclusive tool's result is overtaken by a later one only behind the error of
a tool that does not exist (section 5).  `KnownToolsFinish`: liveness for messages without unknown
tools.

*Lock.*  `OneOwnerUntilRecovery`: until somebody takes a lock for stale and removes it, or goes by the lock
of another live process because the session is the same,
the exclusive create keeps processes apart, through crashes, stops, exits, changes of session
and torn writes.  `StoppedLeavesNoLock`: a stop at any point of an acquisition or a release gives the lock
back.  `SomeoneDrives`: nobody is locked out for ever, the recovery race
included, except by a lock whose process stopped or exited under another session than it was taken with
(`LeftBehind`).

*Scheduler.*  `FiresOnceUnlessUndone`: a one-shot fires once, and a recurring task once for all that a busy session
missed, unless an overlapping update or a failure undid the removal, or a tick outran the watcher.
`DueIsServed`: whatever is
due is fired or shown to the user, through crashes, failed writes and lost updates.

*Task list.*  `NothingIsReplaced`: a new task overwrites none and an update only what it has
read, although deletes and resets go on beside them, except behind the races that section 5 names: a
deleted task that an update puts back, an id that is given twice.  `ClaimTakesNothing`: between the checks and the write of a
claim nobody else can have claimed or completed the task.  `CallsEnd`: locks of the dead and
the two levels of locks make calls fail, not hang.

*Turn guard.*  `OneCurrentTurn`: the late finally of a cancelled query does not end the turn of its
successor.  `LostOnlyThere`: a command on its way through queue, chain,
turn and back again is always somewhere, unless one of the three lines that `lost` names took it away, and only
meta commands are lost to the second.  `StartedOnce`: it is not started twice.
`EverythingIsServed`: nobody leaves a reservation behind on which the queue waits for ever (what is `lost` waits no more).

*Permission prompt.*  `OneSource`: the decision, the saved rules and what the web page was
told all come from the one racer that claimed.  `LosersWithdrawn`: what the others showed is gone.
`AnsweredUnlessDropped`: a prompt is decided and leaves the queue, where it would block
the next, unless another's dialog took it away (section 5).

*Mailbox.*  `NothingIsOverwritten`: no append and no mark is lost to another writer.
`LostOnlyInTheWindow`: a message is marked unseen only if it arrived while a reader was between its reading
and its marking.  `ArrivesAtLast`: all others reach the model or their handler.

*Worker state.*  `IdleMeansPublished`: with nothing in flight the server has the newest version.
`PublishedInOrder` (by refinement): readers never see what was not written, nor an older
version after a newer one.  `PublishedAtLast`.  `ShowsTheSession`: once all is sent, the
server says that the session waits exactly if a prompt of a tool is open or `unannounced` holds, and has the worker's mode
unless `unrestored` does; both exceptions are bounded, the first by the end of the run, the second to the default mode.

The type invariants of the last five modules and of the scheduler and the transport are
conjuncts of one of these properties; that of the lock (`LockTypeOK`) is part of its inductive invariant.

### Why the bounds are enough

Each instance is the smallest in which the hazards of its component meet.  For the
uploader that is two waiting callers behind a full queue and a batch that is retried, with a
later batch to give up on: three calls and a limit of two failures.  For the
executor: an exclusive tool between two others, with two suspended loops: three
blocks (the exception in `UnsafeInOrder` takes a fourth, and is within reach of the theorem only).  For the lock: two processes that recover and a third that comes in between, of which two at least
have the same session; all of them may die.  For the scheduler: two jobs
that overlap in two sessions, with a take-over.  For the task list: three agents with
a call each, or one with three, so that a create, a delete and a late update meet (with two agents the
first version of `NothingIsReplaced`, "a create overwrites nothing", held; it does not with three).  For the turn guard: a cancelled chain and its
successor, and a command of each kind that the queue treats differently.  For the prompts:
one with the racers that share a machine, and one behind it in the queue, so that a late
key and a cancellation find another prompt.  For the mailbox: a message that is read, one
that comes into the window, one of the protocol.  For the worker state: a patch in flight, one that waits, and
one that is merged into a retry, before and after a restart, and a prompt beside a request for a host: six patches.  The safety theorems of section 4 hold without bounds.
Bounds are guards (`MaxOps`, `MaxCrashes`, `MaxTime`, `MaxFailures`, `MaxCancels`,
`MaxDeaths`, `MaxWrites`, `MaxRestarts`) or finite sets
of invocations (`Calls`, `Ticks`).  `CHECK_DEADLOCK FALSE` is set everywhere because all
invocations may be used up, all processes may be dead, or the clock has reached its bound.

### Fairness

Weak fairness on what the runtime or the kernel guarantees: a timer fires, a
request settles (it has a timeout), a microtask runs, a file operation returns.
Nothing makes a user, a model or a caller act, and no crash, failure or loss is fair.  The
executor needs strong fairness for the completion of a tool's I/O: a result is
delivered when the event loop is idle, and an event loop that is idle again and
again delivers it.  This is exactly what fails in `executor_spin`, where
the loop is never idle again (`executor_tools` assumes even less, `LessFairSpec`: some loop
goes on, some tool settles).  The locks need none: whether an agent gets a lock or gives up
is a choice, and one of the two is always possible.  The turn guard assumes that the effect of the queue
processor runs and that the processing of an input and a query end.  The prompts assume that the screen is rendered and
that the user decides the dialog on it: somebody must, when no other racer does.  The
mailbox needs strong fairness for the delivery of what is queued in the session, which happens in a
moment between two turns (`DeliverQueued`); the worker state assumes of the server that a
request that is sent again and again is accepted in the end (strong fairness of
`SendSucceeds`), which the endless retries of the code count on.

## 4 The proofs

TLAPS checks the following for every value of the constants that satisfies the assumptions
of the modules.

| Theorem (module) | Statement |
|---|---|
| `TypeCorrect`, `NoLostWakeup`, `BoundedMemory` (`Transport_proofs`) | `TypeOK`, `WaitersHaveADrain`, `MemoryBound` are invariants |
| `FlushSettles`, `ImplementsQueue` (the same) | every step satisfies `FlushMeansSettled`; the uploader implements `OrderedQueue` |
| `WriteOrderHolds`, `FlushCoversWrittenHolds` (the same) | `WriteOrder`, `FlushCoversWritten` are invariants of HybridTransport |
| `TransportAtWork` (the same) | in HybridTransport, too, `DrainRuns` and `MemoryBound` are invariants, and who waits in `flush()` has a drain loop |
| `TypeCorrect`, `ExclusiveAccess`, `StartingOrder`, `NoForgottenTool`, `SingleErrorReport` (`StreamingToolExecutor_proofs`) | `TypeOK`, `Exclusive`, `StartedInOrder`, `QueueIsWatched`, `ErrorReportedOnce` are invariants |
| `EveryToolAnswered`, `ExclusiveOrder` (the same) | `AllAnswered`, `UnsafeInOrder` are invariants |
| `ExclusiveUntilRecovery`, `NoLockIsLeft` (`Scheduler_proofs`) | `OneOwnerUntilRecovery`, `StoppedLeavesNoLock` are invariants of SchedulerLock |
| `FiresOnceHolds` (the same) | `FiresOnceUnlessUndone` is an invariant of CronScheduler |
| `TypesHold`, `WritesReplaceNothing`, `ClaimsTakeNothing` (`Swarm_proofs`) | `TypeOK` is an invariant of TaskList; every step satisfies `NothingIsReplaced` and `ClaimTakesNothing` |
| `NothingIsOverwrittenHolds`, `LostOnlyInTheWindowHolds` (the same) | every step satisfies `NothingIsOverwritten`; `LostOnlyInTheWindow` is an invariant |
| `OneCurrentTurnHolds`, `LostOnlyThereHolds`, `StartedOnceHolds` (`TurnGuard_proofs`) | `OneCurrentTurn`, `LostOnlyThere`, `StartedOnce` are invariants |
| `OneSourceHolds`, `LosersWithdrawnHolds` (`PermissionRace_proofs`) | `OneSource`, `LosersWithdrawn` are invariants |
| `DecidedOnce` (the same) | no step changes a claim or a decision that was made |
| `AppliedCoalesced` (`SessionState_proofs`) | to apply two patches is to apply what they coalesce to |
| `TypeCorrect`, `IdlePublished`, `ImplementsDocument` (the same) | `TypeOK`, `IdleMeansPublished` are invariants; the uploader implements `PublishedDocument` |
| `ShownAsItIs` (the same) | `ShowsTheSession` is an invariant of the sessions with their uploader |
| `SessionIdlePublished`, `SessionImplementsDocument` (the same) | through restarts, `IdleMeansPublished` is an invariant and readers see versions in order |

**Uploader.**  The assumptions: sizes are positive (`UploaderAssumption`) and every call
fits into an empty queue (`PayloadFits`; `HybridTransport.ts:80` warns that otherwise
the caller waits for ever).  The inductive invariant adds `Shape`: a batch is in
flight exactly while the loop is sending; while it sleeps the batch it will retry is at the front
of the queue and can be sent; nobody is blocked on a closed uploader.  `Shape` is needed
because after a sleep the loop takes a batch again: if that could be empty,
the loop would end with callers still blocked.  The lemmas about `takeBatch()`
(`KeptBounded`, `EmptyBatch`) say that a batch respects `maxBatchSize` and is empty
only if the queue has been emptied.

`QInv` follows the events.  `HeldIsPayload`: a caller that waits in `enqueue()` still has its
own events.  `NothingVanishes`: what was accepted is acknowledged, dropped, in the batch or in
the queue, so that a `flush()` which returns from an empty queue has nothing left to wait for.
For the refinement, one lemma says what the drain loop does to `pending`, however often it goes
round (`LoopLeaves`): it throws out positions of events that cannot be sent and keeps the order
of the others, batch first.  Each action is then a step of the queue: an acknowledged batch is
`Deliver`, a call that is let in is `Accept`, a failed batch that goes back to the front changes
nothing.

**Transport.**  The assumption: whoever calls `enqueue()` and `flush()` is a write, a flush, a tick or the
flush of `close()`, each once (`HybridAssumption`).  The transport hands the uploader more than a
payload at a time (the buffer first), so the uploader's invariant, which has every call fit, is
not that of the composition; `Base` is the part that needs no payload: types, `NothingVanishes`, a batch exactly
while the loop is sending.  On it rests `HybridInv`.  `Ordered` names positions: what was accepted is at the
positions `K` of `written`, what is buffered at `B`, all of `K` before all of `B`, and the rest is lost.  A
stream event adds the last position to `B`; what takes the buffer along moves `B` into `K`, or loses
both, and its own events with them; nothing else changes either.  That is a fact about selections
(`SelectedGrows`, `SelectedJoin`).  `Calm`: nobody waits for room unless `waited`, so
that no old call comes in behind newer ones.  `Covered`: a flush that was asked for had everything written so far
accepted, because its call of `enqueue()` comes first; when it returns the queue
is empty, and `NothingVanishes` says where the events are.  `AtWork` is what remains of the uploader's
`NoLostWakeup` and `BoundedMemory` when a call need not fit: only a caller behind a full queue can be forgotten.

**Executor.**  `StatusInv` is what the statuses alone satisfy: exclusive tools run alone and no
tool runs or is done while an earlier one is queued.  It survives a loop that
resumes because such a loop is never ahead (`Behind`: everything queued is at or
after its position) and because `canExecuteTool()` is asked again.  That what a loop
starts is the *first* queued tool rests on the existence of a least element of a set of
integers, proved in `OrderLemmas` from finiteness, since induction theorems with
an operator parameter cannot be used here.  `NoForgottenTool` follows from the same
lemma: a loop that starts nothing although a tool is queued leaves one running.

`JInv` is about the answers, and is inductive beside the first invariant.  `Answered`: a tool
that is done has a result or its error, and it is yielded exactly when it is in `emitted`,
once.  For the order, `PassedBy` names the unknown tool whose error was yielded between an
exclusive tool and what overtook it; `ToCome` says the same of a tool that is not yielded yet.
The generator passes a tool by only while it is queued or runs concurrently with others, it stops at
an exclusive one that runs, and nothing behind a queued tool can be done unless it was done when it was
added.  So the first to overtake an exclusive tool is the error of an unknown one.

`KInv` counts the results.  `Shaped`: the generator of a tool that still runs has yielded one result at most, and
a tool ends with one, or with a result and the error of the sibling, the abort or the fallback that came after it.  That such a reason is
never taken back (`Onward`) makes it the exception that `AllAnswered` names; after a fallback the message is dropped and
owes no answers.

**Lock.**  The assumption: `Absent` and `Blank` are no locks (`LockAssumption`).  `OneThing`: a process is at one
place of either the acquisition or the release.  `Mine` says how a process may own what is in the
file: by its pid, by having the file open, or, while it replaces or removes the lock of a dead process, by its session.
`Believed`: until a recovery or a shared session (`Untouched`), who drives, writes the file or is about to unlink it owns
it in one of these ways; `OneHolder`: only one does.  The pid is not enough for the second, since a
process that takes over the lock of a dead one with its session is not yet in the file; that no other process with that
session lives then is what `shared` would have recorded.  `Accounted`: a lock has the pid of
a process that started, and while that one lives it drives, gives it back, or has not found it as
its own; from which `StoppedLeavesNoLock` follows.

**Cron scheduler.**  The assumptions: one-shots are not recurring, intervals are positive, and `None` is no
session (`CronAssumption`).  `Once` says that a task that has fired in a session is `Restrained`: its removal is
under way, or it is off the file, or it is recurring and scheduled from when it fired.  A task off the file may be fired
once more from the memory (`outrun`), so the memory is not said to be like the file; what is needed of it is
that the session which fired a task has it there as long as it is on file, so that a tick does not evict its schedule, and that
what is in flight is exactly what the owner's jobs will take off or mark (`Flights`).  Nor may
a task come back: an update that read the file before would write it back, which is what
`undone` records, and a task is added once, before anybody knows it (`Fresh`, `Additions`).

**Task list.**  The assumption: `None` is no agent and no id (`TaskListAssumption`).  For `TypeOK` and the claims:
`Where` an agent is in its call, and what is `Locked` there.  Who is between the look of a claim, or the read of
an update, and its write has the lock of that task, or has died, so the others that could write the file
cannot; a create can, and does when an id is given again, but to a task that nobody owns.  `Numbers`: each
call gives one id at most, and those under way have theirs still to give, so that an id is always in range.
`HoldsGood` is what the readings are worth: a create that has read the files has an upper
bound of all that are there but for those that an update put back (`deleted`), because the list's lock
keeps other creates and resets out, and a delete only takes files away; an update has read what is still there, unless the id is
`reused`.  Both exceptions were found when the stronger statement could not be proved, and
TLC showed why.

**Turn guard.**  The assumptions: kinds of commands are sets of commands, `None` is none
(`TurnGuardAssumption`).  `Turn` says that the guard runs exactly if some chain is in its query
with the guard's generation, and that no two chains have the same: this is why a late
finally block, whose generation is an old one, ends nothing.  `Kept` adds to
`LostOnlyThere` that what a query has drained from the queue was attached before it is removed;
`Known` that no command comes from nowhere; `Once` that a chain carries nothing twice,
without which its commands could not go back to the queue; `Sorted` and `Pure` that a chain with a
local command has no other kind, so that what ends without a turn is a local command, and what is refused a meta one.  That a
command which is taken off the queue leaves the others there, in their order, are the facts about
`Subsequence` in `OrderLemmas`: its elements, that it repeats nothing, and its head.

**Permission prompt.**  The assumption: `None` is no prompt and no racer
(`PermissionAssumption`).  Everything follows from the claim, so the invariant speaks of
claimed prompts where the properties speak of decided ones (`Sources`, `Withdrawn`): between
`onAllow` and the end of its await a prompt is claimed and withdrawn but not decided.
`OnScreen` is what makes the user's answer right: the dialog on the screen is the
head of the queue as long as its prompt is in the queue at all, so that "the head goes" takes the
dialog that was answered, or one that was withdrawn already.  It survives because
other handlers append behind the head or take prompts out (`WithoutTrims`, `DoneTrims`),
and it would not if a prompt could be asked twice (`Asked`).

**Mailbox.**  The assumptions: senders and readers have different names, and `Nobody` is none of them
(`MailboxAssumption`).  `Mutex`: who is between its reading and its writing of the file holds the
lock, also when another holder has died.  `File` ties the three places where the content can be: while nobody
writes, what was kept is what the file parses to; while somebody does, the file is empty and what
was kept is what the writer has read, unless the '[]' of a first sender has torn it.
`NothingIsOverwritten` is then a fact about what a writer makes of what it has read
(`RewrittenEntries`).  `Dealt` is what makes the marks right: from the moment when a reader waits
for the lock all that is stored, in the file or in the hands of a writer, was seen or
has come since (`late`); only that is marked.  A reader cannot begin while the file is
truncated, for it would find no message then (`UnreadIsStored`).

**Worker state.**  The assumptions: patches and documents are functions on fixed keys
(`BlankIsDocument`, `NoPatchIsNone`).  `Leads` says where patches lead: the one in flight takes the server's
document to the version it covers, the one that waits takes that to the newest.
`Watched`: nothing waits while nothing is in flight.  `Leads` survives a merge because
coalescing is associative, and a lost answer because it is idempotent; the lemmas
`DrainedLeads` and `EnqueuedLeads` say so of `drain()` and `enqueue()` once, for every action
that calls them.  The refinement follows from the same invariant: what arrives is the
version that the patch covers, and it is not older than the one on show.

**Session.**  The assumption: the values in the patches are told apart from JSON's null, and are among
those of the uploader (`SessionAssumption`).  `SInv` adds to the uploader's invariant (`Sound`) what the newest
version says, whether it has arrived or not (`Tells`): the reported state, the pending action
and a mode, until the uploader is closed.  That mode is the worker's, unless it could not be read back
(`Reports`): then it is some mode of an earlier worker, which every version has, and this one is in its
default mode until it publishes another.  The session reports that it waits exactly while it has a
pending action, that is while a tool's prompt is open or the exception `unannounced` holds (`Waits`).  Requests for a host
change only what the answer to the last prompt sees.
The invariant is about versions because a handler makes several calls in one step, each of which
writes one; `ShowsTheSession` follows when nothing is in flight, for then the newest is the one on show.

**Only model-checked**: liveness and fairness throughout (`CallersReturn`, `EventuallySettled`,
`KnownToolsFinish`, `SomeoneDrives`, `DueIsServed`, `CallsEnd`, `EverythingIsServed`,
`AnsweredUnlessDropped`, `ArrivesAtLast`, `PublishedAtLast`), which is out of the prover's
reach.  Every invariant and every action property of a passing run is stated by a theorem.  What section 5 says does not
hold is shown by TLC's counterexamples only.

## 5 What the models found

Two runs state what a comment says and are violated by what the code does.

1. **The consumer can starve its own tools** (`executor_spin`, `StreamingToolExecutor.ts:469`): an unknown
   tool is "completed" when it is added; behind a running exclusive tool it stays so, the wait is
   skipped, and the consumer spins on microtasks, so that the running tool's result never arrives.
2. **Two chains process input at once** (`turn_concurrent`, `handlePromptSubmit.ts:627`):
   `cancelReservation()` has no generation, so that the late finally block of a cancelled
   chain frees the reservation of another.  Line 418 says that this cannot be.

The following definitions are in the modules too, but no run repeats them: add one to the cfg of
its module (`CloseReleasesFlush` and `LiveLocksStay` as a PROPERTY, the others as an INVARIANT), and TLC
shows how it is violated.

| Definition | What happens |
|---|---|
| `CloseReleasesFlush` (SerialBatchEventUploader) | A POST that fails after `close()` puts its batch back into the closed queue; the loop ends with a queue that is not empty and releases nobody (`SerialBatchEventUploader.ts:183`, against line 137). |
| `ExclusiveInOrder` (StreamingToolExecutor, with four blocks: a safe tool, an exclusive one, an unknown one, a safe one) | The generator passes the queued exclusive tool by to yield the error of the unknown one, goes on from there, and yields the last tool, which ran after the exclusive one, before it (`StreamingToolExecutor.ts:414` to 438, against line 38). |
| `NoSilentDrops` (HybridTransport) | The drop counter does not grow on a 4xx, without a token, or after `close()` (`HybridTransport.ts:239`, against line 140). |
| `OneAnswerEach` (StreamingToolExecutor) | A tool that has yielded its result and still runs when a sibling fails or the user aborts gets a synthetic error as well: two `tool_result`s for one `tool_use` (`StreamingToolExecutor.ts:335` to 345, against lines 327 to 329). |
| `AtMostOneOwner` (SchedulerLock) | The unlink of a stale lock may hit the fresh lock of the process that has just recovered it (`cronTasksLock.ts:165`, against line 109).  And a process with the session of a live owner, resumed twice for instance, takes the lock over without asking whether the owner lives (line 139). |
| `LiveLocksStay` (SchedulerLock) | A process of another user is taken for dead, since `kill(pid, 0)` fails with EPERM, and its lock is removed (`genericProcessUtils.ts:26`, against line 18). |
| `FiresOnce` (CronScheduler) | Two updates, the removals of one tick for instance, read the same file, and the second writes back the task that the first has removed (`cronTasks.ts:247`).  Or a tick comes after the removal has let the task out of `inFlight` and before the watcher reports it, and fires it from memory (`cronScheduler.ts:342`, against line 169). |
| `IdsAreUnique` (TaskList) | `deleteTask()` moves the mark and unlinks without the lock under which `createTask()` reads both (`tasks.ts:403`, against line 400).  Then an update that had read the old task writes it over the new one; or it puts the old one back before, and the create that was given the id overwrites it. |
| `NothingIsLost` (TurnGuard) | `onQuery()` puts back only what the user can see when another query runs: the meta commands of the chain, a scheduled prompt for instance, are gone (`REPL.tsx:2896`).  A throw while an input is processed loses its commands, and `clearCommandQueue()` those that wait when all agents are stopped (`useCancelRequest.ts:249`). |
| `CancelEndsTurn` (PermissionRace) | Esc over a dialog that was decided already (it shows the classifier's mark), or after a sibling's error has aborted the tools, empties the queue and leaves the turn running (`REPL.tsx:2156`, against line 2155). |
| `WaitsExactly` (SessionState) | Requests for a host are pending but not announced, so that the session does not seem to wait; and the answer to the last prompt beside one leaves it at 'requires_action' (`structuredIO.ts:659`, against line 657). |
| `ReadMeansSeen` (Mailbox) | `markMessagesAsRead()` marks all that is in the file, also what came after the poller had read it (`useInboxPoller.ts:201`, against its lines 860 to 862). |

What else showed, and is a condition or an exception in a property:

- *Prompts.*  A key that is pressed after the queue of dialogs has changed and before it is
  rendered takes the head of the queue off, which is another's; `Cancel` empties the
  queue after it has told only the first dialog.  Such prompts are `dropped`: nobody but
  a remote party decides them.
- *Turns.*  After a cancellation between `DrainReads` and `DrainRemoves` a command is
  both attached to the cancelled turn and started as its own; a stale chain that ends without a query sets the
  abort controller of its successor to null.
- *Lock.*  A process that goes on to another session (/clear) does not find its lock when it
  stops, because the lock names the old one (`cronTasksLock.ts:188`); it stays until the process ends (`LeftBehind`).
- *Mailbox.*  The '[]' of the first writer can land on what another has written (only
  `open('wx')` is exclusive, not the write); a reader may see a truncated file as an empty one; after a
  torn write the next delivery begins from nothing.
- *Worker state.*  A hook that decides the last open prompt leaves the session at
  'requires_action' until the next notification: its aborted request is still in
  `pendingRequests` when the finally block looks for others (`structuredIO.ts:659`).  So does a
  request for a host that is pending when the last prompt is answered; its own end reports nothing either.  A worker
  that cannot read its mode back goes on in the default mode while the server keeps the old one (`ccrClient.ts:953`).  The
  pending action on show may be one that was answered while another is open, and
  `initialize()` does not clear the `requires_action_details` of a dead worker.
- *Elsewhere*, seen in the code and outside the models' properties: the claim with the busy check
  checks under the lock of the list and writes under that of the task (`tasks.ts:677`);
  `unassignTeammateTasks()` works off a list read before (`tasks.ts:833`); a session
  without the lock clears its schedule at every tick (`cronScheduler.ts:391`); `load(true)` shows missed
  tasks whether or not the session has the lock; a hook's
  permission updates are saved before it knows whether it has won
  (`interactiveHandler.ts:417`).

## 6 What is not modelled

`PROJECT.json` lists every part with the reason.  In short: the consolidation lock and
the bridge's gate are left (section 7).  The computer-use lock has the protocol of
SchedulerLock, and what section 5 says of that applies to it.  The query loop, the API client and compaction are
sequential; the other transports, the bridge sessions, MCP and LSP depend on servers that are not in the
repository; retrieval is floating-point arithmetic; the UI is rendering; the
benchmark services, the relay and the vault server have no interleaving within an
operation.

Within the modelled parts: wall-clock values and backoff (a delay ends some time), payload
contents, logs, telemetry, the scheduler's session-only tasks, filter and jitter, a `load()` that overlaps
a write, and in the task list the reads for display.  Writes to a task file are whole;
torn writes are modelled for the lock and the mailbox only.  A PUT of the worker
state that arrives after it was given up, and after a newer one, is not modelled: what the server makes of
it is not in this repository.

Smaller cases that are left out, on which no property depends:

- *Session.*  Without `--resume` a first run does not wait for `initialize()`: a report of 'running' may race its
  PUT, and `ccrClient.ts:498` then resets what was reported last.  (With `--resume` `print.ts:5077` waits.)
- *Lock.*  A change of the session falls between two calls of the lock, not into one; nor does a
  `stop()` fall into the release by the exit cleanup.
- *Prompts.*  The bridge's handler of a prompt is dropped on an error or a malformed response
  (`useReplBridge.tsx:382` to 387), and a dialog may open after an abort (`useCanUseTool.tsx:232` to 279 await
  without looking again).
- *Mailbox.*  The poller drops some messages of the protocol, of an unknown tool or for another role,
  and marks them read (`useInboxPoller.ts:271` to 350); here all are handed to their handlers.

## 7 Plan

Modules that are left, in this order.

| Module | Models | Properties | What it needs |
|---|---|---|---|
| `ConsolidationLock` | `consolidationLock.ts` with its rollback | who reclaims a dead holder's lock; the mtime after a failure | the mtime as state, two reclaimers that write and read again |
| `BridgeFlush` | `flushGate.ts` and the transport replacement in `replBridge.ts`, on what HybridTransport promises | no message overtakes the history, none stays in the gate | the gate as a component of the composition |
| `SessionWriter` | the write queue of `sessionStorage.ts` | entries are in the file in the order of their appends; a flush covers them | — |

Proofs wanted: that a caller behind a full queue is woken also under the transport, where
`Shape` needs the condition that what it carries fits (the buffer has no bound); and the
refinement of the transport, buffer and queue together, to one ordered queue, of which
`WriteOrder` is the part about order.
