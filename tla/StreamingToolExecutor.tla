------------------------- MODULE StreamingToolExecutor -------------------------
(***************************************************************************)
(* The executor that runs the tools of one assistant message while it is   *)
(* still streaming (services/tools/StreamingToolExecutor.ts), and its one  *)
(* consumer, the query loop (query.ts).                                    *)
(*                                                                         *)
(* JavaScript runs to completion: an action is the code between two        *)
(* awaits.  A continuation that waits for nothing but a resolved promise   *)
(* is a microtask, and the program takes no input, timer or I/O result     *)
(* while a microtask is pending (see LoopIdle).                            *)
(***************************************************************************)
EXTENDS Naturals, Sequences, FiniteSets, FiniteSetsExt

CONSTANTS
  N,            \* the number of tool_use blocks of the message
  Kinds,        \* the kinds of tool a block may name
  UnknownKinds, \* kinds that findToolByName does not find
  SafeKinds,    \* kinds whose isConcurrencySafe(input) is true
  BashKinds,    \* kinds of the Bash tool, whose errors cancel the siblings
  CancelKinds,  \* kinds whose interruptBehavior() is 'cancel'
  PromptKinds   \* kinds that may settle without waiting for I/O

ASSUME ExecutorAssumption ==
  /\ N \in Nat
  /\ UnknownKinds \cup SafeKinds \cup BashKinds \cup CancelKinds \cup PromptKinds
       \subseteq Kinds
  /\ UnknownKinds \subseteq SafeKinds  \* addTool() sets isConcurrencySafe: true

VARIABLES
  kind,       \* kind[t]: what block t names; it never changes
  status,     \* status[t]: "absent" until addTool(), then the code's statuses
  outcome,    \* outcome[t]: the tool_result messages in t's results
  progress,   \* progress[t]: is there a pending progress message?
  errored,    \* this.hasErrored
  discarded,  \* this.discarded
  aborted,    \* the query's abort signal: "no", "interrupt" or "other"
  context,    \* the tools whose context modifiers were applied, in order
  inProgress, \* the inProgressToolUseIDs of the UI
  passes,     \* suspended processQueue() loops, as the position they go on at
  pc,         \* where the consumer is
  own,        \* the position of the consumer's own loop or generator
  race,       \* the tools whose promises the consumer races
  raceWon,    \* has one of them settled, or progress arrived?
  emitted     \* history: the tools in the order their results were yielded

execVars == <<status, outcome, inProgress>>
consumerVars == <<pc, own, race, emitted>>
vars == <<kind, status, outcome, progress, errored, discarded, aborted, context,
          inProgress, passes, pc, own, race, raceWon, emitted>>

Tools == 1..N
Safe(t) == kind[t] \in SafeKinds
InStatus(s) == {t \in Tools : status[t] = s}
Synthetic == {"sibling", "user", "fallback"}

TypeOK ==
  /\ kind \in [Tools -> Kinds]
  /\ status \in [Tools -> {"absent", "queued", "executing", "completed", "yielded"}]
  /\ outcome \in [Tools -> Seq({"ok", "error"} \cup Synthetic)]
  /\ progress \in [Tools -> BOOLEAN]
  /\ errored \in BOOLEAN /\ discarded \in BOOLEAN
  /\ aborted \in {"no", "interrupt", "other"}
  /\ context \in Seq(Tools)
  /\ inProgress \subseteq Tools
  /\ passes \subseteq 1..(N + 1)
  /\ pc \in {"streaming", "taking", "check", "pass", "collect", "yielding",
             "waiting", "last", "done", "dropped"}
  /\ own \in 1..(N + 1)
  /\ race \subseteq Tools /\ raceWon \in BOOLEAN
  /\ emitted \in Seq(Tools)

Init ==
  /\ kind \in [Tools -> Kinds]
  /\ status = [t \in Tools |-> "absent"]
  /\ outcome = [t \in Tools |-> << >>]
  /\ progress = [t \in Tools |-> FALSE]
  /\ errored = FALSE /\ discarded = FALSE /\ aborted = "no"
  /\ context = << >> /\ inProgress = {} /\ passes = {}
  /\ pc = "streaming" /\ own = 1 /\ race = {} /\ raceWon = FALSE
  /\ emitted = << >>

\* No microtask is pending: the event loop can deliver I/O, timers and input.
LoopIdle ==
  /\ passes = {}
  /\ \/ pc \in {"streaming", "taking", "yielding", "done", "dropped"}
     \/ pc = "waiting" /\ ~raceWon
-------------------------------------------------------------------------------
(* Starting tools *)

\* Mutant: a safe tool does not look at what is running.
CanExecuteHeedless(st, t) ==
  Safe(t) \/ {u \in Tools : st[u] = "executing"} = {}

\* canExecuteTool(), for statuses st.
CanExecute(st, t) ==
  LET executing == {u \in Tools : st[u] = "executing"}
  IN  executing = {} \/ (Safe(t) /\ \A u \in executing : Safe(u))

\* getAbortReason(): in this order, and "interrupt" only for willing tools.
AbortReason(t) ==
  CASE discarded -> "fallback"
    [] ~discarded /\ errored -> "sibling"
    [] /\ ~discarded /\ ~errored
       /\ \/ aborted = "other"
          \/ aborted = "interrupt" /\ kind[t] \in CancelKinds -> "user"
    [] OTHER -> "none"

\* Mutant: the loop does not stop at a tool that must run alone.
StartableBehind(st, p) ==
  LET ready == {t \in Tools : t >= p /\ st[t] = "queued" /\ CanExecute(st, t)}
  IN  IF ready # {} THEN Min(ready) ELSE 0

\* The tool that a processQueue() loop at position p starts next, 0 if none.
\* A loop stops at a queued tool that is not safe; after a safe one that may
\* not start, nothing may start until the loop ends.
Startable(st, p) ==
  LET queued == {t \in Tools : t >= p /\ st[t] = "queued"}
  IN  IF queued # {} /\ CanExecute(st, Min(queued)) THEN Min(queued) ELSE 0

\* executeTool(t), up to the first await: a tool that is already cancelled
\* completes at once with a synthetic result.
Execute(st, t) ==
  /\ inProgress' = inProgress \cup {t}
  /\ IF AbortReason(t) = "none"
     THEN status' = [st EXCEPT ![t] = "executing"] /\ UNCHANGED outcome
     ELSE /\ status' = [st EXCEPT ![t] = "completed"]
          /\ outcome' = [outcome EXCEPT ![t] = Append(@, AbortReason(t))]

\* Mutant: the loop skips a position.
ReschedSkipping(t) == {t + 2} \cup (IF AbortReason(t) = "none" THEN {} ELSE {1})

\* The loop that starts t goes on behind it; completing t schedules another.
Resched(t) == {t + 1} \cup (IF AbortReason(t) = "none" THEN {} ELSE {1})

\* addTool() for the next block, in the same turn of query.ts's loop as the one
\* before or later; query.ts adds no tool once it is aborted.
AddTool(t) ==
  /\ pc = "streaming" /\ aborted = "no"
  /\ status[t] = "absent" /\ \A u \in Tools : u < t => status[u] # "absent"
  /\ UNCHANGED <<kind, progress, errored, discarded, aborted, context, pc, own,
                 race, raceWon, emitted>>
  /\ \/ /\ kind[t] \in UnknownKinds
        /\ status' = [status EXCEPT ![t] = "completed"]
        /\ outcome' = [outcome EXCEPT ![t] = <<"error">>]
        /\ UNCHANGED <<inProgress, passes>>
     \/ /\ kind[t] \notin UnknownKinds
        /\ LET st == [status EXCEPT ![t] = "queued"]
               u == Startable(st, 1)
           IN  IF u = 0
               THEN status' = st /\ UNCHANGED <<outcome, inProgress, passes>>
               ELSE Execute(st, u) /\ passes' = passes \cup Resched(u)

\* A suspended processQueue() loop goes on.
PassStep(p) ==
  /\ p \in passes
  /\ LET t == Startable(status, p)
     IN  IF t = 0
         THEN passes' = passes \ {p} /\ UNCHANGED execVars
         ELSE Execute(status, t) /\ passes' = (passes \ {p}) \cup Resched(t)
  /\ UNCHANGED <<kind, progress, errored, discarded, aborted, context, raceWon,
                 consumerVars>>
-------------------------------------------------------------------------------
(* Running tools: the updates that runToolUse() yields *)

MayUpdate(t) == status[t] = "executing" /\ (kind[t] \in PromptKinds \/ LoopIdle)

HasResult(t) == outcome[t] # << >>
ThisToolErrored(t) == \E i \in 1..Len(outcome[t]) : outcome[t][i] = "error"

\* Mutant: a completion starts no processQueue() loop.
CompletesQuietly(t, results) ==
  /\ outcome' = [outcome EXCEPT ![t] = results]
  /\ status' = [status EXCEPT ![t] = "completed"]
  /\ context' = IF ~Safe(t) /\ \E i \in 1..Len(results) : results[i] = "ok"
                THEN Append(context, t) ELSE context
  /\ raceWon' = (raceWon \/ t \in race)
  /\ UNCHANGED passes

\* Mutant: a completion does not settle the promise the consumer waits for.
CompletesUnseen(t, results) ==
  /\ outcome' = [outcome EXCEPT ![t] = results]
  /\ status' = [status EXCEPT ![t] = "completed"]
  /\ context' = IF ~Safe(t) /\ \E i \in 1..Len(results) : results[i] = "ok"
                THEN Append(context, t) ELSE context
  /\ passes' = passes \cup {1}
  /\ UNCHANGED raceWon

\* collectResults() is over: results are final, modifiers are applied, the
\* promise wakes the consumer's race and a new processQueue() loop.
Completes(t, results) ==
  /\ outcome' = [outcome EXCEPT ![t] = results]
  /\ status' = [status EXCEPT ![t] = "completed"]
  /\ context' = IF ~Safe(t) /\ \E i \in 1..Len(results) : results[i] = "ok"
                THEN Append(context, t) ELSE context
  /\ passes' = passes \cup {1}
  /\ raceWon' = (raceWon \/ t \in race)

\* Mutant: the loop over the updates goes on after the cancellation.
CancelledGoesOn(t) ==
  /\ MayUpdate(t)
  /\ AbortReason(t) # "none" /\ ~ThisToolErrored(t)
  /\ outcome' = [outcome EXCEPT ![t] = Append(@, AbortReason(t))]
  /\ UNCHANGED <<kind, status, progress, errored, discarded, aborted, context,
                 inProgress, passes, raceWon, consumerVars>>

\* Mutant: thisToolErrored is not consulted.
CancelledTwice(t) ==
  /\ MayUpdate(t)
  /\ AbortReason(t) # "none"
  /\ Completes(t, Append(outcome[t], AbortReason(t)))
  /\ UNCHANGED <<kind, progress, errored, discarded, aborted, inProgress,
                 consumerVars>>

\* An update reaches a cancelled tool that has not reported an error itself.
\* After its result these are the messages of hooks.
CancelledByUpdate(t) ==
  /\ MayUpdate(t)
  /\ AbortReason(t) # "none" /\ ~ThisToolErrored(t)
  /\ Completes(t, Append(outcome[t], AbortReason(t)))
  /\ UNCHANGED <<kind, progress, errored, discarded, aborted, inProgress,
                 consumerVars>>

Progress(t) ==
  /\ MayUpdate(t) /\ ~HasResult(t) /\ AbortReason(t) = "none"
  /\ progress' = [progress EXCEPT ![t] = TRUE]
  /\ raceWon' = (raceWon \/ pc = "waiting")
  /\ UNCHANGED <<kind, execVars, errored, discarded, aborted, context, passes,
                 consumerVars>>

\* The tool's result; an error of Bash cancels the siblings.
Result(t, res) ==
  /\ MayUpdate(t) /\ ~HasResult(t) /\ AbortReason(t) = "none"
  /\ outcome' = [outcome EXCEPT ![t] = <<res>>]
  /\ errored' = (errored \/ (res = "error" /\ kind[t] \in BashKinds))
  /\ UNCHANGED <<kind, status, progress, discarded, aborted, context,
                 inProgress, passes, raceWon, consumerVars>>

\* The generator ends.
Ends(t) ==
  /\ MayUpdate(t) /\ HasResult(t)
  /\ Completes(t, outcome[t])
  /\ UNCHANGED <<kind, progress, errored, discarded, aborted, inProgress,
                 consumerVars>>

\* The user aborts, or a rejected permission dialog bubbles up its abort.
Abort(reason) ==
  /\ LoopIdle /\ aborted = "no" /\ pc \notin {"done", "dropped"}
  /\ aborted' = reason
  /\ UNCHANGED <<kind, execVars, progress, errored, discarded, context, passes,
                 raceWon, consumerVars>>
-------------------------------------------------------------------------------
(* The consumer *)

InPass(t) == status[t] # "yielded" /\ status[t] # "absent"

\* getCompletedResults() from position p on stops at the first tool that runs
\* alone; Yields(p) are the tools before it with something to yield.
Barrier(t) == status[t] = "executing" /\ ~Safe(t)

Yields(p) ==
  {t \in Tools : /\ t >= p /\ (progress[t] \/ status[t] = "completed")
                 /\ \A u \in p..(t - 1) : ~Barrier(u)}

\* Yield the next message of getCompletedResults(): all pending progress of a
\* tool, then its result.  The caller may do anything before it asks for the
\* next one; after that the tool's status is read again, or, if the message was
\* its result, the tool is marked as complete for the UI.
MarkComplete(unyielded) == inProgress' = inProgress \cap unyielded

YieldNext(p) ==
  LET t == Min(Yields(p)) IN
  \/ /\ progress[t]
     /\ progress' = [progress EXCEPT ![t] = FALSE]
     /\ own' = t
     /\ UNCHANGED <<status, emitted>>
  \/ /\ ~progress[t]
     /\ status' = [status EXCEPT ![t] = "yielded"]
     /\ emitted' = Append(emitted, t)
     /\ own' = t + 1
     /\ UNCHANGED progress

\* While the message streams in, query.ts takes what is there to take.  (What the
\* stream has buffered reaches its loop between microtasks, too.)
TakeCompleted ==
  /\ pc = "streaming" /\ aborted = "no" /\ ~discarded
  /\ Yields(1) # {}
  /\ YieldNext(1)
  /\ pc' = "taking"
  /\ UNCHANGED <<kind, outcome, errored, discarded, aborted, context, inProgress,
                 passes, race, raceWon>>

\* The caller asks for the next message: the generator goes on, or has ended.
TakeNext ==
  /\ pc = "taking"
  /\ MarkComplete({t \in Tools : status[t] # "yielded"})
  /\ IF Yields(own) # {}
     THEN YieldNext(own) /\ UNCHANGED pc
     ELSE pc' = "streaming" /\ UNCHANGED <<status, progress, own, emitted>>
  /\ UNCHANGED <<kind, outcome, errored, discarded, aborted, context, passes,
                 race, raceWon>>

\* The stream fails over to another model: the executor is abandoned.
Discard ==
  /\ pc = "streaming"
  /\ discarded' = TRUE /\ pc' = "dropped"
  /\ UNCHANGED <<kind, execVars, progress, errored, aborted, context, passes,
                 own, race, raceWon, emitted>>

\* The stream is over, or aborted: getRemainingResults() is called.
StreamEnds ==
  /\ pc = "streaming"
  /\ pc' = "check"
  /\ UNCHANGED <<kind, execVars, progress, errored, discarded, aborted, context,
                 passes, own, race, raceWon, emitted>>

\* The loop condition hasUnfinishedTools().
CheckUnfinished ==
  /\ pc = "check"
  /\ pc' = IF \E t \in Tools : InPass(t) THEN "pass" ELSE "last"
  /\ own' = 1
  /\ UNCHANGED <<kind, execVars, progress, errored, discarded, aborted, context,
                 passes, race, raceWon, emitted>>

\* await this.processQueue(), step by step.
OwnPass ==
  /\ pc = "pass"
  /\ LET t == Startable(status, own)
     IN  IF t = 0
         THEN pc' = "collect" /\ own' = 1 /\ UNCHANGED <<execVars, passes>>
         ELSE /\ Execute(status, t)
              /\ own' = t + 1
              /\ passes' = passes \cup (Resched(t) \ {t + 1})
              /\ UNCHANGED pc
  /\ UNCHANGED <<kind, progress, errored, discarded, aborted, context, race,
                 raceWon, emitted>>

\* Inside the for loop over getCompletedResults().
Collect ==
  /\ pc = "collect" /\ Yields(own) # {}
  /\ YieldNext(own)
  /\ pc' = "yielding"
  /\ UNCHANGED <<kind, outcome, errored, discarded, aborted, context,
                 inProgress, passes, race, raceWon>>

\* The caller asks for the next message.
CallerResumes ==
  /\ pc = "yielding"
  /\ pc' = "collect"
  /\ MarkComplete({t \in Tools : status[t] # "yielded"})
  /\ UNCHANGED <<kind, status, outcome, progress, errored, discarded, aborted,
                 context, passes, own, race, raceWon, emitted>>

\* Nothing more to yield: wait for a running tool or for progress, unless a
\* completed tool or pending progress is left over.
MustWait ==
  /\ InStatus("executing") # {} /\ InStatus("completed") = {}
  /\ \A t \in Tools : ~progress[t]

CollectEnds ==
  /\ pc = "collect" /\ Yields(own) = {}
  /\ IF MustWait THEN pc' = "waiting" /\ race' = InStatus("executing")
                 ELSE pc' = "check" /\ race' = {}
  /\ raceWon' = FALSE
  /\ UNCHANGED <<kind, execVars, progress, errored, discarded, aborted, context,
                 passes, own, emitted>>

WakesUp ==
  /\ pc = "waiting" /\ raceWon
  /\ pc' = "check" /\ race' = {} /\ raceWon' = FALSE
  /\ UNCHANGED <<kind, execVars, progress, errored, discarded, aborted, context,
                 passes, own, emitted>>

\* The getCompletedResults() after the loop has nothing left to yield.
Finish ==
  /\ pc = "last"
  /\ pc' = "done"
  /\ UNCHANGED <<kind, execVars, progress, errored, discarded, aborted, context,
                 passes, own, race, raceWon, emitted>>
-------------------------------------------------------------------------------
Update(t) ==
  \/ CancelledByUpdate(t) \/ Progress(t) \/ Ends(t)
  \/ \E res \in {"ok", "error"} : Result(t, res)

ConsumerStep ==
  \/ CheckUnfinished \/ OwnPass \/ Collect \/ CallerResumes \/ CollectEnds
  \/ WakesUp \/ Finish

Next ==
  \/ \E t \in Tools : AddTool(t) \/ Update(t)
  \/ \E p \in passes : PassStep(p)
  \/ \E reason \in {"interrupt", "other"} : Abort(reason)
  \/ TakeCompleted \/ TakeNext \/ Discard \/ StreamEnds
  \/ ConsumerStep

Spec == Init /\ [][Next]_vars

\* Microtasks run, the consumer goes on, and a running tool settles: its I/O
\* completes, and an event loop that is idle again and again delivers it.
Settles(t) ==
  CancelledByUpdate(t) \/ Ends(t) \/ \E res \in {"ok", "error"} : Result(t, res)

FairSpec ==
  /\ Spec
  /\ \A p \in 1..(N + 1) : WF_vars(PassStep(p))
  /\ WF_vars(ConsumerStep)
  /\ \A t \in Tools : SF_vars(Settles(t))

\* Less than that is enough for messages whose tools all exist: some loop goes
\* on, some tool settles.
LessFairSpec ==
  /\ Spec
  /\ WF_vars(\E p \in 1..(N + 1) : PassStep(p))
  /\ WF_vars(ConsumerStep)
  /\ SF_vars(\E t \in Tools : Settles(t))
-------------------------------------------------------------------------------
(* Properties *)

\* "Non-concurrent tools must execute alone (exclusive access)" (line 37),
\* whatever mixture of loops, completions and additions starts them.
Exclusive ==
  \A t \in Tools : Barrier(t) => InStatus("executing") = {t}

\* No tool starts while an earlier one is still queued, although several
\* processQueue() loops walk the list at once.
StartedInOrder ==
  \A t, u \in Tools :
    t < u /\ status[t] = "queued" /\ kind[u] \notin UnknownKinds
      => status[u] \in {"absent", "queued"}

\* A queued tool is never forgotten: something runs, or a loop is under way,
\* whose completion looks at the queue again.
QueueIsWatched ==
  InStatus("queued") # {} => InStatus("executing") # {} \/ passes # {}

\* A tool that reported its own error gets no second, synthetic result when
\* the cancellation it caused reaches it (lines 327-329).
ErrorReportedOnce ==
  \A t \in Tools : ThisToolErrored(t) => Len(outcome[t]) = 1

\* A cancellation met an update that the tool yielded after its result: the result
\* stays among the messages, and the synthetic one comes on top (lines 335-345).
CancelledAfterResult(t) ==
  \/ errored /\ outcome[t] = <<"ok", "sibling">>
  \/ aborted # "no" /\ outcome[t] = <<"ok", "user">>

\* When the consumer is done every tool it was given was yielded, once, with one
\* tool_result, or with two if it was cancelled after its result; its progress
\* was shown and the UI shows no tool as running.
AllAnswered ==
  pc = "done" =>
    /\ \A t \in Tools : status[t] # "absent" =>
         /\ status[t] = "yielded" /\ ~progress[t]
         /\ Cardinality({i \in 1..Len(emitted) : emitted[i] = t}) = 1
         /\ Len(outcome[t]) = 1 \/ CancelledAfterResult(t)
    /\ inProgress = {}

\* Every tool has one tool_result, not two, if only because of what lines 327 to 329 say
\* of the tool that caused the error: that it is prevented "from receiving a
\* duplicate".  (Does not hold of the other tools: README, section 5.)
OneAnswerEach == \A t \in Tools : Len(outcome[t]) <= 1

\* The results of a tool that runs alone come before those of the tools that
\* ran after it, unless getCompletedResults() had passed it by while it was queued,
\* to yield the error of a tool that does not exist; and context modifiers apply
\* in the order of the message.
Overtakes(m, n) ==
  m < n /\ emitted[n] < emitted[m] /\ ~Safe(emitted[n])
        /\ kind[emitted[m]] \notin UnknownKinds
UnsafeInOrder ==
  /\ \A m, n \in 1..Len(emitted) : Overtakes(m, n) =>
       \E k \in 1..(m - 1) : /\ kind[emitted[k]] \in UnknownKinds
                             /\ emitted[n] < emitted[k] /\ emitted[k] < emitted[m]
  /\ \A m, n \in 1..Len(context) : m < n => context[m] < context[n]

\* "Results are buffered and emitted in the order tools were received" (line 38),
\* as far as they run alone.  (Does not hold: README, section 5.)
ExclusiveInOrder == \A m, n \in 1..Len(emitted) : ~Overtakes(m, n)

\* "Wait for remaining tools and yield their results as they complete"
\* (line 450): once the stream is over the consumer gets to the end.
ConsumerFinishes == pc = "check" ~> pc = "done"

\* The same for messages whose tools all exist.
KnownToolsFinish == (\A t \in Tools : kind[t] \notin UnknownKinds) => ConsumerFinishes
===============================================================================
