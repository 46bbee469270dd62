------------------------------ MODULE SessionState -----------------------------
(***************************************************************************)
(* What a remote session tells the server of itself: the permission        *)
(* prompts of cli/structuredIO.ts and the turns of cli/print.ts change the *)
(* state of the session (utils/sessionState.ts), which cli/transports/     *)
(* ccrClient.ts puts into patches for the uploader that this module        *)
(* extends.  Workers may die at any time; the next one starts with         *)
(* initialize().  A step is what runs until only timers and I/O go on.     *)
(***************************************************************************)
EXTENDS WorkerStateUploader

CONSTANTS
  Prompts,      \* the permission requests of tools
  Hosts,        \* the hosts that commands ask to connect to
  Modes,        \* the permission modes
  DefaultMode,  \* the mode in which a worker starts
  Null,         \* JSON's null
  MaxRestarts   \* bound: workers that take over

ASSUME SessionAssumption ==
  /\ DefaultMode \in Modes /\ MaxRestarts \in Nat
  /\ Null \notin Prompts \cup Modes /\ Prompts \cap Hosts = {}
  /\ {"worker_status", "requires_action_details"} \subseteq TopKeys
  /\ {"pending_action", "task_summary", "permission_mode"} \subseteq MetaKeys
  /\ {"idle", "running", "requires_action", Null} \cup Prompts \cup Modes \subseteq Values

VARIABLES
  running,           \* print.ts: does run() run?
  prompt,            \* of each request and host: "new", "open" (in pendingRequests), "done"
  reported,          \* ccrClient: this.currentState
  hasPendingAction,  \* sessionState.ts
  mode,              \* toolPermissionContext.mode
  restarts,          \* counter
  unannounced,       \* history: the last open prompt was decided, but structuredIO.ts:659
                     \* saw another request, and no state was notified since
  unrestored         \* history: the worker did not take over the mode of the server

sessionVars ==
  <<running, prompt, reported, hasPendingAction, mode, restarts, unannounced, unrestored>>

Requests == Prompts \cup Hosts

SessionTypeOK ==
  /\ TypeOK
  /\ running \in BOOLEAN /\ prompt \in [Requests -> {"new", "open", "done"}]
  /\ reported \in {"idle", "running", "requires_action"}
  /\ hasPendingAction \in BOOLEAN /\ mode \in Modes 
  /\ unannounced \in BOOLEAN /\ unrestored \in BOOLEAN /\ restarts \in 0..MaxRestarts

\* getPendingPermissionRequests(), and the prompts of tools among them.
Pending == {r \in Requests : prompt[r] = "open"}
Open == Pending \cap Prompts
-------------------------------------------------------------------------------
None == [k \in {} |-> Null]
Status(state, details) ==
  [top |-> [worker_status |-> state, requires_action_details |-> details], meta |-> None]
Metadata(key, value) == [top |-> None, meta |-> [k \in {key} |-> value]]

\* reportState(): a state that was reported last is not reported again.
StateReported(u, state, details) ==
  IF state = reported /\ details = Null THEN u ELSE Enqueued(u, Status(state, details))

ActionReported(u, details) ==
  IF details # Null THEN Enqueued(u, Metadata("pending_action", details))
  ELSE IF hasPendingAction THEN Enqueued(u, Metadata("pending_action", Null)) ELSE u

SummaryCleared(u, state) ==
  IF state = "idle" THEN Enqueued(u, Metadata("task_summary", Null)) ELSE u

\* The listeners run one after the other.
Notify(state, details) ==
  /\ up' = SummaryCleared(ActionReported(StateReported(up, state, details), details), state)
  /\ Len(up'.written) <= MaxWrites + 1
  /\ reported' = state
  /\ hasPendingAction' = (details # Null)
  /\ unannounced' = FALSE
  /\ UNCHANGED <<server, seen>>

Same(vs) == UNCHANGED <<vs, restarts>>
SameMode == UNCHANGED <<mode, unrestored>>

\* A prompt is decided, stillOpen are open, and no state is notified.
Unsaid(stillOpen) ==
  /\ unannounced' = (stillOpen = {})
  /\ UNCHANGED <<vars, reported, hasPendingAction>>
-------------------------------------------------------------------------------
RunStarts ==
  /\ ~running /\ running' = TRUE
  /\ Notify("running", Null)
  /\ Same(prompt) /\ SameMode

\* The finally block of run(); its tools have all been decided.
RunEnds ==
  /\ running /\ Open = {} /\ running' = FALSE
  /\ Notify("idle", Null)
  /\ Same(prompt) /\ SameMode

\* canUseTool() asks the host.
Ask(p) ==
  /\ running /\ prompt[p] = "new"
  /\ prompt' = [prompt EXCEPT ![p] = "open"]
  /\ Notify("requires_action", p)
  /\ Same(running) /\ SameMode

\* The host or the bridge answers: the request leaves pendingRequests before
\* canUseTool() goes on to its finally block, which looks for others.
Answer(p) ==
  /\ prompt[p] = "open" /\ prompt' = [prompt EXCEPT ![p] = "done"]
  /\ IF Pending = {p} THEN Notify("running", Null) ELSE Unsaid(Open \ {p})
  /\ Same(running) /\ SameMode

\* A hook decides first: abort() rejects the request, but it leaves pendingRequests
\* only after the finally block of canUseTool(), which takes it for another one.
HookDecides(p) ==
  /\ prompt[p] = "open" /\ prompt' = [prompt EXCEPT ![p] = "done"]
  /\ Unsaid(Open \ {p})
  /\ Same(running) /\ SameMode

\* The turn is aborted: the requests of tools are rejected and leave pendingRequests,
\* and then the finally blocks run; all but the first notification change nothing.
Interrupt ==
  /\ Open # {}
  /\ prompt' = [r \in Requests |-> IF r \in Open THEN "done" ELSE prompt[r]]
  /\ IF Pending = Open THEN Notify("running", Null) ELSE Unsaid({})
  /\ Same(running) /\ SameMode

\* A command, in the background perhaps, asks for access to a host: the request is
\* another one in pendingRequests, but notifies nothing, neither when it is made nor
\* when it is answered, and has no signal that could abort it.
AskHost(h) ==
  /\ prompt[h] = "new" /\ prompt' = [prompt EXCEPT ![h] = "open"]
  /\ Same(<<vars, running, reported, hasPendingAction, unannounced>>) /\ SameMode

AnswerHost(h) ==
  /\ prompt[h] = "open" /\ prompt' = [prompt EXCEPT ![h] = "done"]
  /\ Same(<<vars, running, reported, hasPendingAction, unannounced>>) /\ SameMode

\* onChangeAppState()
SetMode(m) ==
  /\ m # mode /\ mode' = m /\ unrestored' = FALSE
  /\ Enqueue(Metadata("permission_mode", m))
  /\ Same(<<running, prompt, reported, hasPendingAction, unannounced>>)

\* The body of initialize().
InitPatch ==
  [top |-> [worker_status |-> "idle"],
   meta |-> [pending_action |-> Null, task_summary |-> Null]]

\* externalMetadataToAppState() gives the worker the mode that the server has; if that
\* is not the mode it started in, onChangeAppState() reports it again.
Restored(doc) ==
  IF doc.meta["permission_mode"] = Null THEN DefaultMode ELSE doc.meta["permission_mode"]

\* The worker dies or exits, in the middle of a PUT perhaps, and another one takes
\* over: the epoch keeps the requests of the old one away from the server.  The new one
\* reads the mode back, unless all ten GETs fail or it was started without --resume.
Restart ==
  LET doc == Applied(server, InitPatch)
      new == Fresh(Append(SubSeq(up.written, 1, seen), doc)) IN
  /\ restarts < MaxRestarts /\ restarts' = restarts + 1
  /\ server' = doc /\ seen' = seen + 1
  /\ mode' \in {DefaultMode, Restored(doc)}
  /\ unrestored' = (mode' # Restored(doc))
  /\ up' = IF mode' = DefaultMode THEN new ELSE Enqueued(new, Metadata("permission_mode", mode'))
  /\ running' = FALSE /\ reported' = "idle" /\ hasPendingAction' = FALSE
  /\ prompt' = [r \in Requests |-> IF prompt[r] = "open" THEN "done" ELSE prompt[r]]
  /\ unannounced' = FALSE

\* The first worker has just been initialised, in a session that has no mode yet.
ASSUME BlankIsInitialised ==
  /\ Blank.top["worker_status"] = "idle" /\ Blank.meta["permission_mode"] = Null
  /\ Blank.meta["pending_action"] = Null /\ Blank.meta["task_summary"] = Null

SessionInit ==
  /\ Init
  /\ running = FALSE /\ prompt = [r \in Requests |-> "new"]
  /\ reported = "idle" /\ hasPendingAction = FALSE /\ mode = DefaultMode
  /\ restarts = 0 /\ unannounced = FALSE /\ unrestored = FALSE

SessionNext ==
  \/ RunStarts \/ RunEnds \/ Interrupt \/ Restart
  \/ \E p \in Prompts : Ask(p) \/ Answer(p) \/ HookDecides(p)
  \/ \E h \in Hosts : AskHost(h) \/ AnswerHost(h)
  \/ \E m \in Modes : SetMode(m)
  \/ (Close \/ SendSucceeds \/ SendFails \/ SleepEnds) /\ UNCHANGED sessionVars

SessionSpec == SessionInit /\ [][SessionNext]_<<vars, sessionVars>>

\* A backoff ends and a PUT is answered; a server that is asked again and again
\* accepts in the end.
SessionFairSpec ==
  /\ SessionSpec
  /\ WF_<<vars, sessionVars>>(SleepEnds /\ UNCHANGED sessionVars)
  /\ SF_<<vars, sessionVars>>(SendSucceeds /\ UNCHANGED sessionVars)
-------------------------------------------------------------------------------
Settled == up.inflight = "none" /\ ~up.closed

\* Once all is sent, the server says that the session waits for the user, with a
\* pending action, exactly if a prompt of a tool is open, whatever order prompts were
\* asked and answered in; the worker_status and the pending_action of a dead worker are
\* gone.  The exception is a last prompt that ended beside a request for a host or the
\* aborted one of a hook (structuredIO.ts:659): the session still seems to wait, until
\* the turn ends or another prompt is asked.  And the permission mode
\* on the server is the worker's, also when a worker died before the server had heard
\* of a change; the exception is a worker that could not read it back
\* (ccrClient.ts:535-556) and has been in its default mode ever since.  Requests for
\* hosts are not shown, and requires_action_details is not promised: initialize() leaves
\* it to the server to clear.  (And the state is well typed.)
ShowsTheSession ==
  /\ SessionTypeOK
  /\ unannounced => Open = {} /\ running
  /\ unrestored => mode = DefaultMode
  /\ Settled =>
       /\ (server.top["worker_status"] = "requires_action") = (Open # {} \/ unannounced)
       /\ (server.meta["pending_action"] # Null) = (Open # {} \/ unannounced)
       /\ Restored(server) = mode \/ unrestored

\* What "only transition back to 'running' if no other permission prompts are pending"
\* (structuredIO.ts:657) is for, without the exceptions: the session waits exactly while
\* a permission request is pending.  It does not hold.
WaitsExactly ==
  Settled => (server.top["worker_status"] = "requires_action") = (Pending # {})

\* When the calls cease, everything is published in the end, unless the uploader is
\* closed: through any number of failures, lost answers and patches in between.  (An
\* instance has finitely many calls.)
PublishedAtLast == <>[](server = Newest(up) \/ up.closed)
===============================================================================
