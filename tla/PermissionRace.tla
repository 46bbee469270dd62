---------------------------- MODULE PermissionRace ----------------------------
(***************************************************************************)
(* The permission prompts of one turn: handleInteractivePermission() of    *)
(* src/src/hooks/toolPermission/handlers/interactiveHandler.ts with the    *)
(* context of PermissionContext.ts, the queue of dialogs that              *)
(* screens/REPL.tsx shows one at a time, and the abort signals of the      *)
(* turn and of its tools.  For one prompt six parties race: the user at    *)
(* the dialog, a recheck after the rules changed, the session's web page   *)
(* (the bridge), a chat channel, the permission hooks and the Bash         *)
(* classifier.  Whoever calls claim() first decides.                       *)
(*                                                                         *)
(* The dialog on the screen is that of the last rendering: a key pressed   *)
(* after the queue changed and before it was rendered again goes to the    *)
(* old dialog.                                                             *)
(***************************************************************************)
EXTENDS Naturals, Sequences, SequencesExt, Subsequence

CONSTANTS Prompts,      \* the tool calls of the turn that need an answer
          Bridged,      \* those that are also shown on the web page
          Channelled,   \* those that are also sent to a chat channel
          Hooked,       \* those for which a permission hook is configured
          Classified,   \* those with a pending Bash classifier check
          None

Racers == {"user", "config", "bridge", "channel", "hook", "classifier"}
Verdicts == {"allow", "deny"}

\* None stands for undefined.
ASSUME PermissionAssumption == None \notin Prompts \cup Racers

VARIABLES
    asked,        \* prompts for which the handler has started
    queue,        \* toolUseConfirmQueue
    rendered,     \* the prompt whose dialog is on the screen
    claim,        \* who has claimed a prompt
    answer,       \* the decision its promise was resolved with, and by whom
    allowing,     \* the user allowed it, handleUserAllow() is being awaited
    pageShows,    \* prompts the web page shows
    listening,    \* prompts with a handler for the page's response
    channelOpen,  \* prompts with an entry for the channel's reply
    hook,         \* the hooks of a prompt: off, running, a verdict, done
    checking,     \* prompts whose classifier check is running
    touched,      \* userInteracted
    rechecking,   \* prompts whose recheckPermission() awaits
    checkmark,    \* prompts with the timer of the auto-approved mark
    persisted,    \* who has saved permission updates for a prompt
    told,         \* what the dialog's decision told the web page
    toolsAborted, \* the controllers of the tools are aborted
    turnAborted,  \* the controller of the turn is aborted
    cancelled,    \* the user has cancelled the turn (REPL's onCancel)
    dropped       \* undecided prompts taken off the queue by another's dialog

remote == <<pageShows, listening, channelOpen>>
checks == <<hook, checking, touched, rechecking>>
aborts == <<toolsAborted, turnAborted>>
vars == <<asked, queue, rendered, claim, answer, allowing, remote, checks,
          checkmark, persisted, told, aborts, cancelled, dropped>>

TypeOK ==
    /\ asked \subseteq Prompts
    /\ queue \in Seq(asked)
    /\ rendered \in Prompts \cup {None}
    /\ claim \in [Prompts -> Racers \cup {None}]
    /\ answer \in [Prompts -> [by : Racers, says : Verdicts] \cup {None}]
    /\ {allowing, touched, rechecking, checkmark, dropped} \subseteq SUBSET asked
    /\ {pageShows, listening} \subseteq SUBSET (asked \cap Bridged)
    /\ channelOpen \subseteq asked \cap Channelled
    /\ checking \subseteq asked \cap Classified
    /\ hook \in [Prompts -> {"off", "running", "done"} \cup Verdicts]
    /\ persisted \in [Prompts -> SUBSET Racers]
    /\ told \in [Prompts -> Verdicts \cup {None}]
    /\ {toolsAborted, turnAborted, cancelled} \subseteq BOOLEAN

Init ==
    /\ asked = {} /\ queue = <<>> /\ rendered = None
    /\ claim = [p \in Prompts |-> None]
    /\ answer = [p \in Prompts |-> None]
    /\ allowing = {} /\ pageShows = {} /\ listening = {} /\ channelOpen = {}
    /\ hook = [p \in Prompts |-> "off"]
    /\ checking = {} /\ touched = {} /\ rechecking = {} /\ checkmark = {}
    /\ persisted = [p \in Prompts |-> {}]
    /\ told = [p \in Prompts |-> None]
    /\ toolsAborted = FALSE /\ turnAborted = FALSE
    /\ cancelled = FALSE /\ dropped = {}

-----------------------------------------------------------------------------
(* What the racers have in common.                                         *)

Open(p) == claim[p] = None
Claims(p, r) == claim' = [claim EXCEPT ![p] = r]
Answers(p, r, v) == answer' = [answer EXCEPT ![p] = [by |-> r, says |-> v]]
Saves(p, r, saves) ==
    persisted' = [persisted EXCEPT ![p] = IF saves THEN @ \cup {r} ELSE @]

\* removeFromQueue(), of a set of prompts.
Without(q, S) == Subsequence(q, Prompts \ S)

\* onDone of the dialog: the head of the queue goes, whichever it is.
Done(q) == IF q = <<>> THEN q ELSE Tail(q)

\* mutant: the timer goes, the dialog stays
SignalAbortsKeepingMarks(q) ==
    /\ listening' = {} /\ channelOpen' = {}
    /\ checkmark' = {} /\ queue' = q

\* The abort listeners: the handlers of the remote answers are removed, and
\* so are the timers of the marks with their dialogs.
SignalAborts(q) ==
    /\ listening' = {} /\ channelOpen' = {}
    /\ checkmark' = {} /\ queue' = Without(q, checkmark)

\* cancelAndAbort() or a hook's interrupt abort the controller of the tool;
\* the executor hands that on to the turn, but not an abort that comes after
\* a sibling's error, for then the tool's signal has fired already.
AbortFromTool(q) ==
    IF toolsAborted
    THEN queue' = q /\ UNCHANGED <<aborts, listening, channelOpen, checkmark>>
    ELSE SignalAborts(q) /\ toolsAborted' = TRUE /\ turnAborted' = TRUE

-----------------------------------------------------------------------------
(* The prompt opens; the screen follows the queue.                          *)

\* The request goes to the web page and to the channel, where there are any.
Broadcast(p) ==
    /\ pageShows' = pageShows \cup ({p} \cap Bridged)
    /\ listening' = listening \cup ({p} \cap Bridged)
    /\ channelOpen' = channelOpen \cup ({p} \cap Channelled)

Ask(p) ==
    /\ p \notin asked /\ ~toolsAborted
    /\ asked' = asked \cup {p}
    /\ queue' = Append(queue, p)
    /\ Broadcast(p)
    /\ hook' = [hook EXCEPT ![p] = IF p \in Hooked THEN "running" ELSE @]
    /\ checking' = checking \cup ({p} \cap Classified)
    /\ UNCHANGED <<rendered, claim, answer, allowing, touched, rechecking,
                   checkmark, persisted, told, aborts, cancelled, dropped>>

FirstInQueue == IF queue = <<>> THEN None ELSE Head(queue)
Render ==
    /\ rendered # FirstInQueue
    /\ rendered' = FirstInQueue
    /\ UNCHANGED <<asked, queue, claim, answer, allowing, remote, checks,
                   checkmark, persisted, told, aborts, cancelled, dropped>>

-----------------------------------------------------------------------------
(* The user at the dialog.                                                  *)

\* onUserInteraction, after the grace period; only the classifier asks for it.
Interact(p) ==
    /\ rendered = p /\ p \in checking \ touched
    /\ touched' = touched \cup {p}
    /\ UNCHANGED <<asked, queue, rendered, claim, answer, allowing, remote, hook,
                   checking, rechecking, checkmark, persisted, told, aborts,
                   cancelled, dropped>>

\* The dialog's decision reaches the web page, which closes its own.
TellPage(p, v) ==
    /\ told' = [told EXCEPT ![p] = IF p \in Bridged THEN v ELSE @]
    /\ pageShows' = pageShows \ {p}

\* An undecided prompt at the head is taken off by the dialog of p.
Drops(p) == dropped' = dropped \cup {q \in {FirstInQueue} \ {p, None} : Open(q)}

\* A dialog whose prompt was decided before it could be rendered again.
LateKey(p) ==
    /\ rendered = p /\ ~Open(p)
    /\ queue' = Done(queue)
    /\ Drops(p)
    /\ UNCHANGED <<asked, rendered, claim, answer, allowing, remote, checks,
                   checkmark, persisted, told, aborts, cancelled>>

UserAllows(p, saves) ==
    /\ rendered = p /\ Open(p)
    /\ Claims(p, "user")
    /\ TellPage(p, "allow")
    /\ channelOpen' = channelOpen \ {p}
    /\ Saves(p, "user", saves)
    /\ allowing' = allowing \cup {p}
    /\ queue' = Done(queue)
    /\ Drops(p)
    /\ UNCHANGED <<asked, rendered, answer, listening, checks, checkmark,
                   aborts, cancelled>>

\* handleUserAllow() has returned: the decision is delivered.
UserAllowed(p) ==
    /\ p \in allowing
    /\ allowing' = allowing \ {p}
    /\ Answers(p, "user", "allow")
    /\ UNCHANGED <<asked, queue, rendered, claim, remote, checks, checkmark,
                   persisted, told, aborts, cancelled, dropped>>

\* A rejection without a word to the model ends the turn.
UserRejects(p, feedback) ==
    /\ rendered = p /\ Open(p)
    /\ Claims(p, "user")
    /\ Answers(p, "user", "deny")
    /\ TellPage(p, "deny")
    /\ Drops(p)
    /\ IF feedback
       THEN /\ queue' = Done(queue)
            /\ channelOpen' = channelOpen \ {p}
            /\ UNCHANGED <<listening, checkmark, aborts>>
       ELSE AbortFromTool(Done(queue))
    /\ UNCHANGED <<asked, rendered, allowing, checks, persisted, cancelled>>

\* onDismissCheckmark.
Dismiss(p) ==
    /\ rendered = p /\ p \in checkmark
    /\ checkmark' = checkmark \ {p}
    /\ queue' = Without(queue, {p})
    /\ UNCHANGED <<asked, rendered, claim, answer, allowing, remote, checks,
                   persisted, told, aborts, cancelled, dropped>>

\* onCancel of the REPL, with the dialog of p on the screen or with none: the
\* dialog is told to abort (onAbort), the turn itself only without a dialog.
Cancel ==
    /\ ~cancelled
    /\ asked # {}
    /\ cancelled' = TRUE
    /\ dropped' = dropped \cup {q \in ToSet(queue) : Open(q) /\ q # rendered}
    /\ \/ /\ rendered = None
          /\ turnAborted' = TRUE /\ toolsAborted' = TRUE
          /\ SignalAborts(<<>>)
          /\ UNCHANGED <<claim, answer, pageShows, told>>
       \/ /\ rendered # None /\ Open(rendered)
          /\ Claims(rendered, "user")
          /\ Answers(rendered, "user", "deny")
          /\ TellPage(rendered, "deny")
          /\ AbortFromTool(<<>>)
       \/ /\ rendered # None /\ ~Open(rendered)
          /\ queue' = <<>>
          /\ UNCHANGED <<claim, answer, remote, checkmark, told, aborts>>
    /\ UNCHANGED <<asked, rendered, allowing, checks, persisted>>

-----------------------------------------------------------------------------
(* The remote parties.                                                     *)

\* cancelRequest() of the page, channelUnsubscribe(), removeFromQueue().
\* mutant: no cancelRequest
WithdrawLocally(p) ==
    /\ channelOpen' = channelOpen \ {p}
    /\ queue' = Without(queue, {p})
    /\ UNCHANGED pageShows
Withdraw(p) ==
    /\ pageShows' = pageShows \ {p}
    /\ channelOpen' = channelOpen \ {p}
    /\ queue' = Without(queue, {p})

\* The response of the page, which may have been on its way when the prompt
\* was decided; its handler is taken out of the map either way.
BridgeAnswers(p, v, saves, feedback) ==
    /\ p \in listening
    /\ IF Open(p)
       THEN /\ Claims(p, "bridge")
            /\ Answers(p, "bridge", v)
            /\ Saves(p, "bridge", v = "allow" /\ saves)
            /\ pageShows' = pageShows \ {p}
            /\ IF v = "allow" \/ feedback
               THEN /\ queue' = Without(queue, {p})
                    /\ listening' = listening \ {p}
                    /\ channelOpen' = channelOpen \ {p}
                    /\ UNCHANGED <<checkmark, aborts>>
               ELSE AbortFromTool(Without(queue, {p}))
       ELSE /\ listening' = listening \ {p}
            /\ UNCHANGED <<queue, claim, answer, pageShows, channelOpen,
                           checkmark, persisted, aborts>>
    /\ UNCHANGED <<asked, rendered, allowing, checks, told, cancelled, dropped>>

ChannelAnswers(p, v) ==
    /\ p \in channelOpen
    /\ IF Open(p)
       THEN Claims(p, "channel") /\ Answers(p, "channel", v) /\ Withdraw(p)
       ELSE /\ channelOpen' = channelOpen \ {p}
            /\ UNCHANGED <<queue, claim, answer, pageShows>>
    /\ UNCHANGED <<asked, rendered, allowing, listening, checks, checkmark,
                   persisted, told, aborts, cancelled, dropped>>

-----------------------------------------------------------------------------
(* The automatic checks.                                                   *)

\* runHooks(): what a hook decides takes effect before the race is decided.
HookDecides(p, v, saves, interrupts) ==
    /\ hook[p] = "running"
    /\ hook' = [hook EXCEPT ![p] = v]
    /\ Saves(p, "hook", v = "allow" /\ saves)
    /\ IF v = "deny" /\ interrupts
       THEN AbortFromTool(queue)
       ELSE UNCHANGED <<queue, listening, channelOpen, checkmark, aborts>>
    /\ UNCHANGED <<asked, rendered, claim, answer, allowing, pageShows, checking,
                   touched, rechecking, told, cancelled, dropped>>

HookPasses(p) ==
    /\ hook[p] = "running"
    /\ hook' = [hook EXCEPT ![p] = "done"]
    /\ UNCHANGED <<asked, queue, rendered, claim, answer, allowing, remote,
                   checking, touched, rechecking, checkmark, persisted, told,
                   aborts, cancelled, dropped>>

HookClaims(p) ==
    /\ hook[p] \in Verdicts
    /\ hook' = [hook EXCEPT ![p] = "done"]
    /\ IF Open(p)
       THEN Claims(p, "hook") /\ Answers(p, "hook", hook[p]) /\ Withdraw(p)
       ELSE UNCHANGED <<queue, claim, answer, pageShows, channelOpen>>
    /\ UNCHANGED <<asked, rendered, allowing, listening, checking, touched,
                   rechecking, checkmark, persisted, told, aborts, cancelled,
                   dropped>>

\* shouldContinue(), then onAllow.  The dialog stays, with a mark, for a while.
ClassifierAllows(p) ==
    /\ p \in checking
    /\ checking' = checking \ {p}
    /\ IF Open(p) /\ p \notin touched
       THEN /\ Claims(p, "classifier")
            /\ Answers(p, "classifier", "allow")
            /\ pageShows' = pageShows \ {p}
            /\ channelOpen' = channelOpen \ {p}
            /\ checkmark' = checkmark \cup {p}
       ELSE UNCHANGED <<claim, answer, pageShows, channelOpen, checkmark>>
    /\ UNCHANGED <<asked, queue, rendered, allowing, listening, hook, touched,
                   rechecking, persisted, told, aborts, cancelled, dropped>>

ClassifierPasses(p) ==
    /\ p \in checking
    /\ checking' = checking \ {p}
    /\ UNCHANGED <<asked, queue, rendered, claim, answer, allowing, remote, hook,
                   touched, rechecking, checkmark, persisted, told, aborts,
                   cancelled, dropped>>

CheckmarkExpires(p) ==
    /\ p \in checkmark
    /\ checkmark' = checkmark \ {p}
    /\ queue' = Without(queue, {p})
    /\ UNCHANGED <<asked, rendered, claim, answer, allowing, remote, checks,
                   persisted, told, aborts, cancelled, dropped>>

\* The rules changed: every prompt in the queue is checked again.
RecheckAll ==
    /\ {p \in ToSet(queue) : Open(p)} \ rechecking # {}
    /\ rechecking' = rechecking \cup {p \in ToSet(queue) : Open(p)}
    /\ UNCHANGED <<asked, queue, rendered, claim, answer, allowing, remote, hook,
                   checking, touched, checkmark, persisted, told, aborts,
                   cancelled, dropped>>

\* mutant: isResolved() before the await instead of claim() after it
RecheckedUnclaimed(p, allowed) ==
    /\ p \in rechecking
    /\ rechecking' = rechecking \ {p}
    /\ IF allowed /\ answer[p] = None
       THEN /\ Answers(p, "config", "allow") /\ Withdraw(p)
            /\ IF Open(p) THEN Claims(p, "config") ELSE UNCHANGED claim
       ELSE UNCHANGED <<queue, claim, answer, pageShows, channelOpen>>
    /\ UNCHANGED <<asked, rendered, allowing, listening, hook, checking, touched,
                   checkmark, persisted, told, aborts, cancelled, dropped>>
Rechecked(p, allowed) ==
    /\ p \in rechecking
    /\ rechecking' = rechecking \ {p}
    /\ IF allowed /\ Open(p)
       THEN Claims(p, "config") /\ Answers(p, "config", "allow") /\ Withdraw(p)
       ELSE UNCHANGED <<queue, claim, answer, pageShows, channelOpen>>
    /\ UNCHANGED <<asked, rendered, allowing, listening, hook, checking, touched,
                   checkmark, persisted, told, aborts, cancelled, dropped>>

-----------------------------------------------------------------------------
(* The signals that come from outside the prompts.                          *)

\* A Bash call of the same batch fails: the tools are aborted, the turn is not.
SiblingError ==
    /\ asked # {} /\ ~toolsAborted
    /\ toolsAborted' = TRUE
    /\ SignalAborts(queue)
    /\ UNCHANGED <<asked, rendered, claim, answer, allowing, pageShows, checks,
                   persisted, told, turnAborted, cancelled, dropped>>

\* onInterrupt of the web page aborts the turn.
RemoteInterrupt ==
    /\ asked # {} /\ ~turnAborted
    /\ turnAborted' = TRUE /\ toolsAborted' = TRUE
    /\ SignalAborts(queue)
    /\ UNCHANGED <<asked, rendered, claim, answer, allowing, pageShows, checks,
                   persisted, told, cancelled, dropped>>

UserDecides(p) == \E b \in BOOLEAN : UserAllows(p, b) \/ UserRejects(p, b)
Hook(p) == \/ \E v \in Verdicts, s, i \in BOOLEAN : HookDecides(p, v, s, i)
           \/ HookPasses(p)
Classifier(p) == ClassifierAllows(p) \/ ClassifierPasses(p)
Recheck(p) == \E b \in BOOLEAN : Rechecked(p, b)

Next ==
    \/ \E p \in Prompts :
          \/ Ask(p) \/ Interact(p) \/ UserDecides(p) \/ UserAllowed(p)
          \/ LateKey(p) \/ Dismiss(p)
          \/ \E v \in Verdicts, s, f \in BOOLEAN : BridgeAnswers(p, v, s, f)
          \/ \E v \in Verdicts : ChannelAnswers(p, v)
          \/ Hook(p) \/ HookClaims(p) \/ Classifier(p) \/ CheckmarkExpires(p)
          \/ Recheck(p)
    \/ Render \/ Cancel \/ RecheckAll \/ SiblingError \/ RemoteInterrupt

Spec == Init /\ [][Next]_vars

\* The event loop renders, resolves what was awaited and fires timers; the
\* user answers the dialog that stays on the screen.
FairSpec ==
    /\ Spec
    /\ WF_vars(Render)
    /\ \A p \in Prompts : /\ WF_vars(UserAllowed(p)) /\ WF_vars(CheckmarkExpires(p))
                          /\ WF_vars(UserDecides(p))
                          /\ WF_vars(Hook(p)) /\ WF_vars(HookClaims(p))
                          /\ WF_vars(Classifier(p)) /\ WF_vars(Recheck(p))

-----------------------------------------------------------------------------
(* Properties.                                                             *)

\* Everything that was done in the name of a prompt comes from the one racer
\* that claimed it: the decision, the saved rules (those of a hook excepted,
\* which are saved before it claims), and what the web page was told.  (And
\* the state is well typed.)
OneSource ==
    TypeOK /\ \A p \in Prompts :
       /\ answer[p] # None => answer[p].by = claim[p]
       /\ persisted[p] \subseteq {claim[p], "hook"}
       /\ told[p] # None => /\ claim[p] = "user"
                            /\ answer[p] # None => answer[p].says = told[p]

\* A decided prompt is withdrawn wherever it was shown: the page, the channel
\* and the queue, where only the mark of the classifier may stay a moment.
LosersWithdrawn ==
    \A p \in Prompts : answer[p] # None =>
       /\ p \notin pageShows \cup channelOpen
       /\ p \in ToSet(queue) => p \in checkmark

\* A prompt is decided at last and leaves the queue, where it would block those
\* behind it, unless another's dialog took it off the queue undecided.
AnsweredUnlessDropped ==
    \A p \in Prompts :
       p \in asked ~> (answer[p] # None /\ p \notin ToSet(queue)) \/ p \in dropped

\* "Tool use confirm handles the abort signal itself": when the user has
\* cancelled, the turn is aborted.  (Does not hold: README, section 5.)
CancelEndsTurn == cancelled => turnAborted
=============================================================================
