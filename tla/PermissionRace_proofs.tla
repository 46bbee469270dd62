------------------------- MODULE PermissionRace_proofs -------------------------
(***************************************************************************)
(* What holds of the permission prompts of a turn, however many there are  *)
(* and whoever races for them: what happens in the name of a prompt has    *)
(* one source, a decided prompt is shown nowhere, and no decision is taken *)
(* back.                                                                   *)
(***************************************************************************)
EXTENDS PermissionRace, OrderLemmas

(***************************************************************************)
(* The inductive invariant.  A claim is what everything follows from, so   *)
(* it is the claimed prompts that are withdrawn, decided or not.  That the *)
(* user's answer takes its own dialog off the queue holds because the      *)
(* prompt on the screen is the head of the queue as long as it is queued:  *)
(* the rest of the queue is removed from or appended to behind it.  An     *)
(* aborted turn has closed the channels, and asks nothing any more.        *)
(***************************************************************************)
OnScreen(q) == IsInjective(q) /\ (rendered \in ToSet(q) => rendered = Head(q))

Asked ==
    /\ rendered \in asked \cup {None}
    /\ \A p \in Prompts \ asked : claim[p] = None /\ hook[p] = "off"

Sources ==
    \A p \in Prompts :
       /\ answer[p] # None => answer[p].by = claim[p]
       /\ persisted[p] \subseteq {claim[p], "hook"}
       /\ told[p] # None => /\ claim[p] = "user"
                            /\ answer[p] # None => answer[p].says = told[p]
       /\ p \in allowing => /\ claim[p] = "user" /\ answer[p] = None
                            /\ told[p] \in {None, "allow"}

Withdrawn ==
    /\ toolsAborted => channelOpen = {}
    /\ \A p \in Prompts : answer[p] # None => claim[p] # None
    /\ \A p \in Prompts : claim[p] # None =>
          /\ p \notin pageShows \cup channelOpen
          /\ p \in ToSet(queue) => p \in checkmark

IInv == TypeOK /\ Asked /\ OnScreen(queue) /\ Sources /\ Withdrawn

\* No prompt has been asked yet.
LEMMA InitInv == Init => IInv
<1> SUFFICES ASSUME Init PROVE IInv
  OBVIOUS
<1> USE DEF Init
<1>1. TypeOK
  BY EmptySeq DEF TypeOK
<1>2. ToSet(<< >>) = {} /\ IsInjective(<< >>)
  BY DEF ToSet, IsInjective
<1>3. Asked /\ OnScreen(queue) /\ Sources /\ Withdrawn
  BY <1>2 DEF Asked, OnScreen, Sources, Withdrawn
<1> QED BY <1>1, <1>3 DEF IInv

-----------------------------------------------------------------------------
(* The queue and the screen.                                               *)

\* A queue with fewer prompts, of which the one on the screen is still the first.
Trims(q) == /\ q \in Seq(asked) /\ OnScreen(q) /\ ToSet(q) \subseteq ToSet(queue)

\* removeFromQueue() trims a queue and leaves the others in it.
LEMMA WithoutTrims ==
  ASSUME IInv, NEW q, Trims(q), NEW S
  PROVE  Trims(Without(q, S)) /\ ToSet(Without(q, S)) = ToSet(q) \ S
<1>1. q \in Seq(Prompts) /\ ToSet(q) \subseteq Prompts /\ q \in Seq(asked) /\ ToSet(q) \subseteq asked
  <2>1. q \in Seq(asked) /\ asked \subseteq Prompts
    BY DEF Trims, IInv, TypeOK
  <2> QED BY <2>1, SeqMonotonic, SetOfSeq
<1> DEFINE r == Subsequence(q, Prompts \ S)
<1>2. /\ ToSet(r) = ToSet(q) \cap (Prompts \ S)
      /\ r \in Seq(asked) /\ IsInjective(r)
  BY <1>1, SubsequenceElements, SubsequenceType, SubsequenceIsInjective DEF Trims, OnScreen
<1>3. ASSUME rendered \in ToSet(r) PROVE rendered = Head(r)
  <2>1. rendered \in ToSet(q) /\ rendered = Head(q) /\ Head(q) \in Prompts \ S
    BY <1>2, <1>3 DEF Trims, OnScreen
  <2>2. q # << >>
    BY <2>1 DEF ToSet
  <2> QED BY <1>1, <2>1, <2>2, SubsequenceHead
<1>4. ToSet(r) = ToSet(q) \ S
  BY <1>1, <1>2
<1>5. Without(q, S) = r
  BY DEF Without
<1> HIDE DEF r
<1> QED BY <1>2, <1>3, <1>4, <1>5 DEF Trims, OnScreen

\* onDone trims the queue by the prompt on the screen, if it was still there.
LEMMA DoneTrims ==
  ASSUME IInv
  PROVE  Trims(Done(queue)) /\ rendered \notin ToSet(Done(queue))
<1>1. queue \in Seq(asked) /\ OnScreen(queue)
  BY DEF IInv, TypeOK
<1>2. CASE queue = << >>
  BY <1>1, <1>2 DEF Done, Trims, ToSet
<1>3. CASE queue # << >>
  <2>1. /\ Tail(queue) \in Seq(asked) /\ IsInjective(Tail(queue))
        /\ ToSet(Tail(queue)) = ToSet(queue) \ {Head(queue)}
    BY <1>1, <1>3, TailIsInjective DEF OnScreen
  <2> QED BY <1>1, <1>3, <2>1 DEF Done, Trims, OnScreen
<1> QED BY <1>2, <1>3

\* The queue trims itself, and so does the empty one.
LEMMA QueueTrims == IInv => Trims(queue) /\ Trims(<< >>)
<1>1. ToSet(<< >>) = {} /\ IsInjective(<< >>)
  BY DEF ToSet, IsInjective
<1> QED BY <1>1, EmptySeq DEF IInv, TypeOK, Trims, OnScreen

\* An abort closes the channels and takes the dialogs with a mark off the queue.
LEMMA SignalTrims ==
  ASSUME IInv, NEW q, Trims(q), SignalAborts(q)
  PROVE  /\ Trims(queue') /\ channelOpen' = {} /\ listening' = {} /\ checkmark' = {}
         /\ ToSet(queue') = ToSet(q) \ checkmark
BY WithoutTrims DEF SignalAborts

\* So it is when the abort comes from a tool, unless the tools are aborted already.
LEMMA AbortTrims ==
  ASSUME IInv, NEW q, Trims(q), AbortFromTool(q)
  PROVE  /\ Trims(queue') /\ ToSet(queue') \subseteq ToSet(q)
         /\ channelOpen' = {} /\ toolsAborted' = TRUE
         /\ turnAborted' \in {turnAborted, TRUE}
         /\ listening' \subseteq listening /\ checkmark' \subseteq checkmark
         /\ \A p \in ToSet(queue') : p \in checkmark => p \in checkmark'
<1>1. CASE toolsAborted
  BY <1>1 DEF AbortFromTool, aborts, IInv, Withdrawn, TypeOK
<1>2. CASE ~toolsAborted
  <2>1. SignalAborts(q) /\ toolsAborted' = TRUE /\ turnAborted' = TRUE
    BY <1>2 DEF AbortFromTool
  <2> QED BY <2>1, SignalTrims
<1> QED BY <1>1, <1>2

-----------------------------------------------------------------------------
(* Claims and decisions.                                                   *)

\* claim() takes a prompt, and resolve() decides it, in the name of r.
LEMMA DecisionType ==
  ASSUME TypeOK, NEW p \in Prompts, NEW r \in Racers, NEW v \in Verdicts,
         Claims(p, r), Answers(p, r, v)
  PROVE  /\ claim' \in [Prompts -> Racers \cup {None}]
         /\ answer' \in [Prompts -> [by : Racers, says : Verdicts] \cup {None}]
         /\ claim'[p] = r /\ r # None
         /\ answer'[p] = [by |-> r, says |-> v]
         /\ \A q \in Prompts \ {p} : claim'[q] = claim[q] /\ answer'[q] = answer[q]
<1>1. [by |-> r, says |-> v] \in [by : Racers, says : Verdicts]
  OBVIOUS
<1> QED BY <1>1, PermissionAssumption DEF TypeOK, Claims, Answers

\* What is decided, saved and told comes from r alone, since nobody had claimed p.
LEMMA DecisionSources ==
  ASSUME IInv, NEW p \in Prompts, NEW r \in Racers, NEW v \in Verdicts,
         Open(p), Claims(p, r), Answers(p, r, v), allowing' = allowing,
         persisted'[p] \subseteq persisted[p] \cup {r},
         told'[p] = told[p] \/ (r = "user" /\ told'[p] = v),
         \A q \in Prompts \ {p} : persisted'[q] = persisted[q] /\ told'[q] = told[q]
  PROVE  Sources'
<1> USE DEF IInv
<1>1. /\ claim'[p] = r /\ answer'[p] = [by |-> r, says |-> v]
      /\ \A q \in Prompts \ {p} : claim'[q] = claim[q] /\ answer'[q] = answer[q]
  BY DecisionType
<1>2. answer'[p].by = r /\ answer'[p].says = v
  BY <1>1
<1>3. /\ claim[p] = None /\ p \notin allowing /\ told[p] = None
      /\ persisted[p] \subseteq {"hook"}
  <2>1. persisted[p] \subseteq Racers
    BY DEF TypeOK
  <2>2. None \notin Racers /\ "user" \in Racers
    BY PermissionAssumption DEF Racers
  <2> QED BY <2>1, <2>2 DEF Open, Sources
<1> QED BY <1>1, <1>2, <1>3 DEF Sources

-----------------------------------------------------------------------------
(* Every step keeps the invariant.                                         *)

\* The user looks at the dialog.
LEMMA InteractInv ==
  ASSUME IInv, NEW p \in Prompts, Interact(p)
  PROVE  IInv'
<1> USE DEF IInv
<1>1. TypeOK'
  BY DEF TypeOK, Trims, Interact, remote, aborts
<1>2. Asked'
  BY DEF TypeOK, Asked, Interact, remote, aborts
<1>3. OnScreen(queue)'
  BY DEF OnScreen, Trims, Interact, remote, aborts
<1>4. Sources'
  BY DEF TypeOK, Asked, Sources, Interact, remote, aborts
<1>5. Withdrawn'
  BY DEF TypeOK, Asked, Withdrawn, Interact, remote, aborts
<1> QED BY <1>1, <1>2, <1>3, <1>4, <1>5

\* A hook does not decide.
LEMMA HookPassesInv ==
  ASSUME IInv, NEW p \in Prompts, HookPasses(p)
  PROVE  IInv'
<1> USE DEF IInv
<1>1. TypeOK'
  BY DEF TypeOK, Trims, HookPasses, remote, aborts
<1>2. Asked'
  BY DEF TypeOK, Asked, HookPasses, remote, aborts
<1>3. OnScreen(queue)'
  BY DEF OnScreen, Trims, HookPasses, remote, aborts
<1>4. Sources'
  BY DEF TypeOK, Asked, Sources, HookPasses, remote, aborts
<1>5. Withdrawn'
  BY DEF TypeOK, Asked, Withdrawn, HookPasses, remote, aborts
<1> QED BY <1>1, <1>2, <1>3, <1>4, <1>5

\* The classifier does not decide.
LEMMA ClassifierPassesInv ==
  ASSUME IInv, NEW p \in Prompts, ClassifierPasses(p)
  PROVE  IInv'
<1> USE DEF IInv
<1>1. TypeOK'
  BY DEF TypeOK, Trims, ClassifierPasses, remote, aborts
<1>2. Asked'
  BY DEF TypeOK, Asked, ClassifierPasses, remote, aborts
<1>3. OnScreen(queue)'
  BY DEF OnScreen, Trims, ClassifierPasses, remote, aborts
<1>4. Sources'
  BY DEF TypeOK, Asked, Sources, ClassifierPasses, remote, aborts
<1>5. Withdrawn'
  BY DEF TypeOK, Asked, Withdrawn, ClassifierPasses, remote, aborts
<1> QED BY <1>1, <1>2, <1>3, <1>4, <1>5

\* The queue is rechecked.
LEMMA RecheckAllInv ==
  ASSUME IInv, RecheckAll
  PROVE  IInv'
<1> USE DEF IInv
<1>1. Trims(queue) /\ ToSet(queue) \subseteq asked
  BY QueueTrims, SetOfSeq DEF TypeOK
<1>2. TypeOK'
  BY <1>1 DEF TypeOK, Trims, RecheckAll, remote, aborts
<1>3. Asked'
  BY <1>1 DEF TypeOK, Asked, RecheckAll, remote, aborts
<1>4. OnScreen(queue)'
  BY <1>1 DEF OnScreen, Trims, RecheckAll, remote, aborts
<1>5. Sources'
  BY <1>1 DEF TypeOK, Asked, Sources, RecheckAll, remote, aborts
<1>6. Withdrawn'
  BY <1>1 DEF TypeOK, Asked, Withdrawn, RecheckAll, remote, aborts
<1> QED BY <1>2, <1>3, <1>4, <1>5, <1>6

\* The user takes the mark away, with its dialog.
LEMMA DismissInv ==
  ASSUME IInv, NEW p \in Prompts, Dismiss(p)
  PROVE  IInv'
<1> USE DEF IInv
<1>1. Trims(queue') /\ ToSet(queue') = ToSet(queue) \ {p}
  BY QueueTrims, WithoutTrims DEF Dismiss
<1>2. TypeOK'
  BY <1>1 DEF TypeOK, Trims, Dismiss, remote, checks, aborts
<1>3. Asked'
  BY <1>1 DEF TypeOK, Asked, Dismiss, remote, checks, aborts
<1>4. OnScreen(queue)'
  BY <1>1 DEF OnScreen, Trims, Dismiss, remote, checks, aborts
<1>5. Sources'
  BY <1>1 DEF TypeOK, Asked, Sources, Dismiss, remote, checks, aborts
<1>6. Withdrawn'
  BY <1>1 DEF TypeOK, Asked, Withdrawn, Dismiss, remote, checks, aborts
<1> QED BY <1>2, <1>3, <1>4, <1>5, <1>6

\* So does the timer.
LEMMA CheckmarkExpiresInv ==
  ASSUME IInv, NEW p \in Prompts, CheckmarkExpires(p)
  PROVE  IInv'
<1> USE DEF IInv
<1>1. Trims(queue') /\ ToSet(queue') = ToSet(queue) \ {p}
  BY QueueTrims, WithoutTrims DEF CheckmarkExpires
<1>2. TypeOK'
  BY <1>1 DEF TypeOK, Trims, CheckmarkExpires, remote, checks, aborts
<1>3. Asked'
  BY <1>1 DEF TypeOK, Asked, CheckmarkExpires, remote, checks, aborts
<1>4. OnScreen(queue)'
  BY <1>1 DEF OnScreen, Trims, CheckmarkExpires, remote, checks, aborts
<1>5. Sources'
  BY <1>1 DEF TypeOK, Asked, Sources, CheckmarkExpires, remote, checks, aborts
<1>6. Withdrawn'
  BY <1>1 DEF TypeOK, Asked, Withdrawn, CheckmarkExpires, remote, checks, aborts
<1> QED BY <1>2, <1>3, <1>4, <1>5, <1>6

\* The decision of the user is delivered: what the page was told, and nothing before.
LEMMA UserAllowedInv ==
  ASSUME IInv, NEW p \in Prompts, UserAllowed(p)
  PROVE  IInv'
<1> USE DEF IInv, UserAllowed
<1>1. claim[p] = "user" /\ answer[p] = None /\ told[p] \in {None, "allow"} /\ "user" # None
  BY PermissionAssumption DEF Sources, Racers
<1>2. /\ answer'[p] = [by |-> "user", says |-> "allow"]
      /\ \A q \in Prompts \ {p} : answer'[q] = answer[q]
      /\ answer' \in [Prompts -> [by : Racers, says : Verdicts] \cup {None}]
  BY DEF TypeOK, Answers, Racers, Verdicts
<1>3. answer'[p].by = "user" /\ answer'[p].says = "allow"
  BY <1>2
<1>4. TypeOK'
  BY <1>2 DEF TypeOK, remote, checks, aborts
<1>5. Asked' /\ OnScreen(queue)'
  BY DEF Asked, OnScreen, checks
<1>6. Sources'
  BY <1>1, <1>2, <1>3 DEF Sources
<1>7. Withdrawn'
  BY <1>1, <1>2 DEF Withdrawn, remote, aborts
<1> QED BY <1>4, <1>5, <1>6, <1>7

\* The classifier decides; the dialog stays, with a mark.
LEMMA ClassifierAllowsInv ==
  ASSUME IInv, NEW p \in Prompts, ClassifierAllows(p)
  PROVE  IInv'
<1> USE DEF IInv
<1>1. p \in asked /\ "classifier" \in Racers /\ "allow" \in Verdicts
  BY DEF ClassifierAllows, TypeOK, Racers, Verdicts
<1>2. CASE Open(p) /\ p \notin touched
  <2>1. /\ Claims(p, "classifier") /\ Answers(p, "classifier", "allow")
        /\ pageShows' = pageShows \ {p} /\ channelOpen' = channelOpen \ {p}
        /\ checkmark' = checkmark \cup {p}
    BY <1>2 DEF ClassifierAllows
  <2>2. /\ claim' \in [Prompts -> Racers \cup {None}]
        /\ answer' \in [Prompts -> [by : Racers, says : Verdicts] \cup {None}]
        /\ claim'[p] = "classifier" /\ "classifier" # None
        /\ \A q \in Prompts \ {p} : claim'[q] = claim[q] /\ answer'[q] = answer[q]
    BY <1>1, <2>1, DecisionType
  <2>3. TypeOK'
    BY <1>1, <2>1, <2>2 DEF TypeOK, ClassifierAllows, aborts
  <2>4. Asked' /\ OnScreen(queue)'
    BY <1>1, <2>2 DEF Asked, OnScreen, ClassifierAllows
  <2>5. Sources'
    BY <1>1, <1>2, <2>1, DecisionSources DEF ClassifierAllows
  <2>6. Withdrawn'
    BY <2>1, <2>2 DEF Withdrawn, ClassifierAllows, aborts
  <2> QED BY <2>3, <2>4, <2>5, <2>6
<1>3. CASE ~(Open(p) /\ p \notin touched)
  <2>1. UNCHANGED <<asked, queue, rendered, claim, answer, allowing, remote, hook, touched,
                    rechecking, checkmark, persisted, told, aborts, cancelled, dropped>>
    BY <1>3 DEF ClassifierAllows, remote
  <2> QED BY <2>1 DEF TypeOK, Asked, OnScreen, Sources, Withdrawn, ClassifierAllows,
                      remote, aborts
<1> QED BY <1>2, <1>3

\* The channel decides, or comes too late.
LEMMA ChannelAnswersInv ==
  ASSUME IInv, NEW p \in Prompts, NEW v \in Verdicts, ChannelAnswers(p, v)
  PROVE  IInv'
<1> USE DEF IInv
<1>1. p \in asked /\ "channel" \in Racers /\ v \in Verdicts
  BY DEF ChannelAnswers, TypeOK, Asked, Racers, Verdicts
<1>2. CASE Open(p)
  <2>1. Claims(p, "channel") /\ Answers(p, "channel", v) /\ Withdraw(p)
    BY <1>2 DEF ChannelAnswers
  <2>2. /\ claim' \in [Prompts -> Racers \cup {None}]
        /\ answer' \in [Prompts -> [by : Racers, says : Verdicts] \cup {None}]
        /\ claim'[p] = "channel" /\ "channel" # None
        /\ \A q \in Prompts \ {p} : claim'[q] = claim[q] /\ answer'[q] = answer[q]
    BY <1>1, <2>1, DecisionType
  <2>3. Trims(queue') /\ ToSet(queue') = ToSet(queue) \ {p}
    BY <2>1, QueueTrims, WithoutTrims DEF Withdraw
  <2>4. TypeOK'
    BY <1>1, <2>1, <2>2, <2>3 DEF TypeOK, Trims, ChannelAnswers, Withdraw, checks, aborts
  <2>5. Asked' /\ OnScreen(queue)'
    BY <1>1, <2>2, <2>3 DEF Asked, OnScreen, Trims, TypeOK, ChannelAnswers, checks
  <2>6. Sources'
    BY <1>1, <1>2, <2>1, DecisionSources DEF ChannelAnswers
  <2>7. Withdrawn'
    BY <2>1, <2>2, <2>3 DEF Withdrawn, Withdraw, ChannelAnswers, aborts
  <2> QED BY <2>4, <2>5, <2>6, <2>7
<1>3. CASE ~(Open(p))
  <2>1. /\ UNCHANGED <<asked, queue, rendered, claim, answer, allowing, pageShows,
                       checkmark, persisted, told, aborts, cancelled, dropped>>
        /\ channelOpen' \subseteq channelOpen
    BY <1>3 DEF ChannelAnswers
  <2>2. TypeOK' /\ Asked' /\ OnScreen(queue)'
    BY <2>1 DEF TypeOK, Asked, OnScreen, ChannelAnswers, checks, aborts
  <2> QED BY <2>1, <2>2 DEF Sources, Withdrawn, aborts
<1> QED BY <1>2, <1>3

\* A hook decides, or comes too late.
LEMMA HookClaimsInv ==
  ASSUME IInv, NEW p \in Prompts, HookClaims(p)
  PROVE  IInv'
<1> USE DEF IInv
<1>1. p \in asked /\ "hook" \in Racers /\ hook[p] \in Verdicts
  BY DEF HookClaims, TypeOK, Asked, Racers, Verdicts
<1>2. CASE Open(p)
  <2>1. Claims(p, "hook") /\ Answers(p, "hook", hook[p]) /\ Withdraw(p)
    BY <1>2 DEF HookClaims
  <2>2. /\ claim' \in [Prompts -> Racers \cup {None}]
        /\ answer' \in [Prompts -> [by : Racers, says : Verdicts] \cup {None}]
        /\ claim'[p] = "hook" /\ "hook" # None
        /\ \A q \in Prompts \ {p} : claim'[q] = claim[q] /\ answer'[q] = answer[q]
    BY <1>1, <2>1, DecisionType
  <2>3. Trims(queue') /\ ToSet(queue') = ToSet(queue) \ {p}
    BY <2>1, QueueTrims, WithoutTrims DEF Withdraw
  <2>4. TypeOK'
    BY <1>1, <2>1, <2>2, <2>3 DEF TypeOK, Trims, HookClaims, Withdraw, checks, aborts
  <2>5. Asked' /\ OnScreen(queue)'
    BY <1>1, <2>2, <2>3 DEF Asked, OnScreen, Trims, TypeOK, HookClaims, checks
  <2>6. Sources'
    BY <1>1, <1>2, <2>1, DecisionSources DEF HookClaims
  <2>7. Withdrawn'
    BY <2>1, <2>2, <2>3 DEF Withdrawn, Withdraw, HookClaims, aborts
  <2> QED BY <2>4, <2>5, <2>6, <2>7
<1>3. CASE ~(Open(p))
  <2>1. /\ UNCHANGED <<asked, queue, rendered, claim, answer, allowing, pageShows,
                       checkmark, persisted, told, aborts, cancelled, dropped>>
        /\ channelOpen' \subseteq channelOpen
    BY <1>3 DEF HookClaims
  <2>2. TypeOK' /\ Asked' /\ OnScreen(queue)'
    BY <1>1, <2>1 DEF TypeOK, Asked, OnScreen, HookClaims, checks, aborts
  <2> QED BY <2>1, <2>2 DEF Sources, Withdrawn, aborts
<1> QED BY <1>2, <1>3

\* The new rules decide, or come too late.
LEMMA RecheckedInv ==
  ASSUME IInv, NEW p \in Prompts, NEW allowed \in BOOLEAN, Rechecked(p, allowed)
  PROVE  IInv'
<1> USE DEF IInv
<1>1. p \in asked /\ "config" \in Racers /\ "allow" \in Verdicts
  BY DEF Rechecked, TypeOK, Asked, Racers, Verdicts
<1>2. CASE allowed /\ Open(p)
  <2>1. Claims(p, "config") /\ Answers(p, "config", "allow") /\ Withdraw(p)
    BY <1>2 DEF Rechecked
  <2>2. /\ claim' \in [Prompts -> Racers \cup {None}]
        /\ answer' \in [Prompts -> [by : Racers, says : Verdicts] \cup {None}]
        /\ claim'[p] = "config" /\ "config" # None
        /\ \A q \in Prompts \ {p} : claim'[q] = claim[q] /\ answer'[q] = answer[q]
    BY <1>1, <2>1, DecisionType
  <2>3. Trims(queue') /\ ToSet(queue') = ToSet(queue) \ {p}
    BY <2>1, QueueTrims, WithoutTrims DEF Withdraw
  <2>4. TypeOK'
    BY <1>1, <2>1, <2>2, <2>3 DEF TypeOK, Trims, Rechecked, Withdraw, checks, aborts
  <2>5. Asked' /\ OnScreen(queue)'
    BY <1>1, <2>2, <2>3 DEF Asked, OnScreen, Trims, TypeOK, Rechecked, checks
  <2>6. Sources'
    BY <1>1, <1>2, <2>1, DecisionSources DEF Rechecked
  <2>7. Withdrawn'
    BY <2>1, <2>2, <2>3 DEF Withdrawn, Withdraw, Rechecked, aborts
  <2> QED BY <2>4, <2>5, <2>6, <2>7
<1>3. CASE ~(allowed /\ Open(p))
  <2>1. /\ UNCHANGED <<asked, queue, rendered, claim, answer, allowing, pageShows,
                       checkmark, persisted, told, aborts, cancelled, dropped>>
        /\ channelOpen' \subseteq channelOpen
    BY <1>3 DEF Rechecked
  <2>2. TypeOK' /\ Asked' /\ OnScreen(queue)'
    BY <2>1 DEF TypeOK, Asked, OnScreen, Rechecked, checks, aborts
  <2> QED BY <2>1, <2>2 DEF Sources, Withdrawn, aborts
<1> QED BY <1>2, <1>3

\* A prompt opens: it comes last in the queue, and nobody has claimed it.
LEMMA AskInv ==
  ASSUME IInv, NEW p \in Prompts, Ask(p)
  PROVE  IInv'
<1> USE DEF IInv
<1>1. /\ p \notin asked /\ asked' = asked \cup {p} /\ queue' = Append(queue, p)
      /\ ~toolsAborted /\ Broadcast(p)
      /\ hook' = [hook EXCEPT ![p] = IF p \in Hooked THEN "running" ELSE @]
      /\ checking' = checking \cup ({p} \cap Classified)
      /\ UNCHANGED <<rendered, claim, answer, allowing, touched, rechecking,
                     checkmark, persisted, told, aborts, cancelled, dropped>>
  BY DEF Ask
<1>2. queue \in Seq(asked') /\ p \in asked'
  <2>1. asked \subseteq asked' /\ queue \in Seq(asked)
    BY <1>1 DEF TypeOK
  <2> QED BY <1>1, <2>1, SeqMonotonic
<1>3. ToSet(queue) \subseteq asked
  BY SetOfSeq DEF TypeOK
<1>4. /\ queue' \in Seq(asked') /\ ToSet(queue') = ToSet(queue) \cup {p}
      /\ IsInjective(queue')
  BY <1>1, <1>2, <1>3, AppendProperties, SetOfAppend, AppendIsInjective DEF OnScreen
<1>5. TypeOK'
  BY <1>1, <1>4 DEF TypeOK, Broadcast, aborts
<1>6. Asked'
  BY <1>1 DEF Asked, TypeOK
<1>7. OnScreen(queue)'
  <2>1. rendered # p
    BY <1>1, PermissionAssumption DEF Asked
  <2>2. ASSUME rendered \in ToSet(queue) PROVE rendered = Head(queue')
    <3>1. queue # << >> /\ rendered = Head(queue)
      BY <2>2 DEF ToSet, OnScreen
    <3> QED BY <1>1, <1>2, <3>1, HeadTailAppend
  <2> QED BY <1>1, <1>4, <2>1, <2>2 DEF OnScreen
<1>8. Sources'
  BY <1>1 DEF Sources
<1>9. Withdrawn'
  BY <1>1, <1>4 DEF Withdrawn, Asked, Broadcast, aborts
<1> QED BY <1>5, <1>6, <1>7, <1>8, <1>9

\* The head of the queue is rendered.
LEMMA RenderInv ==
  ASSUME IInv, Render
  PROVE  IInv'
<1> USE DEF IInv
<1>1. CASE queue = << >>
  <2>1. rendered' = None
    BY <1>1 DEF Render, FirstInQueue
  <2>2. ToSet(queue) = {}
    BY <1>1 DEF ToSet
  <2> QED BY <2>1, <2>2 DEF Render, TypeOK, Asked, OnScreen, Sources, Withdrawn, remote,
                           checks, aborts
<1>2. CASE queue # << >>
  <2>1. rendered' = Head(queue)
    BY <1>2 DEF Render, FirstInQueue
  <2>2. Head(queue) \in asked
    BY <1>2, HeadTailProperties DEF TypeOK
  <2> QED BY <2>1, <2>2 DEF Render, TypeOK, Asked, OnScreen, Sources, Withdrawn, remote,
                           checks, aborts
<1> QED BY <1>1, <1>2

\* What the dialog of p drops has been asked.
LEMMA DropsType ==
  ASSUME IInv, NEW p \in Prompts, Drops(p)
  PROVE  dropped' \subseteq asked
<1>1. queue # << >> => Head(queue) \in asked
  BY HeadTailProperties DEF IInv, TypeOK
<1> QED BY <1>1 DEF Drops, FirstInQueue, IInv, TypeOK

\* A key for a dialog whose prompt was decided.
LEMMA LateKeyInv ==
  ASSUME IInv, NEW p \in Prompts, LateKey(p)
  PROVE  IInv'
<1> USE DEF IInv
<1>1. Trims(queue')
  BY DoneTrims DEF LateKey
<1>2. dropped' \subseteq asked
  BY DropsType DEF LateKey
<1>3. TypeOK'
  BY <1>1, <1>2 DEF TypeOK, Trims, LateKey, remote, checks, aborts
<1>4. Asked' /\ OnScreen(queue)'
  BY <1>1 DEF Asked, OnScreen, Trims, LateKey, checks
<1>5. Sources' /\ Withdrawn'
  BY <1>1 DEF Sources, Withdrawn, Trims, LateKey, remote, aborts
<1> QED BY <1>3, <1>4, <1>5

\* The user allows: the prompt is claimed, the page told, the dialog gone, and the
\* decision on its way.
LEMMA UserAllowsInv ==
  ASSUME IInv, NEW p \in Prompts, NEW saves \in BOOLEAN, UserAllows(p, saves)
  PROVE  IInv'
<1> USE DEF IInv
<1>1. /\ rendered = p /\ Open(p) /\ p \in asked /\ "user" \in Racers /\ "user" # None
      /\ answer[p] = None /\ told[p] = None
      /\ persisted[p] \subseteq {"hook"}
  <2>1. rendered = p /\ Open(p)
    BY DEF UserAllows
  <2>2. "user" \in Racers /\ "user" # None /\ None \notin Racers /\ p # None
    BY PermissionAssumption DEF Racers
  <2>3. p \in asked
    BY <2>1, <2>2 DEF Asked
  <2>4. persisted[p] \subseteq Racers
    BY DEF TypeOK
  <2> QED BY <2>1, <2>2, <2>3, <2>4 DEF Open, Sources, Withdrawn
<1>2. Trims(queue') /\ p \notin ToSet(queue')
  BY <1>1, DoneTrims DEF UserAllows
<1>3. dropped' \subseteq asked
  BY DropsType DEF UserAllows
<1>4. /\ claim' \in [Prompts -> Racers \cup {None}] /\ claim'[p] = "user"
      /\ \A q \in Prompts \ {p} : claim'[q] = claim[q]
  BY <1>1 DEF UserAllows, Claims, TypeOK
<1>5. /\ told' \in [Prompts -> Verdicts \cup {None}] /\ told'[p] \in {None, "allow"}
      /\ \A q \in Prompts \ {p} : told'[q] = told[q]
  BY <1>1 DEF UserAllows, TellPage, TypeOK, Verdicts
<1>6. /\ persisted' \in [Prompts -> SUBSET Racers] /\ persisted'[p] \subseteq {"user", "hook"}
      /\ \A q \in Prompts \ {p} : persisted'[q] = persisted[q]
  BY <1>1 DEF UserAllows, Saves, TypeOK
<1>7. TypeOK'
  BY <1>1, <1>2, <1>3, <1>4, <1>5, <1>6
     DEF TypeOK, Trims, UserAllows, TellPage, checks, aborts
<1>8. Asked' /\ OnScreen(queue)'
  BY <1>1, <1>2, <1>4 DEF Asked, OnScreen, Trims, UserAllows, checks
<1>9. Sources'
  BY <1>1, <1>4, <1>5, <1>6 DEF Sources, UserAllows
<1>10. Withdrawn'
  BY <1>1, <1>2, <1>4 DEF Withdrawn, Trims, UserAllows, TellPage, aborts
<1> QED BY <1>7, <1>8, <1>9, <1>10

\* The dialog on the screen denies, on a key or because the turn is cancelled, and its
\* prompt leaves the queue with what q leaves out.
LEMMA DialogDenies ==
  ASSUME IInv, NEW p \in Prompts, rendered = p, Open(p),
         Claims(p, "user"), Answers(p, "user", "deny"), TellPage(p, "deny"),
         Trims(queue'), p \notin ToSet(queue'), dropped' \subseteq asked,
         cancelled' \in BOOLEAN,
         \/ channelOpen' = channelOpen \ {p} /\ UNCHANGED <<listening, checkmark, aborts>>
         \/ \E q : Trims(q) /\ AbortFromTool(q),
         UNCHANGED <<asked, rendered, allowing, checks, persisted>>
  PROVE  IInv'
<1> USE DEF IInv
<1>1. /\ p \in asked /\ "user" \in Racers /\ "deny" \in Verdicts
  BY PermissionAssumption DEF Asked, Racers, Verdicts
<1>2. /\ claim' \in [Prompts -> Racers \cup {None}]
      /\ answer' \in [Prompts -> [by : Racers, says : Verdicts] \cup {None}]
      /\ claim'[p] = "user" /\ "user" # None
      /\ \A q \in Prompts \ {p} : claim'[q] = claim[q] /\ answer'[q] = answer[q]
  BY <1>1, DecisionType
<1>3. /\ told' \in [Prompts -> Verdicts \cup {None}] /\ told'[p] \in {told[p], "deny"}
      /\ \A q \in Prompts \ {p} : told'[q] = told[q]
  BY <1>1 DEF TellPage, TypeOK
<1>4. /\ channelOpen' \subseteq channelOpen \ {p}
      /\ listening' \subseteq listening /\ checkmark' \subseteq checkmark
      /\ \A x \in ToSet(queue') : x \in checkmark => x \in checkmark'
      /\ toolsAborted' \in BOOLEAN /\ turnAborted' \in BOOLEAN
      /\ toolsAborted' => channelOpen' = {}
  <2>1. CASE channelOpen' = channelOpen \ {p} /\ UNCHANGED <<listening, checkmark, aborts>>
    BY <2>1 DEF aborts, Withdrawn, TypeOK
  <2>2. CASE \E q : Trims(q) /\ AbortFromTool(q)
    <3>1. PICK q : Trims(q) /\ AbortFromTool(q)
      BY <2>2
    <3>2. /\ channelOpen' = {} /\ toolsAborted' = TRUE
          /\ turnAborted' \in {turnAborted, TRUE}
          /\ listening' \subseteq listening /\ checkmark' \subseteq checkmark
          /\ \A x \in ToSet(queue') : x \in checkmark => x \in checkmark'
      BY <3>1, AbortTrims
    <3>3. turnAborted \in BOOLEAN
      BY DEF TypeOK
    <3> QED BY <3>2, <3>3
  <2> QED BY <2>1, <2>2
<1>5. TypeOK'
  BY <1>1, <1>2, <1>3, <1>4 DEF TypeOK, Trims, TellPage, checks
<1>6. Asked' /\ OnScreen(queue)'
  BY <1>1, <1>2 DEF Asked, OnScreen, Trims, checks
<1>7. Sources'
  BY <1>1, <1>3, DecisionSources
<1>8. Withdrawn'
  BY <1>2, <1>4 DEF Withdrawn, Trims, TellPage
<1> QED BY <1>5, <1>6, <1>7, <1>8

\* The user rejects, with a word to the model or without.
LEMMA UserRejectsInv ==
  ASSUME IInv, NEW p \in Prompts, NEW feedback \in BOOLEAN, UserRejects(p, feedback)
  PROVE  IInv'
<1>1. /\ rendered = p /\ Open(p) /\ Claims(p, "user") /\ Answers(p, "user", "deny")
      /\ TellPage(p, "deny") /\ cancelled' \in BOOLEAN
      /\ UNCHANGED <<asked, rendered, allowing, checks, persisted>>
  BY DEF UserRejects, IInv, TypeOK
<1>2. dropped' \subseteq asked
  BY DropsType DEF UserRejects
<1>3. Trims(Done(queue)) /\ p \notin ToSet(Done(queue))
  BY <1>1, DoneTrims
<1>4. CASE feedback
  <2>1. /\ queue' = Done(queue) /\ channelOpen' = channelOpen \ {p}
        /\ UNCHANGED <<listening, checkmark, aborts>>
    BY <1>4 DEF UserRejects
  <2> QED BY <1>1, <1>2, <1>3, <2>1, DialogDenies
<1>5. CASE ~feedback
  <2>1. AbortFromTool(Done(queue))
    BY <1>5 DEF UserRejects
  <2>2. Trims(queue') /\ p \notin ToSet(queue')
    BY <1>3, <2>1, AbortTrims
  <2> QED BY <1>1, <1>2, <1>3, <2>1, <2>2, DialogDenies
<1> QED BY <1>4, <1>5

\* Signals that come from outside close the channels and take no prompt's claim.
LEMMA SignalInv ==
  ASSUME IInv, NEW q, Trims(q), SignalAborts(q), toolsAborted' = TRUE,
         turnAborted' \in BOOLEAN, cancelled' \in BOOLEAN, dropped' \subseteq asked,
         UNCHANGED <<asked, rendered, claim, answer, allowing, pageShows, checks,
                     persisted, told>>
  PROVE  IInv'
<1> USE DEF IInv
<1>1. /\ Trims(queue') /\ channelOpen' = {} /\ listening' = {} /\ checkmark' = {}
      /\ ToSet(queue') = ToSet(q) \ checkmark
  BY SignalTrims
<1>2. TypeOK'
  BY <1>1 DEF TypeOK, Trims, checks
<1>3. Asked' /\ OnScreen(queue)' /\ Sources'
  BY <1>1 DEF Asked, OnScreen, Trims, Sources, checks
<1>4. Withdrawn'
  BY <1>1 DEF Withdrawn, Trims
<1> QED BY <1>2, <1>3, <1>4

\* onCancel: the dialog on the screen is told to abort; without one the turn aborts.
LEMMA CancelInv ==
  ASSUME IInv, Cancel
  PROVE  IInv'
<1>1. /\ cancelled' = TRUE /\ UNCHANGED <<asked, rendered, allowing, checks, persisted>>
      /\ dropped' = dropped \cup {q \in ToSet(queue) : Open(q) /\ q # rendered}
  BY DEF Cancel
<1>2. dropped' \subseteq asked
  BY <1>1, SetOfSeq DEF IInv, TypeOK
<1>3. Trims(<< >>) /\ ToSet(<< >>) = {}
  BY QueueTrims DEF ToSet
<1>4. CASE /\ turnAborted' = TRUE /\ toolsAborted' = TRUE
           /\ SignalAborts(<< >>)
           /\ UNCHANGED <<claim, answer, pageShows, told>>
  BY <1>1, <1>2, <1>3, <1>4, SignalInv
<1>5. CASE /\ rendered # None /\ Open(rendered)
           /\ Claims(rendered, "user")
           /\ Answers(rendered, "user", "deny")
           /\ TellPage(rendered, "deny")
           /\ AbortFromTool(<< >>)
  <2>1. rendered \in Prompts
    BY <1>5 DEF IInv, TypeOK
  <2>2. Trims(queue') /\ rendered \notin ToSet(queue')
    BY <1>3, <1>5, AbortTrims
  <2> QED BY <1>1, <1>2, <1>3, <1>5, <2>1, <2>2, DialogDenies
<1>6. CASE /\ queue' = << >>
           /\ UNCHANGED <<claim, answer, remote, checkmark, told, aborts>>
  <2>1. TypeOK'
    BY <1>1, <1>2, <1>3, <1>6 DEF IInv, TypeOK, Trims, checks, remote, aborts
  <2>2. Asked' /\ OnScreen(queue)' /\ Sources' /\ Withdrawn'
    BY <1>1, <1>3, <1>6
       DEF IInv, Asked, OnScreen, Trims, Sources, Withdrawn, checks, remote, aborts
  <2> QED BY <2>1, <2>2 DEF IInv
<1> QED BY <1>4, <1>5, <1>6 DEF Cancel

\* A failed sibling and the web page's interrupt are such signals.
LEMMA OutsideInv ==
  ASSUME IInv, SiblingError \/ RemoteInterrupt
  PROVE  IInv'
<1>1. Trims(queue)
  BY QueueTrims
<1>2. /\ SignalAborts(queue) /\ toolsAborted' = TRUE /\ turnAborted' \in BOOLEAN
      /\ cancelled' \in BOOLEAN /\ dropped' \subseteq asked
      /\ UNCHANGED <<asked, rendered, claim, answer, allowing, pageShows, checks,
                     persisted, told>>
  BY DEF SiblingError, RemoteInterrupt, IInv, TypeOK
<1> QED BY <1>1, <1>2, SignalInv

\* The hook's verdict: rules are saved in its name, and it may interrupt the turn.
LEMMA HookDecidesInv ==
  ASSUME IInv, NEW p \in Prompts, NEW v \in Verdicts, NEW saves \in BOOLEAN,
         NEW interrupts \in BOOLEAN, HookDecides(p, v, saves, interrupts)
  PROVE  IInv'
<1> USE DEF IInv
<1>1. /\ hook[p] = "running" /\ hook' = [hook EXCEPT ![p] = v] /\ p \in asked
      /\ Saves(p, "hook", v = "allow" /\ saves)
      /\ UNCHANGED <<asked, rendered, claim, answer, allowing, pageShows, checking,
                     touched, rechecking, told, cancelled, dropped>>
  BY DEF HookDecides, Asked
<1>2. /\ Trims(queue') /\ ToSet(queue') \subseteq ToSet(queue)
      /\ channelOpen' \subseteq channelOpen
      /\ listening' \subseteq listening /\ checkmark' \subseteq checkmark
      /\ \A x \in ToSet(queue') : x \in checkmark => x \in checkmark'
      /\ toolsAborted' \in BOOLEAN /\ turnAborted' \in BOOLEAN
      /\ toolsAborted' => channelOpen' = {}
  <2>1. CASE AbortFromTool(queue)
    <3>1. /\ Trims(queue') /\ ToSet(queue') \subseteq ToSet(queue)
          /\ channelOpen' = {} /\ toolsAborted' = TRUE
          /\ turnAborted' \in {turnAborted, TRUE}
          /\ listening' \subseteq listening /\ checkmark' \subseteq checkmark
          /\ \A x \in ToSet(queue') : x \in checkmark => x \in checkmark'
      BY <2>1, QueueTrims, AbortTrims
    <3>2. turnAborted \in BOOLEAN
      BY DEF TypeOK
    <3> QED BY <3>1, <3>2
  <2>2. CASE UNCHANGED <<queue, listening, channelOpen, checkmark, aborts>>
    BY <2>2, QueueTrims DEF Trims, OnScreen, TypeOK, Withdrawn, aborts, HookDecides
  <2> QED BY <2>1, <2>2 DEF HookDecides
<1>3. /\ persisted' \in [Prompts -> SUBSET Racers]
      /\ \A q \in Prompts : persisted'[q] \subseteq persisted[q] \cup {"hook"}
  BY <1>1 DEF Saves, TypeOK, Racers
<1>4. TypeOK'
  BY <1>1, <1>2, <1>3 DEF TypeOK, Trims
<1>5. Asked' /\ OnScreen(queue)'
  BY <1>1, <1>2 DEF Asked, OnScreen, Trims, TypeOK
<1>6. Sources'
  BY <1>1, <1>3 DEF Sources
<1>7. Withdrawn'
  BY <1>1, <1>2 DEF Withdrawn
<1> QED BY <1>4, <1>5, <1>6, <1>7

\* The web page decides, or comes too late; a denial without a word aborts the turn.
LEMMA BridgeAnswersInv ==
  ASSUME IInv, NEW p \in Prompts, NEW v \in Verdicts, NEW saves \in BOOLEAN,
         NEW feedback \in BOOLEAN, BridgeAnswers(p, v, saves, feedback)
  PROVE  IInv'
<1> USE DEF IInv
<1>1. p \in asked /\ "bridge" \in Racers
  BY DEF BridgeAnswers, TypeOK, Racers
<1>2. CASE Open(p)
  <2>1. /\ Claims(p, "bridge") /\ Answers(p, "bridge", v)
        /\ Saves(p, "bridge", v = "allow" /\ saves)
        /\ pageShows' = pageShows \ {p}
        /\ UNCHANGED <<asked, rendered, allowing, checks, told, cancelled, dropped>>
    BY <1>2 DEF BridgeAnswers
  <2>2. /\ claim' \in [Prompts -> Racers \cup {None}]
        /\ answer' \in [Prompts -> [by : Racers, says : Verdicts] \cup {None}]
        /\ claim'[p] = "bridge" /\ "bridge" # None
        /\ \A q \in Prompts \ {p} : claim'[q] = claim[q] /\ answer'[q] = answer[q]
    BY <1>1, <2>1, DecisionType
  <2>3. Trims(Without(queue, {p})) /\ ToSet(Without(queue, {p})) = ToSet(queue) \ {p}
    BY QueueTrims, WithoutTrims
  <2>4. /\ Trims(queue') /\ p \notin ToSet(queue')
        /\ channelOpen' \subseteq channelOpen \ {p}
        /\ listening' \subseteq listening /\ checkmark' \subseteq checkmark
        /\ \A x \in ToSet(queue') : x \in checkmark => x \in checkmark'
        /\ toolsAborted' \in BOOLEAN /\ turnAborted' \in BOOLEAN
        /\ toolsAborted' => channelOpen' = {}
    <3>1. CASE v = "allow" \/ feedback
      <4>1. /\ queue' = Without(queue, {p}) /\ listening' = listening \ {p}
            /\ channelOpen' = channelOpen \ {p} /\ UNCHANGED <<checkmark, aborts>>
        BY <1>2, <3>1 DEF BridgeAnswers
      <4> QED BY <2>3, <4>1 DEF TypeOK, Withdrawn, aborts
    <3>2. CASE ~(v = "allow" \/ feedback)
      <4>1. AbortFromTool(Without(queue, {p}))
        BY <1>2, <3>2 DEF BridgeAnswers
      <4>2. /\ Trims(queue') /\ ToSet(queue') \subseteq ToSet(Without(queue, {p}))
            /\ channelOpen' = {} /\ toolsAborted' = TRUE
            /\ turnAborted' \in {turnAborted, TRUE}
            /\ listening' \subseteq listening /\ checkmark' \subseteq checkmark
            /\ \A x \in ToSet(queue') : x \in checkmark => x \in checkmark'
        BY <2>3, <4>1, AbortTrims
      <4>3. turnAborted \in BOOLEAN
        BY DEF TypeOK
      <4> QED BY <2>3, <4>2, <4>3
    <3> QED BY <3>1, <3>2
  <2>5. /\ persisted' \in [Prompts -> SUBSET Racers]
        /\ persisted'[p] \subseteq persisted[p] \cup {"bridge"}
        /\ \A q \in Prompts \ {p} : persisted'[q] = persisted[q]
    BY <1>1, <2>1 DEF Saves, TypeOK
  <2>6. TypeOK'
    BY <2>1, <2>2, <2>4, <2>5 DEF TypeOK, Trims, checks
  <2>7. Asked' /\ OnScreen(queue)'
    BY <1>1, <2>1, <2>2, <2>4 DEF Asked, OnScreen, Trims, checks
  <2>8. Sources'
    BY <1>1, <1>2, <2>1, <2>5, DecisionSources
  <2>9. Withdrawn'
    BY <2>1, <2>2, <2>4 DEF Withdrawn, Trims
  <2> QED BY <2>6, <2>7, <2>8, <2>9
<1>3. CASE ~Open(p)
  <2>1. /\ UNCHANGED <<asked, queue, rendered, claim, answer, allowing, pageShows, channelOpen,
                       checks, checkmark, persisted, told, aborts, cancelled, dropped>>
        /\ listening' \subseteq listening
    BY <1>3 DEF BridgeAnswers
  <2>2. TypeOK' /\ Asked' /\ OnScreen(queue)'
    BY <2>1 DEF TypeOK, Asked, OnScreen, checks, aborts
  <2> QED BY <2>1, <2>2 DEF Sources, Withdrawn, aborts
<1> QED BY <1>2, <1>3

-----------------------------------------------------------------------------
(* The theorems.                                                           *)

\* Every step keeps the invariant.
LEMMA Inductive == IInv /\ [Next]_vars => IInv'
<1> SUFFICES ASSUME IInv, [Next]_vars PROVE IInv'
  OBVIOUS
<1>1. ASSUME NEW p \in Prompts, Ask(p) \/ Interact(p) \/ UserDecides(p) \/ UserAllowed(p)
                                \/ LateKey(p) \/ Dismiss(p)
      PROVE  IInv'
  BY <1>1, AskInv, InteractInv, UserAllowsInv, UserRejectsInv, UserAllowedInv, LateKeyInv,
     DismissInv DEF UserDecides
<1>2. ASSUME NEW p \in Prompts,
             \/ \E v \in Verdicts, s, f \in BOOLEAN : BridgeAnswers(p, v, s, f)
             \/ \E v \in Verdicts : ChannelAnswers(p, v)
      PROVE  IInv'
  BY <1>2, BridgeAnswersInv, ChannelAnswersInv
<1>3. ASSUME NEW p \in Prompts, Hook(p) \/ HookClaims(p)
      PROVE  IInv'
  BY <1>3, HookDecidesInv, HookPassesInv, HookClaimsInv DEF Hook
<1>4. ASSUME NEW p \in Prompts, Classifier(p) \/ CheckmarkExpires(p) \/ Recheck(p)
      PROVE  IInv'
  BY <1>4, ClassifierAllowsInv, ClassifierPassesInv, CheckmarkExpiresInv, RecheckedInv
     DEF Classifier, Recheck
<1>5. CASE Render \/ Cancel \/ RecheckAll \/ SiblingError \/ RemoteInterrupt
  BY <1>5, RenderInv, CancelInv, RecheckAllInv, OutsideInv
<1>6. CASE UNCHANGED vars
  BY <1>6 DEF vars, remote, checks, aborts, IInv, TypeOK, Asked, OnScreen, Sources, Withdrawn
<1> QED BY <1>1, <1>2, <1>3, <1>4, <1>5, <1>6 DEF Next

\* The inductive invariant holds in every state.
THEOREM InvHolds == Spec => []IInv
BY InitInv, Inductive, PTL DEF Spec

\* Whatever happens in the name of a prompt, its decision, the rules saved for it and
\* what the page is told, comes from the racer whose claim() of createResolveOnce() won.
THEOREM OneSourceHolds == Spec => []OneSource
<1>1. IInv => OneSource
  BY DEF IInv, Sources, OneSource
<1> QED BY <1>1, InvHolds, PTL

\* A decided prompt is shown nowhere, but for the mark of the classifier.
THEOREM LosersWithdrawnHolds == Spec => []LosersWithdrawn
<1>1. IInv => LosersWithdrawn
  BY DEF IInv, Withdrawn, LosersWithdrawn
<1> QED BY <1>1, InvHolds, PTL

\* No claim and no decision is ever taken back.
Kept(p) == /\ claim[p] # None => claim'[p] = claim[p]
           /\ answer[p] # None => answer'[p] = answer[p]

LEMMA StepKeeps == IInv /\ [Next]_vars => \A p \in Prompts : Kept(p)
<1> SUFFICES ASSUME IInv, [Next]_vars PROVE \A p \in Prompts : Kept(p)
  OBVIOUS
<1> USE DEF Kept, Open, Claims, Answers
<1>1. /\ claim \in [Prompts -> Racers \cup {None}]
      /\ answer \in [Prompts -> [by : Racers, says : Verdicts] \cup {None}]
      /\ rendered \in Prompts \cup {None}
      /\ \A p \in Prompts : claim[p] = None => answer[p] = None
      /\ \A p \in allowing : p \in Prompts => answer[p] = None
  BY DEF IInv, TypeOK, Sources, Withdrawn
<1>2. ASSUME UNCHANGED <<claim, answer>>
      PROVE  \A p \in Prompts : Kept(p)
  BY <1>2
<1>3. ASSUME NEW q \in Prompts, NEW r, NEW v, Open(q), Claims(q, r), Answers(q, r, v)
      PROVE  \A p \in Prompts : Kept(p)
  BY <1>1, <1>3
<1>4. ASSUME NEW q \in Prompts, NEW s, UserAllows(q, s)
      PROVE  \A p \in Prompts : Kept(p)
  BY <1>1, <1>4 DEF UserAllows
<1>5. ASSUME NEW q \in Prompts, UserAllowed(q)
      PROVE  \A p \in Prompts : Kept(p)
  BY <1>1, <1>5 DEF UserAllowed
<1>6. ASSUME NEW q \in Prompts, Ask(q) \/ Interact(q) \/ LateKey(q) \/ Dismiss(q)
                                \/ CheckmarkExpires(q)
      PROVE  \A p \in Prompts : Kept(p)
  BY <1>2, <1>6 DEF Ask, Interact, LateKey, Dismiss, CheckmarkExpires
<1>7. ASSUME NEW q \in Prompts, NEW f, UserRejects(q, f)
      PROVE  \A p \in Prompts : Kept(p)
  BY <1>3, <1>7 DEF UserRejects
<1>8. ASSUME NEW q \in Prompts, NEW v, NEW s, NEW f, BridgeAnswers(q, v, s, f)
      PROVE  \A p \in Prompts : Kept(p)
  BY <1>2, <1>3, <1>8 DEF BridgeAnswers
<1>9. ASSUME NEW q \in Prompts, NEW v, ChannelAnswers(q, v)
      PROVE  \A p \in Prompts : Kept(p)
  BY <1>2, <1>3, <1>9 DEF ChannelAnswers
<1>10. ASSUME NEW q \in Prompts, Hook(q) \/ HookClaims(q)
       PROVE  \A p \in Prompts : Kept(p)
  BY <1>2, <1>3, <1>10 DEF Hook, HookDecides, HookPasses, HookClaims
<1>11. ASSUME NEW q \in Prompts, Classifier(q) \/ Recheck(q)
       PROVE  \A p \in Prompts : Kept(p)
  BY <1>2, <1>3, <1>11 DEF Classifier, ClassifierAllows, ClassifierPasses, Recheck, Rechecked
<1>12. CASE Cancel
  <2>1. CASE UNCHANGED <<claim, answer>>
    BY <1>2, <2>1
  <2>2. CASE rendered # None /\ Open(rendered) /\ Claims(rendered, "user")
             /\ Answers(rendered, "user", "deny")
    BY <1>1, <1>3, <2>2
  <2> QED BY <1>12, <2>1, <2>2 DEF Cancel
<1>13. CASE Render \/ RecheckAll \/ SiblingError \/ RemoteInterrupt
  BY <1>2, <1>13 DEF Render, RecheckAll, SiblingError, RemoteInterrupt
<1>14. CASE UNCHANGED vars
  BY <1>2, <1>14 DEF vars
<1> QED BY <1>4, <1>5, <1>6, <1>7, <1>8, <1>9, <1>10, <1>11, <1>12, <1>13, <1>14
           DEF Next, UserDecides

\* Once a racer has claimed a prompt it stays the one that did, and once the promise of
\* the prompt was resolved it is not resolved again.
THEOREM DecidedOnce ==
    Spec => [][\A p \in Prompts : Kept(p)]_vars
BY InvHolds, StepKeeps, PTL DEF Spec
===============================================================================
