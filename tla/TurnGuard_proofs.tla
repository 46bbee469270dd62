---------------------------- MODULE TurnGuard_proofs ----------------------------
(***************************************************************************)
(* What holds of the turn guard for any number of chains, commands and     *)
(* cancellations: one query has the turn, commands are lost in three ways  *)
(* and no other, and none starts a turn twice.                             *)
(***************************************************************************)
EXTENDS TurnGuard, OrderLemmas

(***************************************************************************)
(* The inductive invariant.  That one query has the turn is inductive      *)
(* because no chain has a generation above that of the guard.  The other   *)
(* two need to know where a command cannot be: what has not arrived is     *)
(* nowhere, what a query has drained is attached before it is removed, and *)
(* a chain carries nothing twice (its commands may go back to the queue).  *)
(* What is handled without a turn is local commands, because a chain       *)
(* carries such a command alone.                                           *)
(***************************************************************************)
Turn ==
  /\ status = "running" <=> \E c \in Chains : InQuery(c) /\ gen[c] = generation
  /\ \A c, d \in Chains : InQuery(c) /\ InQuery(d) /\ gen[c] = gen[d] => c = d

Somewhere == arrived \subseteq ToSet(queue) \cup Carried \cup Done \cup Lost

Kept == Somewhere /\ \A c \in Chains : snap[c] \subseteq attached

\* A chain that has a local command to process has no other kind.
Pure(commands) ==
  /\ commands # << >>
  /\ ToSet(commands) \subseteq Slash \/ ToSet(commands) \cap (Slash \ requeued) = {}

Sorted ==
  /\ lost.refused \subseteq Meta /\ settled \subseteq Slash
  /\ \A c \in Preparing : Pure(batch[c])

Known ==
  /\ ToSet(queue) \cup Carried \cup ToSet(transcript) \subseteq arrived
  /\ \A c \in Chains : snap[c] \subseteq arrived

Once == StartedOnce /\ \A c \in Preparing : IsInjective(batch[c])

IInv == TypeOK /\ Turn /\ Kept /\ Known /\ Once /\ Sorted

\* Nothing has happened yet.
LEMMA InitInv == Init => IInv
<1> SUFFICES ASSUME Init PROVE IInv
  OBVIOUS
<1> USE DEF Init
<1>1. TypeOK
  BY TurnGuardAssumption, EmptySeq DEF TypeOK
<1>2. Turn
  BY DEF Turn, InQuery
<1>3. Preparing = {} /\ ToSet(<< >>) = {} /\ DOMAIN << >> = {}
  BY DEF Preparing, ToSet
<1>4. Kept /\ Known /\ Once /\ Sorted
  BY <1>3 DEF Kept, Known, Once, Somewhere, Carried, Done, StartedOnce, Sorted
<1> QED BY <1>1, <1>2, <1>4 DEF IInv

-----------------------------------------------------------------------------
(* The types of the variables.                                             *)

\* A command is queued, or a chain begins with it.
LEMMA SubmitType ==
  ASSUME TypeOK, NEW k \in Commands, Submit(k)
  PROVE  TypeOK'
<1> USE DEF TypeOK, Submit, guard, chain, places
<1>1. Append(queue, k) \in Seq(Commands)
  BY AppendProperties
<1>2. <<k>> \in Seq(Commands)
  BY SetOfOne
<1>3. CASE status # "idle"
  BY <1>1, <1>3
<1>4. ASSUME status = "idle", NEW c \in Chains, ExecuteUserInput(c, <<k>>), UNCHANGED queue
      PROVE  TypeOK'
  BY <1>2, <1>4 DEF ExecuteUserInput, Holds, Reserved
<1> QED BY <1>3, <1>4

\* A teammate's message has a chain and the turn at once.
LEMMA IncomingType ==
  ASSUME TypeOK, NEW k \in Commands, Incoming(k)
  PROVE  TypeOK'
<1> USE DEF TypeOK, Incoming, guard, chain, places
<1>2. <<k>> \in Seq(Commands)
  BY SetOfOne
<1>3. PICK c \in Chains : Holds(c, <<k>>) /\ TryStart(c) /\ pc' = [pc EXCEPT ![c] = "querying"]
           /\ direct' = direct \cup {c}
  OBVIOUS
<1>4. batch' \in [Chains -> Seq(Commands)] /\ batch'[c] = <<k>>
  BY <1>2, <1>3 DEF Holds
<1>5. transcript' \in Seq(Commands)
  BY <1>2, <1>3, <1>4, ConcatProperties DEF TryStart
<1>6. generation' \in Nat /\ gen' \in [Chains -> 0..generation']
  BY <1>3 DEF TryStart
<1> QED BY <1>3, <1>4, <1>5, <1>6 DEF TryStart, Holds

\* Esc: the generation grows.
LEMMA CancelType ==
  ASSUME TypeOK, Cancel
  PROVE  TypeOK'
BY TurnGuardAssumption DEF TypeOK, Cancel, ForceEnd, guard, chain, places

\* Two parts of the queue are sequences of commands.
LEMMA ProcessQueueType ==
  ASSUME TypeOK, ProcessQueue
  PROVE  TypeOK'
<1>1. Subsequence(queue, {k \in Commands : Goes(k)}) \in Seq(Commands)
  BY SubsequenceType DEF TypeOK
<1>2. Subsequence(queue, {k \in Commands : Stays(k)}) \in Seq(Commands)
  BY SubsequenceType DEF TypeOK
<1>3. PICK c \in Chains : ExecuteUserInput(c, Subsequence(queue, {k \in Commands : Goes(k)}))
  BY DEF ProcessQueue
<1>4. batch' \in [Chains -> Seq(Commands)]
  BY <1>1, <1>3 DEF TypeOK, ExecuteUserInput, Holds
<1>5. queue' \in Seq(Commands)
  BY <1>2 DEF ProcessQueue
<1> QED BY <1>3, <1>4, <1>5 DEF TypeOK, ProcessQueue, ExecuteUserInput, Holds, Reserved, places

\* A notification is queued.
LEMMA NotifyType ==
  ASSUME TypeOK, NEW k \in Commands, Notify(k)
  PROVE  TypeOK'
<1>1. Append(queue, k) \in Seq(Commands)
  BY AppendProperties DEF TypeOK
<1> QED BY <1>1 DEF TypeOK, Notify, guard, chain, places

\* What is editable goes to the input box.
LEMMA PopAllEditableType ==
  ASSUME TypeOK, PopAllEditable
  PROVE  TypeOK'
<1> USE DEF TypeOK, guard, chain
<1>1. Subsequence(queue, {j \in Commands : ~IsEditable(j)}) \in Seq(Commands)
  BY SubsequenceType
<1>2. input' \subseteq Commands
  BY SetOfSeq DEF PopAllEditable
<1> QED BY <1>1, <1>2 DEF PopAllEditable

\* One notification is left in the queue.
LEMMA KillAgentsType ==
  ASSUME TypeOK, KillAgents
  PROVE  TypeOK'
<1> USE DEF TypeOK, guard, chain
<1>1. PICK n \in Notifications \ arrived : queue' = <<n>> /\ arrived' = arrived \cup {n}
  BY DEF KillAgents
<1>2. n \in Commands
  BY TurnGuardAssumption
<1>3. ToSet(queue) \subseteq Commands
  BY SetOfSeq
<1>4. queue' \in Seq(Commands)
  BY <1>1, <1>2, SetOfOne
<1> QED BY <1>1, <1>2, <1>3, <1>4 DEF KillAgents

\* A chain leaves without a query, with one, or beside another one.
LEMMA PreparedType ==
  ASSUME TypeOK, NEW c \in Chains, Prepared(c)
  PROVE  TypeOK'
<1> USE DEF TypeOK, guard, chain, places
<1>1. batch[c] \in Seq(Commands) /\ ToSet(batch[c]) \subseteq Commands /\ << >> \in Seq(Commands)
  BY SetOfSeq, EmptySeq
<1>2. CASE HasNoMessages(c) \/ Throws(c)
  <2>1. LeavesWithoutQuery(c) /\ controller' \in {None, controller}
    BY <1>2 DEF HasNoMessages, Throws
  <2>2. settled' \subseteq Commands
    BY <1>1, <1>2 DEF HasNoMessages, Throws
  <2>3. lost' \in [thrown : SUBSET Commands, refused : SUBSET Commands, cleared : SUBSET Commands]
    BY <1>1, <1>2 DEF HasNoMessages, Throws
  <2> QED BY <1>1, <2>1, <2>2, <2>3 DEF LeavesWithoutQuery, Frees, ReservationCancelled
<1>3. CASE OnQueryStarts(c)
  <2>1. generation' \in Nat /\ gen' \in [Chains -> 0..generation']
    BY <1>3 DEF OnQueryStarts, TryStart
  <2>2. transcript' \in Seq(Commands)
    BY <1>1, <1>3, ConcatProperties DEF OnQueryStarts, TryStart
  <2> QED BY <1>3, <2>1, <2>2 DEF OnQueryStarts, TryStart
<1>4. CASE OnQueryIsConcurrent(c)
  <2>1. Subsequence(batch[c], Commands \ Meta) \in Seq(Commands)
    BY <1>1, SubsequenceType
  <2>2. queue' \in Seq(Commands)
    BY <1>4, <2>1, ConcatProperties DEF OnQueryIsConcurrent
  <2>3. snap' \in [Chains -> SUBSET Commands] /\ batch' \in [Chains -> Seq(Commands)]
    BY <1>1, <1>4 DEF OnQueryIsConcurrent
  <2> QED BY <1>1, <1>4, <2>2, <2>3 DEF OnQueryIsConcurrent
<1> QED BY <1>2, <1>3, <1>4 DEF Prepared

\* The steps of a query.
LEMMA QueryType ==
  ASSUME TypeOK, NEW c \in Chains, DrainReads(c) \/ DrainRemoves(c) \/ QueryEnds(c)
  PROVE  TypeOK'
<1> USE DEF TypeOK, guard, places
<1>1. CASE DrainReads(c)
  <2>1. ToSet(queue) \subseteq Commands
    BY SetOfSeq
  <2>2. PICK taken \in SUBSET ToSet(queue) :
             snap' = [snap EXCEPT ![c] = taken] /\ attached' = attached \cup taken
    BY <1>1 DEF DrainReads
  <2> QED BY <1>1, <2>1, <2>2 DEF DrainReads
<1>2. CASE DrainRemoves(c)
  <2>1. Subsequence(queue, Commands \ snap[c]) \in Seq(Commands)
    BY SubsequenceType
  <2> QED BY <1>2, <2>1 DEF DrainRemoves
<1>3. CASE QueryEnds(c)
  BY <1>3 DEF QueryEnds
<1> QED BY <1>1, <1>2, <1>3

\* The end of a chain, which may rewind the transcript.
LEMMA ReturnsType ==
  ASSUME TypeOK, NEW c \in Chains, Returns(c)
  PROVE  TypeOK'
<1> USE DEF TypeOK, places
<1>1. transcript' \in Seq(Commands) /\ input' \subseteq Commands
  <2>1. CASE Restores(c)
    <3>1. transcript # << >> /\ transcript' = Front(transcript) /\ input' = {Last(transcript)}
      BY <2>1 DEF Restores
    <3>2. Front(transcript) \in Seq(Commands) /\ Last(transcript) \in Commands
      BY <3>1, SetOfFront
    <3> QED BY <3>1, <3>2
  <2>2. CASE UNCHANGED places
    BY <2>2
  <2> QED BY <2>1, <2>2 DEF Returns
<1>2. {attached', settled', requeued', arrived'} \subseteq SUBSET Commands /\ lost' = lost
  BY DEF Returns, Restores
<1> QED BY <1>1, <1>2, EmptySeq DEF Returns, Frees, ReservationCancelled

-----------------------------------------------------------------------------
(* One turn at a time.                                                     *)

\* A chain that begins to prepare its input has no turn and takes none away.
LEMMA NewChainTurn ==
  ASSUME TypeOK, Turn, NEW c \in Chains, NEW commands, ExecuteUserInput(c, commands)
  PROVE  Turn'
BY DEF TypeOK, Turn, ExecuteUserInput, Holds, NewChain, Reserved, InQuery

\* A chain gets the turn when no query is running: its generation is new.
LEMMA TryStartTurn ==
  ASSUME TypeOK, Turn, NEW c \in Chains, status # "running", ~InQuery(c),
         TryStart(c), pc' = [pc EXCEPT ![c] = "querying"]
  PROVE  Turn'
<1> USE DEF TypeOK, TryStart, InQuery
<1>1. \A d \in Chains : InQuery(d)' <=> InQuery(d) \/ d = c
  OBVIOUS
<1>2. \A d \in Chains : gen'[d] = generation' <=> d = c
  OBVIOUS
<1>3. \A d \in Chains : d # c => gen'[d] = gen[d]
  OBVIOUS
<1>4. status' = "running"
  OBVIOUS
<1> QED BY <1>1, <1>2, <1>3, <1>4 DEF Turn

\* A chain outside a query moves on; at most a reservation is freed.
LEMMA OutsideTurn ==
  ASSUME TypeOK, Turn, NEW c \in Chains, ~InQuery(c),
         status' \in {status, ReservationCancelled}, UNCHANGED generation,
         \A d \in Chains \ {c} : pc'[d] = pc[d] /\ gen'[d] = gen[d],
         ~InQuery(c)'
  PROVE  Turn'
<1>1. \A d \in Chains : InQuery(d)' <=> InQuery(d)
  BY DEF InQuery
<1>2. \A d \in Chains : InQuery(d) => gen'[d] = gen[d]
  OBVIOUS
<1>3. status' = "running" <=> status = "running"
  BY DEF ReservationCancelled
<1> QED BY <1>1, <1>2, <1>3 DEF Turn

\* A query goes on.
LEMMA InsideTurn ==
  ASSUME TypeOK, Turn, NEW c \in Chains, InQuery(c), InQuery(c)', UNCHANGED <<guard, gen>>,
         \A d \in Chains \ {c} : pc'[d] = pc[d]
  PROVE  Turn'
<1>1. \A d \in Chains : InQuery(d)' <=> InQuery(d)
  BY DEF InQuery
<1> QED BY <1>1 DEF Turn, guard

\* end(): only the query with the current generation frees the guard.
LEMMA QueryEndsTurn ==
  ASSUME TypeOK, Turn, NEW c \in Chains, QueryEnds(c)
  PROVE  Turn'
BY DEF TypeOK, Turn, QueryEnds, InQuery, IsCurrent

\* forceEnd(): no query has the generation that comes next.
LEMMA CancelTurn ==
  ASSUME TypeOK, Turn, Cancel
  PROVE  Turn'
BY DEF TypeOK, Turn, Cancel, ForceEnd, InQuery, chain

-----------------------------------------------------------------------------
(* Where the commands are.                                                 *)

\* What a chain carries when it begins to prepare joins what the others carry.
LEMMA NewChainCarries ==
  ASSUME TypeOK, NEW c \in Chains, NEW commands, ExecuteUserInput(c, commands)
  PROVE  /\ c \notin Preparing /\ Preparing' = Preparing \cup {c}
         /\ batch'[c] = commands /\ \A d \in Preparing : batch'[d] = batch[d]
         /\ Carried' = Carried \cup ToSet(commands)
<1>1. /\ c \notin Preparing /\ Preparing' = Preparing \cup {c}
      /\ batch'[c] = commands /\ \A d \in Preparing : batch'[d] = batch[d]
  BY DEF TypeOK, ExecuteUserInput, Holds, NewChain, Preparing
<1> QED BY <1>1 DEF Carried

\* What a chain carried when it leaves is no longer carried.
LEMMA LeavingUncarries ==
  ASSUME TypeOK, Once, NEW c \in Preparing,
         pc' \in {[pc EXCEPT ![c] = "free"], [pc EXCEPT ![c] = "returned"],
                 [pc EXCEPT ![c] = "querying"]},
         \A d \in Preparing \ {c} : batch'[d] = batch[d]
  PROVE  /\ Preparing' = Preparing \ {c}
         /\ Carried = Carried' \cup ToSet(batch[c])
         /\ Carried' \cap ToSet(batch[c]) = {}
<1>1. Preparing' = Preparing \ {c}
  BY DEF TypeOK, Preparing
<1>2. Carried = Carried' \cup ToSet(batch[c])
  BY <1>1 DEF Carried
<1>3. Carried' \cap ToSet(batch[c]) = {}
  BY <1>1 DEF Carried, Once, StartedOnce
<1> QED BY <1>1, <1>2, <1>3

\* The other chains carry what they carried.
LEMMA OthersCarry ==
  ASSUME Preparing' = Preparing, \A d \in Preparing : batch'[d] = batch[d]
  PROVE  Carried' = Carried
BY DEF Carried

\* A new command, which was nowhere before, is queued or carried by a new chain.
LEMMA SubmitContents ==
  ASSUME IInv, NEW k \in Commands, Submit(k)
  PROVE  Kept' /\ Known' /\ Once'
<1> USE DEF IInv
<1>1. k \notin arrived /\ arrived' = arrived \cup {k} /\ UNCHANGED places
  BY DEF Submit
<1>2. /\ UNCHANGED <<transcript, attached, input, settled, lost>>
      /\ Done' = Done /\ Lost' = Lost /\ snap' = snap /\ Preparing \subseteq Chains
  BY DEF Submit, places, Done, Lost, chain, ExecuteUserInput, Preparing
<1>3. /\ k \notin ToSet(queue) \cup Carried \cup ToSet(transcript)
      /\ \A c \in Chains : k \notin snap[c]
  BY <1>1 DEF Known
<1>4. CASE status # "idle"
  <2>1. queue' = Append(queue, k) /\ UNCHANGED <<guard, chain>>
    BY <1>4 DEF Submit
  <2>2. ToSet(queue') = ToSet(queue) \cup {k} /\ IsInjective(queue')
    <3>1. IsInjective(queue)
      BY DEF Once, StartedOnce, IsInjective
    <3> QED BY <2>1, <3>1, <1>3, SetOfAppend, AppendIsInjective DEF TypeOK
  <2>3. Preparing' = Preparing /\ Carried' = Carried
    BY <2>1 DEF chain, Preparing, Carried
  <2>4. Kept' /\ Known'
    BY <1>1, <1>2, <2>2, <2>3 DEF Kept, Known, Somewhere
  <2>5. UNCHANGED <<guard, chain>>
    BY <2>1
  <2>6. Once'
    BY <1>2, <1>3, <2>2, <2>3, <2>5 DEF Once, StartedOnce, IsInjective, IsCurrent, guard, chain
  <2> QED BY <2>4, <2>6
<1>5. CASE status = "idle"
  <2>1. PICK c \in Chains : ExecuteUserInput(c, <<k>>)
    BY <1>5 DEF Submit
  <2>2. queue' = queue
    BY <1>5 DEF Submit
  <2>3. ToSet(<<k>>) = {k} /\ IsInjective(<<k>>)
    BY SetOfOne
  <2>4. /\ c \notin Preparing /\ Preparing' = Preparing \cup {c}
        /\ batch'[c] = <<k>> /\ \A d \in Preparing : batch'[d] = batch[d]
        /\ Carried' = Carried \cup {k}
    BY <2>1, <2>3, NewChainCarries
  <2>5. Kept' /\ Known'
    <3>1. Kept'
      BY <1>1, <1>2, <2>2, <2>4 DEF Kept, Somewhere
    <3>2. Known'
      BY <1>1, <1>2, <2>2, <2>4 DEF Known
    <3> QED BY <3>1, <3>2
  <2>6. \A d \in Chains : ~IsCurrent(d)'
    BY <1>5, <2>1 DEF ExecuteUserInput, Reserved, IsCurrent
  <2>7. \A d \in Preparing : k \notin ToSet(batch[d])
    BY <1>3 DEF Carried
  <2>8. Once'
    BY <1>2, <1>3, <2>2, <2>3, <2>4, <2>6, <2>7 DEF Once, StartedOnce
  <2> QED BY <2>5, <2>8
<1> QED BY <1>4, <1>5

\* A new notification is queued.
LEMMA NotifyContents ==
  ASSUME IInv, NEW k \in Commands, Notify(k)
  PROVE  Kept' /\ Known' /\ Once'
<1> USE DEF IInv
<1>1. k \notin arrived /\ arrived' = arrived \cup {k}
  BY DEF Notify
<1>2. /\ UNCHANGED <<transcript, attached, input, settled, lost, guard, chain>>
      /\ Done' = Done /\ Lost' = Lost
  BY DEF Notify, places, Done, Lost
<1>3. /\ k \notin ToSet(queue) \cup Carried \cup ToSet(transcript)
      /\ \A c \in Chains : k \notin snap[c]
  BY <1>1 DEF Known
<1>4. ToSet(queue') = ToSet(queue) \cup {k} /\ IsInjective(queue')
  <2>1. IsInjective(queue)
    BY DEF Once, StartedOnce, IsInjective
  <2>2. queue' = Append(queue, k)
    BY DEF Notify
  <2> QED BY <2>1, <2>2, <1>3, SetOfAppend, AppendIsInjective DEF TypeOK
<1>5. Preparing' = Preparing /\ Carried' = Carried
  BY <1>2 DEF chain, Preparing, Carried
<1>6. Kept' /\ Known'
  BY <1>1, <1>2, <1>4, <1>5 DEF Kept, Known, Somewhere, chain
<1>7. Once'
  BY <1>2, <1>3, <1>4, <1>5 DEF Once, StartedOnce, IsInjective, IsCurrent, guard, chain
<1> QED BY <1>6, <1>7

\* A new message of a teammate starts a turn.
LEMMA IncomingContents ==
  ASSUME IInv, NEW k \in Commands, Incoming(k)
  PROVE  Kept' /\ Known' /\ Once'
<1> USE DEF IInv
<1>1. k \notin arrived /\ arrived' = arrived \cup {k}
  BY DEF Incoming
<1>2. UNCHANGED <<queue, snap, attached, input, settled, lost>>
  BY DEF Incoming
<1>3. PICK c \in Chains : /\ Holds(c, <<k>>) /\ TryStart(c)
                          /\ pc' = [pc EXCEPT ![c] = "querying"]
  BY DEF Incoming
<1>4. /\ k \notin ToSet(queue) \cup Carried \cup ToSet(transcript)
      /\ \A d \in Chains : k \notin snap[d]
  BY <1>1 DEF Known
<1>5. c \notin Preparing /\ Preparing' = Preparing /\ Preparing \subseteq Chains
  BY <1>3 DEF Holds, NewChain, Preparing, TypeOK
<1>6. batch'[c] = <<k>> /\ \A d \in Preparing : batch'[d] = batch[d]
  BY <1>3, <1>5 DEF Holds, TypeOK
<1>7. Carried' = Carried
  BY <1>5, <1>6, OthersCarry
<1>8. ToSet(transcript') = ToSet(transcript) \cup {k}
  <2>1. transcript' = transcript \o <<k>>
    BY <1>3, <1>6 DEF TryStart
  <2>2. transcript \in Seq(Commands)
    BY DEF TypeOK
  <2>3. ToSet(transcript \o <<k>>) = ToSet(transcript) \cup {k}
    BY <2>2, SetOfConcatOne
  <2> QED BY <2>1, <2>3
<1>9. Kept' /\ Known'
  BY <1>1, <1>2, <1>7, <1>8 DEF Kept, Known, Somewhere, Done, Lost
<1>10. \A d \in Chains : ~(pc'[d] = "draining" /\ IsCurrent(d)')
  BY <1>3 DEF TryStart, IsCurrent, TypeOK
<1>11. Once'
  BY <1>2, <1>4, <1>5, <1>6, <1>7, <1>8, <1>10 DEF Once, StartedOnce
<1> QED BY <1>9, <1>11

\* What goes and what stays: together the queue, and nothing in both.
LEMMA ProcessQueueContents ==
  ASSUME IInv, ProcessQueue
  PROVE  Kept' /\ Known' /\ Once'
<1> USE DEF IInv
<1> DEFINE Gone == Subsequence(queue, {k \in Commands : Goes(k)})
<1>1. /\ UNCHANGED <<transcript, attached, input, settled, lost, arrived>>
      /\ queue' = Subsequence(queue, {k \in Commands : Stays(k)})
  BY DEF ProcessQueue, places
<1>2. PICK c \in Chains : ExecuteUserInput(c, Gone)
  BY DEF ProcessQueue
<1>3. /\ queue \in Seq(Commands) /\ IsInjective(queue) /\ ToSet(queue) \subseteq Commands
  BY SetOfSeq DEF TypeOK, Once, StartedOnce, IsInjective
<1>4. /\ ToSet(Gone) = ToSet(queue) \cap {k \in Commands : Goes(k)}
      /\ ToSet(queue') = ToSet(queue) \cap {k \in Commands : Stays(k)}
  BY <1>1, <1>3, SubsequenceElements
<1>5. IsInjective(Gone) /\ IsInjective(queue')
  BY <1>1, <1>3, SubsequenceIsInjective
<1> HIDE DEF Gone
<1>6. ToSet(Gone) \cup ToSet(queue') = ToSet(queue) /\ ToSet(Gone) \cap ToSet(queue') = {}
  BY <1>3, <1>4 DEF Stays
<1>7. /\ c \notin Preparing /\ Preparing' = Preparing \cup {c}
      /\ batch'[c] = Gone /\ \A d \in Preparing : batch'[d] = batch[d]
      /\ Carried' = Carried \cup ToSet(Gone)
  BY <1>2, NewChainCarries
<1>8. snap' = snap /\ \A d \in Chains : ~IsCurrent(d)'
  BY <1>2 DEF ExecuteUserInput, Reserved, IsCurrent, ProcessQueue
<1>9. Kept' /\ Known'
  BY <1>1, <1>6, <1>7, <1>8 DEF Kept, Known, Somewhere, Done, Lost
<1>10. \A d \in Preparing : ToSet(Gone) \cap ToSet(batch[d]) = {}
  BY <1>6 DEF Once, StartedOnce, Carried
<1>11. Once'
  <2>1. (Carried' \cup ToSet(transcript')) \cap ToSet(queue') = {}
    BY <1>1, <1>6, <1>7 DEF Once, StartedOnce
  <2>2. Carried' \cap ToSet(transcript') = {}
    BY <1>1, <1>6, <1>7 DEF Once, StartedOnce
  <2>3. \A d, e \in Preparing' : d # e => ToSet(batch'[d]) \cap ToSet(batch'[e]) = {}
    BY <1>7, <1>10 DEF Once, StartedOnce
  <2>4. \A d \in Preparing' : IsInjective(batch'[d])
    BY <1>5, <1>7 DEF Once
  <2>5. \A i, j \in DOMAIN queue' : queue'[i] = queue'[j] => i = j
    BY <1>5 DEF IsInjective
  <2> QED BY <1>8, <2>1, <2>2, <2>3, <2>4, <2>5 DEF Once, StartedOnce
<1> QED BY <1>9, <1>11

\* What leaves the queue is in the input box.
LEMMA PopAllEditableContents ==
  ASSUME IInv, PopAllEditable
  PROVE  Kept' /\ Known' /\ Once'
<1> USE DEF IInv
<1>1. /\ UNCHANGED <<guard, chain, transcript, attached, settled, lost, arrived>>
      /\ queue' = Subsequence(queue, {k \in Commands : ~IsEditable(k)})
      /\ input' = input \cup {k \in ToSet(queue) : IsEditable(k)}
  BY DEF PopAllEditable
<1>2. queue \in Seq(Commands) /\ IsInjective(queue) /\ ToSet(queue) \subseteq Commands
  BY SetOfSeq DEF TypeOK, Once, StartedOnce, IsInjective
<1>3. /\ ToSet(queue') = {k \in ToSet(queue) : ~IsEditable(k)}
      /\ IsInjective(queue')
  <2>1. ToSet(queue') = ToSet(queue) \cap {k \in Commands : ~IsEditable(k)}
    BY <1>1, <1>2, SubsequenceElements
  <2>2. IsInjective(queue')
    BY <1>1, <1>2, SubsequenceIsInjective
  <2> QED BY <2>1, <2>2, <1>2
<1>4. UNCHANGED <<guard, pc, gen, batch, snap, transcript, attached, settled, lost, arrived>>
  BY <1>1 DEF chain
<1>5. Preparing' = Preparing /\ Carried' = Carried
  BY <1>4 DEF Preparing, Carried
<1>6. ToSet(queue) \subseteq ToSet(queue') \cup input' /\ input \subseteq input'
  BY <1>1, <1>3
<1>7. Kept' /\ Known'
  BY <1>3, <1>4, <1>5, <1>6 DEF Kept, Known, Somewhere, Done, Lost
<1>8. Once'
  BY <1>3, <1>4, <1>5 DEF Once, StartedOnce, IsInjective, IsCurrent, guard
<1> QED BY <1>7, <1>8

\* What leaves the queue is cleared.
LEMMA KillAgentsContents ==
  ASSUME IInv, KillAgents
  PROVE  Kept' /\ Known' /\ Once'
<1> USE DEF IInv
<1>1. UNCHANGED <<guard, pc, gen, batch, snap, transcript, attached, input, settled>>
  BY DEF KillAgents, chain
<1>2. PICK n \in Notifications \ arrived : queue' = <<n>> /\ arrived' = arrived \cup {n}
  BY DEF KillAgents
<1>3. ToSet(queue') = {n} /\ IsInjective(queue')
  BY <1>2, SetOfOne
<1>4. Lost' = Lost \cup ToSet(queue)
  BY DEF KillAgents, Lost, TypeOK
<1>5. Preparing' = Preparing /\ Carried' = Carried
  BY <1>1 DEF Preparing, Carried
<1>6. n \notin Carried \cup ToSet(transcript)
  BY <1>2 DEF Known
<1>7. Kept' /\ Known'
  BY <1>1, <1>2, <1>3, <1>4, <1>5 DEF Kept, Known, Somewhere, Done, Lost
<1>8. Once'
  BY <1>1, <1>3, <1>5, <1>6 DEF Once, StartedOnce, IsInjective, IsCurrent, guard
<1> QED BY <1>7, <1>8

\* What the chain carried is dealt with without a turn, or lost.
LEMMA LeavesContents ==
  ASSUME IInv, NEW c \in Chains, HasNoMessages(c) \/ Throws(c)
  PROVE  Kept' /\ Known' /\ Once'
<1> USE DEF IInv
<1>0. LeavesWithoutQuery(c)
  BY DEF HasNoMessages, Throws
<1>1. UNCHANGED <<queue, snap, transcript, attached, input, arrived>>
  BY <1>0 DEF LeavesWithoutQuery, Frees
<1>2. settled \cup Lost \cup ToSet(batch[c]) = settled' \cup Lost'
  BY DEF HasNoMessages, Throws, Lost, TypeOK
<1>3. c \in Preparing /\ Preparing \subseteq Chains
  BY <1>0 DEF LeavesWithoutQuery, Preparing
<1>4. pc' = [pc EXCEPT ![c] = "free"] /\ \A d \in Preparing \ {c} : batch'[d] = batch[d]
  BY <1>0, <1>3 DEF LeavesWithoutQuery, Frees, TypeOK
<1>5. /\ Preparing' = Preparing \ {c} /\ Carried = Carried' \cup ToSet(batch[c])
  BY <1>3, <1>4, LeavingUncarries
<1>6. \A d \in Chains : pc'[d] = "draining" /\ IsCurrent(d)' => pc[d] = "draining" /\ IsCurrent(d)
  BY <1>0 DEF LeavesWithoutQuery, Frees, IsCurrent, ReservationCancelled, TypeOK
<1>7. Kept' /\ Known'
  <2>1. Done' \cup Lost' = Done \cup Lost \cup ToSet(batch[c])
    BY <1>1, <1>2 DEF Done
  <2> QED BY <1>1, <1>5, <2>1 DEF Kept, Known, Somewhere
<1>8. Once'
  BY <1>1, <1>4, <1>5, <1>6 DEF Once, StartedOnce
<1> QED BY <1>7, <1>8

\* What the chain carried is in the transcript.
LEMMA OnQueryStartsContents ==
  ASSUME IInv, NEW c \in Chains, OnQueryStarts(c)
  PROVE  Kept' /\ Known' /\ Once'
<1> USE DEF IInv
<1>1. UNCHANGED <<queue, snap, batch, attached, input, settled, lost, arrived>>
  BY DEF OnQueryStarts
<1>2. c \in Preparing /\ Preparing \subseteq Chains /\ pc' = [pc EXCEPT ![c] = "querying"]
  BY DEF OnQueryStarts, Preparing
<1>3. /\ Preparing' = Preparing \ {c} /\ Carried = Carried' \cup ToSet(batch[c])
      /\ Carried' \cap ToSet(batch[c]) = {}
  BY <1>1, <1>2, LeavingUncarries
<1>4. ToSet(transcript') = ToSet(transcript) \cup ToSet(batch[c])
  <2>1. transcript' = transcript \o batch[c]
    BY <1>1 DEF OnQueryStarts, TryStart
  <2>2. transcript \in Seq(Commands) /\ batch[c] \in Seq(Commands)
    BY DEF TypeOK
  <2> QED BY <2>1, <2>2, SetOfConcat
<1>5. \A d \in Chains : ~(pc'[d] = "draining" /\ IsCurrent(d)')
  BY DEF OnQueryStarts, TryStart, IsCurrent, TypeOK
<1>6. Kept' /\ Known'
  BY <1>1, <1>3, <1>4 DEF Kept, Known, Somewhere, Done, Lost
<1>7. Once'
  BY <1>1, <1>3, <1>4, <1>5 DEF Once, StartedOnce
<1> QED BY <1>6, <1>7

\* What the chain carried goes back to the queue or is dropped.
LEMMA OnQueryIsConcurrentContents ==
  ASSUME IInv, NEW c \in Chains, OnQueryIsConcurrent(c)
  PROVE  Kept' /\ Known' /\ Once'
<1> USE DEF IInv
<1> DEFINE Back == Subsequence(batch[c], Commands \ Meta)
<1>1. /\ UNCHANGED <<guard, gen, transcript, attached, input, settled, arrived>>
      /\ queue' = queue \o Back
      /\ Lost' = Lost \cup (ToSet(batch[c]) \cap Meta)
      /\ \A d \in Chains : snap'[d] \subseteq snap[d]
  BY DEF OnQueryIsConcurrent, Lost, TypeOK
<1>2. c \in Preparing /\ Preparing \subseteq Chains /\ pc' = [pc EXCEPT ![c] = "returned"]
  BY DEF OnQueryIsConcurrent, Preparing
<1>3. \A d \in Preparing \ {c} : batch'[d] = batch[d]
  BY <1>2 DEF OnQueryIsConcurrent, TypeOK
<1>4. /\ Preparing' = Preparing \ {c} /\ Carried = Carried' \cup ToSet(batch[c])
      /\ Carried' \cap ToSet(batch[c]) = {}
  BY <1>2, <1>3, LeavingUncarries
<1>5. /\ batch[c] \in Seq(Commands) /\ IsInjective(batch[c])
      /\ queue \in Seq(Commands) /\ IsInjective(queue)
  BY <1>2 DEF TypeOK, Once, StartedOnce, IsInjective
<1>6. /\ Back \in Seq(Commands) /\ IsInjective(Back)
      /\ ToSet(Back) = ToSet(batch[c]) \ Meta
  <2>1. ToSet(batch[c]) \subseteq Commands
    BY <1>5, SetOfSeq
  <2>2. ToSet(Back) = ToSet(batch[c]) \cap (Commands \ Meta)
    BY <1>5, SubsequenceElements
  <2>3. Back \in Seq(Commands) /\ IsInjective(Back)
    BY <1>5, SubsequenceType, SubsequenceIsInjective
  <2> QED BY <2>1, <2>2, <2>3
<1> HIDE DEF Back
<1>7. ToSet(queue) \cap ToSet(batch[c]) = {}
  BY <1>4 DEF Once, StartedOnce
<1>8. ToSet(queue') = ToSet(queue) \cup (ToSet(batch[c]) \ Meta) /\ IsInjective(queue')
  <2>1. ToSet(queue) \cap ToSet(Back) = {}
    BY <1>6, <1>7
  <2>2. ToSet(queue \o Back) = ToSet(queue) \cup ToSet(Back)
    BY <1>5, <1>6, SetOfConcat
  <2>3. IsInjective(queue \o Back)
    BY <1>5, <1>6, <2>1, ConcatIsInjective
  <2> QED BY <2>2, <2>3, <1>1, <1>6
<1>9. \A d \in Chains : pc'[d] = "draining" /\ IsCurrent(d)' => pc[d] = "draining" /\ IsCurrent(d)
  BY <1>1, <1>2 DEF guard, IsCurrent, TypeOK
<1>10. Kept' /\ Known'
  <2>1. ToSet(batch[c]) \subseteq ToSet(queue') \cup Lost'
    BY <1>1, <1>8
  <2>2. Kept'
    BY <1>1, <1>4, <1>8, <2>1 DEF Kept, Somewhere, Done
  <2>3. Known'
    BY <1>1, <1>4, <1>8 DEF Known
  <2> QED BY <2>2, <2>3
<1>11. Once'
  <2>1. (Carried' \cup ToSet(transcript')) \cap ToSet(queue') = {}
    BY <1>1, <1>4, <1>8 DEF Once, StartedOnce
  <2>2. \A d \in Chains : pc'[d] = "draining" /\ IsCurrent(d)' =>
          snap'[d] \cap (Carried' \cup ToSet(transcript')) = {}
    BY <1>1, <1>4, <1>9 DEF Once, StartedOnce
  <2>3. \A d \in Preparing' : IsInjective(batch'[d])
    BY <1>3, <1>4 DEF Once
  <2>4. \A d, e \in Preparing' : d # e => ToSet(batch'[d]) \cap ToSet(batch'[e]) = {}
    BY <1>3, <1>4 DEF Once, StartedOnce
  <2>5. Carried' \cap ToSet(transcript') = {}
    BY <1>1, <1>4 DEF Once, StartedOnce
  <2> QED BY <1>8, <2>1, <2>2, <2>3, <2>4, <2>5 DEF Once, StartedOnce, IsInjective
<1> QED BY <1>10, <1>11

\* What the query attaches is in the queue, so nobody carries it.
LEMMA DrainReadsContents ==
  ASSUME IInv, NEW c \in Chains, DrainReads(c)
  PROVE  Kept' /\ Known' /\ Once'
<1> USE DEF IInv
<1>1. UNCHANGED <<guard, queue, gen, batch, transcript, input, settled, lost, arrived>>
  BY DEF DrainReads
<1>2. PICK taken \in SUBSET ToSet(queue) :
           snap' = [snap EXCEPT ![c] = taken] /\ attached' = attached \cup taken
  BY DEF DrainReads
<1>3. pc[c] = "querying" /\ pc' = [pc EXCEPT ![c] = "draining"]
  BY DEF DrainReads
<1>4. Preparing' = Preparing /\ Carried' = Carried
  <2>1. Preparing' = Preparing
    BY <1>3 DEF Preparing, TypeOK
  <2> QED BY <2>1, <1>1, OthersCarry
<1>5. \A d \in Chains : d # c => snap'[d] = snap[d] /\ pc'[d] = pc[d]
  BY <1>2, <1>3 DEF TypeOK
<1>6. snap'[c] = taken
  BY <1>2 DEF TypeOK
<1>7. Kept' /\ Known'
  <2>1. Kept'
    BY <1>1, <1>2, <1>4, <1>5, <1>6 DEF Kept, Somewhere, Done, Lost
  <2>2. Known'
    BY <1>1, <1>4, <1>5, <1>6 DEF Known
  <2> QED BY <2>1, <2>2
<1>8. Once'
  <2>1. \A d \in Chains : pc'[d] = "draining" /\ IsCurrent(d)' =>
          snap'[d] \cap (Carried' \cup ToSet(transcript')) = {}
    <3>1. taken \cap (Carried \cup ToSet(transcript)) = {}
      BY DEF Once, StartedOnce
    <3> QED BY <1>1, <1>4, <1>5, <1>6, <3>1 DEF Once, StartedOnce, IsCurrent, guard
  <2> QED BY <1>1, <1>4, <2>1 DEF Once, StartedOnce
<1> QED BY <1>7, <1>8

\* What leaves the queue has been attached.
LEMMA DrainRemovesContents ==
  ASSUME IInv, NEW c \in Chains, DrainRemoves(c)
  PROVE  Kept' /\ Known' /\ Once'
<1> USE DEF IInv
<1>1. /\ UNCHANGED <<guard, gen, batch, transcript, attached, input, settled, lost, arrived>>
      /\ queue' = Subsequence(queue, Commands \ snap[c])
  BY DEF DrainRemoves, places
<1>2. queue \in Seq(Commands) /\ IsInjective(queue) /\ ToSet(queue) \subseteq Commands
  BY SetOfSeq DEF TypeOK, Once, StartedOnce, IsInjective
<1>3. ToSet(queue') = ToSet(queue) \ snap[c] /\ IsInjective(queue')
  <2>1. ToSet(queue') = ToSet(queue) \cap (Commands \ snap[c])
    BY <1>1, <1>2, SubsequenceElements
  <2>2. IsInjective(queue')
    BY <1>1, <1>2, SubsequenceIsInjective
  <2> QED BY <2>1, <2>2, <1>2
<1>4. pc[c] = "draining" /\ pc' = [pc EXCEPT ![c] = "querying"]
  BY DEF DrainRemoves
<1>5. Preparing' = Preparing /\ Carried' = Carried
  <2>1. Preparing' = Preparing
    BY <1>4 DEF Preparing, TypeOK
  <2> QED BY <2>1, <1>1, OthersCarry
<1>6. \A d \in Chains : snap'[d] \subseteq snap[d] /\ (pc'[d] = "draining" => pc[d] = "draining")
  BY <1>4 DEF DrainRemoves, TypeOK
<1>7. Kept' /\ Known'
  <2>1. snap[c] \subseteq attached
    BY DEF Kept
  <2>2. Kept'
    BY <1>1, <1>3, <1>5, <1>6, <2>1 DEF Kept, Somewhere, Done, Lost
  <2>3. Known'
    BY <1>1, <1>3, <1>5, <1>6 DEF Known
  <2> QED BY <2>2, <2>3
<1>8. Once'
  <2>1. \A d \in Chains : pc'[d] = "draining" /\ IsCurrent(d)' =>
          snap'[d] \cap (Carried' \cup ToSet(transcript')) = {}
    BY <1>1, <1>5, <1>6 DEF Once, StartedOnce, IsCurrent, guard
  <2>2. (Carried' \cup ToSet(transcript')) \cap ToSet(queue') = {}
    BY <1>1, <1>3, <1>5 DEF Once, StartedOnce
  <2>3. \A i, j \in DOMAIN queue' : queue'[i] = queue'[j] => i = j
    BY <1>3 DEF IsInjective
  <2>4. UNCHANGED <<batch, transcript>>
    BY <1>1
  <2> QED BY <1>5, <2>1, <2>2, <2>3, <2>4 DEF Once, StartedOnce
<1> QED BY <1>7, <1>8

\* end() moves no command.
LEMMA QueryEndsContents ==
  ASSUME IInv, NEW c \in Chains, QueryEnds(c)
  PROVE  Kept' /\ Known' /\ Once'
<1> USE DEF IInv
<1>1. UNCHANGED <<queue, batch, snap, transcript, attached, input, settled, lost, arrived>>
  BY DEF QueryEnds, places
<1>2. Preparing' = Preparing
  BY DEF QueryEnds, Preparing, TypeOK
<1>3. Carried' = Carried
  BY <1>1, <1>2, OthersCarry
<1>4. \A d \in Chains : pc'[d] = "draining" /\ IsCurrent(d)' => pc[d] = "draining" /\ IsCurrent(d)
  BY DEF QueryEnds, IsCurrent, TypeOK
<1> QED BY <1>1, <1>2, <1>3, <1>4
        DEF Kept, Known, Once, Somewhere, Done, Lost, StartedOnce

\* Nobody has the turn after a cancellation, and nothing moves.
LEMMA CancelContents ==
  ASSUME IInv, Cancel
  PROVE  Kept' /\ Known' /\ Once'
<1> USE DEF IInv
<1>1. UNCHANGED <<queue, pc, gen, batch, snap, transcript, attached, input, settled, lost,
                  arrived>>
  BY DEF Cancel, places, chain
<1>2. Preparing' = Preparing /\ Carried' = Carried
  BY <1>1 DEF Preparing, Carried
<1>3. \A d \in Chains : ~IsCurrent(d)'
  BY DEF Cancel, ForceEnd, IsCurrent
<1> QED BY <1>1, <1>2, <1>3
        DEF Kept, Known, Once, Somewhere, Done, Lost, StartedOnce

\* The last prompt may move from the transcript to the input box.
LEMMA ReturnsContents ==
  ASSUME IInv, NEW c \in Chains, Returns(c)
  PROVE  Kept' /\ Known' /\ Once'
<1> USE DEF IInv
<1>1. UNCHANGED <<queue, snap, arrived, generation>>
  BY DEF Returns, Frees
<1>2. c \notin Preparing /\ Preparing' = Preparing /\ Preparing \subseteq Chains
  BY DEF Returns, Frees, Preparing, TypeOK
<1>3. \A d \in Preparing : batch'[d] = batch[d]
  BY <1>2 DEF Returns, Frees, TypeOK
<1>4. Carried' = Carried
  BY <1>2, <1>3, OthersCarry
<1>5. \A d \in Chains : pc'[d] = "draining" /\ IsCurrent(d)' => pc[d] = "draining" /\ IsCurrent(d)
  BY DEF Returns, Frees, ReservationCancelled, IsCurrent, TypeOK
<1>6. /\ Done' = Done /\ lost' = lost
      /\ ToSet(transcript') \subseteq ToSet(transcript) /\ attached' = attached
  <2>1. CASE Restores(c)
    <3>1. /\ transcript # << >> /\ transcript' = Front(transcript) /\ input = {}
          /\ input' = {Last(transcript)} /\ UNCHANGED <<attached, settled, lost>>
      BY <2>1 DEF Restores
    <3>2. ToSet(transcript) = ToSet(transcript') \cup {Last(transcript)}
      BY <3>1, SetOfFront DEF TypeOK
    <3> QED BY <3>1, <3>2 DEF Done
  <2>2. CASE UNCHANGED places
    BY <2>2 DEF places, Done
  <2> QED BY <2>1, <2>2 DEF Returns
<1>7. Kept' /\ Known'
  BY <1>1, <1>4, <1>6 DEF Kept, Known, Somewhere, Lost
<1>8. Once'
  BY <1>1, <1>2, <1>3, <1>4, <1>5, <1>6 DEF Once, StartedOnce
<1> QED BY <1>7, <1>8

-----------------------------------------------------------------------------
(* What is handled without a turn.                                         *)

\* The command that peek() returns is in the queue.
LEMMA PeekIsQueued ==
  ASSUME TypeOK, queue # << >>
  PROVE  Peek \in ToSet(queue)
<1>1. queue \in Seq(Commands) /\ DOMAIN queue = 1..Len(queue) /\ Len(queue) \in Nat
  BY LenProperties DEF TypeOK
<1>2. CASE \E k \in ToSet(queue) : Urgent(k)
  <2> DEFINE urgent == {i \in DOMAIN queue : Urgent(queue[i])}
  <2>1. urgent # {}
    BY <1>2 DEF ToSet
  <2>2. /\ IsFiniteSet(1..Len(queue)) /\ 1..Len(queue) \subseteq Int
        /\ urgent \in SUBSET (1..Len(queue))
    BY <1>1, FS_Interval
  <2>3. PICK i \in urgent : \A j \in urgent : i <= j
    <3> HIDE DEF urgent
    <3> QED BY <2>1, <2>2, MinIsLeast
  <2>4. Urgent(queue[i]) /\ \A j \in 1..(i - 1) : ~Urgent(queue[j])
    <3>1. SUFFICES ASSUME NEW j \in 1..(i - 1) PROVE ~Urgent(queue[j])
      OBVIOUS
    <3>2. i \in 1..Len(queue)
      BY <1>1
    <3>3. j \in DOMAIN queue /\ ~(i <= j)
      BY <1>1, <3>1, <3>2
    <3> QED BY <2>3, <3>3
  <2>5. \E n \in DOMAIN queue : Urgent(queue[n]) /\ \A j \in 1..(n - 1) : ~Urgent(queue[j])
    BY <2>4
  <2>6. (CHOOSE n \in DOMAIN queue :
           Urgent(queue[n]) /\ \A j \in 1..(n - 1) : ~Urgent(queue[j])) \in DOMAIN queue
    BY <2>5
  <2> QED BY <1>2, <2>6 DEF Peek, ToSet
<1>3. CASE ~ \E k \in ToSet(queue) : Urgent(k)
  <2>1. Peek = queue[1]
    BY <1>3 DEF Peek
  <2>2. 1 \in DOMAIN queue
    <3>1. Len(queue) # 0
      BY <1>1, EmptySeq
    <3> QED BY <1>1, <3>1
  <2> QED BY <2>1, <2>2 DEF ToSet
<1> QED BY <1>2, <1>3

\* No chain gets anything new, whatever else happens.
LEMMA StaysSorted ==
  ASSUME TypeOK, Sorted, Preparing' \subseteq Preparing,
         \A c \in Preparing' : batch'[c] = batch[c],
         requeued \subseteq requeued', lost.refused' \subseteq Meta, settled' \subseteq Slash
  PROVE  Sorted'
<1>1. \A c \in Preparing' : Pure(batch[c])'
  BY DEF Sorted, Pure
<1> QED BY <1>1 DEF Sorted

\* A chain begins with one command, or with what the processor takes together.
LEMMA BeginsSorted ==
  ASSUME TypeOK, Sorted, NEW c \in Chains, NEW commands, Pure(commands),
         ExecuteUserInput(c, commands), UNCHANGED places
  PROVE  Sorted'
<1>1. /\ Preparing' = Preparing \cup {c}
      /\ batch'[c] = commands /\ \A d \in Preparing : batch'[d] = batch[d]
  BY NewChainCarries
<1>2. UNCHANGED <<lost, settled, requeued>>
  BY DEF places
<1>3. \A d \in Preparing' : Pure(batch[d])'
  BY <1>1, <1>2 DEF Sorted, Pure
<1> QED BY <1>2, <1>3 DEF Sorted

LEMMA OneIsPure ==
  ASSUME NEW k \in Commands
  PROVE  Pure(<<k>>)
<1>1. ToSet(<<k>>) = {k}
  BY SetOfOne
<1>2. <<k>> # << >>
  OBVIOUS
<1> QED BY <1>1, <1>2 DEF Pure

LEMMA ProcessQueueSorted ==
  ASSUME TypeOK, Sorted, ProcessQueue
  PROVE  Sorted'
<1> DEFINE Gone == Subsequence(queue, {k \in Commands : Goes(k)})
<1>1. UNCHANGED places
  BY DEF ProcessQueue
<1>2. PICK c \in Chains : ExecuteUserInput(c, Gone)
  BY DEF ProcessQueue
<1>3. queue \in Seq(Commands) /\ ToSet(queue) \subseteq Commands
  BY SetOfSeq DEF TypeOK
<1>4. ToSet(Gone) = ToSet(queue) \cap {k \in Commands : Goes(k)}
  BY <1>3, SubsequenceElements
<1>5. Peek \in ToSet(queue) /\ Goes(Peek)
  BY PeekIsQueued DEF ProcessQueue, Goes
<1>6. Peek \in ToSet(Gone)
  BY <1>3, <1>4, <1>5
<1>7. Gone # << >>
  <2>1. ToSet(<< >>) = {}
    BY DEF ToSet
  <2> HIDE DEF Gone
  <2> QED BY <1>6, <2>1
<1>8. ToSet(Gone) \subseteq Slash \/ ToSet(Gone) \cap (Slash \ requeued) = {}
  BY <1>4 DEF Goes, IsSlashCommand
<1>9. Pure(Gone)
  BY <1>7, <1>8 DEF Pure
<1> HIDE DEF Gone
<1> QED BY <1>1, <1>2, <1>9, BeginsSorted

\* The other steps that concern what chains carry.
LEMMA LeavesSorted ==
  ASSUME TypeOK, Sorted, NEW c \in Chains, HasNoMessages(c) \/ Throws(c)
  PROVE  Sorted'
<1>1. LeavesWithoutQuery(c)
  BY DEF HasNoMessages, Throws
<1>2. c \in Preparing /\ pc' = [pc EXCEPT ![c] = "free"] /\ requeued' = requeued
  BY <1>1 DEF LeavesWithoutQuery, Frees, Preparing
<1>3. Preparing' \subseteq Preparing \ {c} /\ \A d \in Preparing' : batch'[d] = batch[d]
  BY <1>1, <1>2 DEF LeavesWithoutQuery, Frees, Preparing, TypeOK
<1>4. CASE HasNoMessages(c)
  <2>1. batch[c] \in Seq(Commands) /\ Pure(batch[c])
    BY <1>2 DEF Sorted, TypeOK, Preparing
  <2>2. Head(batch[c]) \in ToSet(batch[c])
    <3>1. batch[c] # << >> /\ Head(batch[c]) = batch[c][1]
      BY <2>1 DEF Pure
    <3>2. 1 \in DOMAIN batch[c]
      BY <2>1, <3>1, EmptySeq, LenProperties
    <3> QED BY <3>1, <3>2 DEF ToSet
  <2>3. ToSet(batch[c]) \subseteq Slash
    BY <1>4, <2>1, <2>2 DEF HasNoMessages, IsSlashCommand, Pure
  <2>4. settled' \subseteq Slash /\ lost' = lost
    BY <1>4, <2>3 DEF HasNoMessages, Sorted
  <2> QED BY <1>2, <1>3, <2>4, StaysSorted DEF Sorted
<1>5. CASE Throws(c)
  <2>1. settled' = settled /\ lost'.refused = lost.refused
    BY <1>5 DEF Throws, TypeOK
  <2> QED BY <1>2, <1>3, <2>1, StaysSorted DEF Sorted
<1> QED BY <1>4, <1>5

\* What is lost beside a running query is meta.
LEMMA ConcurrentSorted ==
  ASSUME TypeOK, Sorted, NEW c \in Chains, OnQueryIsConcurrent(c)
  PROVE  Sorted'
<1>1. Preparing' \subseteq Preparing \ {c} /\ \A d \in Preparing' : batch'[d] = batch[d]
  BY DEF OnQueryIsConcurrent, Preparing, TypeOK
<1>2. settled' = settled /\ requeued \subseteq requeued'
  BY DEF OnQueryIsConcurrent
<1>3. lost'.refused \subseteq Meta
  BY DEF OnQueryIsConcurrent, TypeOK, Sorted
<1> QED BY <1>1, <1>2, <1>3, StaysSorted DEF Sorted

-----------------------------------------------------------------------------
(* The theorems.                                                           *)

\* Every step keeps the invariant.
LEMMA Inductive == IInv /\ [Next]_vars => IInv'
<1> SUFFICES ASSUME IInv, [Next]_vars PROVE IInv'
  OBVIOUS
<1>0. TypeOK /\ Turn /\ Kept /\ Known /\ Once /\ Sorted
  BY DEF IInv
<1>1. ASSUME NEW k \in Commands, Submit(k) PROVE IInv'
  <2>1. Turn'
    <3>1. CASE UNCHANGED <<guard, chain>>
      BY <1>0, <3>1 DEF Turn, InQuery, guard, chain
    <3>2. CASE \E c \in Chains : ExecuteUserInput(c, <<k>>)
      BY <1>0, <3>2, NewChainTurn
    <3> QED BY <1>1, <3>1, <3>2 DEF Submit
  <2>2. Sorted'
    <3>1. CASE UNCHANGED <<guard, chain>>
      BY <1>0, <1>1, <3>1, StaysSorted DEF Sorted, Submit, Preparing, chain, places
    <3>2. CASE \E c \in Chains : ExecuteUserInput(c, <<k>>)
      BY <1>0, <1>1, <3>2, BeginsSorted, OneIsPure DEF Submit
    <3> QED BY <1>1, <3>1, <3>2 DEF Submit
  <2> QED BY <1>0, <1>1, <2>1, <2>2, SubmitType, SubmitContents DEF IInv
<1>2. ASSUME NEW k \in Commands, Notify(k) PROVE IInv'
  <2>1. Turn'
    BY <1>0, <1>2 DEF Turn, InQuery, Notify, guard, chain
  <2>2. Sorted'
    BY <1>0, <1>2, StaysSorted DEF Sorted, Notify, Preparing, chain, places
  <2> QED BY <1>0, <1>2, <2>1, <2>2, NotifyType, NotifyContents DEF IInv
<1>3. ASSUME NEW k \in Commands, Incoming(k) PROVE IInv'
  <2>1. Turn'
    <3>1. PICK c \in Chains : /\ Holds(c, <<k>>) /\ TryStart(c)
                              /\ pc' = [pc EXCEPT ![c] = "querying"]
      BY <1>3 DEF Incoming
    <3>2. ~InQuery(c) /\ status # "running"
      BY <1>3, <3>1 DEF Incoming, Holds, NewChain, InQuery
    <3> QED BY <1>0, <3>1, <3>2, TryStartTurn
  <2>2. Sorted'
    <3>1. PICK c \in Chains : Holds(c, <<k>>) /\ pc' = [pc EXCEPT ![c] = "querying"]
      BY <1>3 DEF Incoming
    <3>2. Preparing' \subseteq Preparing \ {c} /\ \A d \in Preparing' : batch'[d] = batch[d]
      BY <1>0, <3>1 DEF Holds, Preparing, TypeOK
    <3> QED BY <1>0, <1>3, <3>2, StaysSorted DEF Sorted, Incoming
  <2> QED BY <1>0, <1>3, <2>1, <2>2, IncomingType, IncomingContents DEF IInv
<1>4. ASSUME ProcessQueue PROVE IInv'
  <2>1. Turn'
    BY <1>0, <1>4, NewChainTurn DEF ProcessQueue
  <2> QED BY <1>0, <1>4, <2>1, ProcessQueueType, ProcessQueueContents, ProcessQueueSorted
          DEF IInv
<1>5. ASSUME Cancel PROVE IInv'
  <2>1. Sorted'
    BY <1>0, <1>5, StaysSorted DEF Sorted, Cancel, Preparing, chain, places
  <2> QED BY <1>0, <1>5, <2>1, CancelTurn, CancelType, CancelContents DEF IInv
<1>6. ASSUME NEW c \in Chains, HasNoMessages(c) \/ Throws(c) PROVE IInv'
  <2>1. Turn'
    <3>1. /\ ~InQuery(c) /\ ~InQuery(c)' /\ status' \in {status, ReservationCancelled}
          /\ UNCHANGED generation
          /\ \A d \in Chains \ {c} : pc'[d] = pc[d] /\ gen'[d] = gen[d]
      BY <1>0, <1>6 DEF HasNoMessages, Throws, LeavesWithoutQuery, Frees, InQuery, TypeOK
    <3> QED BY <1>0, <3>1, OutsideTurn
  <2> QED BY <1>0, <1>6, <2>1, PreparedType, LeavesContents, LeavesSorted DEF IInv, Prepared
<1>7. ASSUME NEW c \in Chains, OnQueryStarts(c) PROVE IInv'
  <2>1. Turn'
    BY <1>0, <1>7, TryStartTurn DEF OnQueryStarts, InQuery
  <2>2. Sorted'
    <3>1. Preparing' \subseteq Preparing \ {c} /\ UNCHANGED <<batch, settled, lost, requeued>>
      BY <1>0, <1>7 DEF OnQueryStarts, Preparing, TypeOK
    <3> QED BY <1>0, <3>1, StaysSorted DEF Sorted
  <2> QED BY <1>0, <1>7, <2>1, <2>2, PreparedType, OnQueryStartsContents DEF IInv, Prepared
<1>8. ASSUME NEW c \in Chains, OnQueryIsConcurrent(c) PROVE IInv'
  <2>1. Turn'
    <3>1. /\ ~InQuery(c) /\ ~InQuery(c)' /\ status' \in {status, ReservationCancelled}
          /\ UNCHANGED generation
          /\ \A d \in Chains \ {c} : pc'[d] = pc[d] /\ gen'[d] = gen[d]
      BY <1>0, <1>8 DEF OnQueryIsConcurrent, InQuery, guard, TypeOK
    <3> QED BY <1>0, <3>1, OutsideTurn
  <2> QED BY <1>0, <1>8, <2>1, PreparedType, OnQueryIsConcurrentContents, ConcurrentSorted
          DEF IInv, Prepared
<1>9. ASSUME NEW c \in Chains, DrainReads(c) \/ DrainRemoves(c) PROVE IInv'
  <2>1. Turn'
    <3>1. /\ InQuery(c) /\ InQuery(c)' /\ UNCHANGED <<guard, gen>>
          /\ \A d \in Chains \ {c} : pc'[d] = pc[d]
      BY <1>0, <1>9 DEF DrainReads, DrainRemoves, InQuery, TypeOK
    <3> QED BY <1>0, <3>1, InsideTurn
  <2>2. Kept' /\ Known' /\ Once'
    BY <1>9, DrainReadsContents, DrainRemovesContents
  <2>3. Sorted'
    <3>1. Preparing' \subseteq Preparing /\ UNCHANGED <<batch, settled, lost, requeued>>
      BY <1>0, <1>9 DEF DrainReads, DrainRemoves, Preparing, places, TypeOK
    <3> QED BY <1>0, <3>1, StaysSorted DEF Sorted
  <2> QED BY <1>0, <1>9, <2>1, <2>2, <2>3, QueryType DEF IInv
<1>10. ASSUME NEW c \in Chains, QueryEnds(c) PROVE IInv'
  <2>1. Preparing' \subseteq Preparing /\ UNCHANGED <<batch, settled, lost, requeued>>
    BY <1>0, <1>10 DEF QueryEnds, Preparing, places, TypeOK
  <2>2. Sorted'
    BY <1>0, <2>1, StaysSorted DEF Sorted
  <2> QED BY <1>0, <1>10, <2>2, QueryType, QueryEndsTurn, QueryEndsContents DEF IInv
<1>11. ASSUME NEW c \in Chains, Returns(c) PROVE IInv'
  <2>1. Turn'
    <3>1. /\ ~InQuery(c) /\ ~InQuery(c)' /\ status' \in {status, ReservationCancelled}
          /\ UNCHANGED generation
          /\ \A d \in Chains \ {c} : pc'[d] = pc[d] /\ gen'[d] = gen[d]
      BY <1>0, <1>11 DEF Returns, Frees, InQuery, TypeOK
    <3> QED BY <1>0, <3>1, OutsideTurn
  <2>2. Sorted'
    <3>1. /\ Preparing' \subseteq Preparing \ {c} /\ \A d \in Preparing' : batch'[d] = batch[d]
          /\ UNCHANGED <<settled, lost, requeued>>
      BY <1>0, <1>11 DEF Returns, Frees, Restores, Preparing, places, TypeOK
    <3> QED BY <1>0, <3>1, StaysSorted DEF Sorted
  <2> QED BY <1>0, <1>11, <2>1, <2>2, ReturnsType, ReturnsContents DEF IInv
<1>12. CASE UNCHANGED vars
  <2>1. TypeOK' /\ Turn'
    BY <1>0, <1>12 DEF vars, guard, chain, places, TypeOK, Turn, InQuery
  <2>2. UNCHANGED <<queue, pc, gen, batch, snap, transcript, attached, input, settled,
                    lost, requeued, arrived, status, generation>>
    BY <1>12 DEF vars, guard, chain, places
  <2>3. Preparing' = Preparing /\ Carried' = Carried /\ Done' = Done /\ Lost' = Lost
    BY <2>2 DEF Preparing, Carried, Done, Lost
  <2>4. Kept' /\ Known' /\ Once'
    BY <1>0, <2>2, <2>3 DEF Kept, Known, Once, Somewhere, StartedOnce, IsCurrent
  <2>5. Sorted'
    BY <1>0, <2>2, <2>3, StaysSorted DEF Sorted
  <2> QED BY <2>1, <2>4, <2>5 DEF IInv
<1>13. ASSUME PopAllEditable \/ KillAgents PROVE IInv'
  <2>1. Turn'
    BY <1>0, <1>13 DEF Turn, InQuery, PopAllEditable, KillAgents, guard, chain
  <2>2. TypeOK' /\ Kept' /\ Known' /\ Once'
    BY <1>0, <1>13, PopAllEditableType, PopAllEditableContents, KillAgentsType,
       KillAgentsContents
  <2>3. Sorted'
    <3>1. /\ Preparing' = Preparing /\ UNCHANGED <<batch, settled, requeued>>
          /\ lost'.refused = lost.refused
      BY <1>0, <1>13 DEF PopAllEditable, KillAgents, Preparing, chain, TypeOK
    <3> QED BY <1>0, <3>1, StaysSorted DEF Sorted
  <2> QED BY <2>1, <2>2, <2>3 DEF IInv
<1> QED BY <1>1, <1>2, <1>3, <1>4, <1>5, <1>6, <1>7, <1>8, <1>9, <1>10, <1>11, <1>12, <1>13
        DEF Next, Prepared

\* The inductive invariant holds in every state.
THEOREM InvHolds == Spec => []IInv
BY InitInv, Inductive, PTL DEF Spec

\* One turn at a time, whatever is cancelled and however late it ends: the guard of
\* utils/QueryGuard.ts runs exactly while one query has the current generation.
THEOREM OneCurrentTurnHolds == Spec => []OneCurrentTurn
<1>1. IInv => OneCurrentTurn
  BY DEF IInv, Turn, OneCurrentTurn
<1> QED BY <1>1, InvHolds, PTL

\* A command that arrives is somewhere between queue, chains, turns and input box, or
\* was lost in one of the three ways; no typed one is lost beside a running query.
THEOREM LostOnlyThereHolds == Spec => []LostOnlyThere
<1>1. IInv => LostOnlyThere
  BY DEF IInv, Kept, Somewhere, Sorted, LostOnlyThere
<1> QED BY <1>1, InvHolds, PTL

\* No command starts a turn twice, and none that the current turn has attached starts
\* one of its own.
THEOREM StartedOnceHolds == Spec => []StartedOnce
<1>1. IInv => StartedOnce
  BY DEF IInv, Once
<1> QED BY <1>1, InvHolds, PTL
===============================================================================
