------------------------------- MODULE Mailbox -------------------------------
(***************************************************************************)
(* The inbox of one agent of a team (src/src/utils/teammateMailbox.ts): a  *)
(* JSON file that the processes of other agents append to and that the     *)
(* session of the agent reads and marks, once a second from                *)
(* hooks/useInboxPoller.ts and in the middle of a turn from                *)
(* getTeammateMailboxAttachments() of utils/attachments.ts.                *)
(*                                                                         *)
(* Whoever changes the file holds its lock and reads the file again first; *)
(* who only reads holds nothing.  writeFile() truncates the file before it *)
(* writes, and a file that does not parse is read as an empty one.         *)
(***************************************************************************)
EXTENDS Naturals, Sequences, FiniteSets, SequencesExt

CONSTANTS Messages,     \* each is sent by a process of its own
          Structured,   \* messages of the protocol, for the poller to route
          Nobody,
          MaxDeaths     \* bound: processes that die with the lock

Poller == "poller"
Attacher == "attacher"
Readers == {Poller, Attacher}

\* Nobody is no sender and no reader, and no message is called as a reader.
ASSUME MailboxAssumption ==
    /\ Structured \subseteq Messages /\ MaxDeaths \in Nat
    /\ Messages \cap Readers = {} /\ Nobody \notin Messages \cup Readers

VARIABLES
    form,      \* the file is absent, blank (truncated), mangled, or text
    file,      \* its entries, none unless it is text
    lock,      \* the holder of the lock file
    stage,     \* where a sender or a reader is
    base,      \* what a holder of the lock has read
    batch,     \* what a reader has taken from the file and not yet marked
    busy,      \* a turn is running
    queued,    \* AppState.inbox: pending messages
    snapshot,  \* the pending messages the attachments were built from
    shown,     \* messages the model has got
    routed,    \* messages of the protocol that were handed to their handlers
    kept,      \* what the file last held and nobody has torn
    late,      \* messages that arrived while a reader was about to mark
    deaths

session == <<busy, queued, snapshot, shown, routed>>
mailboxVars == <<form, file, lock, stage, base, batch, session, kept, late, deaths>>

Entries == [msg : Messages, read : BOOLEAN]

\* readMailbox, which takes what does not parse for an empty inbox.
Content == IF form = "text" THEN file ELSE <<>>
Unread(s) == {e.msg : e \in {x \in Range(s) : ~x.read}}

MailboxTypeOK ==
    /\ form \in {"absent", "blank", "mangled", "text"}
    /\ file \in Seq(Entries)
    /\ lock \in Messages \cup Readers \cup {Nobody}
    /\ stage \in [Messages \cup Readers ->
                  {"off", "creating", "reading", "locking", "holding", "writing",
                   "done", "dead"}]
    /\ base \in [Messages \cup Readers -> Seq(Entries)]
    /\ kept \in Seq(Entries)
    /\ batch \in [Readers -> SUBSET Messages]
    /\ busy \in BOOLEAN
    /\ {queued, snapshot, shown} \subseteq SUBSET (Messages \ Structured)
    /\ routed \subseteq Structured /\ late \subseteq Messages
    /\ deaths \in 0..MaxDeaths

MailboxInit ==
    /\ form = "absent" /\ file = <<>> /\ lock = Nobody /\ kept = <<>>
    /\ base = [x \in Messages \cup Readers |-> <<>>]
    /\ stage = [x \in Messages \cup Readers |-> "off"]
    /\ batch = [r \in Readers |-> {}]
    /\ busy = FALSE
    /\ queued = {} /\ snapshot = {} /\ shown = {} /\ routed = {} /\ late = {}
    /\ deaths = 0

Moves(x, from, to) == stage[x] = from /\ stage' = [stage EXCEPT ![x] = to]

-----------------------------------------------------------------------------
(* A change of the file: lock, read again, truncate, write, unlock.          *)

\* mutant: the change is made without the lock after all
LockOrNot(x) ==
    /\ Moves(x, "locking", "holding")
    /\ lock' = x
    /\ UNCHANGED <<form, file, base, batch, session, kept, late, deaths>>
\* lockfile.lock: ten attempts within a second, then the call gives up.
Lock(x) ==
    /\ Moves(x, "locking", "holding")
    /\ lock = Nobody
    /\ lock' = x
    /\ UNCHANGED <<form, file, base, batch, session, kept, late, deaths>>

\* The pending messages of the snapshot have been processed.
\* mutant: all pending messages are
AllProcessed == queued' = {}
SnapshotProcessed == queued' = queued \ snapshot

\* What follows a failed or a finished change: a sender has ended either way,
\* the attachments are returned.
After(x) == IF x \in Messages THEN "done" ELSE "off"
Settles(x) ==
    /\ stage' = [stage EXCEPT ![x] = After(x)]
    /\ batch' = IF x \in Readers THEN [batch EXCEPT ![x] = {}] ELSE batch
    /\ IF x = Attacher
       THEN /\ shown' = shown \cup batch[Attacher] \cup snapshot
            /\ SnapshotProcessed
            /\ snapshot' = {}
            /\ UNCHANGED <<busy, routed>>
       ELSE UNCHANGED session

GivesUp(x) ==
    /\ stage[x] = "locking" /\ lock \notin {Nobody, x}
    /\ Settles(x)
    /\ UNCHANGED <<form, file, lock, base, kept, late, deaths>>

\* readMailbox() under the lock, then writeFile() opens and truncates.  A
\* reader that finds no message writes nothing.
Truncate(x) ==
    /\ Moves(x, "holding", "writing")
    /\ x \in Messages \/ Content # <<>>
    /\ base' = [base EXCEPT ![x] = Content]
    /\ form' = "blank" /\ file' = <<>>
    /\ UNCHANGED <<lock, batch, session, kept, late, deaths>>

NothingToMark(r) ==
    /\ stage[r] = "holding" /\ Content = <<>>
    /\ lock' = Nobody
    /\ Settles(r)
    /\ UNCHANGED <<form, file, base, kept, late, deaths>>

\* markMessagesAsRead marks all there is, markMessagesAsReadByPredicate all
\* that is not of the protocol.
\* mutant: the attachments mark all as well
MarksAll(r, e) == r \in Readers
Marks(r, e) == r = Poller \/ e.msg \notin Structured
Rewritten(x) ==
    IF x \in Messages
    THEN Append(base[x], [msg |-> x, read |-> FALSE])
    ELSE [i \in DOMAIN base[x] |->
             [base[x][i] EXCEPT !.read = @ \/ Marks(x, base[x][i])]]

Land(x) ==
    /\ stage[x] = "writing"
    /\ form' = "text" /\ file' = Rewritten(x)
    /\ kept' = Rewritten(x)
    /\ lock' = Nobody /\ base' = [base EXCEPT ![x] = <<>>]
    /\ Settles(x)
    /\ late' = IF x \in Messages /\ \E r \in Readers : stage[r] = "locking"
               THEN late \cup {x} ELSE late
    /\ UNCHANGED deaths

-----------------------------------------------------------------------------
(* writeToMailbox.                                                          *)

\* writeFile with flag wx: the file is created empty, or was there.
Send(m) ==
    /\ IF form = "absent"
       THEN Moves(m, "off", "creating") /\ form' = "blank"
       ELSE Moves(m, "off", "locking") /\ UNCHANGED form
    /\ UNCHANGED <<file, lock, base, batch, session, kept, late, deaths>>

\* Its '[]' lands at the beginning of whatever the file holds by then.
Create(m) ==
    /\ Moves(m, "creating", "locking")
    /\ IF file = <<>> /\ form # "mangled"
       THEN form' = "text" /\ UNCHANGED kept
       ELSE form' = "mangled" /\ kept' = <<>>
    /\ file' = <<>>
    /\ UNCHANGED <<lock, base, batch, session, late, deaths>>

\* The process of a sender dies, at worst while it holds the lock.
Die(m) ==
    /\ deaths < MaxDeaths
    /\ stage[m] \in {"creating", "holding", "writing"}
    /\ stage' = [stage EXCEPT ![m] = "dead"]
    /\ deaths' = deaths + 1
    /\ kept' = IF stage[m] = "writing" THEN <<>> ELSE kept
    /\ UNCHANGED <<form, file, lock, base, batch, session, late>>

\* proper-lockfile takes over a lock whose holder no longer refreshes it.
LockIsFreed ==
    /\ lock \in Messages /\ stage[lock] = "dead"
    /\ lock' = Nobody
    /\ UNCHANGED <<form, file, stage, base, batch, session, kept, late, deaths>>

-----------------------------------------------------------------------------
(* The session.                                                             *)

\* What poll() does with the regular messages: a turn of their own if the
\* session is idle and takes it, else AppState.inbox.
Deliver(S) ==
    \/ /\ ~busy /\ S # {}
       /\ shown' = shown \cup S /\ busy' = TRUE
       /\ UNCHANGED queued
    \/ /\ queued' = queued \cup S
       /\ UNCHANGED <<shown, busy>>

\* Messages of the protocol are not for the model.
Regular(S) == S \ Structured

\* A tick of the poller: the messages are dealt with, then marked.
Poll ==
    /\ Moves(Poller, "off", "locking")
    /\ Unread(Content) # {}
    /\ batch' = [batch EXCEPT ![Poller] = Unread(Content)]
    /\ routed' = routed \cup (Unread(Content) \cap Structured)
    /\ Deliver(Regular(Unread(Content)))
    /\ UNCHANGED <<form, file, lock, base, snapshot, kept, late, deaths>>

TurnStarts ==
    /\ ~busy /\ busy' = TRUE
    /\ UNCHANGED <<form, file, lock, stage, base, batch, queued, snapshot, shown, routed,
                   kept, late, deaths>>

TurnEnds ==
    /\ busy /\ stage[Attacher] = "off"
    /\ busy' = FALSE
    /\ UNCHANGED <<form, file, lock, stage, base, batch, queued, snapshot, shown, routed,
                   kept, late, deaths>>

\* The effect that delivers what is pending when the session is idle.
DeliverQueued ==
    /\ ~busy /\ queued # {}
    /\ shown' = shown \cup queued /\ queued' = {}
    /\ busy' = TRUE
    /\ UNCHANGED <<form, file, lock, stage, base, batch, snapshot, routed, kept, late,
                   deaths>>

\* The attachments of a turn: the pending messages of AppState and, an await
\* later, the unread ones of the file.
AttachStarts ==
    /\ busy
    /\ Moves(Attacher, "off", "reading")
    /\ snapshot' = queued
    /\ UNCHANGED <<form, file, lock, base, batch, busy, queued, shown, routed, kept,
                   late, deaths>>

AttachReads ==
    LET new == Regular(Unread(Content)) IN
    /\ stage[Attacher] = "reading"
    /\ IF new # {}
       THEN /\ stage' = [stage EXCEPT ![Attacher] = "locking"]
            /\ batch' = [batch EXCEPT ![Attacher] = new]
            /\ UNCHANGED session
       ELSE Settles(Attacher)
    /\ UNCHANGED <<form, file, lock, base, kept, late, deaths>>

ChangesFile(x) == Lock(x) \/ GivesUp(x) \/ Truncate(x) \/ Land(x)

MailboxNext ==
    \/ \E m \in Messages : Send(m) \/ Create(m) \/ Die(m)
    \/ \E x \in Messages \cup Readers : ChangesFile(x)
    \/ \E r \in Readers : NothingToMark(r)
    \/ LockIsFreed \/ Poll \/ TurnStarts \/ TurnEnds \/ DeliverQueued
    \/ AttachStarts \/ AttachReads

MailboxSpec == MailboxInit /\ [][MailboxNext]_mailboxVars

\* Live processes go on, the poller ticks, turns end, and an idle rendering
\* runs the effect before the user can start the next turn for ever.
FairMailboxSpec ==
    /\ MailboxSpec
    /\ \A m \in Messages : WF_mailboxVars(Create(m))
    /\ \A x \in Messages \cup Readers : WF_mailboxVars(ChangesFile(x))
    /\ \A r \in Readers : WF_mailboxVars(NothingToMark(r))
    /\ WF_mailboxVars(LockIsFreed) /\ WF_mailboxVars(Poll) /\ WF_mailboxVars(TurnEnds)
    /\ SF_mailboxVars(DeliverQueued) /\ WF_mailboxVars(AttachReads)

-----------------------------------------------------------------------------
(* Properties.                                                             *)

Seen(m) == m \in shown \cup queued \cup routed

\* Whoever writes the file keeps the messages and the marks of all the others,
\* in their order: no append and no mark is lost.  Only a torn file is.
Extends(s, t) ==
    /\ Len(s) <= Len(t)
    /\ \A i \in DOMAIN s : s[i].msg = t[i].msg /\ (s[i].read => t[i].read)
NothingIsOverwritten ==
    [][kept' # kept => kept' = <<>> \/ Extends(kept, kept')]_mailboxVars

\* A message is marked without having been seen only if it arrived while a
\* reader was between its reading and its marking.  (And the state is well typed.)
LostOnlyInTheWindow ==
    MailboxTypeOK /\ \A e \in Range(file) :
       e.read => Seen(e.msg) \/ e.msg \in late \/ e.msg \in batch[Attacher]

\* An unread message gets to the model or to its handler in the end, unless it
\* was lost in the window or with a torn file.
ArrivesAtLast ==
    \A m \in Messages : m \in Unread(Content)
       ~> m \in shown \cup routed \cup late \/ m \notin {e.msg : e \in Range(kept)}

\* "This prevents permanent message loss when the session is busy": a message
\* is marked as read only after it was delivered or queued.  (Does not hold: README,
\* section 5.)
ReadMeansSeen ==
    \A e \in Range(file) : e.read => Seen(e.msg) \/ e.msg \in batch[Attacher]
=============================================================================
