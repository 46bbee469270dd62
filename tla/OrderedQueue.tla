------------------------------ MODULE OrderedQueue ------------------------------
(***************************************************************************)
(* What SerialBatchEventUploader promises, without batches in flight,      *)
(* retries, waiters or timers: a first-in first-out queue whose events     *)
(* leave from the front when they are delivered, or when the sender gives  *)
(* up on them; an event that cannot be sent may vanish from anywhere.      *)
(***************************************************************************)
EXTENDS Naturals, Sequences, FiniteSets, Subsequence

CONSTANTS Groups,      \* the sequences of events that may be accepted
          Unsendable,  \* the events that may be discarded from anywhere
          MaxGroup,    \* the most events that leave the queue in one step
          MayGiveUp    \* may the sender drop a group it fails to deliver?

VARIABLES queue, delivered, discarded, open

vars == <<queue, delivered, discarded, open>>

Front(s, n) == SubSeq(s, 1, n)
Rest(s, n) == SubSeq(s, n + 1, Len(s))

\* The events of s at the positions P, and what the others leave.
At(s, P) == {s[i] : i \in P}
Without(s, P) == Selected(s, DOMAIN s \ P)

\* The sets of positions of s that may vanish.
Vanishing(s) == SUBSET {i \in DOMAIN s : s[i] \in Unsendable}

Init == queue = << >> /\ delivered = {} /\ discarded = {} /\ open = TRUE

Accept(g, P) ==
  /\ open = TRUE
  /\ queue' = Without(queue \o g, P)
  /\ discarded' = discarded \cup At(queue \o g, P)
  /\ UNCHANGED <<delivered, open>>

\* The first n events were delivered, those behind them at P cannot be.
Deliver(n, P) ==
  /\ queue' = Without(Rest(queue, n), P)
  /\ delivered' = delivered \cup At(queue, 1..n)
  /\ discarded' = discarded \cup At(Rest(queue, n), P)
  /\ UNCHANGED open

GiveUp(n, P) ==
  /\ MayGiveUp
  /\ queue' = Without(Rest(queue, n), P)
  /\ discarded' = discarded \cup At(queue, 1..n) \cup At(Rest(queue, n), P)
  /\ UNCHANGED <<delivered, open>>

Discard(P) ==
  /\ queue' = Without(queue, P)
  /\ discarded' = discarded \cup At(queue, P)
  /\ UNCHANGED <<delivered, open>>

\* Closing keeps at most the group whose delivery is under way.
Close(n) ==
  /\ open = TRUE /\ open' = FALSE
  /\ queue' = Front(queue, n)
  /\ discarded' = discarded \cup At(queue, (n + 1)..Len(queue))
  /\ UNCHANGED delivered

Sizes == {n \in 0..Len(queue) : n <= MaxGroup}

Next ==
  \/ \E g \in Groups : \E P \in Vanishing(queue \o g) : Accept(g, P)
  \/ \E n \in Sizes \ {0} : \E P \in Vanishing(Rest(queue, n)) :
       Deliver(n, P) \/ GiveUp(n, P)
  \/ \E P \in Vanishing(queue) : Discard(P)
  \/ \E n \in Sizes : Close(n)

Spec == Init /\ [][Next]_vars
===============================================================================
