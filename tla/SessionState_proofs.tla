--------------------------- MODULE SessionState_proofs -------------------------
(***************************************************************************)
(* Proofs about the uploader of worker states, and about the session that  *)
(* reports through it.  Merging patches is associative and applying one    *)
(* twice is applying it once; the uploader's invariant says which version  *)
(* the patch in flight and the one that waits lead to, the session's what  *)
(* the newest version says.                                                *)
(***************************************************************************)
EXTENDS SessionState, SequenceTheorems, TLAPS

\* A function on some of the keys.
LEMMA PartialIsFunction ==
  ASSUME NEW K, NEW f \in Partial(K)
  PROVE  /\ DOMAIN f \subseteq K
         /\ f = [k \in DOMAIN f |-> f[k]]
         /\ \A k \in DOMAIN f : f[k] \in Values
BY DEF Partial

LEMMA IsPartial ==
  ASSUME NEW K, NEW S \in SUBSET K, NEW f \in [S -> Values]
  PROVE  f \in Partial(K)
BY DEF Partial

\* Overlay() of functions on some keys is one; on all keys, it has all keys.
LEMMA OverlayPartial ==
  ASSUME NEW K, NEW f \in Partial(K), NEW g \in Partial(K)
  PROVE  Overlay(f, g) \in Partial(K)
<1>1. DOMAIN f \cup DOMAIN g \in SUBSET K
  BY PartialIsFunction
<1>2. Overlay(f, g) \in [DOMAIN f \cup DOMAIN g -> Values]
  BY PartialIsFunction DEF Overlay
<1> QED BY <1>1, <1>2, IsPartial

LEMMA OverlayTotal ==
  ASSUME NEW K, NEW f \in [K -> Values], NEW g \in Partial(K)
  PROVE  Overlay(f, g) \in [K -> Values]
BY PartialIsFunction DEF Overlay

LEMMA TotalIsPartial ==
  ASSUME NEW K, NEW f \in [K -> Values]
  PROVE  f \in Partial(K)
BY IsPartial

LEMMA OverlayAssociative ==
  ASSUME NEW K, NEW f \in Partial(K), NEW g \in Partial(K), NEW h \in Partial(K)
  PROVE  Overlay(Overlay(f, g), h) = Overlay(f, Overlay(g, h))
BY DEF Overlay

LEMMA OverlayTwice ==
  ASSUME NEW K, NEW f \in Partial(K), NEW g \in Partial(K)
  PROVE  Overlay(Overlay(f, g), g) = Overlay(f, g)
BY DEF Overlay
-------------------------------------------------------------------------------
\* The same for patches and documents.
LEMMA DocumentIsPatch == Document \subseteq Patch
BY TotalIsPartial DEF Document, Patch

LEMMA CoalesceType ==
  ASSUME NEW p \in Patch, NEW q \in Patch
  PROVE  CoalescePatches(p, q) \in Patch
BY OverlayPartial DEF CoalescePatches, Patch

LEMMA AppliedType ==
  ASSUME NEW d \in Document, NEW p \in Patch
  PROVE  Applied(d, p) \in Document
BY OverlayTotal DEF Applied, CoalescePatches, Patch, Document

\* To apply two patches is to apply what they coalesce to: the order is kept.
THEOREM AppliedCoalesced ==
  ASSUME NEW d \in Document, NEW p \in Patch, NEW q \in Patch
  PROVE  Applied(Applied(d, p), q) = Applied(d, CoalescePatches(p, q))
<1>1. d \in Patch
  BY DocumentIsPatch
<1> QED BY <1>1, OverlayAssociative DEF Applied, CoalescePatches, Patch

\* A body that the server applied although its answer was lost may be sent again.
LEMMA AppliedTwice ==
  ASSUME NEW d \in Document, NEW p \in Patch
  PROVE  Applied(Applied(d, p), p) = Applied(d, p)
<1>1. d \in Patch
  BY DocumentIsPatch
<1> QED BY <1>1, OverlayTwice DEF Applied, CoalescePatches, Patch
-------------------------------------------------------------------------------
Uploaders ==
  [inflight : {"none", "sending", "sleeping"},
   current : Patch \cup {NoPatch}, pending : Patch \cup {NoPatch},
   closed : BOOLEAN, written : Seq(Document), covered : Nat]

\* Where the patches of uploader u lead to, when the server has doc, the n-th version:
\* the one in flight to the version covered, the one that waits from there to the newest.
Leads(u, doc, n) ==
  /\ n \in 1..u.covered /\ u.covered \in 1..Len(u.written) /\ doc = u.written[n]
  /\ u.inflight # "none" =>
       u.current \in Patch /\ Applied(doc, u.current) = u.written[u.covered]
  /\ u.inflight = "none" /\ ~u.closed => n = u.covered
  /\ u.pending # NoPatch => Applied(u.written[u.covered], u.pending) = Newest(u)
  /\ u.pending = NoPatch /\ ~u.closed => u.covered = Len(u.written)

\* No patch waits while nothing is in flight.
Watched(u) == u.inflight = "none" /\ ~u.closed => u.pending = NoPatch

Inv == TypeOK /\ Leads(up, server, seen) /\ Watched(up)

\* drain() may be called whenever the patches lead where they should.
LEMMA DrainedLeads ==
  ASSUME NEW u \in Uploaders, NEW doc, NEW n, u.closed => u.pending = NoPatch,
         Leads(u, doc, n)
  PROVE  /\ Drained(u) \in Uploaders
         /\ Drained(u).closed => Drained(u).pending = NoPatch
         /\ Drained(u).written = u.written
         /\ Leads(Drained(u), doc, n) /\ Watched(Drained(u))
<1>1. CASE u.inflight # "none" \/ u.closed \/ u.pending = NoPatch
  <2>1. Drained(u) = u
    BY <1>1 DEF Drained
  <2>2. Watched(u)
    BY <1>1 DEF Watched
  <2> QED BY <2>1, <2>2
<1>2. CASE u.inflight = "none" /\ ~u.closed /\ u.pending # NoPatch
  <2> DEFINE v == [u EXCEPT !.inflight = "sending", !.current = u.pending,
                            !.pending = NoPatch, !.covered = Len(u.written)]
  <2>1. Drained(u) = v
    BY <1>2 DEF Drained
  <2>2. v \in Uploaders /\ v.written = u.written
    <3>1. u.pending \in Patch /\ Len(u.written) \in Nat
      BY <1>2 DEF Uploaders
    <3> QED BY <3>1 DEF Uploaders
  <2>3. Leads(v, doc, n)
    <3>1. u.pending \in Patch /\ doc = u.written[u.covered]
      BY <1>2 DEF Leads, Uploaders
    <3>2. Applied(doc, u.pending) = u.written[Len(u.written)]
      BY <1>2, <3>1 DEF Leads, Newest
    <3>3. n \in 1..Len(u.written) /\ Len(u.written) \in Nat
      BY DEF Leads, Uploaders
    <3> QED BY <1>2, <3>1, <3>2, <3>3 DEF Leads, Uploaders, Newest
  <2>4. Watched(v) /\ (v.closed => v.pending = NoPatch)
    BY <1>2 DEF Watched, Uploaders
  <2> QED BY <2>1, <2>2, <2>3, <2>4
<1> QED BY <1>1, <1>2

\* enqueue() of a patch, on an uploader that is not closed.
LEMMA EnqueuedLeads ==
  ASSUME NEW u \in Uploaders, NEW doc, NEW n, NEW p \in Patch, ~u.closed,
         Leads(u, doc, n)
  PROVE  /\ Enqueued(u, p) \in Uploaders
         /\ Enqueued(u, p).closed => Enqueued(u, p).pending = NoPatch
         /\ Enqueued(u, p).written = Append(u.written, Applied(Newest(u), p))
         /\ Leads(Enqueued(u, p), doc, n) /\ Watched(Enqueued(u, p))
<1> DEFINE w == Append(u.written, Applied(Newest(u), p))
           v == [u EXCEPT !.pending = AddTo(u.pending, p), !.written = w]
<1>1. Newest(u) \in Document /\ Len(u.written) \in Nat /\ Len(u.written) >= 1
  BY DEF Newest, Leads, Uploaders
<1>2. Applied(Newest(u), p) \in Document
  BY <1>1, AppliedType
<1>3. /\ w \in Seq(Document) /\ Len(w) = Len(u.written) + 1
      /\ w[Len(w)] = Applied(Newest(u), p)
      /\ \A i \in 1..Len(u.written) : w[i] = u.written[i]
  BY <1>1, <1>2 DEF Uploaders
<1>4. AddTo(u.pending, p) \in Patch
  BY CoalesceType DEF AddTo, Uploaders
<1>5. v \in Uploaders
  BY <1>3, <1>4 DEF Uploaders
<1>6. Applied(u.written[u.covered], AddTo(u.pending, p)) = Applied(Newest(u), p)
  <2>1. CASE u.pending = NoPatch
    BY <2>1 DEF AddTo, Leads, Newest
  <2>2. CASE u.pending # NoPatch
    <3>1. u.pending \in Patch /\ u.written[u.covered] \in Document
      BY <2>2 DEF Leads, Uploaders
    <3>2. Applied(Applied(u.written[u.covered], u.pending), p)
            = Applied(u.written[u.covered], AddTo(u.pending, p))
      BY <2>2, <3>1, AppliedCoalesced DEF AddTo
    <3> QED BY <2>2, <3>2 DEF Leads
  <2> QED BY <2>1, <2>2
<1>7. /\ v.pending = AddTo(u.pending, p) /\ v.pending # NoPatch /\ v.written = w
      /\ v.inflight = u.inflight /\ v.current = u.current
      /\ v.closed = u.closed /\ v.covered = u.covered
  BY <1>4, NoPatchIsNone DEF Uploaders
<1>8. Newest(v) = Applied(Newest(u), p)
  BY <1>3, <1>7 DEF Newest
<1>9. u.covered \in 1..Len(u.written) /\ n \in 1..u.covered
  BY DEF Leads
<1>10. w[n] = u.written[n] /\ w[u.covered] = u.written[u.covered]
  BY <1>1, <1>3, <1>9
<1>11. Leads(v, doc, n)
  BY <1>1, <1>3, <1>6, <1>7, <1>8, <1>9, <1>10 DEF Leads
<1>12. Enqueued(u, p) = Drained(v)
  BY DEF Enqueued
<1> QED BY <1>5, <1>7, <1>11, <1>12, DrainedLeads
-------------------------------------------------------------------------------
LEMMA InitInv == Init => Inv
<1> SUFFICES ASSUME Init PROVE Inv
  OBVIOUS
<1>1. <<Blank>> \in Seq(Document) /\ Len(<<Blank>>) = 1 /\ <<Blank>>[1] = Blank
  BY BlankIsDocument
<1> QED BY <1>1, BlankIsDocument DEF Init, Fresh, Inv, TypeOK, Leads, Watched, Newest

\* What a PUT that arrives does to the server, and to what the patches lead to.
LEMMA ArrivesLeads ==
  ASSUME Inv, up.inflight = "sending", Arrives
  PROVE  /\ server' = up.written[up.covered] /\ server' \in Document
         /\ seen' = up.covered /\ seen' \in Nat
         /\ Leads(up, server', seen')
<1>1. /\ up \in Uploaders /\ up.current \in Patch /\ server \in Document
      /\ up.covered \in 1..Len(up.written)
      /\ Applied(server, up.current) = up.written[up.covered]
  BY DEF Inv, TypeOK, Leads, Uploaders
<1>2. server' = up.written[up.covered] /\ seen' = up.covered
  BY <1>1 DEF Arrives
<1>3. server' \in Document /\ seen' \in Nat
  BY <1>1, <1>2 DEF Uploaders
<1>4. Applied(server', up.current) = up.written[up.covered]
  BY <1>1, <1>2, AppliedTwice
<1> QED BY <1>1, <1>2, <1>3, <1>4 DEF Inv, Leads, Uploaders

LEMMA NextInv == Inv /\ [Next]_vars => Inv'
<1> SUFFICES ASSUME Inv, [Next]_vars PROVE Inv'
  OBVIOUS
<1>0. up \in Uploaders /\ (up.closed => up.pending = NoPatch)
  BY DEF Inv, TypeOK, Uploaders
<1>1. ASSUME NEW p \in Patch, Enqueue(p) PROVE Inv'
  <2>1. CASE up.closed
    BY <1>1, <2>1 DEF Enqueue, Enqueued, Inv, TypeOK
  <2>2. CASE ~up.closed
    BY <1>0, <1>1, <2>2, EnqueuedLeads DEF Enqueue, Inv, TypeOK, Uploaders
  <2> QED BY <2>1, <2>2
<1>2. CASE Close
  BY <1>0, <1>2 DEF Close, Inv, TypeOK, Leads, Watched, Newest, Uploaders
<1>3. CASE SendSucceeds
  <2> DEFINE u == [up EXCEPT !.inflight = "none", !.current = NoPatch]
  <2>1. /\ u \in Uploaders /\ (u.closed => u.pending = NoPatch)
        /\ u.inflight = "none" /\ u.pending = up.pending /\ u.closed = up.closed
        /\ u.written = up.written /\ u.covered = up.covered
    BY <1>0 DEF Uploaders
  <2>2. Leads(up, server', seen') /\ server' \in Document /\ seen' \in Nat
        /\ seen' = up.covered
    BY <1>3, ArrivesLeads DEF SendSucceeds
  <2>3. Leads(u, server', seen')
    BY <2>1, <2>2 DEF Leads, Newest
  <2>4. up' = Drained(u)
    BY <1>3 DEF SendSucceeds
  <2> HIDE DEF u
  <2> QED BY <2>1, <2>2, <2>3, <2>4, DrainedLeads DEF Inv, TypeOK, Uploaders
<1>4. CASE SendFails
  <2>1. /\ up' \in Uploaders /\ up'.closed = up.closed /\ up'.pending = up.pending
        /\ up'.inflight = "sleeping" /\ up'.current = up.current
        /\ up'.written = up.written /\ up'.covered = up.covered
    BY <1>0, <1>4 DEF SendFails, Uploaders
  <2>2. Leads(up, server', seen') /\ server' \in Document /\ seen' \in Nat
    <3>1. CASE UNCHANGED <<server, seen>>
      BY <3>1 DEF Inv, TypeOK
    <3>2. CASE Arrives
      BY <1>4, <3>2, ArrivesLeads DEF SendFails
    <3> QED BY <1>4, <3>1, <3>2 DEF SendFails
  <2>3. Leads(up', server', seen')
    BY <1>4, <2>1, <2>2 DEF Leads, Newest, SendFails
  <2> QED BY <1>0, <2>1, <2>2, <2>3 DEF Inv, TypeOK, Uploaders, Watched
<1>5. CASE SleepEnds
  <2>0. UNCHANGED <<server, seen>> /\ up.inflight = "sleeping"
    BY <1>5 DEF SleepEnds
  <2>1. CASE up.closed
    BY <1>0, <1>5, <2>0, <2>1 DEF SleepEnds, Inv, TypeOK, Leads, Watched, Newest, Uploaders
  <2>2. CASE ~up.closed /\ up.pending = NoPatch
    BY <1>0, <1>5, <2>0, <2>2 DEF SleepEnds, Inv, TypeOK, Leads, Watched, Newest, Uploaders
  <2>3. CASE ~up.closed /\ up.pending # NoPatch
    <3>1. /\ up.current \in Patch /\ up.pending \in Patch /\ server \in Document
          /\ Applied(server, up.current) = up.written[up.covered]
          /\ Applied(up.written[up.covered], up.pending) = Newest(up)
      BY <1>0, <2>0, <2>3 DEF Inv, TypeOK, Leads, Uploaders
    <3>2. CoalescePatches(up.current, up.pending) \in Patch
      BY <3>1, CoalesceType
    <3>3. Applied(server, CoalescePatches(up.current, up.pending)) = Newest(up)
      BY <3>1, AppliedCoalesced
    <3>4. /\ up' \in Uploaders /\ ~up'.closed /\ up'.pending = NoPatch
          /\ up'.inflight = "sending" /\ up'.written = up.written
          /\ up'.current = CoalescePatches(up.current, up.pending)
          /\ up'.covered = Len(up.written)
      <4>1. up' = [up EXCEPT !.inflight = "sending", !.pending = NoPatch,
                             !.current = CoalescePatches(up.current, up.pending),
                             !.covered = Len(up.written)]
        BY <1>5, <2>3 DEF SleepEnds
      <4>2. Len(up.written) \in Nat
        BY <1>0 DEF Uploaders
      <4> QED BY <1>0, <2>3, <3>2, <4>1, <4>2 DEF Uploaders
    <3>5. Leads(up', server, seen)
      <4>1. /\ seen \in 1..up.covered /\ up.covered \in 1..Len(up.written)
            /\ server = up.written[seen] /\ Len(up.written) \in Nat
        BY <1>0 DEF Inv, Leads, Uploaders
      <4>2. seen \in 1..up'.covered /\ up'.covered \in 1..Len(up'.written)
        BY <3>4, <4>1
      <4>3. up'.current \in Patch /\ Applied(server, up'.current) = up'.written[up'.covered]
        BY <3>2, <3>3, <3>4 DEF Newest
      <4> QED BY <3>4, <4>1, <4>2, <4>3 DEF Leads
    <3> QED BY <2>0, <3>4, <3>5 DEF Inv, TypeOK, Uploaders, Watched
  <2> QED BY <2>1, <2>2, <2>3
<1>6. CASE UNCHANGED vars
  BY <1>6 DEF vars, Inv, TypeOK, Leads, Watched, Newest
<1> QED BY <1>1, <1>2, <1>3, <1>4, <1>5, <1>6 DEF Next, Network

LEMMA Invariance == Spec => []Inv
BY InitInv, NextInv, PTL DEF Spec

\* Type correctness of the uploader of worker states.
THEOREM TypeCorrect == Spec => []TypeOK
<1>1. Inv => TypeOK
  BY DEF Inv
<1> QED BY <1>1, Invariance, PTL

\* No patch is left behind: when nothing is in flight, the server has the newest version.
THEOREM IdlePublished == Spec => []IdleMeansPublished
<1>1. Inv => IdleMeansPublished
  BY DEF Inv, Leads, Watched, IdleMeansPublished, Newest
<1> QED BY <1>1, Invariance, PTL

\* Every step of the uploader is one of the published document, or leaves it alone.
LEMMA StepIsPublication ==
  ASSUME Inv, [Next]_vars
  PROVE  [Published!Next]_<<up.written, seen, server>>
<1>0. up \in Uploaders
  BY DEF Inv, TypeOK, Uploaders
<1>1. ASSUME NEW p \in Patch, Enqueue(p)
      PROVE  [Published!Next]_<<up.written, seen, server>>
  <2>1. CASE up.closed
    BY <1>1, <2>1 DEF Enqueue, Enqueued
  <2>2. CASE ~up.closed
    <3>1. up'.written = Append(up.written, Applied(Newest(up), p))
      BY <1>0, <1>1, <2>2, EnqueuedLeads DEF Enqueue, Inv
    <3>2. /\ Len(up'.written) >= Len(up.written)
          /\ \A i \in 1..Len(up.written) : up'.written[i] = up.written[i]
      BY <1>0, <3>1 DEF Uploaders
    <3>3. Published!Write
      BY <1>1, <3>2 DEF Published!Write, Published!Keeps, Enqueue
    <3> QED BY <3>3 DEF Published!Next
  <2> QED BY <2>1, <2>2
<1>2. ASSUME Arrives, up.inflight = "sending", up'.written = up.written
      PROVE  Published!Publish
  <2>1. server' = up.written[up.covered] /\ seen' = up.covered
    BY <1>2, ArrivesLeads
  <2>2. up.covered \in seen..Len(up.written)
    BY DEF Inv, TypeOK, Leads
  <2> QED BY <1>2, <2>1, <2>2 DEF Published!Publish
<1>3. CASE SendSucceeds
  <2>1. up'.written = up.written
    BY <1>0, <1>3 DEF SendSucceeds, Drained, Uploaders
  <2> QED BY <1>2, <1>3, <2>1 DEF SendSucceeds, Published!Next
<1>4. CASE SendFails
  <2>1. up'.written = up.written
    BY <1>0, <1>4 DEF SendFails, Uploaders
  <2> QED BY <1>2, <1>4, <2>1 DEF SendFails, Published!Next
<1>5. CASE Close \/ SleepEnds \/ UNCHANGED vars
  BY <1>0, <1>5 DEF Close, SleepEnds, vars, Uploaders
<1> QED BY <1>1, <1>3, <1>4, <1>5 DEF Next, Network

\* The uploader implements a document that is published version by version.
THEOREM ImplementsDocument == Spec => PublishedInOrder
<1>1. Init => Published!Init
  BY DEF Init, Fresh, Published!Init
<1>2. Inv /\ [Next]_vars => [Published!Next]_<<up.written, seen, server>>
  BY StepIsPublication
<1> QED BY <1>1, <1>2, Invariance, PTL DEF Spec, PublishedInOrder
-------------------------------------------------------------------------------
(* The session: what its patches do to the newest version.                   *)

sVars == <<vars, sessionVars>>

\* An uploader as the invariant wants it, when the server has doc, the n-th version.
Sound(u, doc, n) ==
  /\ u \in Uploaders /\ (u.closed => u.pending = NoPatch)
  /\ Leads(u, doc, n) /\ Watched(u)

\* The version says that the state is s, whether an action is pending, and the mode.
Says(doc, s, pending, m) ==
  /\ doc.top["worker_status"] = s
  /\ doc.meta["pending_action"] # Null <=> pending
  /\ Restored(doc) = m

\* Nobody writes anything else as a permission mode.
KnownMode(doc) == doc.meta["permission_mode"] \in Modes \cup {Null}

\* All versions have known modes, and the newest one says ...
Tells(u, s, pending, m) ==
  /\ \A i \in 1..Len(u.written) : KnownMode(u.written[i])
  /\ ~u.closed => Says(Newest(u), s, pending, m)

\* What enqueue() keeps.
Continues(u, w) ==
  /\ w.closed = u.closed /\ Len(w.written) >= Len(u.written)
  /\ \A i \in 1..Len(u.written) : w.written[i] = u.written[i]

LEMMA ContinuesOn ==
  ASSUME NEW u \in Uploaders, NEW v \in Uploaders, NEW w \in Uploaders,
         Continues(u, v), Continues(v, w)
  PROVE  Continues(u, w)
<1>1. Len(u.written) \in Nat /\ Len(v.written) \in Nat /\ Len(w.written) \in Nat
  BY DEF Uploaders
<1>2. \A i \in 1..Len(u.written) : i \in 1..Len(v.written)
  BY <1>1 DEF Continues
<1> QED BY <1>1, <1>2 DEF Continues

LEMMA DrainedClosed ==
  ASSUME NEW u \in Uploaders
  PROVE  Drained(u).closed = u.closed
BY DEF Drained, Uploaders

\* One patch: a step from a sound uploader to a sound one, with one version more
\* unless it is closed.
LEMMA EnqueuedSound ==
  ASSUME NEW u, NEW d, NEW n, Sound(u, d, n), NEW p \in Patch
  PROVE  /\ Sound(Enqueued(u, p), d, n) /\ Continues(u, Enqueued(u, p))
         /\ u.closed => Enqueued(u, p) = u
         /\ ~u.closed =>
              /\ Newest(u) \in Document
              /\ Enqueued(u, p).written = Append(u.written, Applied(Newest(u), p))
              /\ Newest(Enqueued(u, p)) = Applied(Newest(u), p)
<1>0. u \in Uploaders /\ Leads(u, d, n) /\ Len(u.written) \in Nat
  BY DEF Sound, Uploaders
<1>1. CASE u.closed
  <2>1. Enqueued(u, p) = u
    BY <1>1 DEF Enqueued
  <2>2. Continues(u, u)
    BY <1>0 DEF Continues
  <2> QED BY <1>1, <2>1, <2>2
<1>2. CASE ~u.closed
  <2> DEFINE e == Enqueued(u, p)
             v == [u EXCEPT !.pending = AddTo(u.pending, p),
                            !.written = Append(u.written, Applied(Newest(u), p))]
  <2>1. /\ e \in Uploaders /\ (e.closed => e.pending = NoPatch)
        /\ e.written = Append(u.written, Applied(Newest(u), p))
        /\ Leads(e, d, n) /\ Watched(e)
    BY <1>0, <1>2, EnqueuedLeads
  <2>2. Newest(u) \in Document /\ Applied(Newest(u), p) \in Document
    <3>1. Len(u.written) \in 1..Len(u.written) /\ u.written \in Seq(Document)
      BY <1>0 DEF Leads, Uploaders
    <3> QED BY <3>1, AppliedType DEF Newest
  <2>3. /\ Len(e.written) = Len(u.written) + 1
        /\ e.written[Len(u.written) + 1] = Applied(Newest(u), p)
        /\ \A i \in 1..Len(u.written) : e.written[i] = u.written[i]
    <3>1. u.written \in Seq(Document)
      BY <1>0 DEF Uploaders
    <3> QED BY <1>0, <2>1, <2>2, <3>1, AppendProperties
  <2>4. e.closed = u.closed
    <3>1. AddTo(u.pending, p) \in Patch
      BY <1>0, CoalesceType DEF AddTo, Uploaders
    <3>2. v \in Uploaders /\ v.closed = u.closed
      <4>1. Append(u.written, Applied(Newest(u), p)) \in Seq(Document)
        BY <1>0, <2>2 DEF Uploaders
      <4> QED BY <1>0, <3>1, <4>1 DEF Uploaders
    <3>3. e = Drained(v)
      BY <1>2 DEF Enqueued
    <3> QED BY <3>2, <3>3, DrainedClosed
  <2>5. Newest(e) = Applied(Newest(u), p)
    BY <2>3 DEF Newest
  <2>6. Continues(u, e)
    BY <1>0, <2>3, <2>4 DEF Continues
  <2> QED BY <1>2, <2>1, <2>2, <2>5, <2>6 DEF Sound
<1> QED BY <1>1, <1>2

\* The same for what the versions say.
LEMMA EnqueuedTells ==
  ASSUME NEW u, NEW d, NEW n, Sound(u, d, n),
         NEW s, NEW a, NEW m, Tells(u, s, a, m), NEW p \in Patch,
         NEW t, NEW b, NEW o,
         \A doc \in Document : Says(doc, s, a, m) => Says(Applied(doc, p), t, b, o),
         \A doc \in Document : KnownMode(doc) => KnownMode(Applied(doc, p))
  PROVE  /\ Sound(Enqueued(u, p), d, n) /\ Tells(Enqueued(u, p), t, b, o)
         /\ Continues(u, Enqueued(u, p))
<1> DEFINE e == Enqueued(u, p)
<1>1. /\ Sound(e, d, n) /\ Continues(u, e) /\ u \in Uploaders
      /\ u.closed => e = u
      /\ ~u.closed => /\ Newest(u) \in Document
                      /\ e.written = Append(u.written, Applied(Newest(u), p))
                      /\ Newest(e) = Applied(Newest(u), p)
  BY EnqueuedSound DEF Tells, Sound
<1>2. CASE u.closed
  BY <1>1, <1>2 DEF Tells
<1>3. CASE ~u.closed
  <2>1. /\ u.written \in Seq(Document) /\ Len(u.written) \in Nat
        /\ Len(u.written) \in 1..Len(u.written)
    BY <1>1 DEF Uploaders, Tells, Sound, Leads
  <2>2. KnownMode(Newest(u)) /\ Says(Newest(u), s, a, m)
    BY <1>3, <2>1 DEF Tells, Newest
  <2>3. KnownMode(Applied(Newest(u), p)) /\ Says(Newest(e), t, b, o)
    BY <1>1, <1>3, <2>2
  <2>4. ASSUME NEW i \in 1..Len(e.written) PROVE KnownMode(e.written[i])
    <3> DEFINE x == Applied(Newest(u), p)
    <3>1. x \in Document
      BY <1>1, <1>3, AppliedType
    <3>2. e.written = Append(u.written, x)
      BY <1>1, <1>3
    <3> HIDE DEF x, e
    <3>3. /\ Len(e.written) = Len(u.written) + 1
          /\ \A j \in 1..Len(u.written) : e.written[j] = u.written[j]
          /\ e.written[Len(u.written) + 1] = x
      BY <2>1, <3>1, <3>2, AppendProperties
    <3>4. CASE i = Len(u.written) + 1
      BY <2>3, <3>3, <3>4 DEF x
    <3>5. CASE i # Len(u.written) + 1
      <4>1. i \in 1..Len(u.written)
        BY <2>1, <3>3, <3>5
      <4> QED BY <3>3, <4>1 DEF Tells
    <3> QED BY <3>4, <3>5
  <2> QED BY <1>1, <2>3, <2>4 DEF Tells
<1> QED BY <1>2, <1>3

Details == Prompts \cup {Null}
SessionStates == {"idle", "running", "requires_action"}

LEMMA StatusIs ==
  ASSUME NEW state \in SessionStates, NEW details \in Details
  PROVE  /\ Status(state, details) \in Patch
         /\ \A doc \in Document :
              /\ Applied(doc, Status(state, details)).top["worker_status"] = state
              /\ Applied(doc, Status(state, details)).meta = doc.meta
<1> DEFINE p == Status(state, details)
<1>1. /\ DOMAIN p.top = {"worker_status", "requires_action_details"}
      /\ p.top["worker_status"] = state /\ p.top["requires_action_details"] = details
      /\ DOMAIN p.meta = {} /\ p.meta = None
  BY DEF Status, None
<1>2. state \in Values /\ details \in Values
  BY SessionAssumption DEF SessionStates, Details
<1>3. p.top \in Partial(TopKeys)
  <2>1. p.top \in [{"worker_status", "requires_action_details"} -> Values]
    BY <1>2 DEF Status
  <2>2. {"worker_status", "requires_action_details"} \in SUBSET TopKeys
    BY SessionAssumption
  <2> QED BY <2>1, <2>2, IsPartial
<1>4. p.meta \in Partial(MetaKeys)
  <2>1. p.meta \in [{} -> Values]
    BY DEF Status, None
  <2>2. {} \in SUBSET MetaKeys
    OBVIOUS
  <2> QED BY <2>1, <2>2, IsPartial
<1>5. p \in Patch
  BY <1>3, <1>4 DEF Patch, Status
<1>6. ASSUME NEW doc \in Document
      PROVE  /\ Applied(doc, p).top["worker_status"] = state
             /\ Applied(doc, p).meta = doc.meta
  <2>1. doc.top \in [TopKeys -> Values] /\ doc.meta \in [MetaKeys -> Values]
    BY DEF Document
  <2>2. /\ Applied(doc, p).top = Overlay(doc.top, p.top)
        /\ Applied(doc, p).meta = Overlay(doc.meta, p.meta)
    BY DEF Applied
  <2> HIDE DEF p
  <2>3. Overlay(doc.top, p.top)["worker_status"] = state
    BY <1>1, <2>1 DEF Overlay
  <2>4. Overlay(doc.meta, p.meta) = doc.meta
    BY <1>1, <2>1 DEF Overlay
  <2> QED BY <2>2, <2>3, <2>4
<1> QED BY <1>5, <1>6

LEMMA MetadataIs ==
  ASSUME NEW key \in MetaKeys, NEW value \in Values
  PROVE  /\ Metadata(key, value) \in Patch
         /\ \A doc \in Document :
              /\ Applied(doc, Metadata(key, value)).top = doc.top
              /\ \A k \in MetaKeys :
                   Applied(doc, Metadata(key, value)).meta[k] =
                     IF k = key THEN value ELSE doc.meta[k]
<1> DEFINE p == Metadata(key, value)
<1>1. /\ DOMAIN p.top = {} /\ p.top = None
      /\ DOMAIN p.meta = {key} /\ p.meta[key] = value
  BY DEF Metadata, None
<1>2. p.top \in Partial(TopKeys)
  <2>1. p.top \in [{} -> Values]
    BY DEF Metadata, None
  <2>2. {} \in SUBSET TopKeys
    OBVIOUS
  <2> QED BY <2>1, <2>2, IsPartial
<1>3. p.meta \in Partial(MetaKeys)
  <2>1. p.meta \in [{key} -> Values]
    BY DEF Metadata
  <2>2. {key} \in SUBSET MetaKeys
    OBVIOUS
  <2> QED BY <2>1, <2>2, IsPartial
<1>4. p \in Patch
  BY <1>2, <1>3 DEF Patch, Metadata
<1>5. ASSUME NEW doc \in Document
      PROVE  /\ Applied(doc, p).top = doc.top
             /\ \A k \in MetaKeys :
                  Applied(doc, p).meta[k] = IF k = key THEN value ELSE doc.meta[k]
  <2>1. doc.top \in [TopKeys -> Values] /\ doc.meta \in [MetaKeys -> Values]
    BY DEF Document
  <2>2. /\ Applied(doc, p).top = Overlay(doc.top, p.top)
        /\ Applied(doc, p).meta = Overlay(doc.meta, p.meta)
    BY DEF Applied
  <2> HIDE DEF p
  <2>3. Overlay(doc.top, p.top) = doc.top
    BY <1>1, <2>1 DEF Overlay
  <2>4. \A k \in MetaKeys :
          Overlay(doc.meta, p.meta)[k] = IF k = key THEN value ELSE doc.meta[k]
    BY <1>1, <2>1 DEF Overlay
  <2> QED BY <2>2, <2>3, <2>4
<1> QED BY <1>4, <1>5
-------------------------------------------------------------------------------
(* What each listener makes of a version.                                    *)

\* reportState(), unless the state was reported last.
LEMMA StateReportedTells ==
  ASSUME NEW u, NEW d, NEW n, Sound(u, d, n), NEW m,
         Tells(u, reported, hasPendingAction, m),
         NEW state \in SessionStates, NEW details \in Details
  PROVE  LET w == StateReported(u, state, details) IN
         Sound(w, d, n) /\ Tells(w, state, hasPendingAction, m) /\ Continues(u, w)
<1> DEFINE p == Status(state, details)
<1>1. CASE state = reported /\ details = Null
  <2>1. StateReported(u, state, details) = u
    BY <1>1 DEF StateReported
  <2>2. Continues(u, u)
    BY DEF Tells, Sound, Uploaders, Continues
  <2> QED BY <1>1, <2>1, <2>2
<1>2. CASE ~(state = reported /\ details = Null)
  <2>1. StateReported(u, state, details) = Enqueued(u, p)
    BY <1>2 DEF StateReported
  <2>2. /\ p \in Patch
        /\ \A doc \in Document : Applied(doc, p).top["worker_status"] = state
        /\ \A doc \in Document : Applied(doc, p).meta = doc.meta
    BY StatusIs
  <2> HIDE DEF p
  <2>3. \A doc \in Document : Says(doc, reported, hasPendingAction, m)
                                => Says(Applied(doc, p), state, hasPendingAction, m)
    BY <2>2 DEF Says, Restored
  <2>4. \A doc \in Document : KnownMode(doc) => KnownMode(Applied(doc, p))
    BY <2>2 DEF KnownMode
  <2> QED BY <2>1, <2>2, <2>3, <2>4, EnqueuedTells
<1> QED BY <1>1, <1>2

\* reportMetadata() of a pending action, or of none.
LEMMA PendingActionTells ==
  ASSUME NEW u, NEW d, NEW n, Sound(u, d, n), NEW s, NEW a, NEW m,
         Tells(u, s, a, m), NEW details \in Details
  PROVE  LET w == Enqueued(u, Metadata("pending_action", details)) IN
         Sound(w, d, n) /\ Tells(w, s, details # Null, m) /\ Continues(u, w)
<1> DEFINE p == Metadata("pending_action", details)
<1>1. /\ p \in Patch
      /\ \A doc \in Document :
           /\ Applied(doc, p).top = doc.top
           /\ Applied(doc, p).meta["pending_action"] = details
           /\ Applied(doc, p).meta["permission_mode"] = doc.meta["permission_mode"]
  <2>1. /\ "pending_action" \in MetaKeys /\ "permission_mode" \in MetaKeys
        /\ details \in Values
    BY SessionAssumption DEF Details
  <2> QED BY <2>1, MetadataIs
<1> HIDE DEF p
<1>2. \A doc \in Document : Says(doc, s, a, m) => Says(Applied(doc, p), s, details # Null, m)
  BY <1>1 DEF Says, Restored
<1>3. \A doc \in Document : KnownMode(doc) => KnownMode(Applied(doc, p))
  BY <1>1 DEF KnownMode
<1>4. /\ Sound(Enqueued(u, p), d, n) /\ Tells(Enqueued(u, p), s, details # Null, m)
      /\ Continues(u, Enqueued(u, p))
  BY <1>1, <1>2, <1>3, EnqueuedTells
<1> QED BY <1>4 DEF p

LEMMA ActionReportedTells ==
  ASSUME NEW u, NEW d, NEW n, Sound(u, d, n), NEW s, NEW m,
         Tells(u, s, hasPendingAction, m),
         hasPendingAction \in BOOLEAN, NEW details \in Details
  PROVE  LET w == ActionReported(u, details) IN
         Sound(w, d, n) /\ Tells(w, s, details # Null, m) /\ Continues(u, w)
<1>1. CASE details # Null
  <2>1. ActionReported(u, details) = Enqueued(u, Metadata("pending_action", details))
    BY <1>1 DEF ActionReported
  <2> QED BY <2>1, PendingActionTells
<1>2. CASE details = Null /\ hasPendingAction
  <2>1. ActionReported(u, details) = Enqueued(u, Metadata("pending_action", details))
    BY <1>2 DEF ActionReported
  <2> QED BY <2>1, PendingActionTells
<1>3. CASE details = Null /\ ~hasPendingAction
  <2>1. ActionReported(u, details) = u
    BY <1>3 DEF ActionReported
  <2>2. Continues(u, u)
    BY DEF Tells, Sound, Uploaders, Continues
  <2>3. Tells(u, s, details # Null, m)
    BY <1>3 DEF Tells, Says
  <2> QED BY <2>1, <2>2, <2>3
<1> QED BY <1>1, <1>2, <1>3

LEMMA SummaryClearedTells ==
  ASSUME NEW u, NEW d, NEW n, Sound(u, d, n), NEW s, NEW a, NEW m,
         Tells(u, s, a, m), NEW state
  PROVE  LET w == SummaryCleared(u, state) IN
         Sound(w, d, n) /\ Tells(w, s, a, m) /\ Continues(u, w)
<1> DEFINE p == Metadata("task_summary", Null)
<1>1. CASE state # "idle"
  <2>1. SummaryCleared(u, state) = u
    BY <1>1 DEF SummaryCleared
  <2>2. Continues(u, u)
    BY DEF Tells, Sound, Uploaders, Continues
  <2> QED BY <2>1, <2>2
<1>2. CASE state = "idle"
  <2>1. SummaryCleared(u, state) = Enqueued(u, p)
    BY <1>2 DEF SummaryCleared
  <2>2. /\ p \in Patch
        /\ \A doc \in Document :
             /\ Applied(doc, p).top = doc.top
             /\ Applied(doc, p).meta["pending_action"] = doc.meta["pending_action"]
             /\ Applied(doc, p).meta["permission_mode"] = doc.meta["permission_mode"]
    <3>1. /\ "pending_action" \in MetaKeys /\ "permission_mode" \in MetaKeys
          /\ "task_summary" \in MetaKeys /\ Null \in Values
      BY SessionAssumption
    <3> QED BY <3>1, MetadataIs
  <2> HIDE DEF p
  <2>3. \A doc \in Document : Says(doc, s, a, m) => Says(Applied(doc, p), s, a, m)
    BY <2>2 DEF Says, Restored
  <2>4. \A doc \in Document : KnownMode(doc) => KnownMode(Applied(doc, p))
    BY <2>2 DEF KnownMode
  <2> QED BY <2>1, <2>2, <2>3, <2>4, EnqueuedTells
<1> QED BY <1>1, <1>2

\* onChangeAppState(): a mode that is reported is the mode.
LEMMA ModeTells ==
  ASSUME NEW u, NEW d, NEW n, Sound(u, d, n), NEW s, NEW a, NEW m,
         Tells(u, s, a, m), NEW o \in Modes
  PROVE  LET w == Enqueued(u, Metadata("permission_mode", o)) IN
         Sound(w, d, n) /\ Tells(w, s, a, o) /\ Continues(u, w)
<1> DEFINE p == Metadata("permission_mode", o)
<1>1. /\ p \in Patch
      /\ \A doc \in Document :
           /\ Applied(doc, p).top = doc.top
           /\ Applied(doc, p).meta["pending_action"] = doc.meta["pending_action"]
           /\ Applied(doc, p).meta["permission_mode"] = o
  <2>1. /\ "pending_action" \in MetaKeys /\ "permission_mode" \in MetaKeys
        /\ o \in Values
    BY SessionAssumption
  <2> QED BY <2>1, MetadataIs
<1> HIDE DEF p
<1>2. \A doc \in Document : Says(doc, s, a, m) => Says(Applied(doc, p), s, a, o)
  BY <1>1, SessionAssumption DEF Says, Restored
<1>3. \A doc \in Document : KnownMode(doc) => KnownMode(Applied(doc, p))
  BY <1>1 DEF KnownMode
<1>4. /\ Sound(Enqueued(u, p), d, n) /\ Tells(Enqueued(u, p), s, a, o)
      /\ Continues(u, Enqueued(u, p))
  BY <1>1, <1>2, <1>3, EnqueuedTells
<1> QED BY <1>4 DEF p

\* notifySessionStateChanged() as a whole.
LEMMA NotifyTells ==
  ASSUME NEW d, NEW n, Sound(up, d, n),
         NEW m, Tells(up, reported, hasPendingAction, m), hasPendingAction \in BOOLEAN,
         NEW state \in SessionStates, NEW details \in Details,
         Notify(state, details)
  PROVE  Sound(up', d, n) /\ Tells(up', state, details # Null, m) /\ Continues(up, up')
<1> DEFINE v == StateReported(up, state, details)
           w == ActionReported(v, details)
           x == SummaryCleared(w, state)
<1>1. Sound(v, d, n) /\ Tells(v, state, hasPendingAction, m) /\ Continues(up, v)
  BY StateReportedTells
<1>2. Sound(w, d, n) /\ Tells(w, state, details # Null, m) /\ Continues(v, w)
  <2> HIDE DEF v
  <2> QED BY <1>1, ActionReportedTells
<1>3. Sound(x, d, n) /\ Tells(x, state, details # Null, m) /\ Continues(w, x)
  <2> HIDE DEF w
  <2> QED BY <1>2, SummaryClearedTells
<1>4. up' = x
  BY DEF Notify
<1>5. up \in Uploaders /\ v \in Uploaders /\ w \in Uploaders /\ x \in Uploaders
  <2> HIDE DEF v, w, x
  <2> QED BY <1>1, <1>2, <1>3 DEF Tells, Sound
<1> HIDE DEF v, w, x
<1>6. Continues(up, x)
  <2>1. Continues(up, w)
    BY <1>1, <1>2, <1>5, ContinuesOn
  <2> QED BY <2>1, <1>3, <1>5, ContinuesOn
<1> QED BY <1>3, <1>4, <1>6
-------------------------------------------------------------------------------
(* The session's invariant.                                                  *)

\* The session waits, as its prompts have it.
Waits == Open # {} \/ unannounced

\* The mode in the newest version is the worker's, unless it could not be read back.
Reports(m) ==
  /\ m \in Modes /\ (unrestored \/ m = mode)
  /\ Tells(up, reported, hasPendingAction, m)

PromptStates == [Requests -> {"new", "open", "done"}]

SInv ==
  /\ SessionTypeOK
  /\ Sound(up, server, seen)
  /\ \E m \in Modes : Reports(m)
  /\ reported = "requires_action" <=> hasPendingAction
  /\ hasPendingAction <=> Waits
  /\ ~running => ~Waits
  /\ unannounced => Open = {}
  /\ unrestored => mode = DefaultMode

LEMMA SoundIsInv ==
  ASSUME SessionTypeOK
  PROVE  Sound(up, server, seen) <=> Inv
BY DEF SessionTypeOK, TypeOK, Sound, Inv, Uploaders

\* What Notify() leaves behind, when the prompts are as it says.
LEMMA NotifySInv ==
  ASSUME SInv, NEW state \in SessionStates, NEW details \in Details,
         Notify(state, details), UNCHANGED <<mode, unrestored, restarts>>,
         running' \in BOOLEAN, prompt' \in PromptStates,
         state = "requires_action" <=> details # Null,
         details # Null <=> Open' # {},
         ~running' => Open' = {}
  PROVE  SInv' /\ Continues(up, up') /\ UNCHANGED <<server, seen>>
<1>0. PICK m \in Modes : Reports(m)
  BY DEF SInv
<1>1. /\ Sound(up', server, seen) /\ Tells(up', state, details # Null, m)
      /\ Continues(up, up')
  <2>1. hasPendingAction \in BOOLEAN
    BY DEF SInv, SessionTypeOK
  <2> QED BY <1>0, <2>1, NotifyTells DEF SInv, Reports
<1>2. /\ reported' = state /\ hasPendingAction' = (details # Null)
      /\ unannounced' = FALSE /\ UNCHANGED <<server, seen>>
  BY DEF Notify
<1>3. SessionTypeOK'
  BY <1>1, <1>2 DEF SInv, SessionTypeOK, SessionStates, Sound, Uploaders, TypeOK, PromptStates
<1>4. Sound(up, server, seen)'
  BY <1>1, <1>2 DEF Sound
<1>5. (\E o \in Modes : Reports(o))'
  <2>1. Tells(up', reported', hasPendingAction', m) /\ (unrestored' \/ m = mode')
    BY <1>0, <1>1, <1>2 DEF Reports
  <2> QED BY <2>1 DEF Reports, Tells
<1>6. /\ reported' = "requires_action" <=> hasPendingAction'
      /\ hasPendingAction' <=> Waits'
      /\ ~running' => ~Waits'
      /\ unannounced' => Open' = {}
      /\ unrestored' => mode' = DefaultMode
  BY <1>2 DEF Waits, SInv
<1> QED BY <1>1, <1>2, <1>3, <1>4, <1>5, <1>6 DEF SInv

\* Nothing is said to the server.
LEMMA SilentSInv ==
  ASSUME SInv,
         UNCHANGED <<vars, running, reported, hasPendingAction, mode, unrestored, restarts>>,
         prompt' \in PromptStates, unannounced' \in BOOLEAN,
         Waits' <=> Waits, unannounced' => Open' = {}
  PROVE  SInv'
<1>1. SessionTypeOK'
  BY DEF SInv, SessionTypeOK, TypeOK, vars, PromptStates
<1>2. Sound(up, server, seen)' /\ (\E m \in Modes : Reports(m))'
  BY DEF SInv, Sound, Reports, Tells, vars
<1> QED BY <1>1, <1>2 DEF SInv

\* A prompt is decided, or all are, and nothing is said: others are open, or
\* the session seems to wait.
LEMMA UnsaidSInv ==
  ASSUME SInv, Unsaid(Open'), Open # {}, prompt' \in PromptStates,
         Same(running), SameMode
  PROVE  SInv' /\ UNCHANGED vars
<1>1. /\ unannounced' = (Open' = {})
      /\ UNCHANGED <<vars, running, reported, hasPendingAction, mode, unrestored, restarts>>
  BY DEF Unsaid, Same, SameMode
<1>2. Waits /\ Waits'
  BY <1>1 DEF Waits
<1> QED BY <1>1, <1>2, SilentSInv

\* One request is answered, or all those in a set.
LEMMA Decided ==
  ASSUME SInv, NEW S \in SUBSET Requests,
         prompt' = [r \in Requests |-> IF r \in S THEN "done" ELSE prompt[r]]
  PROVE  prompt' \in PromptStates /\ Pending' = Pending \ S /\ Open' = Open \ S
BY DEF SInv, SessionTypeOK, Pending, Open, PromptStates

LEMMA OneDecided ==
  ASSUME SInv, NEW p \in Requests, prompt' = [prompt EXCEPT ![p] = "done"]
  PROVE  prompt' \in PromptStates /\ Pending' = Pending \ {p} /\ Open' = Open \ {p}
BY DEF SInv, SessionTypeOK, Pending, Open, PromptStates

LEMMA PromptsOpen ==
  ASSUME NEW p \in Prompts, prompt[p] = "open"
  PROVE  p \in Open /\ p \in Requests
BY DEF Open, Pending, Requests

LEMMA RunningIsState == "running" \in SessionStates /\ "idle" \in SessionStates /\ Null \in Details
BY DEF SessionStates, Details

LEMMA RunStartsSInv ==
  ASSUME SInv, RunStarts
  PROVE  SInv' /\ Continues(up, up') /\ UNCHANGED <<server, seen>>
<1>1. /\ Notify("running", Null) /\ UNCHANGED <<mode, unrestored, restarts, prompt>>
      /\ running' = TRUE /\ ~running
  BY DEF RunStarts, Same, SameMode
<1>2. prompt' \in PromptStates /\ Open' = {}
  BY <1>1 DEF SInv, Waits, SessionTypeOK, Open, Pending, PromptStates
<1> QED BY <1>1, <1>2, RunningIsState, NotifySInv

LEMMA RunEndsSInv ==
  ASSUME SInv, RunEnds
  PROVE  SInv' /\ Continues(up, up') /\ UNCHANGED <<server, seen>>
<1>1. /\ Notify("idle", Null) /\ UNCHANGED <<mode, unrestored, restarts, prompt>>
      /\ running' = FALSE /\ Open = {}
  BY DEF RunEnds, Same, SameMode
<1>2. prompt' \in PromptStates /\ Open' = {}
  BY <1>1 DEF SInv, SessionTypeOK, Open, Pending, PromptStates
<1> QED BY <1>1, <1>2, RunningIsState, NotifySInv

LEMMA AskSInv ==
  ASSUME SInv, NEW p \in Prompts, Ask(p)
  PROVE  SInv' /\ Continues(up, up') /\ UNCHANGED <<server, seen>>
<1>1. /\ Notify("requires_action", p) /\ UNCHANGED <<mode, unrestored, restarts, running>>
      /\ running /\ prompt' = [prompt EXCEPT ![p] = "open"]
  BY DEF Ask, Same, SameMode
<1>2. /\ prompt' \in PromptStates /\ p \in Open'
      /\ running' \in BOOLEAN /\ running'
  BY <1>1 DEF SInv, SessionTypeOK, Open, Pending, Requests, PromptStates
<1>3. "requires_action" \in SessionStates /\ p \in Details /\ p # Null
  BY SessionAssumption DEF SessionStates, Details
<1> QED BY <1>1, <1>2, <1>3, NotifySInv

LEMMA AnswerSInv ==
  ASSUME SInv, NEW p \in Prompts, Answer(p)
  PROVE  /\ SInv'
         /\ (Continues(up, up') /\ UNCHANGED <<server, seen>>) \/ UNCHANGED vars
<1>1. /\ prompt[p] = "open" /\ prompt' = [prompt EXCEPT ![p] = "done"]
      /\ Same(running) /\ SameMode
      /\ IF Pending = {p} THEN Notify("running", Null) ELSE Unsaid(Open \ {p})
  BY DEF Answer
<1>2. /\ p \in Open /\ prompt' \in PromptStates
      /\ Pending' = Pending \ {p} /\ Open' = Open \ {p}
  BY <1>1, OneDecided, PromptsOpen
<1>3. CASE Pending = {p}
  <2>1. Notify("running", Null) /\ Open' = {}
    BY <1>1, <1>2, <1>3 DEF Open
  <2>2. running' \in BOOLEAN /\ UNCHANGED <<mode, unrestored, restarts>>
    BY <1>1 DEF SInv, SessionTypeOK, Same, SameMode
  <2> QED BY <1>2, <2>1, <2>2, RunningIsState, NotifySInv
<1>4. CASE Pending # {p}
  BY <1>1, <1>2, <1>4, UnsaidSInv
<1> QED BY <1>3, <1>4

LEMMA HookDecidesSInv ==
  ASSUME SInv, NEW p \in Prompts, HookDecides(p)
  PROVE  SInv' /\ UNCHANGED vars
<1>1. /\ prompt[p] = "open" /\ prompt' = [prompt EXCEPT ![p] = "done"]
      /\ Same(running) /\ SameMode /\ Unsaid(Open \ {p})
  BY DEF HookDecides
<1>2. p \in Open /\ prompt' \in PromptStates /\ Open' = Open \ {p}
  BY <1>1, OneDecided, PromptsOpen
<1> QED BY <1>1, <1>2, UnsaidSInv

LEMMA InterruptSInv ==
  ASSUME SInv, Interrupt
  PROVE  /\ SInv'
         /\ (Continues(up, up') /\ UNCHANGED <<server, seen>>) \/ UNCHANGED vars
<1>1. /\ prompt' = [r \in Requests |-> IF r \in Open THEN "done" ELSE prompt[r]]
      /\ Same(running) /\ SameMode /\ Open # {}
      /\ IF Pending = Open THEN Notify("running", Null) ELSE Unsaid({})
  BY DEF Interrupt
<1>2. prompt' \in PromptStates /\ Open' = {}
  <2>1. Open \in SUBSET Requests
    BY DEF Open, Pending
  <2> QED BY <1>1, <2>1, Decided
<1>3. CASE Pending = Open
  <2>1. running' \in BOOLEAN /\ UNCHANGED <<mode, unrestored, restarts>>
    BY <1>1 DEF SInv, SessionTypeOK, Same, SameMode
  <2> QED BY <1>1, <1>2, <1>3, <2>1, RunningIsState, NotifySInv
<1>4. CASE Pending # Open
  BY <1>1, <1>2, <1>4, UnsaidSInv
<1> QED BY <1>3, <1>4

\* A request for a host is made or answered: nobody is told.
LEMMA HostSInv ==
  ASSUME SInv, NEW h \in Hosts, AskHost(h) \/ AnswerHost(h)
  PROVE  SInv' /\ UNCHANGED vars
<1>1. PICK s \in {"open", "done"} : prompt' = [prompt EXCEPT ![h] = s]
  BY DEF AskHost, AnswerHost
<1>2. UNCHANGED <<vars, running, reported, hasPendingAction, mode, unrestored, restarts,
                  unannounced>>
  BY DEF AskHost, AnswerHost, Same, SameMode
<1>3. prompt' \in PromptStates
  BY <1>1 DEF SInv, SessionTypeOK, Requests, PromptStates
<1>4. Open' = Open
  <2>1. prompt \in PromptStates /\ h \notin Prompts
    BY SessionAssumption DEF SInv, SessionTypeOK, PromptStates
  <2> QED BY <1>1, <2>1 DEF Open, Pending, PromptStates
<1>5. (Waits' <=> Waits) /\ unannounced' \in BOOLEAN /\ (unannounced' => Open' = {})
  BY <1>2, <1>4 DEF Waits, SInv, SessionTypeOK
<1> QED BY <1>2, <1>3, <1>5, SilentSInv

LEMMA SetModeSInv ==
  ASSUME SInv, NEW m \in Modes, SetMode(m)
  PROVE  SInv' /\ Continues(up, up') /\ UNCHANGED <<server, seen>>
<1>0. PICK o \in Modes : Reports(o)
  BY DEF SInv
<1>1. /\ up' = Enqueued(up, Metadata("permission_mode", m)) /\ mode' = m
      /\ unrestored' = FALSE
      /\ UNCHANGED <<server, seen, restarts, running, prompt, reported,
                     hasPendingAction, unannounced>>
  BY DEF SetMode, Same, Enqueue
<1>2. /\ Sound(up', server, seen) /\ Tells(up', reported, hasPendingAction, m)
      /\ Continues(up, up')
  BY <1>0, <1>1, ModeTells DEF SInv, Reports
<1>3. SessionTypeOK'
  BY <1>1, <1>2 DEF SInv, SessionTypeOK, Sound, Uploaders, TypeOK
<1>4. Sound(up, server, seen)'
  BY <1>1, <1>2 DEF Sound
<1>5. (\E q \in Modes : Reports(q))'
  <2>1. Tells(up', reported', hasPendingAction', m) /\ m = mode'
    BY <1>1, <1>2
  <2> QED BY <2>1 DEF Reports, Tells
<1>6. Waits' = Waits /\ Open' = Open
  BY <1>1 DEF Waits, Open, Pending
<1> QED BY <1>1, <1>2, <1>3, <1>4, <1>5, <1>6 DEF SInv

\* The uploader goes on by itself, or is closed.
LEMMA NetworkSInv ==
  ASSUME SInv, Close \/ SendSucceeds \/ SendFails \/ SleepEnds, UNCHANGED sessionVars
  PROVE  SInv' /\ [Next]_vars
<1>1. Inv /\ [Next]_vars
  BY SoundIsInv DEF SInv, Next, Network
<1>2. Inv'
  BY <1>1, NextInv
<1>3. SessionTypeOK'
  BY <1>2 DEF SInv, SessionTypeOK, Inv, sessionVars
<1>4. Sound(up, server, seen)'
  BY <1>2, <1>3 DEF Sound, Inv, SessionTypeOK, TypeOK, Uploaders
<1>5. up'.written = up.written /\ (~up'.closed => ~up.closed)
  <2>1. up \in Uploaders
    BY DEF SInv, Sound
  <2>2. CASE SendSucceeds
    BY <2>1, <2>2 DEF Uploaders, SendSucceeds, Drained
  <2>3. CASE SendFails
    BY <2>1, <2>3 DEF Uploaders, SendFails
  <2>4. CASE SleepEnds
    BY <2>1, <2>4 DEF Uploaders, SleepEnds
  <2>5. CASE Close
    BY <2>1, <2>5 DEF Uploaders, Close
  <2> QED BY <2>2, <2>3, <2>4, <2>5
<1>6. (\E m \in Modes : Reports(m))'
  <2>1. PICK m \in Modes : Reports(m)
    BY DEF SInv
  <2>2. Tells(up', reported, hasPendingAction, m)
    BY <1>5, <2>1 DEF Reports, Tells, Newest
  <2> QED BY <2>1, <2>2 DEF Reports, Tells, sessionVars
<1>7. Waits' = Waits /\ Open' = Open
  BY DEF Waits, Open, Pending, sessionVars
<1> QED BY <1>1, <1>3, <1>4, <1>6, <1>7 DEF SInv, sessionVars

\* initialize() clears the state and the pending action and leaves the mode alone.
LEMMA InitPatchIs ==
  ASSUME NEW doc \in Document
  PROVE  /\ Applied(doc, InitPatch) \in Document
         /\ Applied(doc, InitPatch).top["worker_status"] = "idle"
         /\ Applied(doc, InitPatch).meta["pending_action"] = Null
         /\ Applied(doc, InitPatch).meta["permission_mode"] = doc.meta["permission_mode"]
<1> DEFINE p == InitPatch
<1>1. /\ DOMAIN p.top = {"worker_status"} /\ p.top["worker_status"] = "idle"
      /\ DOMAIN p.meta = {"pending_action", "task_summary"}
      /\ p.meta["pending_action"] = Null
  BY DEF InitPatch
<1>2. p.top \in Partial(TopKeys)
  <2>1. p.top \in [{"worker_status"} -> Values]
    BY SessionAssumption DEF InitPatch
  <2>2. {"worker_status"} \in SUBSET TopKeys
    BY SessionAssumption
  <2> QED BY <2>1, <2>2, IsPartial
<1>3. p.meta \in Partial(MetaKeys)
  <2>1. p.meta \in [{"pending_action", "task_summary"} -> Values]
    BY SessionAssumption DEF InitPatch
  <2>2. {"pending_action", "task_summary"} \in SUBSET MetaKeys
    BY SessionAssumption
  <2> QED BY <2>1, <2>2, IsPartial
<1>4. p \in Patch
  BY <1>2, <1>3 DEF Patch, InitPatch
<1>5. /\ Applied(doc, p).top = Overlay(doc.top, p.top)
      /\ Applied(doc, p).meta = Overlay(doc.meta, p.meta)
  BY DEF Applied
<1>6. Applied(doc, p) \in Document
  BY <1>4, AppliedType
<1> HIDE DEF p
<1>7. doc.top \in [TopKeys -> Values] /\ doc.meta \in [MetaKeys -> Values]
  BY DEF Document
<1>8. /\ Overlay(doc.top, p.top)["worker_status"] = "idle"
      /\ Overlay(doc.meta, p.meta)["pending_action"] = Null
  BY <1>1, <1>7 DEF Overlay
<1>9. Overlay(doc.meta, p.meta)["permission_mode"] = doc.meta["permission_mode"]
  <2>1. "permission_mode" \in MetaKeys
    BY SessionAssumption
  <2> QED BY <1>1, <1>7, <2>1 DEF Overlay
<1> QED BY <1>5, <1>6, <1>8, <1>9 DEF p

\* A new worker starts where the server is.
LEMMA FreshSound ==
  ASSUME NEW s \in Seq(Document), Len(s) >= 1
  PROVE  Sound(Fresh(s), s[Len(s)], Len(s)) /\ Newest(Fresh(s)) = s[Len(s)]
<1>1. Len(s) \in Nat /\ Len(s) \in 1..Len(s)
  BY LenProperties
<1>2. /\ Fresh(s) \in Uploaders /\ Fresh(s).pending = NoPatch /\ ~Fresh(s).closed
      /\ Fresh(s).inflight = "none" /\ Fresh(s).written = s /\ Fresh(s).covered = Len(s)
  BY <1>1 DEF Fresh, Uploaders
<1> QED BY <1>1, <1>2 DEF Sound, Leads, Watched, Newest

LEMMA RestartSInv ==
  ASSUME SInv, Restart
  PROVE  SInv' /\ Published!TakeOver
<1> DEFINE doc == Applied(server, InitPatch)
           w == Append(SubSeq(up.written, 1, seen), doc)
           new == Fresh(w)
<1>1. /\ up.written \in Seq(Document) /\ seen \in 1..Len(up.written)
      /\ Len(up.written) \in Nat /\ seen \in Nat
      /\ server = up.written[seen] /\ server \in Document
  BY DEF SInv, Sound, Leads, Uploaders
<1>2. /\ doc \in Document /\ doc.top["worker_status"] = "idle"
      /\ doc.meta["pending_action"] = Null
      /\ doc.meta["permission_mode"] = server.meta["permission_mode"]
  BY <1>1, InitPatchIs
<1>3. KnownMode(server) /\ KnownMode(doc) /\ Restored(doc) \in Modes
  <2>1. KnownMode(server)
    BY <1>1 DEF SInv, Reports, Tells
  <2> HIDE DEF doc
  <2>2. KnownMode(doc)
    BY <1>2, <2>1 DEF KnownMode
  <2> QED BY <2>1, <2>2, SessionAssumption DEF KnownMode, Restored
<1>4. /\ w \in Seq(Document) /\ Len(w) = seen + 1 /\ w[seen + 1] = doc
      /\ \A i \in 1..seen : w[i] = up.written[i]
  <2> DEFINE r == SubSeq(up.written, 1, seen)
  <2>1. /\ r \in Seq(Document) /\ Len(r) = seen
        /\ \A i \in 1..seen : r[i] = up.written[i]
    BY <1>1
  <2> HIDE DEF r, doc
  <2> QED BY <1>1, <1>2, <2>1, AppendProperties
<1>5. \A i \in 1..Len(w) : KnownMode(w[i])
  <2>1. \A i \in 1..seen : KnownMode(up.written[i])
    BY <1>1 DEF SInv, Reports, Tells
  <2> HIDE DEF w, doc
  <2>2. \A i \in 1..Len(w) : i \in 1..seen \/ i = seen + 1
    BY <1>1, <1>4
  <2> QED BY <1>3, <1>4, <2>1, <2>2
<1> HIDE DEF w, doc
<1>6. /\ Sound(new, doc, seen + 1) /\ Newest(new) = doc
      /\ new.written = w /\ ~new.closed
  <2>1. Len(w) >= 1
    BY <1>1, <1>4
  <2> QED BY <1>4, <2>1, FreshSound DEF Fresh
<1> HIDE DEF new
<1>7. Tells(new, "idle", FALSE, Restored(doc))
  BY <1>2, <1>5, <1>6 DEF Tells, Says
<1>8. /\ server' = doc /\ seen' = seen + 1
      /\ mode' \in {DefaultMode, Restored(doc)} /\ unrestored' = (mode' # Restored(doc))
      /\ up' = IF mode' = DefaultMode THEN new
               ELSE Enqueued(new, Metadata("permission_mode", mode'))
      /\ running' = FALSE /\ reported' = "idle" /\ hasPendingAction' = FALSE
      /\ prompt' = [r \in Requests |-> IF prompt[r] = "open" THEN "done" ELSE prompt[r]]
      /\ unannounced' = FALSE
      /\ restarts < MaxRestarts /\ restarts' = restarts + 1
  BY DEF Restart, doc, w, new
<1>9. /\ Sound(up', doc, seen + 1) /\ Tells(up', "idle", FALSE, Restored(doc))
      /\ Continues(new, up')
  <2>1. CASE mode' = DefaultMode
    <3>1. Continues(new, new)
      BY <1>6 DEF Sound, Uploaders, Continues
    <3> QED BY <1>6, <1>7, <1>8, <2>1, <3>1
  <2>2. CASE mode' # DefaultMode
    <3>1. up' = Enqueued(new, Metadata("permission_mode", Restored(doc)))
      BY <1>8, <2>2
    <3> QED BY <1>3, <1>6, <1>7, <3>1, ModeTells
  <2> QED BY <2>1, <2>2
<1>10. Sound(up, server, seen)' /\ (\E m \in Modes : Reports(m))'
  <2>1. /\ Tells(up', reported', hasPendingAction', Restored(doc))
        /\ Sound(up', server', seen')
    BY <1>8, <1>9
  <2>2. Restored(doc) \in Modes /\ (unrestored' \/ Restored(doc) = mode')
    BY <1>3, <1>8
  <2> QED BY <2>1, <2>2 DEF Sound, Reports, Tells
<1>11. prompt' \in PromptStates /\ Open' = {}
  BY <1>8 DEF SInv, SessionTypeOK, Open, Pending, PromptStates
<1>12. SessionTypeOK'
  <2>1. TypeOK'
    BY <1>1, <1>2, <1>8, <1>10 DEF TypeOK, Sound, Uploaders
  <2>2. restarts' \in 0..MaxRestarts
    BY <1>8, SessionAssumption DEF SInv, SessionTypeOK
  <2>3. mode' \in Modes /\ unrestored' \in BOOLEAN
    BY <1>3, <1>8, SessionAssumption
  <2> QED BY <1>8, <1>11, <2>1, <2>2, <2>3 DEF SessionTypeOK, PromptStates
<1>13. SInv'
  <2>1. ~Waits' /\ (unrestored' => mode' = DefaultMode)
    BY <1>8, <1>11 DEF Waits
  <2> QED BY <1>8, <1>10, <1>11, <1>12, <2>1 DEF SInv
<1>14. Published!TakeOver
  <2>1. /\ Len(up'.written) >= seen + 1 /\ up'.written[seen + 1] = doc
        /\ \A i \in 1..seen : up'.written[i] = up.written[i]
    <3>1. /\ Len(up'.written) >= Len(w)
          /\ \A i \in 1..Len(w) : up'.written[i] = w[i]
      BY <1>6, <1>9 DEF Continues
    <3>2. seen + 1 \in 1..Len(w) /\ \A i \in 1..seen : i \in 1..Len(w)
      BY <1>1, <1>4
    <3> QED BY <1>4, <3>1, <3>2
  <2>2. Len(up'.written) \in Nat
    BY <1>9 DEF Sound, Uploaders
  <2> QED BY <1>1, <1>8, <2>1, <2>2 DEF Published!TakeOver, Published!Keeps
<1> QED BY <1>13, <1>14

LEMMA SessionInitSInv == SessionInit => SInv
<1> SUFFICES ASSUME SessionInit PROVE SInv
  OBVIOUS
<1>1. <<Blank>> \in Seq(Document) /\ Len(<<Blank>>) = 1 /\ <<Blank>>[1] = Blank
  BY BlankIsDocument
<1> DEFINE s == <<Blank>>
<1>2. up = Fresh(s) /\ server = Blank /\ seen = 1
  BY DEF SessionInit, Init
<1> HIDE DEF s
<1>3. /\ Sound(up, server, seen) /\ Newest(up) = Blank /\ up.written = s
  <2>1. s \in Seq(Document) /\ Len(s) = 1 /\ s[1] = Blank
    BY <1>1 DEF s
  <2>2. Sound(Fresh(s), s[Len(s)], Len(s)) /\ Newest(Fresh(s)) = s[Len(s)]
    BY <2>1, FreshSound
  <2>3. Fresh(s).written = s
    BY DEF Fresh
  <2> QED BY <1>2, <2>1, <2>2, <2>3
<1>4. Open = {} /\ SessionTypeOK
  <2>1. TypeOK
    BY <1>2, <1>3, BlankIsDocument DEF TypeOK, Sound, Uploaders
  <2>2. /\ running = FALSE /\ prompt = [r \in Requests |-> "new"]
        /\ reported = "idle" /\ hasPendingAction = FALSE /\ mode = DefaultMode
        /\ restarts = 0 /\ unannounced = FALSE /\ unrestored = FALSE
    BY DEF SessionInit
  <2>3. Open = {} /\ prompt \in [Requests -> {"new", "open", "done"}]
    BY <2>2 DEF Open, Pending
  <2>4. mode \in Modes /\ restarts \in 0..MaxRestarts
    BY <2>2, SessionAssumption
  <2> QED BY <2>1, <2>2, <2>3, <2>4 DEF SessionTypeOK
<1>5. mode \in Modes /\ Reports(mode)
  <2>0. mode \in Modes /\ mode = DefaultMode
    BY SessionAssumption DEF SessionInit
  <2>1. Says(Blank, "idle", FALSE, DefaultMode) /\ KnownMode(Blank)
    BY BlankIsInitialised DEF Says, KnownMode, Restored
  <2>2. \A i \in 1..Len(up.written) : up.written[i] = Blank
    BY <1>1, <1>3 DEF s
  <2> QED BY <1>3, <2>0, <2>1, <2>2 DEF Reports, Tells, SessionInit
<1> QED BY <1>3, <1>4, <1>5 DEF SInv, Waits, SessionInit

\* A step keeps the invariant, and is one of the published document or leaves it alone.
LEMMA SessionStep ==
  ASSUME SInv, [SessionNext]_sVars
  PROVE  SInv' /\ [Published!Next]_<<up.written, seen, server>>
<1> DEFINE Appends == Continues(up, up') /\ UNCHANGED <<server, seen>>
<1>1. ASSUME Appends PROVE [Published!Next]_<<up.written, seen, server>>
  BY <1>1 DEF Continues, Published!Next, Published!Write, Published!Keeps
<1>2. ASSUME UNCHANGED vars PROVE [Published!Next]_<<up.written, seen, server>>
  BY <1>2 DEF vars
<1>3. CASE RunStarts \/ RunEnds \/ Interrupt
  <2>1. SInv' /\ (Appends \/ UNCHANGED vars)
    BY <1>3, RunStartsSInv, RunEndsSInv, InterruptSInv
  <2> QED BY <1>1, <1>2, <2>1
<1>4. CASE Restart
  BY <1>4, RestartSInv DEF Published!Next
<1>5. ASSUME NEW p \in Prompts, Ask(p) \/ Answer(p) \/ HookDecides(p)
      PROVE  SInv' /\ [Published!Next]_<<up.written, seen, server>>
  <2>1. SInv' /\ (Appends \/ UNCHANGED vars)
    BY <1>5, AskSInv, AnswerSInv, HookDecidesSInv
  <2> QED BY <1>1, <1>2, <2>1
<1>6. ASSUME NEW m \in Modes, SetMode(m)
      PROVE  SInv' /\ [Published!Next]_<<up.written, seen, server>>
  <2>1. SInv' /\ Appends
    BY <1>6, SetModeSInv
  <2> QED BY <1>1, <2>1
<1>7. CASE (Close \/ SendSucceeds \/ SendFails \/ SleepEnds) /\ UNCHANGED sessionVars
  <2>1. SInv' /\ [Next]_vars /\ Inv
    BY <1>7, NetworkSInv, SoundIsInv DEF SInv
  <2> QED BY <2>1, StepIsPublication
<1>8. ASSUME NEW h \in Hosts, AskHost(h) \/ AnswerHost(h)
      PROVE  SInv' /\ [Published!Next]_<<up.written, seen, server>>
  BY <1>2, <1>8, HostSInv
<1>9. CASE UNCHANGED sVars
  <2>1. UNCHANGED <<vars, running, reported, hasPendingAction, mode, unrestored, restarts>>
        /\ prompt' = prompt /\ unannounced' = unannounced
    BY <1>9 DEF sVars, sessionVars
  <2>2. Waits' = Waits /\ Open' = Open
    BY <2>1 DEF Waits, Open, Pending
  <2>3. SInv'
    BY <2>1, <2>2, SilentSInv DEF SInv, SessionTypeOK, PromptStates
  <2> QED BY <1>2, <2>1, <2>3
<1> QED BY <1>3, <1>4, <1>5, <1>6, <1>7, <1>8, <1>9 DEF SessionNext

LEMMA SessionInvariance == SessionSpec => []SInv
<1>1. SInv /\ [SessionNext]_<<vars, sessionVars>> => SInv'
  BY SessionStep DEF sVars
<1> QED BY <1>1, SessionInitSInv, PTL DEF SessionSpec

\* Once all is sent, the server shows the session as it is: it waits for the user, with
\* a pending action, exactly while a tool's prompt is open (or, until the turn ends, when
\* the last one ended beside another request and nobody said so), and the permission
\* mode is the worker's (or the worker could not read it back and has its default mode).
THEOREM ShownAsItIs == SessionSpec => []ShowsTheSession
<1>1. SInv => ShowsTheSession
  <2> SUFFICES ASSUME SInv PROVE ShowsTheSession
    OBVIOUS
  <2>1. SessionTypeOK /\ Inv
    BY SoundIsInv DEF SInv
  <2>2. ASSUME Settled PROVE server = Newest(up) /\ ~up.closed
    BY <2>1, <2>2 DEF Inv, Leads, Watched, Newest, Settled
  <2>3. PICK m \in Modes : Reports(m)
    BY DEF SInv
  <2>4. ASSUME Settled PROVE Says(server, reported, hasPendingAction, m)
    BY <2>2, <2>3, <2>4 DEF Reports, Tells
  <2>5. unannounced => Open = {} /\ running
    BY DEF SInv, Waits
  <2> QED BY <2>1, <2>3, <2>4, <2>5 DEF SInv, Says, Reports, Waits, ShowsTheSession
<1> QED BY <1>1, SessionInvariance, PTL

\* What the uploader promises by itself also holds in a session: no patch is left
\* behind, ...
THEOREM SessionIdlePublished == SessionSpec => []IdleMeansPublished
<1>1. SInv => IdleMeansPublished
  BY SoundIsInv DEF SInv, Inv, Leads, Watched, IdleMeansPublished, Newest
<1> QED BY <1>1, SessionInvariance, PTL

\* ... and the server has written versions only, in order, whoever writes them.
THEOREM SessionImplementsDocument == SessionSpec => PublishedInOrder
<1>1. SessionInit => Published!Init
  BY DEF SessionInit, Init, Fresh, Published!Init
<1>2. SInv /\ [SessionNext]_<<vars, sessionVars>>
        => [Published!Next]_<<up.written, seen, server>>
  BY SessionStep DEF sVars
<1> QED BY <1>1, <1>2, SessionInvariance, PTL DEF SessionSpec, PublishedInOrder
===============================================================================
