-------------------------- MODULE WorkerStateUploader --------------------------
(***************************************************************************)
(* The coalescing uploader of PUT /worker (cli/transports/                 *)
(* WorkerStateUploader.ts): one patch in flight, one pending, and patches  *)
(* that merge.  A step is what runs between two awaits.  A document is a   *)
(* patch that has every key; a key that is Null in it is absent.           *)
(***************************************************************************)
EXTENDS Naturals, Sequences

CONSTANTS
  TopKeys,   \* the keys of a body whose values replace one another
  MetaKeys,  \* the keys inside external_metadata, which are merged
  Values,    \* what a key may have as its value, null included
  NoPatch,   \* this.pending is null
  Blank,     \* the document before the first patch
  MaxWrites  \* bound: enqueued patches

Partial(K) == UNION {[S -> Values] : S \in SUBSET K}
Patch == [top : Partial(TopKeys), meta : Partial(MetaKeys)]
Document == [top : [TopKeys -> Values], meta : [MetaKeys -> Values]]

ASSUME NoPatchIsNone == NoPatch \notin Patch
ASSUME BlankIsDocument == Blank \in Document
ASSUME MaxWritesIsNat == MaxWrites \in Nat

VARIABLES
  up,      \* the uploader, see TypeOK
  server,  \* the document that the server has
  seen     \* history: the version that the server has, a position in up.written

vars == <<up, server, seen>>

\* The uploader: inflight, the local variable current of sendWithRetry(), pending,
\* closed; and as history all versions that the calls of enqueue() ask for, with
\* the last one that current includes.
\* A closed uploader keeps nothing pending.
TypeOK ==
  /\ up \in [inflight : {"none", "sending", "sleeping"},
             current : Patch \cup {NoPatch}, pending : Patch \cup {NoPatch},
             closed : BOOLEAN, written : Seq(Document), covered : Nat]
  /\ server \in Document /\ seen \in Nat
  /\ up.closed => up.pending = NoPatch
-------------------------------------------------------------------------------
\* The values of the second function win.
Overlay(f, g) ==
  [k \in DOMAIN f \cup DOMAIN g |-> IF k \in DOMAIN g THEN g[k] ELSE f[k]]

\* (mutant of CoalescePatches) A patch replaces external_metadata as a whole.
CoalesceWhole(base, overlay) ==
  [top |-> Overlay(base.top, overlay.top),
   meta |-> IF DOMAIN overlay.meta = {} THEN base.meta ELSE overlay.meta]

CoalescePatches(base, overlay) ==
  [top |-> Overlay(base.top, overlay.top), meta |-> Overlay(base.meta, overlay.meta)]

\* The server applies a body by the same rules (RFC 7396 for the metadata).
Applied(doc, patch) ==
  [top |-> Overlay(doc.top, patch.top), meta |-> Overlay(doc.meta, patch.meta)]

AddTo(pending, patch) ==
  IF pending = NoPatch THEN patch ELSE CoalescePatches(pending, patch)

Newest(u) == u.written[Len(u.written)]

\* drain(), and sendWithRetry() up to its first await.
Drained(u) ==
  IF u.inflight # "none" \/ u.closed \/ u.pending = NoPatch
  THEN u
  ELSE [u EXCEPT !.inflight = "sending", !.current = u.pending, !.pending = NoPatch,
                 !.covered = Len(u.written)]

\* enqueue()
Enqueued(u, patch) ==
  IF u.closed
  THEN u
  ELSE Drained([u EXCEPT !.pending = AddTo(u.pending, patch),
                         !.written = Append(u.written, Applied(Newest(u), patch))])

\* A new uploader, when the server has version n, the last of the sequence s.
Fresh(s) ==
  [inflight |-> "none", current |-> NoPatch, pending |-> NoPatch, closed |-> FALSE,
   written |-> s, covered |-> Len(s)]

Init == up = Fresh(<<Blank>>) /\ server = Blank /\ seen = 1
-------------------------------------------------------------------------------
Enqueue(patch) ==
  /\ Len(up.written) <= MaxWrites
  /\ up' = Enqueued(up, patch)
  /\ UNCHANGED <<server, seen>>

Close ==
  /\ ~up.closed
  /\ up' = [up EXCEPT !.closed = TRUE, !.pending = NoPatch]
  /\ UNCHANGED <<server, seen>>

Arrives == server' = Applied(server, up.current) /\ seen' = up.covered

\* (mutant of SendSucceeds) inflight is cleared without a look at pending.
SendSucceedsIdly ==
  /\ up.inflight = "sending"
  /\ Arrives
  /\ up' = [up EXCEPT !.inflight = "none", !.current = NoPatch]

\* The PUT returns 2xx: sendWithRetry() returns, then() starts the next drain().
SendSucceeds ==
  /\ up.inflight = "sending"
  /\ Arrives
  /\ up' = Drained([up EXCEPT !.inflight = "none", !.current = NoPatch])

\* The PUT fails, or its answer is lost after the server has applied it.
SendFails ==
  /\ up.inflight = "sending"
  /\ up' = [up EXCEPT !.inflight = "sleeping"]
  /\ \/ UNCHANGED <<server, seen>>
     \/ Arrives

\* (mutant of SleepEnds) The retry takes the newer patch in place of its own.
SleepEndsReplaces ==
  /\ up.inflight = "sleeping"
  /\ up' = IF up.pending = NoPatch
           THEN [up EXCEPT !.inflight = "sending"]
           ELSE [up EXCEPT !.inflight = "sending", !.current = up.pending,
                           !.pending = NoPatch, !.covered = Len(up.written)]
  /\ UNCHANGED <<server, seen>>

\* The backoff is over: the loop ends if the uploader is closed, else it absorbs
\* what came in meanwhile and sends again.
SleepEnds ==
  /\ up.inflight = "sleeping"
  /\ up' = IF up.closed
           THEN [up EXCEPT !.inflight = "none", !.current = NoPatch]
           ELSE IF up.pending = NoPatch
           THEN [up EXCEPT !.inflight = "sending"]
           ELSE [up EXCEPT !.inflight = "sending", !.pending = NoPatch,
                           !.current = CoalescePatches(up.current, up.pending),
                           !.covered = Len(up.written)]
  /\ UNCHANGED <<server, seen>>

Network == SendSucceeds \/ SendFails \/ SleepEnds

Next == (\E p \in Patch : Enqueue(p)) \/ Close \/ Network

Spec == Init /\ [][Next]_vars
-------------------------------------------------------------------------------
Published == INSTANCE PublishedDocument
  WITH First <- Blank, written <- up.written, upto <- seen, shown <- server

\* The server only ever has versions that were written, one after the other, never
\* an older one after a newer: merging patches and repeating a PUT that was applied
\* although it seemed to fail never mixes versions (sendWithRetry(), coalescePatches()).
PublishedInOrder == Published!Init /\ [][Published!Next]_<<up.written, seen, server>>

\* When nothing is in flight, the server has the newest version: no patch is left
\* behind in pending, however enqueue() falls between the end of a PUT and the
\* next drain().
IdleMeansPublished ==
  up.inflight = "none" /\ ~up.closed => server = Newest(up) /\ up.pending = NoPatch
===============================================================================
