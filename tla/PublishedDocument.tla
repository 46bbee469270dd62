--------------------------- MODULE PublishedDocument ---------------------------
(***************************************************************************)
(* What the uploader of worker states promises, without patches, requests, *)
(* or retries: a document is written again and again, and readers are      *)
(* shown some of its versions, never one that was not written, never an    *)
(* older one after a newer one.                                            *)
(***************************************************************************)
EXTENDS Naturals, Sequences

CONSTANT First     \* the version everybody begins with

VARIABLES
  written,  \* the versions, in the order of writing
  upto,     \* the version on show, as a position in written
  shown     \* the document on show

vars == <<written, upto, shown>>

Init == written = <<First>> /\ upto = 1 /\ shown = First

\* The versions up to the n-th stay what they are, and there are at least n.
Keeps(n) ==
  /\ Len(written') >= n
  /\ \A i \in 1..n : written'[i] = written[i]

Write ==
  /\ Keeps(Len(written))
  /\ UNCHANGED <<upto, shown>>

\* Versions in between may be skipped.
Publish ==
  /\ upto' \in upto..Len(written)
  /\ shown' = written[upto']
  /\ UNCHANGED written

\* Another writer begins where the readers are: what they were not shown is gone.
TakeOver ==
  /\ Keeps(upto)
  /\ upto' = upto + 1 /\ upto' <= Len(written')
  /\ shown' = written'[upto']

Next == Write \/ Publish \/ TakeOver

Spec == Init /\ [][Next]_vars
===============================================================================
