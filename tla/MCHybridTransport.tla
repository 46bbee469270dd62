-------------------------- MODULE MCHybridTransport ---------------------------
(* A write, a batch, two stream events and a flush, in every order. *)
EXTENDS HybridTransport, TLC

CONSTANTS w1, b1

MCEvents == {"s1", "s2", "m", "x", "y"}

MCCalls == Writes \cup Flushings \cup Ticks
MCFlushes == Writes \cup Flushings \cup {Closing}

MCPayload == (w1 :> <<"m">>) @@ (b1 :> <<"x", "y">>)
             @@ [c \in MCCalls \ {w1, b1} |-> << >>]

MCBytes == [e \in MCEvents |-> 1]
===============================================================================
