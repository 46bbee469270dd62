------------------------------ MODULE Subsequence ------------------------------
(***************************************************************************)
(* What Array.prototype.filter returns: the elements of s that are in S,   *)
(* in their order; and what splice() leaves.  They are defined by          *)
(* positions and not by recursion, so that proofs can use them.            *)
(***************************************************************************)
EXTENDS Naturals, Sequences, FiniteSets

\* The place of i among the numbers of K.
Rank(K, i) == Cardinality({j \in K : j <= i})

\* The elements of s at the positions K, in their order.
Selected(s, K) == [n \in 1..Cardinality(K) |-> s[CHOOSE i \in K : Rank(K, i) = n]]

Subsequence(s, S) == Selected(s, {i \in DOMAIN s : s[i] \in S})
===============================================================================
