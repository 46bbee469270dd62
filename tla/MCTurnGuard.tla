------------------------------ MODULE MCTurnGuard ------------------------------
(* A few chains, and commands of every kind. *)
EXTENDS TurnGuard

CONSTANTS p, q, sl, n, m
===============================================================================
