------------------------------- MODULE MCTaskList -------------------------------
(* Three agents that share two tasks: one makes and removes tasks, one removes *)
(* and claims them, one works on them; the calls that can disturb each other    *)
(* are shared out so that they meet.                                           *)
EXTENDS TaskList

CONSTANTS a, b, c

MCKinds == [x \in {a, b, c} |->
  CASE x = a -> {"create", "reset", "delete", "unassign", "block"}
    [] x = b -> {"create", "delete", "claim", "claimBusy"}
    [] x = c -> {"update", "claim"}]
===============================================================================
