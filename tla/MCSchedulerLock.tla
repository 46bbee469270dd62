--------------------------- MODULE MCSchedulerLock -----------------------------
(* Three processes that share a project, with two sessions, new or resumed. *)
EXTENDS SchedulerLock, TLC

CONSTANTS p1, p2, p3
MCProcesses == {p1, p2, p3}

\* The third is a process of another user, for the second.
MCUnseen == {<<p2, p3>>}
===============================================================================
