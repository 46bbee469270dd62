--------------------------- MODULE MCCronScheduler ----------------------------
(* One-shot tasks and a recurring task that match at every unit of time. *)
EXTENDS CronScheduler

MCEvery == [t \in Tasks |-> 1]
===============================================================================
