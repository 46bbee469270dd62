---------------------------- MODULE MCSessionState ----------------------------
(* Two prompts, a host, two modes, a change of worker. *)
EXTENDS SessionState

MCTopKeys == {"worker_status", "requires_action_details"}
MCMetaKeys == {"pending_action", "task_summary", "permission_mode"}
MCValues == {"idle", "running", "requires_action", Null} \cup Prompts \cup Modes
MCBlank ==
  [top |-> [k \in MCTopKeys |-> IF k = "worker_status" THEN "idle" ELSE Null],
   meta |-> [k \in MCMetaKeys |-> Null]]
===============================================================================
