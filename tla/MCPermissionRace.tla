--------------------------- MODULE MCPermissionRace ---------------------------
(* Instances of PermissionRace for TLC.                                     *)
EXTENDS PermissionRace
=============================================================================
