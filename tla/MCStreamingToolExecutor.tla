------------------------ MODULE MCStreamingToolExecutor ------------------------
(* Every mixture of tool kinds in a message of a few blocks. *)
EXTENDS StreamingToolExecutor

\* "read" and "sleep" are concurrency safe, "edit" is not; a Bash command is
\* safe ("list") when it only reads; "ghost" is a tool that does not exist.
AllKinds == {"ghost", "read", "edit", "list", "sleep"}
KnownKinds == AllKinds \ {"ghost"}
FewKinds == {"ghost", "edit", "list"}
===============================================================================
