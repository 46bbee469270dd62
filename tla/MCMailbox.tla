------------------------------ MODULE MCMailbox ------------------------------
(* Instances of Mailbox for TLC.                                            *)
EXTENDS Mailbox
=============================================================================
