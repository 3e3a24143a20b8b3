----------------------------- MODULE MCMailbox ------------------------------
(* The instance of Mailbox for TLC is given by its configuration.            *)
EXTENDS Mailbox
=============================================================================
