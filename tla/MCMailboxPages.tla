---------------------------- MODULE MCMailboxPages ----------------------------
(* Small instances of MailboxPages for TLC. *)
EXTENDS MailboxPages, TLC

\* Lines with their secrets, and an export with masked ones.
Complete == [e \in Emails |-> "real"]
Exported == [e \in Emails |-> "masked"]
MCFiles == {Complete, Exported}
=============================================================================
