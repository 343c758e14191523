-------------------------- MODULE MCMailboxAccounts --------------------------
(***************************************************************************)
(* MailboxAccounts on small instances: mailboxes and requests are          *)
(* interchangeable.                                                        *)
(***************************************************************************)
EXTENDS MailboxAccounts, TLC

Symmetry == Permutations(Requests) \cup Permutations(Emails)
=============================================================================
