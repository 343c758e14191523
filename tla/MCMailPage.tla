------------------------------ MODULE MCMailPage ------------------------------
(* Small instances of MailPage for TLC. *)
EXTENDS MailPage, TLC

MCMails == {1, 2}

MCStored == {{1}}

\* Everything, and the mail of one mailbox.
MCMatches == [all |-> {1, 2}, one |-> {2}]

\* No mailbox is ticked.
MCTicked == {Mails}
=============================================================================
