---------------------------- MODULE MailboxLists ----------------------------
(***************************************************************************)
(* The mailboxes a page lists: which of them its filters show, the cache   *)
(* of that answer, which are selected, what a verification writes to them, *)
(* and which of them the refresh page lets into its queue                  *)
(* (static/shared/refresh-source-list.js, static/shared/mailbox-           *)
(* workspace.js and the same parts of static/mailboxes.js).                *)
(***************************************************************************)
EXTENDS RefreshQueue

CONSTANTS
  CodeFaults,   \* isCodePickupError
  PhoneFaults,  \* isPhoneVerificationError
  BannedFaults, \* the texts that accountIsBanned looks for
  NoResult      \* the error of an answer without results

ASSUME FaultsAssumption == NoResult \in Faults

-----------------------------------------------------------------------------
(***************************************************************************)
(* Verification: the mail of each selected mailbox is fetched.  The answer *)
(* has results by email; one that lacks the email asked about counts by    *)
(* its first result, an empty one as a failure.                            *)
(***************************************************************************)
Result ==
  [email : Emails, ok : BOOLEAN, code : BOOLEAN, fault : Faults, text : Faults]

ResultFor(a, results) ==
  LET mine == {i \in DOMAIN results : results[i].email = a.email}
  IN IF mine # {} THEN results[CHOOSE i \in mine : \A j \in mine : i <= j]
     ELSE IF results # <<>> THEN results[1]
     ELSE [email |-> a.email, ok |-> FALSE, code |-> FALSE,
           fault |-> NoResult, text |-> NoResult]

ApplyMailboxVerifyResult(a, result) ==
  LET check == IF ~result.ok THEN "error"
               ELSE IF result.code THEN "ok" ELSE "no_code"
  IN [a EXCEPT !.verify = check, !.last = check,
               !.fault = IF result.ok THEN Null ELSE result.fault,
               !.text = IF result.ok THEN Null ELSE result.text]

(***************************************************************************)
(* Each result is written to the object that was selected.  If a           *)
(* synchronization has put new objects into the list meanwhile, those take *)
(* the results written before, reached, and the others are lost.           *)
(***************************************************************************)
VerifySelectedMailboxes(accounts, selected, reached, answer) ==
  [i \in DOMAIN accounts |->
    IF accounts[i].id \in selected \cap reached
    THEN ApplyMailboxVerifyResult(accounts[i],
           ResultFor(accounts[i], answer[accounts[i].id]))
    ELSE accounts[i]]

\* A mail fetch and the server's list leave mail_verify_status alone.
ApplyFetchDiagnostics(a, result) ==
  [a EXCEPT !.last = IF result.ok THEN "ok" ELSE "error",
            !.fault = IF result.ok THEN Null ELSE result.fault,
            !.text = IF result.ok THEN Null ELSE result.text]

MergeServerStatus(a, status, fault, text) ==
  [a EXCEPT !.last = status, !.fault = fault, !.text = text]

-----------------------------------------------------------------------------
(***************************************************************************)
(* The state of a mailbox in the source list: of its saved result, of its  *)
(* rows in the queue, as rowState shows them, then of its verification.    *)
(***************************************************************************)
Check(a) == OrElse(a.verify, a.last)
AccountMailVerified(a) == Check(a) \in {"ok", "no_code"}
AccountMailFailed(a) == Check(a) \in {"error", "failed"}

SourceRefreshState(a, queue, saved) ==
  LET rows == {queue[i] : i \in {j \in DOMAIN queue :
                                  queue[j].email = a.email}}
      failed == {row.error : row \in {r \in rows : r.status = "failed"}}
  IN IF a.email \in saved
        \/ \E row \in rows : row.auth # Null \/ row.status = "success"
     THEN "success"
     ELSE IF \E row \in rows : row.status \in {"queued", "running"}
     THEN "running"
     ELSE IF failed \cap PhoneFaults # {} THEN "failed"
     ELSE IF failed \cap CodeFaults # {} THEN "needs_code"
     ELSE IF failed # {} \/ AccountMailFailed(a) THEN "failed"
     ELSE IF Check(a) = "no_code" THEN "needs_code"
     ELSE "idle"

-----------------------------------------------------------------------------
(***************************************************************************)
(* What the filters of a page show.  matches: the emails that hold what is *)
(* typed; activity: what the mail page knows of each email's mail.         *)
(***************************************************************************)
IsSourceShown(a, filter, queue, saved) ==
  /\ filter.source \in {"all", a.source}
  /\ filter.state \in {"all", SourceRefreshState(a, queue, saved)}
  /\ a.email \in filter.matches

AccountHasError(a) ==
  a.last \in {"error", "failed"} \/ a.fault # Null \/ a.text # Null

AccountIsBanned(a) == a.fault \in BannedFaults \/ a.text \in BannedFaults

\* The manager: the source box, or the view of the side bar, source here.
IsManaged(a, filter) ==
  /\ CASE filter.source = "error" -> AccountHasError(a)
       [] filter.source = "banned" -> AccountIsBanned(a)
       [] OTHER -> filter.source \in {"all", a.source}
  /\ filter.category \in {"all", a.category}
  /\ a.email \in filter.matches

IsListed(a, filter, activity) ==
  /\ filter.source \in {"all", a.source}
  /\ filter.category \in {"all", a.category}
  /\ filter.activity \in {"all", activity[a.email]}
  /\ a.email \in filter.matches

FilteredSources(accounts, filter, queue, saved) ==
  {i \in DOMAIN accounts : IsSourceShown(accounts[i], filter, queue, saved)}

(***************************************************************************)
(* What the caches of these answers compare: a cached answer is used as    *)
(* long as this is the same and nobody has invalidated it.                 *)
(***************************************************************************)
SourceAccountsCacheKey(accounts, filter, queue, saved) ==
  [size |-> Len(accounts), filter |-> filter, saved |-> saved,
   ends |-> IF accounts = <<>> THEN <<>>
            ELSE <<accounts[1].id, accounts[Len(accounts)].id>>,
   rows |-> [i \in DOMAIN queue |->
              [email |-> queue[i].email, status |-> queue[i].status,
               auth |-> queue[i].auth # Null]]]

AccountSignature(a) ==
  <<a.id, a.email, a.source, a.category, a.last, a.fault, a.verify>>

AccountsSignature(accounts) ==
  [i \in DOMAIN accounts |-> AccountSignature(accounts[i])]

-----------------------------------------------------------------------------
(***************************************************************************)
(* Selection: a set of ids.  What is done to "the selected" is done to     *)
(* those of them that the filters show.                                    *)
(***************************************************************************)
SelectedSourceAccounts(accounts, shown, selected) ==
  SelectSeq(accounts, LAMBDA a : a.id \in selected /\ a.id \in shown)

(***************************************************************************)
(* addSelectedToQueue: everything selected, or nothing as long as one of   *)
(* them is not verified or has failed.                                     *)
(***************************************************************************)
AddSelectedToQueue(queue, chosen) ==
  IF chosen # <<>> /\ \A i \in DOMAIN chosen : AccountMailVerified(chosen[i])
  THEN EnqueueAccounts("refresh", queue, chosen)
  ELSE queue

(***************************************************************************)
(* renderAccounts of the mail page: dedupeAccounts may leave another       *)
(* record, with another id, of the mailbox that was selected or opened.    *)
(***************************************************************************)
Records(accounts) == {accounts[i] : i \in DOMAIN accounts}

SelectionAfter(before, after, selected) ==
  LET emails == {a.email : a \in {b \in Records(before) : b.id \in selected}}
  IN IF AccountsSignature(before) = AccountsSignature(after) THEN selected
     ELSE {a.id : a \in {b \in Records(after) :
                          b.email \in emails \/ b.id \in selected}}

ActiveAfter(before, after, active) ==
  LET opened == {a.email : a \in {b \in Records(before) : b.id = active.id}}
      email == IF opened # {} THEN CHOOSE e \in opened : TRUE ELSE active.email
      found == {a \in Records(after) : a.email = email}
      Closed == [id |-> Null, email |-> Null]
  IN IF AccountsSignature(before) = AccountsSignature(after) THEN active
     ELSE IF found # {}
     THEN LET a == CHOOSE a \in found : TRUE IN [id |-> a.id, email |-> a.email]
     ELSE Closed

-----------------------------------------------------------------------------
(***************************************************************************)
(* A verification decides whether a mailbox may be queued, and goes on     *)
(* deciding it whatever fetches and synchronizations write afterwards.     *)
(***************************************************************************)
GateFollowsCheck(accounts, results) ==
  \A a \in accounts, r, later \in results, status \in Checks \cup {Null},
     fault, text \in Faults \cup {Null} :
    LET checked == ApplyMailboxVerifyResult(a, r)
    IN \A b \in {checked, ApplyFetchDiagnostics(checked, later),
                 MergeServerStatus(checked, status, fault, text)} :
         AccountMailVerified(b) = r.ok /\ AccountMailFailed(b) = ~r.ok

(***************************************************************************)
(* A verification gives each mailbox its own result as long as the answer  *)
(* has one, and leaves those alone that were not selected.                 *)
(***************************************************************************)
VerificationIsOwn(lists, selections, answers) ==
  \A accounts \in lists, selected, reached \in selections,
     answer \in answers :
    LET after == VerifySelectedMailboxes(accounts, selected, reached, answer)
    IN \A i \in DOMAIN accounts :
         LET a == accounts[i]
             results == answer[a.id]
         IN /\ a.id \notin selected => after[i] = a
            /\ a.id \in selected \cap reached /\ AccountMailVerified(after[i])
                 => \E r \in Records(results) :
                      r.ok /\ ((\E s \in Records(results) : s.email = a.email)
                                 => r.email = a.email)

(***************************************************************************)
(* The refresh page adds to its queue what is selected, shown and able to  *)
(* receive mail only, and all of such a selection or none.                 *)
(***************************************************************************)
OnlyVerifiedAreAdded(queues, lists, selections) ==
  \A queue \in queues, accounts \in lists, shown, selected \in selections :
    LET chosen == SelectedSourceAccounts(accounts, shown, selected)
        after == AddSelectedToQueue(queue, chosen)
        keys == {QueueKey(ItemOf(a)) : a \in Records(chosen)}
    IN /\ \A key \in Keys(after) \ Keys(queue) :
            \E a \in Records(accounts) :
              /\ AccountMailVerified(a) /\ QueueKey(ItemOf(a)) = key
              /\ a.id \in shown \cap selected
       /\ after = queue \/ keys \subseteq Keys(after)

(***************************************************************************)
(* Adding a mailbox changes what the source list says of no other one, and *)
(* of itself only if it has credentials already: they make it a success.   *)
(***************************************************************************)
AddingShowsNothingElse(accounts, queues, saves) ==
  \A a, b \in accounts, queue \in queues, saved \in saves :
    Distinct(queue) /\ (a.email = b.email => b.auth = Null)
      => SourceRefreshState(a, Enqueue(queue, ItemOf(b)), saved)
           = SourceRefreshState(a, queue, saved)

(***************************************************************************)
(* A cached answer of the source list is the right one as long as the      *)
(* mailboxes are the same and the errors of the rows are: what else it     *)
(* depends on is in the key.                                               *)
(***************************************************************************)
SourceKeyIsEnough(lists, filters, queues, saves) ==
  \A accounts \in lists, f, g \in filters, q, r \in queues, s, t \in saves :
    /\ SourceAccountsCacheKey(accounts, f, q, s)
         = SourceAccountsCacheKey(accounts, g, r, t)
    /\ \A i \in DOMAIN q \cap DOMAIN r : q[i].error = r[i].error
    => FilteredSources(accounts, f, q, s) = FilteredSources(accounts, g, r, t)

(***************************************************************************)
(* The signature of the other pages' lists holds all that their filters    *)
(* look at, except the text of an error, in which the manager looks for a  *)
(* ban, and the activity, which the mail page loads apart: whoever changes *)
(* these has to invalidate the cache.                                      *)
(***************************************************************************)
SignatureIsEnough(lists, filters, activities) ==
  \A before, after \in lists, filter \in filters, activity \in activities :
    /\ AccountsSignature(before) = AccountsSignature(after)
    /\ \A i \in DOMAIN before : before[i].text = after[i].text
    => /\ DOMAIN before = DOMAIN after
       /\ \A i \in DOMAIN before :
            /\ IsManaged(before[i], filter) = IsManaged(after[i], filter)
            /\ IsListed(before[i], filter, activity)
                 = IsListed(after[i], filter, activity)

(***************************************************************************)
(* The mailboxes selected and the one opened are the same ones after the   *)
(* records of a mailbox have become one, whichever of their ids is left.   *)
(***************************************************************************)
Selected(accounts, ids) ==
  {a.email : a \in {b \in Records(accounts) : b.id \in ids}}

OneEach(before, after) ==
  /\ \A a, b \in Records(before) : a.id = b.id => a = b
  /\ \A a, b \in Records(after) : a.email = b.email => a = b
  /\ \A a \in Records(before) : \E b \in Records(after) : a.email = b.email
  /\ \A b \in Records(after) :
       \E a \in Records(before) : a.id = b.id /\ a.email = b.email

SelectionFollows(lists) ==
  \A before, after \in lists : OneEach(before, after) =>
    /\ \A ids \in SUBSET MailboxIds :
         Selected(after, SelectionAfter(before, after, ids))
           = Selected(before, ids)
    /\ \A a \in Records(before) :
         LET active == ActiveAfter(before, after,
                                   [id |-> a.id, email |-> a.email])
         IN /\ active.email = a.email
            /\ \E b \in Records(after) : b.id = active.id
                                         /\ b.email = a.email
=============================================================================
