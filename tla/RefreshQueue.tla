---------------------------- MODULE RefreshQueue ----------------------------
(***************************************************************************)
(* The queue of the credential refresh page as data: the row a mailbox     *)
(* gives, how the three pages that fill the queue merge it into the stored *)
(* one, and what becomes of a row when the page is loaded                  *)
(* (static/shared/refresh-queue-model.js and its callers).  RefreshRunner  *)
(* and PhonePool say what happens to the rows of one open page.            *)
(*                                                                         *)
(* A row and the mailbox it is made of share their id; cpa stands for the  *)
(* name or the index of a CPA row, an error for the message shown.         *)
(***************************************************************************)
EXTENDS Naturals, Sequences
LOCAL INSTANCE SequencesExt

CONSTANTS
  MailboxIds,
  Emails,      \* in lower case
  AuthFiles,
  Categories,
  CpaNames,
  Logins,      \* job ids
  Faults,      \* errors and the lines of a row's log
  Outdated,    \* those of the password check that is no more
  Null         \* what compactObject leaves out

ASSUME NullAssumption ==
  /\ Outdated \subseteq Faults
  /\ Null \notin AuthFiles \cup CpaNames \cup Logins \cup Faults
  /\ Null \notin {"local", "cpa", "microsoft", "temp", "generic", "idle",
                  "queued", "running", "success", "failed", "ok", "no_code",
                  "error"}

Pages == {"client", "mailboxes", "refresh"}
MailSources == {"microsoft", "temp", "generic"}
Statuses == {"idle", "queued", "running", "success", "failed"}
Checks == {"ok", "no_code", "error", "failed", "idle"}

\* verify: mail_verify_status; last: last_status; fault: last_error_code and
\* its label; text: last_error and its hint
Mailbox ==
  [id : MailboxIds, email : Emails, source : MailSources,
   category : Categories \cup {Null}, verify : Checks \cup {Null},
   last : Checks \cup {Null}, fault : Faults \cup {Null},
   text : Faults \cup {Null},
   auth : AuthFiles \cup {Null}]

QueueRow ==
  [kind : {"local", "cpa", Null}, source : MailSources \cup {"local", "cpa", Null},
   email : Emails, cpa : CpaNames \cup {Null}, id : MailboxIds,
   status : Statuses \cup {Null}, error : Faults \cup {Null},
   job : Logins \cup {Null}, log : SUBSET Faults, auth : AuthFiles \cup {Null}]

OrElse(first, second) == IF first # Null THEN first ELSE second

-----------------------------------------------------------------------------
(***************************************************************************)
(* The row a mailbox gives.  The mail page hands over a row of its own     *)
(* list with the mailbox, the others what they know of the mailbox.        *)
(***************************************************************************)
PageInput(page, a) ==
  [account |-> a, kind |-> "local", email |-> a.email, id |-> a.id,
   source |-> IF page = "client" THEN Null ELSE a.source,
   auth |-> IF page = "client" THEN Null ELSE a.auth]

BuildQueueItem(input) ==
  [kind |-> input.kind, source |-> OrElse(input.account.source, input.source),
   email |-> OrElse(input.email, input.account.email), cpa |-> Null,
   id |-> OrElse(input.account.id, input.id), status |-> "idle",
   error |-> Null, job |-> Null, log |-> {},
   auth |-> OrElse(input.auth, input.account.auth)]

-----------------------------------------------------------------------------
(***************************************************************************)
(* The queue is a list keyed by what a row is about (a Map of JavaScript:  *)
(* a key that is set again keeps its place).                               *)
(***************************************************************************)
QueueKey(row) == <<OrElse(row.kind, OrElse(row.source, "local")), row.email,
                   row.cpa>>

Places(queue, key) == {i \in DOMAIN queue : QueueKey(queue[i]) = key}

Put(queue, key, row) ==
  IF Places(queue, key) = {} THEN Append(queue, row)
  ELSE [i \in DOMAIN queue |->
         IF i \in Places(queue, key) THEN row ELSE queue[i]]

\* What the item lacks it has from the row before, and its status.
MergeRow(before, item) ==
  [item EXCEPT !.cpa = OrElse(@, before.cpa),
               !.status = OrElse(before.status, @),
               !.error = OrElse(@, before.error),
               !.job = OrElse(@, before.job),
               !.auth = OrElse(@, before.auth)]

Enqueue(queue, item) ==
  LET key == QueueKey(item)
  IN Put(queue, key,
         IF Places(queue, key) = {} THEN item
         ELSE MergeRow(queue[CHOOSE i \in Places(queue, key) : TRUE], item))

ByKey(queue) ==
  FoldLeft(LAMBDA rows, row : Put(rows, QueueKey(row), row), <<>>, queue)

MergeQueueItems(queue, inputs) ==
  FoldLeft(LAMBDA rows, input : Enqueue(rows, BuildQueueItem(input)),
           ByKey(queue), inputs)

\* enqueueSelectedMailboxRefresh, enqueueSelectedAccounts and
\* mergeSelectedAccountsIntoQueue: the mailboxes selected, in their order.
EnqueueAccounts(page, queue, accounts) ==
  MergeQueueItems(queue,
    [i \in DOMAIN accounts |-> PageInput(page, accounts[i])])

-----------------------------------------------------------------------------
(***************************************************************************)
(* The refresh page loads the stored queue: it fills in what rows of an    *)
(* earlier version lack, and puts those that failed the check of passwords *)
(* back to the start.                                                      *)
(***************************************************************************)
SanitizeLegacyRefreshRow(row) ==
  IF row.error \in Outdated \/ row.log \cap Outdated # {}
  THEN [row EXCEPT !.status = "idle", !.error = Null, !.job = Null,
                   !.log = @ \ Outdated]
  ELSE row

NormalizeQueueRow(row) ==
  SanitizeLegacyRefreshRow(
    [row EXCEPT !.kind = OrElse(@, "local"),
                !.source = OrElse(@, IF row.kind = "cpa" THEN "cpa"
                                     ELSE "local"),
                !.status = OrElse(@, "idle")])

NormalizeQueue(queue) == [i \in DOMAIN queue |-> NormalizeQueueRow(queue[i])]

-----------------------------------------------------------------------------
Distinct(queue) ==
  \A i, j \in DOMAIN queue : QueueKey(queue[i]) = QueueKey(queue[j]) => i = j

Keys(queue) == {QueueKey(queue[i]) : i \in DOMAIN queue}

\* What a row may not lose when its mailbox is added again.
Progress(row) == [status |-> row.status, job |-> row.job, error |-> row.error]

(***************************************************************************)
(* A mailbox is in the queue once, whichever pages add it and how often:   *)
(* they build the same row of it, and a second row of an email, of another *)
(* kind of mailbox even, takes the place of the first.                     *)
(***************************************************************************)
PagesAgree(accounts) ==
  \A a \in accounts, page \in Pages :
    BuildQueueItem(PageInput(page, a))
      = BuildQueueItem(PageInput("refresh", a))

ItemOf(a) == BuildQueueItem(PageInput("refresh", a))

RowsStayDistinct(queues, accounts) ==
  \A queue \in queues, a \in accounts :
    Distinct(queue)
      => /\ Distinct(Enqueue(queue, ItemOf(a)))
         /\ Keys(Enqueue(queue, ItemOf(a)))
              = Keys(queue) \cup {QueueKey(ItemOf(a))}

(***************************************************************************)
(* Adding a mailbox moves no row and loses no progress of one: status,     *)
(* job, error and credentials stay, also of the row that is added again.   *)
(* Its log does not: the pages hand over an empty one.                     *)
(***************************************************************************)
ProgressIsKept(queues, accounts) ==
  \A queue \in queues, a \in accounts :
    LET after == Enqueue(queue, ItemOf(a))
    IN Distinct(queue) => \A i \in DOMAIN queue :
         /\ i \in DOMAIN after
         /\ QueueKey(after[i]) = QueueKey(queue[i])
         /\ queue[i].status # Null => Progress(after[i]) = Progress(queue[i])
         /\ queue[i].auth # Null => after[i].auth # Null

\* The same for whole selections: what a page adds in one go.
SelectionsAreMerged(queues, selections) ==
  \A page \in Pages, queue \in queues, accounts \in selections :
    LET after == EnqueueAccounts(page, queue, accounts)
        added == {PageInput(page, accounts[i]) : i \in DOMAIN accounts}
    IN /\ Distinct(after)
       /\ Keys(after) = Keys(queue) \cup {QueueKey(BuildQueueItem(input)) :
                                            input \in added}
       /\ Distinct(queue) => \A i \in DOMAIN queue :
            queue[i].status # Null => Progress(after[i]) = Progress(queue[i])

(***************************************************************************)
(* Loading a queue again and again changes it once: a normalised row stays *)
(* as it is, none waits for the check of passwords, and a row that the     *)
(* pages have built stays what it is, its key included.                    *)
(***************************************************************************)
NormalizedRowStays(rows) ==
  \A row \in rows :
    LET loaded == NormalizeQueueRow(row)
    IN /\ NormalizeQueueRow(loaded) = loaded
       /\ loaded.error \notin Outdated
       /\ row.kind # Null => QueueKey(loaded) = QueueKey(row)
       /\ row.job # Null /\ loaded.job = Null => loaded.status = "idle"

BuiltRowStays(accounts) ==
  \A a \in accounts, page \in Pages :
    NormalizeQueueRow(BuildQueueItem(PageInput(page, a)))
      = BuildQueueItem(PageInput(page, a))
=============================================================================
