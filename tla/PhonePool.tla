------------------------------- MODULE PhonePool -------------------------------
(***************************************************************************)
(* The phone numbers of the credential refresh page                        *)
(* (static/shared/refresh-phone-pool.js): entered by hand or synchronized  *)
(* from an SMS platform, assigned to the rows of the refresh queue, polled *)
(* for codes, and ended on the platform when they are done.                *)
(*                                                                         *)
(* An action is what runs between two awaits.  Entries and rows are        *)
(* objects: a poll keeps the entry and the row it began with, and goes on  *)
(* writing to them after they have left the pool or the queue, where       *)
(* nobody looks.                                                           *)
(*                                                                         *)
(* A phone stands for its number, its id and its order on the platform (it *)
(* is entered with its order if it has one), an account for its row; a     *)
(* code is named by the phone it was sent to.                              *)
(* find() takes the first match: the order of the pool is left open.       *)
(***************************************************************************)
EXTENDS FiniteSets

CONSTANTS
  Rows,    \* accounts, and their rows in the refresh queue
  Phones,
  Orders,  \* the phones the platform has an order for
  Manual,  \* a code typed by the user
  None

ASSUME PhoneAssumption ==
  /\ Rows \cap Phones = {}
  /\ Orders \subseteq Phones
  /\ Manual \notin Phones
  /\ None \notin Rows \cup Phones \cup {Manual}

VARIABLES
  pool,     \* state.phonePool: the entry of a phone
  queue,    \* state.queue: the row of an account
  polls,    \* polls on their way
  actions,  \* the order action on its way for an entry
  sync,     \* the synchronization of the platform's orders
  dialog,   \* state.manualCodeTarget, for a phone code
  ended,    \* the platform's finished orders
  bound     \* history: what was bound one to one, or parted by a removal

vars == <<pool, queue, polls, actions, sync, dialog, ended, bound>>
requests == <<polls, actions, sync>>

Entry == [mode : {"batch", "bound"}, email : Rows \cup {None},
          terminal : BOOLEAN, polling : BOOLEAN]
RowOf == [phone : Phones \cup {None}, code : Phones \cup {Manual, None}]

\* own: the entry polled is in the pool; live: the row is in the queue
Poll == [phone : Phones, row : Rows \cup {None}, own : BOOLEAN, live : BOOLEAN]

ASSUME NoneAssumption == None \notin Entry \cup RowOf

NewRow == [phone |-> None, code |-> None]
SyncOff == [at |-> "off", items |-> {}]

-----------------------------------------------------------------------------
(***************************************************************************)
(* What the buttons of an entry allow.                                     *)
(***************************************************************************)
InPool == {p \in Phones : pool[p] # None}
InQueue == {r \in Rows : queue[r] # None}
Busy(p) == actions[p] # "none"
CanBind(p) == p \in InPool /\ ~pool[p].terminal /\ ~Busy(p)
CanPoll(p) == CanBind(p) /\ ~pool[p].polling
CanAct(p) == CanBind(p) /\ p \in Orders

(***************************************************************************)
(* Which entry serves a row, and which rows an entry serves.               *)
(***************************************************************************)
EntriesForRow(r) ==
  IF queue[r].phone \in InPool
  THEN {queue[r].phone}
  ELSE {p \in InPool : pool[p].email = r}

Used == {queue[r].phone : r \in InQueue} \ {None}

Free_Used == {p \in InPool : /\ pool[p].mode = "batch"
                                /\ ~pool[p].terminal
                                /\ pool[p].email = None}

Free == {p \in InPool \ Used : /\ pool[p].mode = "batch"
                               /\ ~pool[p].terminal
                               /\ pool[p].email = None}

RowsOfPhone(p) == {r \in InQueue : queue[r].phone = p \/ pool[p].email = r}

\* The account's other entries lose it.
UnbindOthers(p, r) ==
  [q \in Phones |->
    IF q \in InPool \ {p} /\ r # None /\ pool[q].email = r
    THEN [pool[q] EXCEPT !.email = None] ELSE pool[q]]

-----------------------------------------------------------------------------
(***************************************************************************)
(* The user enters numbers.                                                *)
(***************************************************************************)
Flag(p, field) == p \in InPool /\ pool[p][field]

\* addOrUpdatePhoneEntry: into the batch pool (r = None) or for one account.
AddOrUpdatePhoneEntry(p, r) ==
  LET email == IF r = None /\ p \in InPool THEN pool[p].email ELSE r
  IN /\ r # None => r \in InQueue
     /\ pool' = [UnbindOthers(p, r) EXCEPT ![p] =
          [mode |-> IF r = None THEN "batch" ELSE "bound", email |-> email,
           terminal |-> FALSE, polling |-> Flag(p, "polling")]]
     /\ bound' = IF r = None THEN bound ELSE bound \cup {p, r}
     /\ UNCHANGED <<queue, requests, dialog, ended>>

\* One line of importPhoneBatchEntries: any account, in the queue or not.
ImportPhoneBatchEntry(p, r) ==
  /\ pool' = [pool EXCEPT ![p] =
       [mode |-> IF r = None THEN "batch" ELSE "bound", email |-> r,
        terminal |-> FALSE, polling |-> Flag(p, "polling")]]
  /\ bound' = IF r = None THEN bound ELSE bound \cup {p, r}
  /\ UNCHANGED <<queue, requests, dialog, ended>>

BindPhoneToSelected(p, r) ==
  /\ CanBind(p) /\ r \in InQueue
  /\ pool' = [UnbindOthers(p, r) EXCEPT ![p].mode = "bound", ![p].email = r]
  /\ queue' = [queue EXCEPT ![r].phone = p]
  /\ bound' = bound \cup {p, r}
  /\ UNCHANGED <<requests, dialog, ended>>

\* A poll of the entry goes on.
RemovePhoneEntry(p) ==
  /\ p \in InPool /\ ~Busy(p)
  /\ pool' = [pool EXCEPT ![p] = None]
  /\ queue' = [r \in Rows |->
       IF r \in InQueue /\ queue[r].phone = p
       THEN [queue[r] EXCEPT !.phone = None] ELSE queue[r]]
  /\ polls' = {IF q.phone = p THEN [q EXCEPT !.own = FALSE] ELSE q :
               q \in polls}
  /\ bound' = bound \cup {p} \cup {r \in InQueue : queue[r].phone = p}
  /\ UNCHANGED <<actions, sync, dialog, ended>>

-----------------------------------------------------------------------------
(***************************************************************************)
(* Codes.  pollSelectedPhoneCode gives the row a phone first; the button   *)
(* of an entry polls for a row that has it, if there is one.               *)
(***************************************************************************)
PollBegins(p, r) ==
  /\ pool' = [pool EXCEPT ![p].polling = TRUE]
  /\ polls' = polls \cup {[phone |-> p, row |-> r, own |-> TRUE,
                          live |-> r # None]}
  /\ UNCHANGED <<actions, sync, dialog, ended, bound>>

PollSelectedPhoneCode(r) ==
  /\ r \in InQueue
  /\ \E p \in IF EntriesForRow(r) # {} THEN EntriesForRow(r) ELSE Free :
       /\ queue' = IF EntriesForRow(r) # {} THEN queue
                   ELSE [queue EXCEPT ![r].phone = p]
       /\ IF pool[p].polling
          THEN UNCHANGED <<pool, requests, dialog, ended, bound>>
          ELSE PollBegins(p, r)

PollPhoneEntry(p) ==
  /\ CanPoll(p)
  /\ \E r \in IF RowsOfPhone(p) # {} THEN RowsOfPhone(p) ELSE {None} :
       PollBegins(p, r)
  /\ UNCHANGED queue

\* In one-to-one mode an entry is bound to the account it was polled for.
Binds(q, oneToOne) ==
  oneToOne /\ q.own /\ q.row # None /\ pool[q.phone].email = None

\* The row it began for gets the phone, and the code if there is one.
PollAnswered_SelectedRow(q) ==
  \E found, oneToOne \in BOOLEAN, r \in InQueue :
    /\ polls' = polls \ {q}
    /\ pool' = IF ~q.own THEN pool ELSE
         [pool EXCEPT ![q.phone].polling = FALSE,
                      ![q.phone].email =
                         IF Binds(q, oneToOne) THEN q.row ELSE @]
    /\ queue' = IF ~q.live THEN queue ELSE
         [queue EXCEPT ![r] =
           [phone |-> q.phone, code |-> IF found THEN q.phone ELSE @.code]]
    /\ bound' = IF Binds(q, oneToOne) THEN bound \cup {q.phone, q.row}
                ELSE bound
    /\ UNCHANGED <<actions, sync, dialog, ended>>

PollAnswered(q) ==
  \E found, oneToOne \in BOOLEAN :
    /\ polls' = polls \ {q}
    /\ pool' = IF ~q.own THEN pool ELSE
         [pool EXCEPT ![q.phone].polling = FALSE,
                      ![q.phone].email =
                         IF Binds(q, oneToOne) THEN q.row ELSE @]
    /\ queue' = IF ~q.live THEN queue ELSE
         [queue EXCEPT ![q.row] =
           [phone |-> q.phone, code |-> IF found THEN q.phone ELSE @.code]]
    /\ bound' = IF Binds(q, oneToOne) THEN bound \cup {q.phone, q.row}
                ELSE bound
    /\ UNCHANGED <<actions, sync, dialog, ended>>

PollFails_StaysPolling(q) ==
  /\ polls' = polls \ {q}
  /\ UNCHANGED <<pool, queue, actions, sync, dialog, ended, bound>>

PollFails(q) ==
  /\ polls' = polls \ {q}
  /\ pool' = IF q.own THEN [pool EXCEPT ![q.phone].polling = FALSE] ELSE pool
  /\ UNCHANGED <<queue, actions, sync, dialog, ended, bound>>

(***************************************************************************)
(* The dialog for a code typed by hand.  Its row is looked up again when   *)
(* it is confirmed.                                                        *)
(***************************************************************************)
OpenManualCodeDialog(r) ==
  /\ dialog = None /\ r \in InQueue
  /\ dialog' = r
  /\ UNCHANGED <<pool, queue, requests, ended, bound>>

SubmitManualCodeDialog ==
  /\ dialog # None
  /\ queue' = IF dialog \in InQueue
              THEN [queue EXCEPT ![dialog].code = Manual] ELSE queue
  /\ dialog' = None
  /\ UNCHANGED <<pool, requests, ended, bound>>

CloseManualCodeDialog ==
  /\ dialog # None
  /\ dialog' = None
  /\ UNCHANGED <<pool, queue, requests, ended, bound>>

-----------------------------------------------------------------------------
(***************************************************************************)
(* The orders: runPhoneActivationAction asks for another message, or ends  *)
(* an order; syncPhoneProviderActivations reads those that are active.     *)
(***************************************************************************)
ActionBegins(p, action) ==
  /\ CanAct(p)
  /\ actions' = [actions EXCEPT ![p] = action]
  /\ UNCHANGED <<pool, queue, polls, sync, dialog, ended, bound>>

\* The platform ends the order; its answer is still to come.
PlatformEnds(p) ==
  /\ actions[p] = "end"
  /\ ended' = ended \cup {p}
  /\ actions' = [actions EXCEPT ![p] = "done"]
  /\ UNCHANGED <<pool, queue, polls, sync, dialog, bound>>

ActionAnswered(p) ==
  /\ actions[p] \in {"resend", "done"}
  /\ actions' = [actions EXCEPT ![p] = "none"]
  /\ pool' = [pool EXCEPT ![p].terminal = actions[p] = "done"]
  /\ UNCHANGED <<queue, polls, sync, dialog, ended, bound>>

ActionFails(p) ==
  /\ Busy(p)
  /\ actions' = [actions EXCEPT ![p] = "none"]
  /\ UNCHANGED <<pool, queue, polls, sync, dialog, ended, bound>>

\* The platform lists its active orders; the answer is still to come.
PlatformLists ==
  /\ sync.at = "off"
  /\ sync' = [at |-> "listed", items |-> Orders \ ended]
  /\ UNCHANGED <<pool, queue, polls, actions, dialog, ended, bound>>

SyncFails ==
  /\ sync.at = "listed"
  /\ sync' = SyncOff
  /\ UNCHANGED <<pool, queue, polls, actions, dialog, ended, bound>>

SyncAnswered_NoMode ==
  /\ sync.at = "listed"
  /\ sync' = SyncOff
  /\ pool' = [p \in Phones |->
       IF p \notin sync.items THEN pool[p]
       ELSE IF p \in InPool
       THEN [pool[p] EXCEPT !.terminal = FALSE]
       ELSE [email |-> None, terminal |-> FALSE,
             polling |-> FALSE]]
  /\ UNCHANGED <<queue, polls, actions, dialog, ended, bound>>

SyncAnswered ==
  /\ sync.at = "listed"
  /\ sync' = SyncOff
  /\ pool' = [p \in Phones |->
       IF p \notin sync.items THEN pool[p]
       ELSE IF p \in InPool
       THEN [pool[p] EXCEPT !.terminal = FALSE]
       ELSE [mode |-> "batch", email |-> None, terminal |-> FALSE,
             polling |-> FALSE]]
  /\ UNCHANGED <<queue, polls, actions, dialog, ended, bound>>

-----------------------------------------------------------------------------
(***************************************************************************)
(* The queue: a row leaves it, or its account is added (again, as a new    *)
(* object that keeps the phone).                                           *)
(***************************************************************************)
Detached(r) ==
  {IF q.row = r THEN [q EXCEPT !.live = FALSE] ELSE q : q \in polls}

AddToQueue(r) ==
  /\ queue' = [queue EXCEPT ![r] = IF @ = None THEN NewRow ELSE @]
  /\ polls' = Detached(r)
  /\ UNCHANGED <<pool, actions, sync, dialog, ended, bound>>

RemoveFromQueue(r) ==
  /\ r \in InQueue
  /\ queue' = [queue EXCEPT ![r] = None]
  /\ polls' = Detached(r)
  /\ UNCHANGED <<pool, actions, sync, dialog, ended, bound>>

(***************************************************************************)
(* The page is loaded again.  refresh.js reads the pool before its helper  *)
(* exists, with a normalizePhonePool of its own that knows nothing of      *)
(* orders that have ended.                                                 *)
(***************************************************************************)
Reload ==
  /\ pool' = [p \in Phones |->
       IF p \in InPool
       THEN [pool[p] EXCEPT !.terminal = FALSE, !.polling = FALSE]
       ELSE None]
  /\ polls' = {}
  /\ actions' = [p \in Phones |-> "none"]
  /\ sync' = SyncOff
  /\ dialog' = None
  /\ UNCHANGED <<queue, ended, bound>>

-----------------------------------------------------------------------------
Init ==
  /\ pool = [p \in Phones |-> None]
  /\ queue = [r \in Rows |-> None]
  /\ polls = {}
  /\ actions = [p \in Phones |-> "none"]
  /\ sync = SyncOff
  /\ dialog = None
  /\ ended = {} /\ bound = {}

Enter == \E p \in Phones, r \in Rows \cup {None} :
           AddOrUpdatePhoneEntry(p, r) \/ ImportPhoneBatchEntry(p, r)

Entries == \E p \in Phones :
             \/ RemovePhoneEntry(p) \/ PollPhoneEntry(p)
             \/ \E r \in Rows : BindPhoneToSelected(p, r)
             \/ \E action \in {"resend", "end"} : ActionBegins(p, action)
             \/ PlatformEnds(p) \/ ActionAnswered(p) \/ ActionFails(p)

QueueRows == \E r \in Rows :
               \/ AddToQueue(r) \/ RemoveFromQueue(r)
               \/ PollSelectedPhoneCode(r) \/ OpenManualCodeDialog(r)

PollReturns == \E q \in polls : PollAnswered(q) \/ PollFails(q)

Next ==
  \/ Enter \/ Entries \/ QueueRows \/ PollReturns
  \/ SubmitManualCodeDialog \/ CloseManualCodeDialog
  \/ PlatformLists \/ SyncAnswered \/ SyncFails
  \/ Reload

Spec == Init /\ [][Next]_vars

-----------------------------------------------------------------------------
(***************************************************************************)
(* Every variable holds what the page may keep there.                      *)
(***************************************************************************)
TypeOK ==
  /\ pool \in [Phones -> Entry \cup {None}]
  /\ queue \in [Rows -> RowOf \cup {None}]
  /\ polls \subseteq Poll
  /\ actions \in [Phones -> {"none", "resend", "end", "done"}]
  /\ sync \in [at : {"off", "listed"}, items : SUBSET Orders]
  /\ dialog \in Rows \cup {None}
  /\ ended \subseteq Orders
  /\ bound \subseteq Phones \cup Rows

(***************************************************************************)
(* Two rows share a phone only after it, or one of their accounts, was     *)
(* bound one to one or lost it to a removal: what the page assigns from    *)
(* the batch pool (ensurePhoneEntryForRow, used phone ids) it assigns      *)
(* once, however polls, answers, reloads and the queue interleave.         *)
(***************************************************************************)
PhonesNotShared ==
  \A r, s \in InQueue :
    r # s /\ queue[r].phone = queue[s].phone /\ queue[r].phone # None
      => bound \cap {r, s, queue[r].phone} # {}

(***************************************************************************)
(* The code a login of the row will send (phoneCodeForRow) was sent to the *)
(* phone the row has, under the same condition.                            *)
(***************************************************************************)
CodeOfItsPhone ==
  \A r \in InQueue :
    queue[r].code \in Phones /\ queue[r].code # queue[r].phone
      => bound \cap {r, queue[r].code} # {}

(***************************************************************************)
(* An entry says it is polled exactly when a poll that will write to it is *)
(* on its way, and there is one such poll: the platform is never asked     *)
(* twice for one entry, and no entry is left "polling" for ever.           *)
(***************************************************************************)
OnePollPerEntry ==
  \A p \in InPool :
    LET own == {q \in polls : q.phone = p /\ q.own}
    IN Cardinality(own) = IF pool[p].polling THEN 1 ELSE 0
=============================================================================
