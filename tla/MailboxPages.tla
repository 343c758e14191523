----------------------------- MODULE MailboxPages -----------------------------
(***************************************************************************)
(* The mailboxes of one workspace as its pages see them: the mailbox       *)
(* manager (static/mailboxes.js), the mail page (static/client.js) and the *)
(* credential refresh page (static/refresh.js).  The server keeps the      *)
(* pool; every page keeps a list of its own, merges what the server        *)
(* answers into it, and writes the whole list to the localStorage they     *)
(* share.                                                                  *)
(*                                                                         *)
(* The server never shows a secret: it answers with a mask, and a masked   *)
(* secret can come back in an exported line.  A mailbox is its email; of   *)
(* its record, the secret that fetches its mail.                           *)
(***************************************************************************)
EXTENDS Naturals, FiniteSets

CONSTANTS
  Microsoft, Temp, Generic,   \* emails, by the kind of mailbox they are
  Managers, Homes, Refreshes, \* open pages: mailboxes, client, refresh
  MaxChanges,                 \* bound: changes of the server's pool
  MaxSyncs,                   \* bound: synchronizations on their way
  Files,                      \* what is imported: emails with their secrets
  None

VARIABLES
  pool,      \* the server's mailboxes
  version,   \* history: how often the server's pool has changed
  list,      \* state.accounts of each page
  stored,    \* localStorage: the list written last
  dirty,     \* a save of the mailbox manager is due
  syncs,     \* synchronizations on their way
  import,    \* the import of a page
  delete,    \* the deletion of a mailbox manager
  merged,    \* history: the version of each kind a manager has merged
  owed,      \* history: what a manager's imports brought to the server and
             \* nobody has deleted
  synced     \* whether a manager's last synchronization was merged

vars == <<pool, version, list, stored, dirty, syncs, import, delete,
          merged, owed, synced>>
server == <<pool, version>>

Emails == Microsoft \cup Temp \cup Generic
Pages == Managers \cup Homes \cup Refreshes
Kinds == {k \in {Microsoft, Temp, Generic} : k # {}}

Secret == {"none", "masked", "real"}
Lists == [Emails -> Secret \cup {None}]
NoList == [e \in Emails |-> None]
In(records) == {e \in Emails : records[e] # None}

Snapshot == [version : 0..MaxChanges, records : Lists]

\* latest: no other synchronization of the page has begun since
Sync == [page : Pages, latest : BOOLEAN, got : [Kinds -> Snapshot \cup {None}]]

\* todo: the kinds still to be sent; done: those the server has confirmed
Import == [lines : Lists, at : {"send", "taken"}, kind : Kinds,
           todo : SUBSET Kinds, done : SUBSET Kinds]
Delete == [emails : SUBSET Emails, at : {"send", "taken"}]

ASSUME ConstantsAssumption ==
  /\ Microsoft \cap (Temp \cup Generic) = {} /\ Temp \cap Generic = {}
  /\ Managers \cap (Homes \cup Refreshes) = {}
  /\ MaxChanges \in Nat /\ Files \subseteq Lists
  /\ None \notin Secret \cup Snapshot \cup Import \cup Delete
  /\ None \notin [Kinds -> 0..MaxChanges]

-----------------------------------------------------------------------------
(***************************************************************************)
(* Secrets.                                                                *)
(***************************************************************************)
Mask(records) ==
  [e \in Emails |-> IF records[e] = "real" THEN "masked" ELSE records[e]]

PreferRealSecret(next, current) ==
  IF next = "none" THEN current
  ELSE IF next = "masked" /\ current = "real" THEN current
  ELSE next

Without(records, emails) ==
  [e \in Emails |-> IF e \in emails THEN None ELSE records[e]]

\* What a page keeps of its own when it merges an answer or imports lines.
MergeInto_Plain(records, items) ==
  [e \in Emails |-> IF items[e] # None THEN items[e] ELSE records[e]]

MergeInto(records, items) ==
  [e \in Emails |->
    IF items[e] = None THEN records[e]
    ELSE IF records[e] = None THEN items[e]
    ELSE PreferRealSecret(items[e], records[e])]

\* client.js assigns the imported row over the one it has.
ImportInto(p, records, lines) ==
  IF p \in Homes
  THEN [e \in Emails |-> IF lines[e] # None THEN lines[e] ELSE records[e]]
  ELSE MergeInto(records, lines)

(***************************************************************************)
(* What the server makes of the lines of one kind.  A line without its     *)
(* credentials is an error of that line (an address of a temporary mailbox *)
(* needs none); a Microsoft line replaces the record, one of another kind  *)
(* keeps a secret that the line masks or lacks.                            *)
(***************************************************************************)
Taken(kind, lines) ==
  {e \in kind \cap In(lines) : kind = Temp \/ lines[e] # "none"}

AfterImport_Replaces(kind, lines) ==
  [e \in Emails |-> IF e \in Taken(kind, lines) THEN lines[e] ELSE pool[e]]

AfterImport(kind, lines) ==
  [e \in Emails |->
    IF e \notin Taken(kind, lines) THEN pool[e]
    ELSE IF kind = Microsoft \/ pool[e] = None \/ lines[e] = "real"
    THEN lines[e]
    ELSE pool[e]]

ChangePool(records) ==
  /\ version < MaxChanges
  /\ pool' = records
  /\ version' = IF records = pool THEN version ELSE version + 1

-----------------------------------------------------------------------------
(***************************************************************************)
(* A page writes its list: the mailbox manager a moment later, the others  *)
(* at once.  A full storage keeps what it has.                             *)
(***************************************************************************)
SetList(p, records) ==
  /\ list' = [list EXCEPT ![p] = records]
  /\ IF p \in Managers
     THEN dirty' = [dirty EXCEPT ![p] = TRUE] /\ UNCHANGED stored
     ELSE stored' \in {stored, records} /\ UNCHANGED dirty

SaveList(p) ==
  /\ p \in Managers /\ dirty[p]
  /\ dirty' = [dirty EXCEPT ![p] = FALSE]
  /\ stored' \in {stored, list[p]}
  /\ UNCHANGED <<server, list, syncs, import, delete, merged, owed, synced>>

(***************************************************************************)
(* Synchronization: one request for each kind of mailbox, sent together,   *)
(* each answered with what the server has when it gets there.              *)
(***************************************************************************)
Of(p) == {s \in syncs : s.page = p}

Superseded(p) ==
  {IF s.page = p THEN [s EXCEPT !.latest = FALSE] ELSE s : s \in syncs}

NewSync(p) == [page |-> p, latest |-> TRUE, got |-> [k \in Kinds |-> None]]

BeginSync(p) ==
  /\ Cardinality(syncs) < MaxSyncs
  /\ syncs' = Superseded(p) \cup {NewSync(p)}
  /\ synced' = [q \in Managers |-> synced[q] /\ q # p]

SyncMailboxes(p) ==
  /\ BeginSync(p)
  /\ UNCHANGED <<server, list, stored, dirty, import, delete, merged, owed>>

ServerAnswers(s, k) ==
  /\ s.got[k] = None
  /\ syncs' = (syncs \ {s}) \cup
       {[s EXCEPT !.got[k] = [version |-> version, records |->
           [e \in Emails |-> IF e \in k THEN Mask(pool)[e] ELSE None]]]}
  /\ UNCHANGED <<server, list, stored, dirty, import, delete, merged, owed,
                 synced>>

\* The mailbox manager takes the answers of its latest request only.
IsLatest_Any(s) == TRUE
IsLatest(s) == s.page \in Managers => s.latest

Answered(s) == \A k \in Kinds : s.got[k] # None

Items(s) == [e \in Emails |->
              LET k == CHOOSE kind \in Kinds : e \in kind
              IN s.got[k].records[e]]

MergeSync(s) ==
  /\ Answered(s) /\ IsLatest(s)
  /\ syncs' = syncs \ {s}
  /\ SetList(s.page, MergeInto(list[s.page], Items(s)))
  /\ merged' = [q \in Managers |-> IF q # s.page THEN merged[q]
                                  ELSE [k \in Kinds |-> s.got[k].version]]
  /\ synced' = [q \in Managers |-> IF q = s.page THEN s.latest ELSE synced[q]]
  /\ UNCHANGED <<server, import, delete, owed>>

DropSync(s) ==
  /\ ~IsLatest(s)
  /\ syncs' = syncs \ {s}
  /\ UNCHANGED <<server, list, stored, dirty, import, delete, merged, owed,
                 synced>>

SyncFails(s) ==
  /\ syncs' = syncs \ {s}
  /\ UNCHANGED <<server, list, stored, dirty, import, delete, merged, owed,
                 synced>>

-----------------------------------------------------------------------------
(***************************************************************************)
(* Imports: to the server first, kind by kind in a fixed order, then into  *)
(* the list of the page (of the refresh page only by a synchronization).   *)
(***************************************************************************)
First(kinds) ==
  IF Microsoft \in kinds THEN Microsoft
  ELSE IF Temp \in kinds THEN Temp ELSE Generic

KindsOf(lines) == {k \in Kinds : k \cap In(lines) # {}}

ImportMailboxes(p, lines) ==
  /\ import[p] = None /\ In(lines) # {}
  /\ import' = [import EXCEPT ![p] =
       [lines |-> lines, at |-> "send", kind |-> First(KindsOf(lines)),
        todo |-> KindsOf(lines) \ {First(KindsOf(lines))}, done |-> {}]]
  /\ UNCHANGED <<server, list, stored, dirty, syncs, delete, merged, owed,
                 synced>>

ServerImports(p) ==
  /\ import[p] # None /\ import[p].at = "send"
  /\ ChangePool(AfterImport(import[p].kind, import[p].lines))
  /\ import' = [import EXCEPT ![p].at = "taken"]
  /\ UNCHANGED <<list, stored, dirty, syncs, delete, merged, owed, synced>>

\* What the server has confirmed and still has.
Owe(p, kinds) ==
  owed' = IF p \notin Managers THEN owed ELSE
    [owed EXCEPT ![p] = @ \cup {e \in UNION kinds : e \in In(import[p].lines)
                                                    /\ pool[e] # None}]

ImportNext_Always(p) ==
  /\ import[p] # None /\ import[p].at = "taken"
  /\ LET next == First(import[p].todo)
     IN import' = [import EXCEPT ![p].at = "send", ![p].kind = next,
                                 ![p].todo = @ \ {next},
                                 ![p].done = @ \cup {import[p].kind}]
  /\ UNCHANGED <<server, list, stored, dirty, syncs, delete, merged, owed,
                 synced>>

ImportNext(p) ==
  /\ import[p] # None /\ import[p].at = "taken" /\ import[p].todo # {}
  /\ LET next == First(import[p].todo)
     IN import' = [import EXCEPT ![p].at = "send", ![p].kind = next,
                                 ![p].todo = @ \ {next},
                                 ![p].done = @ \cup {import[p].kind}]
  /\ UNCHANGED <<server, list, stored, dirty, syncs, delete, merged, owed,
                 synced>>

ImportEnds(p) ==
  /\ import[p] # None /\ import[p].at = "taken" /\ import[p].todo = {}
  /\ import' = [import EXCEPT ![p] = None]
  /\ IF p \in Refreshes THEN UNCHANGED <<list, stored, dirty>>
     ELSE SetList(p, ImportInto(p, list[p], import[p].lines))
  /\ IF p \in Homes THEN UNCHANGED <<syncs, synced>> ELSE BeginSync(p)
  /\ Owe(p, import[p].done \cup {import[p].kind})
  /\ UNCHANGED <<server, delete, merged>>

ImportFails_NoSync(p) ==
  /\ import[p] # None
  /\ import' = [import EXCEPT ![p] = None]
  /\ Owe(p, import[p].done)
  /\ UNCHANGED <<server, list, stored, dirty, syncs, delete, merged, synced>>

\* The request in hand fails, before or after the server has taken it.  The
\* mailbox manager synchronizes when the server has confirmed some lines.
ImportFails(p) ==
  /\ import[p] # None
  /\ import' = [import EXCEPT ![p] = None]
  /\ IF p \in Managers /\ import[p].done # {}
     THEN BeginSync(p) ELSE UNCHANGED <<syncs, synced>>
  /\ Owe(p, import[p].done)
  /\ UNCHANGED <<server, list, stored, dirty, delete, merged>>

-----------------------------------------------------------------------------
(***************************************************************************)
(* Deletions: the mailbox manager deletes on the server, then in its list; *)
(* the mail page only in its list and in localStorage.                     *)
(***************************************************************************)
DeleteAccounts(p, emails) ==
  /\ p \in Managers /\ delete[p] = None
  /\ emails # {} /\ emails \subseteq In(list[p])
  /\ delete' = [delete EXCEPT ![p] = [emails |-> emails, at |-> "send"]]
  /\ UNCHANGED <<server, list, stored, dirty, syncs, import, merged, owed,
                 synced>>

ServerDeletes(p) ==
  /\ delete[p] # None /\ delete[p].at = "send"
  /\ ChangePool(Without(pool, delete[p].emails))
  /\ owed' = [q \in Managers |-> owed[q] \ delete[p].emails]
  /\ delete' = [delete EXCEPT ![p].at = "taken"]
  /\ UNCHANGED <<list, stored, dirty, syncs, import, merged, synced>>

DeleteEnds(p) ==
  /\ delete[p] # None /\ delete[p].at = "taken"
  /\ delete' = [delete EXCEPT ![p] = None]
  /\ SetList(p, Without(list[p], delete[p].emails))
  /\ owed' = [owed EXCEPT ![p] = @ \ delete[p].emails]
  /\ UNCHANGED <<server, syncs, import, merged, synced>>

DeleteFails(p) ==
  /\ delete[p] # None
  /\ delete' = [delete EXCEPT ![p] = None]
  /\ UNCHANGED <<server, list, stored, dirty, syncs, import, merged, owed,
                 synced>>

\* One mailbox, or all of them (clearLocal).
RemoveLocally(p, emails) ==
  /\ p \in Homes
  /\ emails # {} /\ emails \subseteq In(list[p])
  /\ SetList(p, Without(list[p], emails))
  /\ UNCHANGED <<server, syncs, import, delete, merged, owed, synced>>

(***************************************************************************)
(* A page is loaded again: it takes the list stored, whoever wrote it, and *)
(* synchronizes.                                                           *)
(***************************************************************************)
Load(p) ==
  /\ list' = [list EXCEPT ![p] = stored]
  /\ dirty' = [q \in Managers |-> dirty[q] /\ q # p]
  /\ import' = [import EXCEPT ![p] = None]
  /\ delete' = [q \in Managers |-> IF q = p THEN None ELSE delete[q]]
  /\ syncs' = (syncs \ Of(p)) \cup {NewSync(p)}
  /\ synced' = [q \in Managers |-> synced[q] /\ q # p]
  /\ merged' = [q \in Managers |-> IF q = p THEN None ELSE merged[q]]
  /\ UNCHANGED <<server, stored, owed>>

-----------------------------------------------------------------------------
Init ==
  /\ pool = NoList
  /\ version = 0
  /\ list = [p \in Pages |-> NoList]
  /\ stored = NoList
  /\ dirty = [p \in Managers |-> FALSE]
  /\ syncs = {}
  /\ import = [p \in Pages |-> None]
  /\ delete = [p \in Managers |-> None]
  /\ merged = [p \in Managers |-> None]
  /\ owed = [p \in Managers |-> {}]
  /\ synced = [p \in Managers |-> FALSE]

Synchronize ==
  \/ \E p \in Pages : SyncMailboxes(p)
  \/ \E s \in syncs :
       \/ \E k \in Kinds : ServerAnswers(s, k)
       \/ MergeSync(s) \/ DropSync(s) \/ SyncFails(s)

Imports == \E p \in Pages :
             \/ \E lines \in Files : ImportMailboxes(p, lines)
             \/ ServerImports(p) \/ ImportNext(p)
             \/ ImportEnds(p) \/ ImportFails(p)

Deletes == \/ \E p \in Managers :
                \/ \E emails \in SUBSET Emails : DeleteAccounts(p, emails)
                \/ ServerDeletes(p) \/ DeleteEnds(p) \/ DeleteFails(p)
           \/ \E p \in Homes, emails \in SUBSET Emails :
                RemoveLocally(p, emails)

Next == Synchronize \/ Imports \/ Deletes
        \/ \E p \in Pages : Load(p) \/ SaveList(p)

Spec == Init /\ [][Next]_vars

-----------------------------------------------------------------------------
(***************************************************************************)
(* Every variable holds what server and pages may keep there.              *)
(***************************************************************************)
TypeOK ==
  /\ pool \in Lists /\ stored \in Lists
  /\ version \in 0..MaxChanges
  /\ list \in [Pages -> Lists]
  /\ dirty \in [Managers -> BOOLEAN]
  /\ \A s \in syncs : s \in Sync
  /\ \A p \in Pages : import[p] # None => import[p] \in Import
  /\ \A p \in Managers : delete[p] # None => delete[p] \in Delete
  /\ merged \in [Managers -> [Kinds -> 0..MaxChanges] \cup {None}]
  /\ owed \in [Managers -> SUBSET Emails]
  /\ synced \in [Managers -> BOOLEAN]

(***************************************************************************)
(* A server answer with masked secrets never takes the real secret of a    *)
(* mailbox a page has, nor does a line without it imported by the mailbox  *)
(* manager; only removing the mailbox or loading the page does.            *)
(***************************************************************************)
RealSecretsKept ==
  [][\A p \in Pages, e \in Emails :
       list[p][e] = "real" /\ list'[p][e] \notin {"real", None}
         => \/ list'[p] = stored
            \/ p \in Homes /\ import[p] # None /\ import'[p] = None]_vars

(***************************************************************************)
(* The mailbox manager (syncRequestId) never merges an answer older, of    *)
(* any kind of mailbox, than one it has merged since it was loaded.        *)
(***************************************************************************)
SnapshotsInOrder ==
  [][\A p \in Managers :
       merged[p] # None /\ merged'[p] # None
         => \A k \in Kinds : merged[p][k] <= merged'[p][k]]_vars

(***************************************************************************)
(* A mailbox manager whose last synchronization succeeded shows every      *)
(* mailbox that its imports, whole or partly failed, brought to the server *)
(* and that has not been deleted since.                                    *)
(***************************************************************************)
ImportedIsShown ==
  \A p \in Managers : synced[p] => owed[p] \subseteq In(list[p])

(***************************************************************************)
(* The server keeps the secret of a temporary or other mailbox (its        *)
(* usable_secret check) whatever is imported for it, masked lines of an    *)
(* export among them, until the mailbox is deleted.                        *)
(***************************************************************************)
PoolSecretsKept ==
  [][\A e \in Temp \cup Generic :
       pool[e] = "real" /\ pool'[e] # None => pool'[e] = "real"]_vars

=============================================================================
