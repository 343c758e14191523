------------------------------- MODULE MailPage -------------------------------
(***************************************************************************)
(* The mail page (static/client.js): it shows one page of the server's     *)
(* mail cache, the part that its filters and its search ask for, has the   *)
(* server fetch new mail, and deletes mail from the cache.                 *)
(*                                                                         *)
(* What the page asks for (text, sender, mailbox, source, type, service,   *)
(* category) is one value, a query; the mails are numbers, newer ones      *)
(* larger.  Requests are answered late, in any order, or not at all.       *)
(***************************************************************************)
EXTENDS Integers, FiniteSets

CONSTANTS
  Mails,        \* a set of numbers
  Stored,       \* what the server may have of them at the start
  Matches,      \* the mails each query finds
  Ticked,       \* the mails of the mailboxes that may be ticked
  PageSize,
  MaxPage,      \* bound: of state.page
  MaxChanges,   \* bound: changes of the server's cache
  MaxDeletes,   \* bound: deletions on their way
  Clicks,       \* what the user does
  None

Queries == DOMAIN Matches

ASSUME ConstantsAssumption ==
  /\ IsFiniteSet(Mails) /\ Stored \subseteq SUBSET Mails
  /\ \A q \in Queries : Matches[q] \subseteq Mails
  /\ PageSize \in Nat \ {0} /\ MaxPage \in Nat \ {0} /\ MaxChanges \in Nat

VARIABLES
  cache,     \* the server's mails
  removed,   \* mails deleted on the server: it never takes them back
  version,   \* history: how often the cache has changed
  query,     \* what the inputs of the page ask for
  page,      \* state.page
  typing,    \* the delay after the last key is running
  unasked,   \* history: what is asked for has changed without a load
  loads,     \* loadServerMessages calls on their way that still count
  loading,   \* state.messagesLoading
  failed,    \* history: the last load failed
  shown,     \* state.messages, state.messageTotal and what they were asked by
  pager,     \* which of the two paging buttons are enabled
  ignored,   \* state.ignoredMessageKeys
  deletes,   \* deletions on their way
  sync,      \* syncMail
  job,       \* the server's mail fetch job that syncMail waits for
  told       \* history: the last version the page has been told of

vars == <<cache, removed, version, query, page, typing, unasked, loads,
          loading, failed, shown, pager, ignored, deletes, sync, job, told>>
server == <<cache, removed, version>>
view == <<page, unasked, loading, failed, shown, pager>>

Buttons == {"prev", "next"}

Answer == [version : 0..MaxChanges, count : 0..Cardinality(Mails),
           items : SUBSET Mails]
Shown == [query : Queries, page : 1..MaxPage, version : 0..MaxChanges,
          count : 0..Cardinality(Mails), items : SUBSET Mails]

\* by: who waits for it; again: the second request, for the last page
Load == [by : {"page", "sync"}, query : Queries, page : 1..MaxPage,
         again : BOOLEAN, got : Answer \cup {None}]

\* of: one mail or the mails of a filter; told: the version it made
Delete == [of : SUBSET Mails, one : BOOLEAN,
           told : (0..MaxChanges) \cup {None}]

Atleast1(n) == IF n > 1 THEN n ELSE 1

-----------------------------------------------------------------------------
(***************************************************************************)
(* The server: what it answers, and how its cache changes.                 *)
(***************************************************************************)
Pages(count) == Atleast1((count + PageSize - 1) \div PageSize)

Found(q) == cache \cap Matches[q]

PageOf(mails, p) ==
  {m \in mails : Cardinality({n \in mails : n > m}) \div PageSize = p - 1}

AnswerTo(l) ==
  [version |-> version, count |-> Cardinality(Found(l.query)),
   items |-> PageOf(Found(l.query), l.page)]

SetCache(mails, gone) ==
  /\ cache' = mails
  /\ removed' = gone
  /\ version' = IF <<mails, gone>> = <<cache, removed>>
                THEN version ELSE version + 1
  /\ version' <= MaxChanges

\* Another page of the workspace fetches or deletes mail.
OthersChange(m) ==
  /\ \/ m \in Mails \ (cache \cup removed) /\ SetCache(cache \cup {m}, removed)
     \/ m \in cache /\ SetCache(cache \ {m}, removed \cup {m})
  /\ UNCHANGED <<query, view, typing, loads, ignored, deletes, sync, job, told>>

(***************************************************************************)
(* Rendering brings the page into the range of what is shown, and enables  *)
(* the paging buttons; between two renderings they stay as they are.       *)
(***************************************************************************)
CountOf(s) == IF s = None THEN 0 ELSE s.count

Render(p, s) ==
  LET pages == Pages(CountOf(s))
      q == IF p > pages THEN pages ELSE Atleast1(p)
  IN /\ page' = q
     /\ pager' = {b \in Buttons : IF b = "prev" THEN q > 1 ELSE q < pages}

-----------------------------------------------------------------------------
(***************************************************************************)
(* Loading.  A new call aborts the request of the last one, whose number   *)
(* no longer counts, whatever has come back; syncMail does not wait for it *)
(* any more.                                                               *)
(***************************************************************************)
NewLoad(by, q, p) ==
  [by |-> by, query |-> q, page |-> Atleast1(p), again |-> FALSE, got |-> None]

Aborted_None == {}
Aborted == loads

Resume_Never(ended) == UNCHANGED sync
Resume(ended) ==
  sync' = IF \E l \in ended : l.by = "sync" THEN "off" ELSE sync

StartLoad(by, q, p) ==
  /\ page' = p
  /\ loads' = (loads \ Aborted) \cup {NewLoad(by, q, p)}
  /\ loading' = TRUE
  /\ unasked' = FALSE
  /\ UNCHANGED <<failed, shown>>

BeginLoad(q, p) ==
  /\ StartLoad("page", q, p)
  /\ Resume(Aborted)
  /\ UNCHANGED pager

ServerReads(l) ==
  /\ l.got = None
  /\ loads' = (loads \ {l}) \cup {[l EXCEPT !.got = AnswerTo(l)]}
  /\ UNCHANGED <<server, query, view, typing, ignored, deletes, sync, job,
                 told>>

ShownBy(l) ==
  [query |-> l.query, page |-> l.page, version |-> l.got.version,
   count |-> l.got.count, items |-> l.got.items \ ignored]

\* The page asked for is past the last one: the last one is asked for, with
\* what the inputs hold by now.
AskAgain(l) == ~l.again /\ page > Pages(l.got.count)

LoadContinues(l) ==
  /\ l.got # None /\ AskAgain(l)
  /\ shown' = ShownBy(l)
  /\ page' = Pages(l.got.count)
  /\ loads' = (loads \ {l}) \cup
       {[NewLoad(l.by, query, page') EXCEPT !.again = TRUE]}
  /\ UNCHANGED <<server, query, typing, unasked, loading, failed, pager,
                 ignored, deletes, sync, job, told>>

LoadEnds(l) ==
  /\ l.got # None /\ ~AskAgain(l)
  /\ loads' = loads \ {l}
  /\ shown' = ShownBy(l)
  /\ loading' = FALSE /\ failed' = FALSE
  /\ Render(page, shown')
  /\ unasked' = (unasked \/ page > Pages(shown'.count))
  /\ Resume({l})
  /\ UNCHANGED <<server, query, typing, ignored, deletes, job, told>>

LoadFails(l) ==
  /\ loads' = loads \ {l}
  /\ loading' = FALSE /\ failed' = TRUE
  /\ Render(page, shown)
  /\ unasked' = (unasked \/ page > Pages(CountOf(shown)))
  /\ Resume({l})
  /\ UNCHANGED <<server, query, typing, shown, ignored, deletes, job, told>>

-----------------------------------------------------------------------------
(***************************************************************************)
(* The user.  A filter or a mailbox loads at once, a key a moment later.   *)
(***************************************************************************)
Filter(q) ==
  /\ "filter" \in Clicks
  /\ query' = q
  /\ BeginLoad(q, 1)
  /\ UNCHANGED <<server, typing, ignored, deletes, job, told>>

\* A mailbox is removed from the list of the page, perhaps the one filtered.
RemoveMailbox(q) ==
  /\ "filter" \in Clicks
  /\ query' = q
  /\ Render(page, shown)
  /\ StartLoad("page", q, page')
  /\ Resume(Aborted)
  /\ UNCHANGED <<server, typing, ignored, deletes, job, told>>

Type(q) ==
  /\ "type" \in Clicks
  /\ query' = q
  /\ typing' = TRUE
  /\ UNCHANGED <<server, view, loads, ignored, deletes, sync, job, told>>

Search ==
  /\ typing /\ typing' = FALSE
  /\ BeginLoad(query, 1)
  /\ UNCHANGED <<server, query, ignored, deletes, job, told>>

Turn(button) ==
  /\ "turn" \in Clicks
  /\ button \in pager
  /\ page \in 1..MaxPage - 1
  /\ BeginLoad(query, IF button = "prev" THEN page - 1 ELSE page + 1)
  /\ UNCHANGED <<server, query, typing, ignored, deletes, job, told>>

SelectMail ==
  /\ "select" \in Clicks
  /\ shown # None /\ shown.items # {}
  /\ Render(page, shown)
  /\ unasked' = (unasked \/ page > Pages(shown.count))
  /\ UNCHANGED <<server, query, typing, loads, loading, failed, shown, ignored,
                 deletes, sync, job, told>>

\* The filter loses the mailbox or the category it was set to; nothing loads.
DeleteCategory(q) ==
  /\ "category" \in Clicks
  /\ query' = q
  /\ Render(1, shown)
  /\ unasked' = TRUE
  /\ UNCHANGED <<server, typing, loads, loading, failed, shown, ignored,
                 deletes, sync, job, told>>

ClearLocal(q) ==
  /\ "clear" \in Clicks
  /\ query' = q
  /\ shown' = None
  /\ Render(page, None)
  /\ unasked' = TRUE
  /\ UNCHANGED <<server, typing, loads, loading, failed, ignored, deletes,
                 sync, job, told>>

-----------------------------------------------------------------------------
(***************************************************************************)
(* Deletions: of one mail shown, or of whatever the filter finds when the  *)
(* server gets to it, in the ticked mailboxes if there are any.            *)
(***************************************************************************)
SendDelete(d) ==
  /\ "delete" \in Clicks
  /\ Cardinality(deletes) < MaxDeletes
  /\ deletes' = deletes \cup {d}
  /\ UNCHANGED <<server, query, view, typing, loads, ignored, sync, job, told>>

DeleteMessage(m) ==
  /\ shown # None /\ m \in shown.items
  /\ SendDelete([of |-> {m}, one |-> TRUE, told |-> None])

DeleteFilteredMessages(ticked) ==
  /\ CountOf(shown) > 0
  /\ SendDelete([of |-> Matches[query] \cap ticked, one |-> FALSE,
                 told |-> None])

ServerDeletes(d) ==
  /\ d.told = None
  /\ LET gone == IF d.one THEN d.of ELSE cache \cap d.of
     IN /\ SetCache(cache \ gone, removed \cup gone)
        /\ deletes' = (deletes \ {d}) \cup
             {[d EXCEPT !.of = gone, !.told = version']}
  /\ UNCHANGED <<query, view, typing, loads, ignored, sync, job, told>>

DeleteAnswered_NoLoad(d) ==
  /\ d.told # None
  /\ deletes' = deletes \ {d}
  /\ ignored' = ignored \cup d.of
  /\ told' = IF d.told > told THEN d.told ELSE told
  /\ UNCHANGED <<server, query, view, typing, loads, sync, job>>

DeleteAnswered(d) ==
  /\ d.told # None
  /\ deletes' = deletes \ {d}
  /\ ignored' = ignored \cup d.of
  /\ told' = IF d.told > told THEN d.told ELSE told
  /\ BeginLoad(query, IF d.one THEN page ELSE 1)
  /\ UNCHANGED <<server, query, typing, job>>

\* A failed batch renders.
DeleteFails(d) ==
  /\ deletes' = deletes \ {d}
  /\ IF d.one THEN UNCHANGED <<page, pager, unasked>>
     ELSE /\ Render(page, shown)
          /\ unasked' = (unasked \/ page > Pages(CountOf(shown)))
  /\ UNCHANGED <<server, query, typing, loads, loading, failed, shown, ignored,
                 sync, job, told>>

-----------------------------------------------------------------------------
(***************************************************************************)
(* Fetching new mail: the server's job, and syncMail waiting for it.  When *)
(* the page gives up, the job goes on: OthersChange.                       *)
(***************************************************************************)
SyncMail ==
  /\ "sync" \in Clicks
  /\ sync = "off"
  /\ sync' = "starting" /\ job' = "none"
  /\ UNCHANGED <<server, query, view, typing, loads, ignored, deletes, told>>

SyncStarted ==
  /\ sync = "starting"
  /\ sync' = "waiting" /\ job' = "running"
  /\ UNCHANGED <<server, query, view, typing, loads, ignored, deletes, told>>

JobEnds_TakesBack ==
  /\ job = "running"
  /\ job' = "success"
  /\ \E new \in SUBSET (Mails \ cache) : SetCache(cache \cup new, removed)
  /\ UNCHANGED <<query, view, typing, loads, ignored, deletes, sync, told>>

JobEnds ==
  /\ job = "running"
  /\ \/ /\ job' = "success"
        /\ \E new \in SUBSET (Mails \ (cache \cup removed)) :
             SetCache(cache \cup new, removed)
     \/ job' = "failed" /\ UNCHANGED server
  /\ UNCHANGED <<query, view, typing, loads, ignored, deletes, sync, told>>

\* told: the load that follows reads the cache as it is now, or later.
SyncAnswered ==
  /\ sync = "waiting" /\ job = "success"
  /\ sync' = "loading" /\ job' = "none"
  /\ told' = version
  /\ StartLoad("sync", query, 1)
  /\ UNCHANGED <<server, query, typing, pager, ignored, deletes>>

\* A request fails, the job has failed, or the time is up.
SyncFails ==
  /\ sync \in {"starting", "waiting"}
  /\ sync' = "off" /\ job' = "none"
  /\ UNCHANGED <<server, query, view, typing, loads, ignored, deletes, told>>

(***************************************************************************)
(* The page is loaded again; localStorage may have kept only some of the   *)
(* deleted keys.                                                           *)
(***************************************************************************)
Reload(q, keys) ==
  /\ "reload" \in Clicks
  /\ query' = q
  /\ page' = 1
  /\ loads' = {NewLoad("page", q, 1)}
  /\ loading' = TRUE
  /\ ignored' = keys
  /\ shown' = None /\ pager' = {}
  /\ typing' = FALSE /\ unasked' = FALSE /\ failed' = FALSE
  /\ deletes' = {} /\ sync' = "off" /\ job' = "none" /\ told' = 0
  /\ UNCHANGED server

-----------------------------------------------------------------------------
Init ==
  /\ cache \in Stored
  /\ removed = {} /\ version = 0
  /\ query \in Queries
  /\ page = 1
  /\ loads = {NewLoad("page", query, 1)}
  /\ loading = TRUE
  /\ typing = FALSE /\ unasked = FALSE /\ failed = FALSE
  /\ shown = None /\ pager = {}
  /\ ignored = {} /\ deletes = {}
  /\ sync = "off" /\ job = "none" /\ told = 0

User ==
  \/ \E q \in Queries : Filter(q) \/ RemoveMailbox(q) \/ Type(q)
                         \/ DeleteCategory(q) \/ ClearLocal(q)
  \/ \E b \in Buttons : Turn(b)
  \/ SelectMail \/ SyncMail
  \/ \E m \in Mails : DeleteMessage(m)
  \/ \E t \in Ticked : DeleteFilteredMessages(t)
  \/ \E q \in Queries, keys \in SUBSET ignored : Reload(q, keys)

Next ==
  \/ User \/ Search
  \/ \E l \in loads :
       ServerReads(l) \/ LoadContinues(l) \/ LoadEnds(l) \/ LoadFails(l)
  \/ SyncStarted \/ JobEnds \/ SyncAnswered \/ SyncFails
  \/ \E d \in deletes : ServerDeletes(d) \/ DeleteAnswered(d) \/ DeleteFails(d)
  \/ \E m \in Mails : OthersChange(m)

Spec == Init /\ [][Next]_vars

-----------------------------------------------------------------------------
(***************************************************************************)
(* Every variable holds what page and server may keep there; the server    *)
(* never takes a deleted mail back, and the page hides no other.           *)
(***************************************************************************)
TypeOK ==
  /\ cache \subseteq Mails \ removed /\ removed \subseteq Mails
  /\ version \in 0..MaxChanges /\ told \in 0..version
  /\ query \in Queries /\ page \in 0..MaxPage
  /\ {typing, unasked, loading, failed} \subseteq BOOLEAN
  /\ \A l \in loads : l \in Load
  /\ shown # None => shown \in Shown
  /\ pager \subseteq Buttons
  /\ ignored \subseteq removed
  /\ \A d \in deletes : d \in Delete
  /\ sync \in {"off", "starting", "waiting", "loading"}
  /\ job \in {"none", "running", "success", "failed"}

(***************************************************************************)
(* When the page is not loading, its last load did not fail and no key is  *)
(* waiting, the mails it shows are those of the filters and of the page    *)
(* number next to them, whatever was clicked while loads were on their way *)
(* (not after the clicks that change them without a load).                 *)
(***************************************************************************)
ShownIsAsked ==
  ~loading /\ ~failed /\ ~typing /\ ~unasked /\ shown # None
    => shown.query = query /\ shown.page = page

(***************************************************************************)
(* After a mail fetch that succeeded or a deletion, a page whose last load *)
(* did not fail shows the cache as it was then or later: no older answer   *)
(* hides the new mail or brings the deleted mail back.                     *)
(***************************************************************************)
FetchedIsShown ==
  ~loading /\ ~failed /\ shown # None
    => shown.version >= told /\ shown.items \cap ignored = {}

(***************************************************************************)
(* The page says that it is reading the mail cache exactly while a load    *)
(* that counts is on its way, and the button that fetches mail is disabled *)
(* by no load but its own: an aborted or a failed load leaves nothing      *)
(* behind that would wait for ever.                                        *)
(***************************************************************************)
WaitsForLoad ==
  /\ loading = (loads # {})
  /\ (sync = "loading") = (\E l \in loads : l.by = "sync")

=============================================================================
