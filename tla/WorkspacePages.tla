---------------------------- MODULE WorkspacePages ----------------------------
(***************************************************************************)
(* Workspaces in one browser: which workspace a page opens                 *)
(* (static/shared/base.js), the account list its tabs keep for it          *)
(* (static/accounts.js), and the recovery page (static/recover.js), which  *)
(* switches, exports, restores and protects workspaces.                    *)
(*                                                                         *)
(* All tabs share localStorage.  A tab takes its workspace and its list    *)
(* when it opens, and afterwards writes the whole list to the key of that  *)
(* workspace, whatever the other tabs have done to either.  An account is  *)
(* its email; of its record, whether it has a token.                       *)
(***************************************************************************)
EXTENDS FiniteSets

CONSTANTS
  Workspaces,  \* workspace ids
  Accounts,    \* emails
  Tabs,        \* tabs of the account page
  None

ASSUME PageAssumption == None \notin Workspaces

VARIABLES
  store,     \* localStorage: the account list of each workspace
  pointer,   \* localStorage: the current workspace
  history,   \* localStorage: the workspaces seen
  cookie,    \* the cookie that repeats the pointer
  tab,       \* the open tabs
  recover,   \* the recovery page, when it is open
  file,      \* the last backup exported
  last,      \* history: the workspace remembered last
  entered    \* history: the accounts entered in a workspace

vars == <<store, pointer, history, cookie, tab, recover, file,
          last, entered>>
identity == <<pointer, history, cookie, last>>

Record == {"bare", "token"}
Records == [Accounts -> Record \cup {None}]
NoRecords == [a \in Accounts |-> None]
Held(records) == {a \in Accounts : records[a] # None}

Tab == [ws : Workspaces, records : Records, checking : SUBSET Accounts]
RecoverPage == [current : Workspaces, shown : Workspaces,
                protected : Workspaces \cup {None}]
Backup == [ws : Workspaces, records : Records, history : SUBSET Workspaces]

-----------------------------------------------------------------------------
(***************************************************************************)
(* Identity.  rememberWorkspaceId writes the pointer, the history and the  *)
(* cookie; resolveWorkspaceId asks the pointer, then the cookie, and makes *)
(* up an id that nobody has when both are empty.                           *)
(***************************************************************************)
RememberIn(known, w) ==
  /\ pointer' = w /\ cookie' = w /\ last' = w
  /\ history' = known \cup {w}

Remember(w) == RememberIn(history, w)

Fresh == {w \in Workspaces : w \notin history /\ store[w] = NoRecords
                             /\ entered[w] = {}}
Resolved ==
  IF pointer # None THEN {pointer}
  ELSE IF cookie # None THEN {cookie}
  ELSE Fresh

Load(t, w) ==
  tab' = [tab EXCEPT ![t] = [ws |-> w, records |-> store[w], checking |-> {}]]

OpenTab(t) ==
  /\ tab[t] = None
  /\ \E w \in Resolved : Remember(w) /\ Load(t, w)
  /\ UNCHANGED <<store, recover, file, entered>>

\* A link with force_workspace.
OpenForced(t, w) ==
  /\ tab[t] = None
  /\ Remember(w) /\ Load(t, w)
  /\ UNCHANGED <<store, recover, file, entered>>

CloseTab(t) ==
  /\ tab[t] # None
  /\ tab' = [tab EXCEPT ![t] = None]
  /\ UNCHANGED <<store, identity, recover, file, entered>>

\* The browser drops localStorage, as it may; the cookie is kept apart.
StorageCleared ==
  /\ store' = [w \in Workspaces |-> NoRecords]
  /\ pointer' = None /\ history' = {}
  /\ UNCHANGED <<cookie, last, tab, recover, file, entered>>

-----------------------------------------------------------------------------
(***************************************************************************)
(* The account list.  upsertRecords keeps a token that the new record does *)
(* not bring, dedupeRecords one that is better known.                      *)
(***************************************************************************)
Upsert_NewOnly(records, new) ==
  [a \in Accounts |-> IF new[a] # None THEN new[a] ELSE records[a]]

Upsert(records, new) ==
  [a \in Accounts |->
    IF new[a] = None THEN records[a]
    ELSE IF records[a] = "token" THEN "token" ELSE new[a]]

Write_Pointer(t, records) ==
  /\ tab' = [tab EXCEPT ![t].records = records]
  /\ store' \in {store, [store EXCEPT ![last] = records]}

\* saveJson gives up when the storage is full.
Write(t, records) ==
  /\ tab' = [tab EXCEPT ![t].records = records]
  /\ store' \in {store, [store EXCEPT ![tab[t].ws] = records]}

ImportAccounts(t, lines, record) ==
  LET new == [a \in Accounts |-> IF a \in lines THEN record ELSE None]
  IN /\ tab[t] # None
     /\ Write(t, Upsert(tab[t].records, new))
     /\ entered' = [entered EXCEPT ![tab[t].ws] = @ \cup lines]
     /\ UNCHANGED <<identity, recover, file>>

\* The selected accounts, or all of them.
DeleteAccounts(t, selected) ==
  /\ tab[t] # None
  /\ Write(t, [a \in Accounts |->
                IF a \in selected THEN None ELSE tab[t].records[a]])
  /\ UNCHANGED <<identity, recover, file, entered>>

CheckBegins(t, selected) ==
  /\ tab[t] # None /\ tab[t].checking = {}
  /\ selected \subseteq Held(tab[t].records)
  /\ tab' = [tab EXCEPT ![t].checking = selected]
  /\ UNCHANGED <<store, identity, recover, file, entered>>

\* The answer brings verdicts and no tokens; accounts deleted meanwhile
\* come back.
CheckAnswered(t) ==
  /\ tab[t] # None /\ tab[t].checking # {}
  /\ LET new == [a \in Accounts |->
                   IF a \in tab[t].checking THEN "bare" ELSE None]
         records == Upsert(tab[t].records, new)
     IN /\ tab' = [tab EXCEPT ![t].records = records, ![t].checking = {}]
        /\ store' \in {store, [store EXCEPT ![tab[t].ws] = records]}
  /\ UNCHANGED <<identity, recover, file, entered>>

CheckFails(t) ==
  /\ tab[t] # None /\ tab[t].checking # {}
  /\ tab' = [tab EXCEPT ![t].checking = {}]
  /\ UNCHANGED <<store, identity, recover, file, entered>>

-----------------------------------------------------------------------------
(***************************************************************************)
(* The recovery page keeps the workspace it has opened with.               *)
(***************************************************************************)
OpenRecover ==
  /\ recover = None
  /\ \E w \in Resolved :
       Remember(w) /\ recover' = [current |-> w, shown |-> w,
                                 protected |-> None]
  /\ UNCHANGED <<store, tab, file, entered>>

CloseRecover ==
  /\ recover # None
  /\ recover' = None
  /\ UNCHANGED <<store, identity, tab, file, entered>>

\* The workspaces listed: those of the history, one typed, those a password
\* has found.  The page leaves for a page of the workspace.
SwitchWorkspace(t, w) ==
  /\ recover # None /\ tab[t] = None
  /\ Remember(w) /\ Load(t, w)
  /\ recover' = None
  /\ UNCHANGED <<store, file, entered>>

ExportBackup_Pointer ==
  /\ recover # None
  /\ file' = [ws |-> pointer, records |-> store[recover.current],
              history |-> history]
  /\ UNCHANGED <<store, identity, tab, recover, entered>>

ExportBackup ==
  /\ recover # None
  /\ file' = [ws |-> recover.current, records |-> store[recover.current],
              history |-> history]
  /\ UNCHANGED <<store, identity, tab, recover, entered>>

ImportBackup_KeepsCookie ==
  /\ recover # None /\ file # None
  /\ store' = [store EXCEPT ![file.ws] = file.records]
  /\ pointer' = file.ws /\ last' = file.ws
  /\ history' = file.history \cup {file.ws}
  /\ recover' = [recover EXCEPT !.shown = file.ws]
  /\ UNCHANGED <<cookie, tab, file, entered>>

\* applyBackupPayload writes the keys of the file, its history among them.
ImportBackup ==
  /\ recover # None /\ file # None
  /\ store' = [store EXCEPT ![file.ws] = file.records]
  /\ RememberIn(file.history, file.ws)
  /\ recover' = [recover EXCEPT !.shown = file.ws]
  /\ UNCHANGED <<tab, file, entered>>

SaveWorkspacePassword ==
  /\ recover # None
  /\ recover' = [recover EXCEPT !.protected = recover.current]
  /\ UNCHANGED <<store, identity, tab, file, entered>>

-----------------------------------------------------------------------------
Init ==
  /\ store = [w \in Workspaces |-> NoRecords]
  /\ pointer = None /\ history = {} /\ cookie = None /\ last = None
  /\ tab = [t \in Tabs |-> None]
  /\ recover = None /\ file = None
  /\ entered = [w \in Workspaces |-> {}]

Page(t) ==
  \/ OpenTab(t) \/ CloseTab(t)
  \/ \E w \in Workspaces : OpenForced(t, w) \/ SwitchWorkspace(t, w)
  \/ \E selected \in SUBSET Accounts \ {{}} :
       \/ \E record \in Record : ImportAccounts(t, selected, record)
       \/ DeleteAccounts(t, selected) \/ CheckBegins(t, selected)
  \/ CheckAnswered(t) \/ CheckFails(t)

Recovery ==
  \/ OpenRecover \/ CloseRecover
  \/ ExportBackup \/ ImportBackup \/ SaveWorkspacePassword

Next == Recovery \/ StorageCleared \/ \E t \in Tabs : Page(t)

Spec == Init /\ [][Next]_vars

-----------------------------------------------------------------------------
(***************************************************************************)
(* Every variable holds what the pages may keep there.                     *)
(***************************************************************************)
TypeOK ==
  /\ store \in [Workspaces -> Records]
  /\ {pointer, cookie, last} \subseteq Workspaces \cup {None}
  /\ history \subseteq Workspaces
  /\ tab \in [Tabs -> Tab \cup {None}]
  /\ recover \in RecoverPage \cup {None}
  /\ file \in Backup \cup {None}
  /\ entered \in [Workspaces -> SUBSET Accounts]

(***************************************************************************)
(* No workspace ever holds an account of another one, in storage, in a tab *)
(* or in a backup: switching in one tab does not redirect what another tab *)
(* writes, and a backup returns to the workspace it was taken from.        *)
(***************************************************************************)
WorkspacesApart ==
  /\ \A w \in Workspaces : Held(store[w]) \subseteq entered[w]
  /\ \A t \in Tabs :
       tab[t] # None => Held(tab[t].records) \cup tab[t].checking
                          \subseteq entered[tab[t].ws]
  /\ file # None => Held(file.records) \subseteq entered[file.ws]

(***************************************************************************)
(* tests/test_shared_base.js: a page finds the workspace that was used     *)
(* last, through the cookie when localStorage has been dropped, whether it *)
(* was opened, forced, switched to or restored.                            *)
(***************************************************************************)
LastWorkspaceFound == last # None => Resolved = {last}

(***************************************************************************)
(* What happens in a tab never takes an account's token without taking the *)
(* account: neither a check's answer nor a line imported again without it. *)
(***************************************************************************)
TokensKept ==
  [][\A t \in Tabs, a \in Accounts :
       tab[t] # None /\ tab'[t] # None /\ tab[t].ws = tab'[t].ws
         /\ tab[t].records[a] = "token" /\ tab'[t].records[a] # None
         => tab'[t].records[a] = "token"]_vars
=============================================================================
