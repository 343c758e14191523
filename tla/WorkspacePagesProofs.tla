------------------------- MODULE WorkspacePagesProofs -------------------------
(***************************************************************************)
(* Proofs about WorkspacePages for any number of workspaces, accounts and  *)
(* tabs: type correctness, that workspaces stay apart, that the last one   *)
(* is found again, and that a tab keeps its tokens.                        *)
(***************************************************************************)
EXTENDS WorkspacePages, TLAPS

USE DEF Record, Records, Tab, RecoverPage, Backup, identity

-----------------------------------------------------------------------------
(***************************************************************************)
(* Operators.                                                              *)
(***************************************************************************)

\* upsertRecords makes records of records.
LEMMA UpsertType ==
  ASSUME NEW r \in Records, NEW new \in Records
  PROVE  Upsert(r, new) \in Records
BY DEF Upsert

\* It holds nothing that neither of the two lists holds.
LEMMA UpsertHeld ==
  ASSUME NEW r \in Records, NEW new \in Records
  PROVE  Held(Upsert(r, new)) \subseteq Held(r) \cup Held(new)
BY DEF Upsert, Held

\* A record with a token keeps it.
LEMMA UpsertToken ==
  ASSUME NEW r \in Records, NEW new \in Records, NEW a \in Accounts,
         r[a] = "token"
  PROVE  Upsert(r, new)[a] = "token"
BY DEF Upsert

\* The page opens a workspace, never nothing.
LEMMA ResolvedType ==
  ASSUME TypeOK
  PROVE  Resolved \subseteq Workspaces
BY DEF Resolved, Fresh, TypeOK

-----------------------------------------------------------------------------
(***************************************************************************)
(* Every step keeps the types.                                             *)
(***************************************************************************)
LEMMA WriteKeepsTypes ==
  ASSUME TypeOK, NEW t \in Tabs, tab[t] # None, NEW records \in Records,
         NEW checking \in SUBSET Accounts,
         tab' = [tab EXCEPT ![t] = [ws |-> tab[t].ws, records |-> records,
                                    checking |-> checking]],
         store' \in {store, [store EXCEPT ![tab[t].ws] = records]},
         entered' \in [Workspaces -> SUBSET Accounts],
         UNCHANGED <<identity, recover, file>>
  PROVE  TypeOK'
<1>1. tab[t] \in Tab
  BY DEF TypeOK
<1>2. tab' \in [Tabs -> Tab \cup {None}]
  BY <1>1 DEF TypeOK
<1>3. store' \in [Workspaces -> Records]
  BY <1>1 DEF TypeOK
<1>4. QED
  BY <1>2, <1>3 DEF TypeOK

\* What Write makes of a tab, in full.
LEMMA WrittenTab ==
  ASSUME TypeOK, NEW t \in Tabs, tab[t] # None, NEW records \in Records,
         Write(t, records)
  PROVE  /\ tab' = [tab EXCEPT ![t] =
                      [ws |-> tab[t].ws, records |-> records,
                       checking |-> tab[t].checking]]
         /\ store' \in {store, [store EXCEPT ![tab[t].ws] = records]}
<1>1. tab[t] \in Tab
  BY DEF TypeOK
<1>2. [tab[t] EXCEPT !.records = records]
        = [ws |-> tab[t].ws, records |-> records, checking |-> tab[t].checking]
  BY <1>1
<1>3. QED
  BY <1>2 DEF Write, TypeOK

\* What the answer of a check makes of it.
LEMMA CheckedTab ==
  ASSUME TypeOK, NEW t \in Tabs, tab[t] # None, NEW records \in Records,
         tab' = [tab EXCEPT ![t].records = records, ![t].checking = {}]
  PROVE  tab' = [tab EXCEPT ![t] = [ws |-> tab[t].ws, records |-> records,
                                    checking |-> {}]]
<1>1. tab[t] \in Tab
  BY DEF TypeOK
<1> DEFINE checked == [ws |-> tab[t].ws, records |-> records, checking |-> {}]
<1>2. [[tab[t] EXCEPT !.records = records] EXCEPT !.checking = {}] = checked
  <2>1. [tab[t] EXCEPT !.records = records]
          = [ws |-> tab[t].ws, records |-> records,
             checking |-> tab[t].checking]
    BY <1>1
  <2>2. [[ws |-> tab[t].ws, records |-> records, checking |-> tab[t].checking]
           EXCEPT !.checking = {}] = checked
    OBVIOUS
  <2> HIDE DEF checked
  <2>3. QED
    BY <2>1, <2>2, Zenon
<1>3. tab = [s \in Tabs |-> tab[s]]
  BY DEF TypeOK
<1>4. tab' = [s \in Tabs |-> IF s = t THEN checked ELSE tab[s]]
  BY <1>2, <1>3
<1>5. QED
  BY <1>3, <1>4

LEMMA PageKeepsTypes ==
  ASSUME TypeOK, NEW t \in Tabs, Page(t)
  PROVE  TypeOK'
<1> USE DEF TypeOK
<1>1. CASE OpenTab(t)
  BY <1>1, ResolvedType DEF OpenTab, Remember, RememberIn, Load
<1>2. CASE CloseTab(t)
  BY <1>2 DEF CloseTab
<1>3. ASSUME NEW w \in Workspaces, OpenForced(t, w)
      PROVE  TypeOK'
  BY <1>3 DEF OpenForced, Remember, RememberIn, Load
<1>4. ASSUME NEW w \in Workspaces, SwitchWorkspace(t, w)
      PROVE  TypeOK'
  BY <1>4 DEF SwitchWorkspace, Remember, RememberIn, Load
<1>a. ASSUME tab[t] # None
      PROVE  tab[t].records \in Records /\ tab[t].checking \in SUBSET Accounts
  BY <1>a
<1>5. ASSUME NEW lines \in SUBSET Accounts, NEW record \in Record,
             ImportAccounts(t, lines, record)
      PROVE  TypeOK'
  <2> DEFINE new == [a \in Accounts |-> IF a \in lines THEN record ELSE None]
             records == Upsert(tab[t].records, new)
  <2>1. /\ tab[t] # None /\ Write(t, records)
        /\ entered' = [entered EXCEPT ![tab[t].ws] = @ \cup lines]
        /\ UNCHANGED <<identity, recover, file>>
    BY <1>5 DEF ImportAccounts
  <2>2. new \in Records
    OBVIOUS
  <2>3. records \in Records
    BY <1>a, <2>1, <2>2, UpsertType
  <2>4. entered' \in [Workspaces -> SUBSET Accounts]
    BY <2>1
  <2> HIDE DEF records, TypeOK
  <2>5. QED
    BY <1>a, <2>1, <2>3, <2>4, WrittenTab, WriteKeepsTypes
<1>6. ASSUME NEW selected \in SUBSET Accounts, DeleteAccounts(t, selected)
      PROVE  TypeOK'
  <2> DEFINE records == [a \in Accounts |->
                IF a \in selected THEN None ELSE tab[t].records[a]]
  <2>1. /\ tab[t] # None /\ Write(t, records)
        /\ UNCHANGED <<identity, recover, file, entered>>
    BY <1>6 DEF DeleteAccounts
  <2>2. records \in Records
    BY <1>a, <2>1
  <2>3. entered' \in [Workspaces -> SUBSET Accounts]
    BY <2>1
  <2> HIDE DEF records, TypeOK
  <2>4. QED
    BY <1>a, <2>1, <2>2, <2>3, WrittenTab, WriteKeepsTypes
<1>7. ASSUME NEW selected \in SUBSET Accounts, CheckBegins(t, selected)
      PROVE  TypeOK'
  BY <1>7 DEF CheckBegins
<1>8. CASE CheckAnswered(t)
  <2> DEFINE new == [a \in Accounts |->
                      IF a \in tab[t].checking THEN "bare" ELSE None]
             records == Upsert(tab[t].records, new)
  <2>1. /\ tab[t] # None
        /\ tab' = [tab EXCEPT ![t].records = records, ![t].checking = {}]
        /\ store' \in {store, [store EXCEPT ![tab[t].ws] = records]}
        /\ UNCHANGED <<identity, recover, file, entered>>
    BY <1>8 DEF CheckAnswered
  <2>2. new \in Records
    OBVIOUS
  <2>3. records \in Records
    BY <1>a, <2>1, <2>2, UpsertType
  <2>4. entered' \in [Workspaces -> SUBSET Accounts]
    BY <2>1
  <2> HIDE DEF records, TypeOK
  <2>5. tab' = [tab EXCEPT ![t] = [ws |-> tab[t].ws, records |-> records,
                                   checking |-> {}]]
    BY <2>1, <2>3, CheckedTab
  <2>6. QED
    BY <2>1, <2>3, <2>4, <2>5, {} \in SUBSET Accounts, WriteKeepsTypes
<1>9. CASE CheckFails(t)
  BY <1>9 DEF CheckFails
<1>10. QED
  BY <1>1, <1>2, <1>3, <1>4, <1>5, <1>6, <1>7, <1>8, <1>9 DEF Page

LEMMA NextKeepsTypes ==
  ASSUME TypeOK, [Next]_vars
  PROVE  TypeOK'
<1> USE DEF TypeOK
<1>1. CASE OpenRecover
  BY <1>1, ResolvedType DEF OpenRecover, Remember, RememberIn
<1>2. CASE CloseRecover
  BY <1>2 DEF CloseRecover
<1>3. CASE ExportBackup
  BY <1>3 DEF ExportBackup
<1>4. CASE ImportBackup
  BY <1>4 DEF ImportBackup, RememberIn
<1>5. CASE SaveWorkspacePassword
  BY <1>5 DEF SaveWorkspacePassword
<1>6. CASE StorageCleared
  BY <1>6 DEF StorageCleared, NoRecords
<1>7. ASSUME NEW t \in Tabs, Page(t)
      PROVE  TypeOK'
  BY <1>7, PageKeepsTypes
<1>8. CASE UNCHANGED vars
  BY <1>8 DEF vars
<1>9. QED
  BY <1>1, <1>2, <1>3, <1>4, <1>5, <1>6, <1>7, <1>8 DEF Next, Recovery

(***************************************************************************)
(* Whatever the pages do, storage, tabs, backups and the recovery page     *)
(* hold what they may hold: no page ever opens without a workspace.        *)
(***************************************************************************)
THEOREM TypesHold == Spec => []TypeOK
<1>1. Init => TypeOK
  BY DEF Init, TypeOK, NoRecords
<1>2. QED
  BY <1>1, NextKeepsTypes, PTL DEF Spec

-----------------------------------------------------------------------------
(***************************************************************************)
(* Workspaces stay apart.  The export reads the list of the workspace the  *)
(* page has opened and stamps the file with it, so the file's list was     *)
(* entered where the import will put it.                                   *)
(***************************************************************************)

\* Reading a list, of whatever workspace, brings what was entered there.
LEMMA LoadedIsEntered ==
  ASSUME WorkspacesApart, TypeOK, NEW t \in Tabs, NEW w \in Workspaces,
         Load(t, w), UNCHANGED <<store, file, entered>>
  PROVE  WorkspacesApart'
BY DEF Load, WorkspacesApart, TypeOK

\* A tab that holds what was entered in its workspace stores nothing else.
LEMMA WrittenIsEntered ==
  ASSUME WorkspacesApart, TypeOK, NEW t \in Tabs, tab[t] # None,
         NEW records \in Records, NEW checking \in SUBSET Accounts,
         NEW ws \in Workspaces, ws = tab[t].ws,
         \A w \in Workspaces : entered[w] \subseteq entered'[w],
         Held(records) \cup checking \subseteq entered'[ws],
         tab' = [tab EXCEPT ![t] = [ws |-> ws, records |-> records,
                                    checking |-> checking]],
         store' \in {store, [store EXCEPT ![ws] = records]},
         UNCHANGED file
  PROVE  WorkspacesApart'
<1>1. \A w \in Workspaces : Held(store'[w]) \subseteq entered'[w]
  BY DEF WorkspacesApart, TypeOK
<1>2. \A s \in Tabs : tab'[s] # None => Held(tab'[s].records)
                        \cup tab'[s].checking \subseteq entered'[tab'[s].ws]
  BY DEF WorkspacesApart, TypeOK
<1>3. file' # None => Held(file'.records) \subseteq entered'[file'.ws]
  BY DEF WorkspacesApart, TypeOK
<1>4. QED
  BY <1>1, <1>2, <1>3 DEF WorkspacesApart

LEMMA PageKeepsApart ==
  ASSUME TypeOK, TypeOK', WorkspacesApart, NEW t \in Tabs, Page(t)
  PROVE  WorkspacesApart'
<1>1. CASE OpenTab(t)
  BY <1>1, ResolvedType, LoadedIsEntered DEF OpenTab
<1>2. CASE CloseTab(t)
  BY <1>2 DEF CloseTab, WorkspacesApart, TypeOK
<1>3. ASSUME NEW w \in Workspaces, OpenForced(t, w)
      PROVE  WorkspacesApart'
  BY <1>3, LoadedIsEntered DEF OpenForced
<1>4. ASSUME NEW w \in Workspaces, SwitchWorkspace(t, w)
      PROVE  WorkspacesApart'
  BY <1>4, LoadedIsEntered DEF SwitchWorkspace
<1> DEFINE mine == Held(tab[t].records)
<1>a. ASSUME tab[t] # None
      PROVE  /\ tab[t].records \in Records /\ tab[t].ws \in Workspaces
             /\ tab[t].checking \in SUBSET Accounts
             /\ mine \cup tab[t].checking \subseteq entered[tab[t].ws]
             /\ tab[t] \in Tab
  BY <1>a DEF TypeOK, WorkspacesApart
<1>5. ASSUME NEW lines \in SUBSET Accounts, NEW record \in Record,
             ImportAccounts(t, lines, record)
      PROVE  WorkspacesApart'
  <2> DEFINE new == [a \in Accounts |-> IF a \in lines THEN record ELSE None]
             records == Upsert(tab[t].records, new)
  <2>1. tab[t] # None
    BY <1>5 DEF ImportAccounts
  <2>2. new \in Records /\ Held(new) \subseteq lines
    BY DEF Held
  <2>3. records \in Records /\ Held(records) \subseteq mine \cup lines
    BY <1>a, <2>1, <2>2, UpsertType, UpsertHeld
  <2>4. entered' = [entered EXCEPT ![tab[t].ws] = @ \cup lines]
    BY <1>5 DEF ImportAccounts
  <2>5. /\ \A w \in Workspaces : entered[w] \subseteq entered'[w]
        /\ entered'[tab[t].ws] = entered[tab[t].ws] \cup lines
    BY <1>a, <2>1, <2>4 DEF TypeOK
  <2>6. Write(t, records) /\ UNCHANGED file
    BY <1>5 DEF ImportAccounts
  <2> HIDE DEF records
  <2>7. Held(records) \cup tab[t].checking \subseteq entered'[tab[t].ws]
    BY <1>a, <2>1, <2>3, <2>5
  <2>8. QED
    BY <1>a, <2>1, <2>3, <2>5, <2>6, <2>7, WrittenTab, WrittenIsEntered
<1>6. ASSUME NEW selected \in SUBSET Accounts, DeleteAccounts(t, selected)
      PROVE  WorkspacesApart'
  <2> DEFINE records == [a \in Accounts |->
                IF a \in selected THEN None ELSE tab[t].records[a]]
  <2>1. tab[t] # None
    BY <1>6 DEF DeleteAccounts
  <2>2. records \in Records /\ Held(records) \subseteq mine
    BY <1>a, <2>1 DEF Held
  <2>3. Write(t, records) /\ UNCHANGED <<file, entered>>
    BY <1>6 DEF DeleteAccounts
  <2> HIDE DEF records
  <2>4. Held(records) \cup tab[t].checking \subseteq entered'[tab[t].ws]
    BY <1>a, <2>1, <2>2, <2>3
  <2>5. QED
    BY <1>a, <2>1, <2>2, <2>3, <2>4, WrittenTab, WrittenIsEntered
<1>7. ASSUME NEW selected \in SUBSET Accounts, CheckBegins(t, selected)
      PROVE  WorkspacesApart'
  BY <1>7, <1>a DEF CheckBegins, WorkspacesApart, TypeOK
<1>8. CASE CheckAnswered(t)
  <2> DEFINE new == [a \in Accounts |->
                      IF a \in tab[t].checking THEN "bare" ELSE None]
             records == Upsert(tab[t].records, new)
  <2>1. tab[t] # None
    BY <1>8 DEF CheckAnswered
  <2>2. new \in Records /\ Held(new) \subseteq tab[t].checking
    BY DEF Held
  <2>3. records \in Records /\ Held(records) \subseteq mine \cup tab[t].checking
    BY <1>a, <2>1, <2>2, UpsertType, UpsertHeld
  <2>4. tab' = [tab EXCEPT ![t].records = records, ![t].checking = {}]
    BY <1>8 DEF CheckAnswered
  <2>5. /\ store' \in {store, [store EXCEPT ![tab[t].ws] = records]}
        /\ UNCHANGED <<file, entered>>
    BY <1>8 DEF CheckAnswered
  <2> HIDE DEF records
  <2>6. Held(records) \cup {} \subseteq entered'[tab[t].ws]
    BY <1>a, <2>1, <2>3, <2>5
  <2>7. tab' = [tab EXCEPT ![t] = [ws |-> tab[t].ws, records |-> records,
                                   checking |-> {}]]
    BY <2>1, <2>3, <2>4, CheckedTab
  <2>8. QED
    BY <1>a, <2>1, <2>3, <2>5, <2>6, <2>7, {} \in SUBSET Accounts,
       WrittenIsEntered
<1>9. CASE CheckFails(t)
  BY <1>9, <1>a DEF CheckFails, WorkspacesApart, TypeOK
<1>10. QED
  BY <1>1, <1>2, <1>3, <1>4, <1>5, <1>6, <1>7, <1>8, <1>9 DEF Page

LEMMA NextKeepsApart ==
  ASSUME TypeOK, TypeOK', WorkspacesApart, [Next]_vars
  PROVE  WorkspacesApart'
<1> USE DEF WorkspacesApart
<1>1. CASE OpenRecover
  BY <1>1 DEF OpenRecover
<1>2. CASE CloseRecover
  BY <1>2 DEF CloseRecover
<1>3. CASE ExportBackup
  BY <1>3 DEF ExportBackup, TypeOK
<1>4. CASE ImportBackup
  BY <1>4 DEF ImportBackup, TypeOK
<1>5. CASE SaveWorkspacePassword
  BY <1>5 DEF SaveWorkspacePassword
<1>6. CASE StorageCleared
  BY <1>6 DEF StorageCleared, NoRecords, Held, TypeOK
<1>7. ASSUME NEW t \in Tabs, Page(t)
      PROVE  WorkspacesApart'
  BY <1>7, PageKeepsApart
<1>8. CASE UNCHANGED vars
  BY <1>8 DEF vars
<1>9. QED
  BY <1>1, <1>2, <1>3, <1>4, <1>5, <1>6, <1>7, <1>8 DEF Next, Recovery

(***************************************************************************)
(* No list, tab or backup of one workspace ever holds an account that was  *)
(* entered in another one only, however many tabs switch, export, restore, *)
(* check and write at the same time.                                       *)
(***************************************************************************)
THEOREM WorkspacesStayApart == Spec => []WorkspacesApart
<1>1. Init => WorkspacesApart
  BY DEF Init, WorkspacesApart, NoRecords, Held
<1>2. QED
  BY <1>1, NextKeepsApart, TypesHold, PTL DEF Spec

-----------------------------------------------------------------------------
(***************************************************************************)
(* The last workspace is found.  The cookie repeats what was remembered    *)
(* last, and the pointer, unless it was dropped, says the same.            *)
(***************************************************************************)
Repeated ==
  /\ cookie = last
  /\ pointer \in {None, last}
  /\ last \in Workspaces \cup {None}

LEMMA RememberRepeats ==
  ASSUME NEW known, NEW w \in Workspaces, RememberIn(known, w)
  PROVE  Repeated'
BY DEF RememberIn, Repeated

LEMMA NextRepeats ==
  ASSUME TypeOK, Repeated, [Next]_vars
  PROVE  Repeated'
<1>1. CASE StorageCleared
  BY <1>1 DEF StorageCleared, Repeated
<1>2. CASE OpenRecover
  BY <1>2, ResolvedType, RememberRepeats DEF OpenRecover, Remember
<1>3. CASE ImportBackup
  BY <1>3, RememberRepeats DEF ImportBackup, TypeOK
<1>4. CASE CloseRecover \/ ExportBackup \/ SaveWorkspacePassword
  BY <1>4 DEF CloseRecover, ExportBackup, SaveWorkspacePassword, Repeated
<1>5. ASSUME NEW t \in Tabs, OpenTab(t)
      PROVE  Repeated'
  BY <1>5, ResolvedType, RememberRepeats DEF OpenTab, Remember
<1>6. ASSUME NEW t \in Tabs, NEW w \in Workspaces,
             OpenForced(t, w) \/ SwitchWorkspace(t, w)
      PROVE  Repeated'
  BY <1>6, RememberRepeats DEF OpenForced, SwitchWorkspace, Remember
<1>7. CASE UNCHANGED identity
  BY <1>7 DEF Repeated
<1>8. ASSUME NEW t \in Tabs, Page(t), ~OpenTab(t),
             \A w \in Workspaces : ~OpenForced(t, w) /\ ~SwitchWorkspace(t, w)
      PROVE  UNCHANGED identity
  BY <1>8 DEF Page, CloseTab, ImportAccounts, DeleteAccounts, CheckBegins,
              CheckAnswered, CheckFails
<1>9. QED
  BY <1>1, <1>2, <1>3, <1>4, <1>5, <1>6, <1>7, <1>8 DEF Next, Recovery, vars

(***************************************************************************)
(* A page that opens without a link finds the workspace that was used      *)
(* last, also after the browser has dropped localStorage.                  *)
(***************************************************************************)
THEOREM LastWorkspaceIsFound == Spec => []LastWorkspaceFound
<1>1. Init => Repeated
  BY DEF Init, Repeated
<1>2. Repeated => LastWorkspaceFound
  BY DEF Repeated, LastWorkspaceFound, Resolved
<1>3. QED
  BY <1>1, <1>2, NextRepeats, TypesHold, PTL DEF Spec

-----------------------------------------------------------------------------
(***************************************************************************)
(* Tokens.                                                                 *)
(***************************************************************************)
TabKeepsTokens ==
  \A t \in Tabs, a \in Accounts :
    tab[t] # None /\ tab'[t] # None /\ tab[t].ws = tab'[t].ws
      /\ tab[t].records[a] = "token" /\ tab'[t].records[a] # None
      => tab'[t].records[a] = "token"

LEMMA PageKeepsTokens ==
  ASSUME TypeOK, NEW t \in Tabs, Page(t)
  PROVE  TabKeepsTokens
<1>a. ASSUME tab[t] # None
      PROVE  tab[t].records \in Records /\ tab[t] \in Tab
  BY <1>a DEF TypeOK
<1>1. ASSUME NEW w \in Workspaces, tab[t] = None, Load(t, w)
      PROVE  TabKeepsTokens
  BY <1>1 DEF Load, TabKeepsTokens, TypeOK
<1>2. CASE CloseTab(t)
  BY <1>2 DEF CloseTab, TabKeepsTokens, TypeOK
<1>3. CASE OpenTab(t)
  BY <1>1, <1>3, ResolvedType DEF OpenTab
<1>4. ASSUME NEW w \in Workspaces, OpenForced(t, w) \/ SwitchWorkspace(t, w)
      PROVE  TabKeepsTokens
  BY <1>1, <1>4 DEF OpenForced, SwitchWorkspace
<1>5. ASSUME NEW lines \in SUBSET Accounts, NEW record \in Record,
             ImportAccounts(t, lines, record)
      PROVE  TabKeepsTokens
  <2> DEFINE new == [a \in Accounts |-> IF a \in lines THEN record ELSE None]
  <2>1. new \in Records /\ tab[t].records \in Records
    BY <1>5, <1>a DEF ImportAccounts
  <2>2. tab' = [tab EXCEPT ![t].records = Upsert(tab[t].records, new)]
    BY <1>5 DEF ImportAccounts, Write
  <2> HIDE DEF new
  <2>3. QED
    BY <1>a, <2>1, <2>2, UpsertToken DEF TabKeepsTokens, TypeOK
<1>6. ASSUME NEW selected \in SUBSET Accounts, DeleteAccounts(t, selected)
      PROVE  TabKeepsTokens
  BY <1>6, <1>a DEF DeleteAccounts, Write, TabKeepsTokens, TypeOK
<1>7. ASSUME NEW selected \in SUBSET Accounts, CheckBegins(t, selected)
      PROVE  TabKeepsTokens
  BY <1>7, <1>a DEF CheckBegins, TabKeepsTokens, TypeOK
<1>8. CASE CheckAnswered(t)
  <2> DEFINE new == [a \in Accounts |->
                      IF a \in tab[t].checking THEN "bare" ELSE None]
  <2>1. new \in Records /\ tab[t].records \in Records
    BY <1>8, <1>a DEF CheckAnswered
  <2>2. tab' = [tab EXCEPT ![t].records = Upsert(tab[t].records, new),
                           ![t].checking = {}]
    BY <1>8 DEF CheckAnswered
  <2> HIDE DEF new
  <2>3. QED
    BY <1>a, <2>1, <2>2, UpsertToken DEF TabKeepsTokens, TypeOK
<1>9. CASE CheckFails(t)
  BY <1>9, <1>a DEF CheckFails, TabKeepsTokens, TypeOK
<1>10. QED
  BY <1>2, <1>3, <1>4, <1>5, <1>6, <1>7, <1>8, <1>9 DEF Page

(***************************************************************************)
(* An account's token leaves a tab only together with the account: neither *)
(* an import without it nor a check's answer takes it.                     *)
(***************************************************************************)
THEOREM TokensAreKept == Spec => TokensKept
<1>1. ASSUME TypeOK, [Next]_vars
      PROVE  [TabKeepsTokens]_vars
  <2>1. CASE UNCHANGED tab
    BY <2>1, <1>1 DEF TabKeepsTokens
  <2>2. ASSUME NEW t \in Tabs, Page(t)
        PROVE  TabKeepsTokens
    BY <2>2, <1>1, PageKeepsTokens
  <2>3. QED
    BY <1>1, <2>1, <2>2 DEF Next, Recovery, StorageCleared, OpenRecover,
       CloseRecover, ExportBackup, ImportBackup, SaveWorkspacePassword, vars
<1>2. QED
  BY <1>1, TypesHold, PTL DEF Spec, TokensKept, TabKeepsTokens
=============================================================================
