--------------------------- MODULE MailboxAccounts ---------------------------
(***************************************************************************)
(* The mailboxes of one workspace and the OAuth refresh token stored with  *)
(* each (mailbox_workspace_service.py and the mail fetches of server.py).  *)
(*                                                                         *)
(* Every request reads the whole map of accounts, changes some of it and   *)
(* writes the whole map back.  Imports, deletions and the merge after a    *)
(* fetch do so under the workspace's lock.  A fetch reads the tokens and   *)
(* uses the network without it, and fetch_saved_workspace_mail also        *)
(* writes the map without it.  The public workspace has two files, of      *)
(* which the workspace's own (1) overrides the shared one (2).             *)
(*                                                                         *)
(* A token is numbered by when it was issued, by the provider that rotates *)
(* it or by the user who imports it: the larger, the newer.                *)
(***************************************************************************)
EXTENDS Naturals

CONSTANTS
  Emails,
  Requests,
  Kinds,
  Files,         \* 1, or 2 for "public"
  MaxToken,      \* bound on the tokens issued for a mailbox
  MaxRestarts,
  Overlap,       \* whether others run during fetch_saved_workspace_mail
  None

ASSUME ConstantsAssumption ==
  /\ Kinds \subseteq {"fetch", "fetch_saved", "import", "import_new", "delete"}
  /\ Files \in {1, 2} /\ MaxToken \in Nat /\ MaxRestarts \in Nat
  /\ Overlap \in BOOLEAN
  /\ None \notin Requests \cup Nat

VARIABLES
  files,     \* accounts.json: the token of each mailbox
  owner,     \* who holds workspace_lock
  req,       \* the requests' threads
  issued,    \* the newest token of each mailbox
  members,   \* the mailboxes users have imported and not deleted
  restarts

vars == <<files, owner, req, issued, members, restarts>>

Paths == 1 .. Files
Token == 0 .. MaxToken
Map == [Emails -> Token \cup {None}]
NoMap == [e \in Emails |-> None]

Thread ==
  [pc : {"idle", "hydrate", "fetch", "lock", "load", "change", "save",
         "unlock", "done"},
   kind : Kinds \cup {None},
   targets : SUBSET Emails,
   tokens : Map,             \* of the payload, then as the fetch left them
   map : Map,                \* what it has loaded and will save
   path : Paths]

NewThread == [pc |-> "idle", kind |-> None, targets |-> {}, tokens |-> NoMap,
              map |-> NoMap, path |-> Files]

\* A reader lays the workspace's own file over the shared one.
Over(map, file) == [e \in Emails |-> IF file[e] # None THEN file[e] ELSE map[e]]
View == IF Files = 2 THEN Over(files[2], files[1]) ELSE files[1]

Init ==
  /\ members \in SUBSET Emails
  /\ files = [p \in Paths |-> [e \in Emails |-> IF e \in members THEN 0
                                                ELSE None]]
  /\ owner = None
  /\ req = [r \in Requests |-> NewThread]
  /\ issued = [e \in Emails |-> 0]
  /\ restarts = 0

-----------------------------------------------------------------------------
MayBegin(r, kind) ==
  /\ kind \in Kinds /\ req[r].pc = "idle"
  /\ Overlap \/ \A o \in Requests :
       req[o].pc \notin {"idle", "done"}
         => "fetch_saved" \notin {kind, req[o].kind}

\* A browser may send its own copy of a token, of any age; a mailbox whose
\* token it does not send is hydrated from the workspace.
BeginFetch(r) ==
  \E targets \in SUBSET Emails \ {{}}, copies \in Map :
    /\ MayBegin(r, "fetch")
    /\ \A e \in Emails : copies[e] # None => e \in targets
                                             /\ copies[e] <= issued[e]
    /\ req' = [req EXCEPT ![r].pc = "hydrate", ![r].kind = "fetch",
                          ![r].targets = targets, ![r].tokens = copies]
    /\ UNCHANGED <<files, owner, issued, members, restarts>>

BeginFetchSaved(r) ==
  \E targets \in SUBSET Emails \ {{}} :
    /\ MayBegin(r, "fetch_saved")
    /\ req' = [req EXCEPT ![r].pc = "hydrate", ![r].kind = "fetch_saved",
                          ![r].targets = targets]
    /\ UNCHANGED <<files, owner, issued, members, restarts>>

BeginImport(r) ==
  \E kind \in {"import", "import_new"}, targets \in SUBSET Emails \ {{}} :
    /\ MayBegin(r, kind)
    /\ \A e \in targets : issued[e] < MaxToken
    /\ issued' = [e \in Emails |-> issued[e] + IF e \in targets THEN 1 ELSE 0]
    /\ req' = [req EXCEPT ![r].pc = "lock", ![r].kind = kind,
                          ![r].targets = targets,
                          ![r].tokens = [e \in Emails |->
                              IF e \in targets THEN issued'[e] ELSE None]]
    /\ UNCHANGED <<files, owner, members, restarts>>

BeginDelete(r) ==
  \E targets \in SUBSET Emails \ {{}} :
    /\ MayBegin(r, "delete")
    /\ req' = [req EXCEPT ![r].pc = "lock", ![r].kind = "delete",
                          ![r].targets = targets]
    /\ UNCHANGED <<files, owner, issued, members, restarts>>

\* The files are read one after the other, the shared one first.
Following_OneTooFar(path) == path - 1

Following(path) == IF path > 1 THEN path - 1 ELSE path

Load(r) ==
  LET here == req[r].pc
      loaded == Over(req[r].map, files[req[r].path])
      there == IF req[r].path > 1 THEN here
               ELSE IF here = "hydrate" THEN "fetch" ELSE "change"
  IN /\ here \in {"hydrate", "load"}
     /\ req' = [req EXCEPT ![r].map = loaded, ![r].pc = there,
                           ![r].path = Following(@)]
     /\ UNCHANGED <<files, owner, issued, members, restarts>>

(***************************************************************************)
(* The network: the provider rotates the tokens of some of the mailboxes   *)
(* (apply_microsoft_token_response).  With no mailbox to fetch, the        *)
(* request is refused.                                                     *)
(***************************************************************************)
Used(r) ==
  [e \in Emails |-> IF e \notin req[r].targets THEN None
                    ELSE IF req[r].tokens[e] # None THEN req[r].tokens[e]
                    ELSE req[r].map[e]]

Fetch(r) ==
  LET used == Used(r)
      fetched == {e \in Emails : used[e] # None}
      saved == req[r].kind = "fetch_saved"
  IN \E rotated \in SUBSET fetched :
       LET tokens == [e \in Emails |-> IF e \in rotated THEN issued[e] + 1
                                       ELSE used[e]]
       IN /\ req[r].pc = "fetch"
          /\ \A e \in rotated : issued[e] < MaxToken
          /\ issued' = [e \in Emails |-> issued[e] + IF e \in rotated THEN 1
                                                     ELSE 0]
          /\ req' = [req EXCEPT
               ![r].pc = IF saved THEN "save"
                         ELSE IF fetched = {} THEN "done" ELSE "lock",
               ![r].tokens = tokens,
               ![r].map = IF saved THEN Over(@, tokens) ELSE NoMap,
               ![r].path = IF saved THEN 1 ELSE Files]
          /\ UNCHANGED <<files, owner, members, restarts>>

Acquire_Unlocked(r) ==
  /\ req[r].pc = "lock"
  /\ owner' = r
  /\ req' = [req EXCEPT ![r].pc = "load"]
  /\ UNCHANGED <<files, issued, members, restarts>>

Acquire(r) ==
  /\ req[r].pc = "lock" /\ owner = None
  /\ owner' = r
  /\ req' = [req EXCEPT ![r].pc = "load"]
  /\ UNCHANGED <<files, issued, members, restarts>>

(***************************************************************************)
(* What each operation makes of the map it has loaded.                     *)
(***************************************************************************)
Merged_Adding(map, tokens) == Over(map, tokens)

\* A fetch updates the mailboxes that are still there.
Merged(map, tokens) ==
  [e \in Emails |-> IF map[e] # None /\ tokens[e] # None THEN tokens[e]
                    ELSE map[e]]

Changed(t) ==
  CASE t.kind = "fetch" -> Merged(t.map, t.tokens)
    [] t.kind = "import" -> Over(t.map, t.tokens)
    [] t.kind = "import_new" -> Over(t.tokens, t.map)
    [] t.kind = "delete" -> [e \in Emails |-> IF e \in t.targets THEN None
                                              ELSE t.map[e]]

\* The merge also stores the fetch's status, so it may save equal tokens.
Change(r) ==
  LET map == Changed(req[r]) IN
  /\ req[r].pc = "change"
  /\ \E there \in {"save", "unlock"} :
       /\ map # req[r].map => there = "save"
       /\ req[r].kind # "fetch" /\ map = req[r].map => there = "unlock"
       /\ req' = [req EXCEPT ![r].pc = there, ![r].map = map, ![r].path = 1]
  /\ UNCHANGED <<files, owner, issued, members, restarts>>

(***************************************************************************)
(* save_accounts_state: the workspace's file, then the shared one.  An     *)
(* import shows with the first, a deletion with the last that has it.      *)
(***************************************************************************)
Save(r) ==
  LET t == req[r]
      last == t.path = Files
  IN /\ t.pc = "save"
     /\ files' = [files EXCEPT ![t.path] = t.map]
     /\ members' = IF t.path = 1 /\ t.kind \in {"import", "import_new"}
                   THEN members \cup t.targets
                   ELSE IF t.kind = "delete"
                   THEN {e \in members : e \in t.targets =>
                           \E p \in Paths : p > t.path /\ files[p][e] # None}
                   ELSE members
     /\ req' = [req EXCEPT ![r].pc = IF ~last THEN "save"
                                     ELSE IF t.kind = "fetch_saved" THEN "done"
                                     ELSE "unlock",
                           ![r].path = IF last THEN @ ELSE @ + 1]
     /\ UNCHANGED <<owner, issued, restarts>>

Release(r) ==
  /\ req[r].pc = "unlock"
  /\ owner' = None
  /\ req' = [req EXCEPT ![r].pc = "done", ![r].map = NoMap]
  /\ UNCHANGED <<files, issued, members, restarts>>

Restart ==
  /\ restarts < MaxRestarts
  /\ restarts' = restarts + 1
  /\ owner' = None
  /\ req' = [r \in Requests |-> IF req[r].pc \in {"idle", "done"} THEN req[r]
                                ELSE [NewThread EXCEPT !.pc = "done"]]
  /\ UNCHANGED <<files, issued, members>>

Next ==
  \/ \E r \in Requests :
       \/ BeginFetch(r) \/ BeginFetchSaved(r)
       \/ BeginImport(r) \/ BeginDelete(r)
       \/ Load(r) \/ Fetch(r) \/ Acquire(r) \/ Change(r) \/ Save(r)
       \/ Release(r)
  \/ Restart

Spec == Init /\ [][Next]_vars
-----------------------------------------------------------------------------
TypeOK ==
  /\ files \in [Paths -> Map]
  /\ owner \in Requests \cup {None}
  /\ req \in [Requests -> Thread]
  /\ issued \in [Emails -> Token]
  /\ members \in SUBSET Emails
  /\ restarts \in 0 .. MaxRestarts

(***************************************************************************)
(* The workspace holds exactly the mailboxes users have imported and not   *)
(* deleted: no writer puts back a mailbox that was deleted while it ran,   *)
(* drops one that was imported meanwhile, or adds one that was only sent   *)
(* along with a fetch (CHANGELOG.md:6, storage/file_lock.py:10), whatever  *)
(* a crash cuts short.                                                     *)
(***************************************************************************)
SameMailboxes == \A e \in Emails : View[e] # None <=> e \in members

(***************************************************************************)
(* A mailbox changes only by a write of a request that named it: writing   *)
(* the whole map back never undoes what others did to the rest             *)
(* (CHANGELOG.md:6).                                                       *)
(***************************************************************************)
UnselectedUntouched ==
  [][\A e \in Emails :
       View'[e] # View[e]
         => \E r \in Requests : req[r].pc = "save" /\ e \in req[r].targets
                                /\ req'[r] # req[r]]_vars
=============================================================================
