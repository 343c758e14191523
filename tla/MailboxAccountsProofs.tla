------------------------ MODULE MailboxAccountsProofs ------------------------
(***************************************************************************)
(* Proofs about MailboxAccounts: what the workspace lock protects, for any *)
(* number of requests, mailboxes, tokens and restarts.                     *)
(***************************************************************************)
EXTENDS MailboxAccounts, TLAPS

(***************************************************************************)
(* fetch_saved_workspace_mail writes the accounts without the workspace's  *)
(* lock.  What follows holds when it does not run, or when nothing else    *)
(* runs during it.                                                         *)
(***************************************************************************)
WritersApart == Overlap => "fetch_saved" \notin Kinds

Locking == {"fetch", "import", "import_new", "delete"}
Imports == {"import", "import_new"}
Busy(r) == req[r].pc \notin {"idle", "done"}

\* What a thread is by the place it is at.
Phase(t) ==
  /\ t.pc \notin {"idle", "done"} => t.kind \in Kinds
  /\ t.pc = "idle" => t.map = NoMap /\ t.tokens = NoMap /\ t.path = Files
  /\ t.pc \in {"hydrate", "fetch"} => t.kind \in {"fetch", "fetch_saved"}
  /\ t.pc \in {"hydrate", "fetch"} /\ t.kind = "fetch_saved"
       => t.tokens = NoMap
  /\ t.pc \in {"lock", "load", "change", "unlock"} => t.kind \in Locking
  /\ t.pc = "lock" => t.map = NoMap /\ t.path = Files

\* A token comes from a payload or from a mailbox the request named.
TokensNamed(t) ==
  t.pc \notin {"idle", "done"} =>
    \A e \in Emails : /\ t.tokens[e] # None => e \in t.targets
                      /\ t.kind \in Imports /\ e \in t.targets
                           => t.tokens[e] # None

Phases == \A r \in Requests : Phase(req[r]) /\ TokensNamed(req[r])

MutualExclusion ==
  \A r \in Requests :
    req[r].pc \in {"load", "change", "save", "unlock"}
      => req[r].kind = "fetch_saved" \/ owner = r

Alone ==
  \A r, o \in Requests :
    r # o /\ Busy(r) /\ req[r].kind = "fetch_saved" => ~ Busy(o)

(***************************************************************************)
(* A writer: its map is what the files hold, as far as it has read them.   *)
(***************************************************************************)
Reading(t) == t.pc = "load" \/ (t.pc = "hydrate" /\ t.kind = "fetch_saved")
HasRead(t) == t.pc = "change" \/ (t.pc = "fetch" /\ t.kind = "fetch_saved")

MapSoFar(t) ==
  /\ Reading(t) => t.map = IF t.path = Files THEN NoMap ELSE files[2]
  /\ HasRead(t) => t.map = View

\* The mailboxes a writer leaves.
Leaves(t, e) ==
  CASE t.kind \in Imports -> e \in members \/ e \in t.targets
    [] t.kind = "delete"  -> e \in members /\ e \notin t.targets
    [] OTHER              -> e \in members

Saving(t) ==
  t.pc = "save" =>
    /\ t.path = 2 => files[1] = t.map
    /\ t.path = 2 /\ t.kind \in Imports => t.targets \subseteq members
    /\ \A e \in Emails : /\ t.map[e] # None <=> Leaves(t, e)
                         /\ e \notin t.targets => t.map[e] = View[e]

Writers == \A r \in Requests : MapSoFar(req[r]) /\ Saving(req[r])

IInv == TypeOK /\ Phases /\ MutualExclusion /\ Alone /\ SameMailboxes /\ Writers

-----------------------------------------------------------------------------
LEMMA OverType ==
  ASSUME NEW map \in Map, NEW file \in Map
  PROVE  /\ Over(map, file) \in Map
         /\ \A e \in Emails :
              /\ Over(map, file)[e] = IF file[e] # None THEN file[e] ELSE map[e]
              /\ Over(map, file)[e] # None <=> file[e] # None \/ map[e] # None
BY DEF Over, Map

LEMMA OverNothing ==
  /\ NoMap \in Map
  /\ \A e \in Emails : NoMap[e] = None
  /\ \A file \in Map : Over(NoMap, file) = file /\ Over(file, file) = file
BY DEF Over, Map, NoMap

LEMMA ViewType ==
  ASSUME TypeOK
  PROVE  /\ View \in Map
         /\ 1 \in Paths /\ files[1] \in Map /\ Files \in Paths
         /\ Files = 2 => 2 \in Paths /\ files[2] \in Map
BY ConstantsAssumption, OverType DEF TypeOK, Paths, View

LEMMA ChangedType ==
  ASSUME NEW t \in Thread, t.kind \in Locking
  PROVE  Changed(t) \in Map
<1> t.map \in Map /\ t.tokens \in Map
  BY DEF Thread
<1>1. CASE t.kind = "fetch"
  BY <1>1 DEF Changed, Merged, Map
<1>2. CASE t.kind = "import"
  BY <1>2, OverType DEF Changed
<1>3. CASE t.kind = "import_new"
  BY <1>3, OverType DEF Changed
<1>4. CASE t.kind = "delete"
  BY <1>4 DEF Changed, Map
<1> QED BY <1>1, <1>2, <1>3, <1>4 DEF Locking

-----------------------------------------------------------------------------
(***************************************************************************)
(* Types and the lock hold for every mix of requests: what they need is    *)
(* that fetch_saved_workspace_mail alone writes without the lock.          *)
(***************************************************************************)
Places ==
  \A r \in Requests :
    /\ req[r].pc \in {"hydrate", "fetch"}
         => req[r].kind \in {"fetch", "fetch_saved"}
    /\ req[r].pc \in {"lock", "load", "change", "unlock"}
         => req[r].kind \in Locking
    /\ req[r].pc = "save" => req[r].kind \in Locking \cup {"fetch_saved"}

Locked == TypeOK /\ Places /\ MutualExclusion

\* A step of one thread that finds its place.
LEMMA OneThreadLocked ==
  ASSUME Locked, TypeOK', NEW r \in Requests,
         \A o \in Requests \ {r} : req'[o] = req[o],
         owner' = owner \/ owner \in {r, None},
         req'[r].pc \in {"hydrate", "fetch"}
           => req'[r].kind \in {"fetch", "fetch_saved"},
         req'[r].pc \in {"lock", "load", "change", "unlock"}
           => req'[r].kind \in Locking,
         req'[r].pc = "save" => req'[r].kind \in Locking \cup {"fetch_saved"},
         req'[r].pc \in {"load", "change", "save", "unlock"}
           => req'[r].kind = "fetch_saved" \/ owner' = r
  PROVE  Locked'
<1>1. Places'
  BY DEF Locked, Places
<1>2. MutualExclusion'
  BY ConstantsAssumption DEF Locked, MutualExclusion
<1> QED BY <1>1, <1>2 DEF Locked

LEMMA BeginsLocked ==
  ASSUME Locked, NEW r \in Requests,
         BeginFetch(r) \/ BeginFetchSaved(r) \/ BeginImport(r)
           \/ BeginDelete(r)
  PROVE  Locked'
<1> USE DEF TypeOK
<1>1. req[r] \in Thread
  BY DEF Locked
<1>2. CASE BeginFetch(r)
  <2>1. PICK targets \in SUBSET Emails \ {{}}, copies \in Map :
          /\ MayBegin(r, "fetch")
          /\ req' = [req EXCEPT ![r].pc = "hydrate", ![r].kind = "fetch",
                                ![r].targets = targets, ![r].tokens = copies]
          /\ UNCHANGED <<files, owner, issued, members, restarts>>
    BY <1>2 DEF BeginFetch
  <2>2. TypeOK'
    BY <1>1, <2>1 DEF Locked, Thread, MayBegin
  <2>3. /\ req'[r].pc = "hydrate" /\ req'[r].kind = "fetch"
        /\ \A o \in Requests \ {r} : req'[o] = req[o]
    BY <1>1, <2>1 DEF Locked, Thread
  <2> QED BY <2>1, <2>2, <2>3, OneThreadLocked
<1>3. CASE BeginFetchSaved(r)
  <2>1. PICK targets \in SUBSET Emails \ {{}} :
          /\ MayBegin(r, "fetch_saved")
          /\ req' = [req EXCEPT ![r].pc = "hydrate",
                                ![r].kind = "fetch_saved",
                                ![r].targets = targets]
          /\ UNCHANGED <<files, owner, issued, members, restarts>>
    BY <1>3 DEF BeginFetchSaved
  <2>2. TypeOK'
    BY <1>1, <2>1 DEF Locked, Thread, MayBegin
  <2>3. /\ req'[r].pc = "hydrate" /\ req'[r].kind = "fetch_saved"
        /\ \A o \in Requests \ {r} : req'[o] = req[o]
    BY <1>1, <2>1 DEF Locked, Thread
  <2> QED BY <2>1, <2>2, <2>3, OneThreadLocked
<1>4. CASE BeginDelete(r)
  <2>1. PICK targets \in SUBSET Emails \ {{}} :
          /\ MayBegin(r, "delete")
          /\ req' = [req EXCEPT ![r].pc = "lock", ![r].kind = "delete",
                                ![r].targets = targets]
          /\ UNCHANGED <<files, owner, issued, members, restarts>>
    BY <1>4 DEF BeginDelete
  <2>2. TypeOK'
    BY <1>1, <2>1 DEF Locked, Thread, MayBegin
  <2>3. /\ req'[r].pc = "lock" /\ req'[r].kind = "delete"
        /\ \A o \in Requests \ {r} : req'[o] = req[o]
    BY <1>1, <2>1 DEF Locked, Thread
  <2> QED BY <2>1, <2>2, <2>3, OneThreadLocked DEF Locking
<1>5. CASE BeginImport(r)
  <2>1. PICK kind \in Imports, targets \in SUBSET Emails \ {{}} :
          /\ MayBegin(r, kind)
          /\ \A e \in targets : issued[e] < MaxToken
          /\ issued' = [e \in Emails |->
                          issued[e] + IF e \in targets THEN 1 ELSE 0]
          /\ req' = [req EXCEPT ![r].pc = "lock", ![r].kind = kind,
                                ![r].targets = targets,
                                ![r].tokens = [e \in Emails |->
                                    IF e \in targets THEN issued'[e] ELSE None]]
          /\ UNCHANGED <<files, owner, members, restarts>>
    BY <1>5 DEF BeginImport, Imports
  <2> DEFINE tokens == [e \in Emails |-> IF e \in targets THEN issued'[e]
                                         ELSE None]
  <2>2. issued' \in [Emails -> Token]
    BY <2>1, ConstantsAssumption DEF Locked, Token
  <2>3. tokens \in Map
    BY <2>2 DEF Map
  <2>4. req' = [req EXCEPT ![r].pc = "lock", ![r].kind = kind,
                           ![r].targets = targets, ![r].tokens = tokens]
    BY <2>1
  <2> HIDE DEF tokens
  <2>7. kind \in Kinds
    BY <2>1 DEF MayBegin
  <2>8. req' = [req EXCEPT ![r] = [@ EXCEPT !.pc = "lock", !.kind = kind,
                                            !.targets = targets,
                                            !.tokens = tokens]]
    BY <2>4
  <2>9. [req[r] EXCEPT !.pc = "lock", !.kind = kind, !.targets = targets,
                       !.tokens = tokens] \in Thread
    BY <1>1, <2>3, <2>7 DEF Thread
  <2>10. req' \in [Requests -> Thread]
    BY <2>8, <2>9 DEF Locked
  <2>11. UNCHANGED <<files, owner, members, restarts>>
    BY <2>1
  <2>5. TypeOK'
    BY <2>2, <2>10, <2>11 DEF Locked
  <2>6. /\ req'[r].pc = "lock" /\ req'[r].kind = kind
        /\ \A o \in Requests \ {r} : req'[o] = req[o]
    BY <1>1, <2>4 DEF Locked, Thread
  <2> QED BY <2>1, <2>5, <2>6, OneThreadLocked DEF Locking, Imports
<1> QED BY <1>2, <1>3, <1>4, <1>5

LEMMA LoadLocked ==
  ASSUME Locked, NEW r \in Requests, Load(r)
  PROVE  Locked'
<1> USE DEF TypeOK
<1>1. /\ req[r] \in Thread /\ req[r].path \in Paths
      /\ Over(req[r].map, files[req[r].path]) \in Map
  BY OverType DEF Thread, Locked
<1>2. Following(req[r].path) \in Paths
  BY <1>1, ConstantsAssumption DEF Following, Paths
<1>3. PICK loaded \in Map, path \in Paths,
           there \in {"hydrate", "load", "fetch", "change"} :
        /\ req' = [req EXCEPT ![r].map = loaded, ![r].pc = there,
                              ![r].path = path]
        /\ \/ req[r].pc = "hydrate" /\ there \in {"hydrate", "fetch"}
           \/ req[r].pc = "load" /\ there \in {"load", "change"}
        /\ UNCHANGED <<files, owner, issued, members, restarts>>
  BY <1>1, <1>2 DEF Load
<1>4. TypeOK'
  BY <1>1, <1>3 DEF Thread, Locked
<1>5. /\ req'[r].pc = there /\ req'[r].kind = req[r].kind
      /\ \A o \in Requests \ {r} : req'[o] = req[o]
  BY <1>1, <1>3 DEF Locked, Thread
<1>6. /\ req[r].pc = "hydrate" => req[r].kind \in {"fetch", "fetch_saved"}
      /\ req[r].pc = "load" => req[r].kind \in Locking
      /\ req[r].pc = "load" => req[r].kind = "fetch_saved" \/ owner = r
  BY DEF Locked, Places, MutualExclusion
<1> QED BY <1>3, <1>4, <1>5, <1>6, OneThreadLocked

LEMMA FetchLocked ==
  ASSUME Locked, NEW r \in Requests, Fetch(r)
  PROVE  Locked'
<1> USE DEF TypeOK
<1> DEFINE used == Used(r)
<1>1. PICK rotated \in SUBSET {e \in Emails : used[e] # None} :
        LET tokens == [e \in Emails |-> IF e \in rotated THEN issued[e] + 1
                                        ELSE used[e]]
        IN /\ req[r].pc = "fetch"
           /\ \A e \in rotated : issued[e] < MaxToken
           /\ issued' = [e \in Emails |-> issued[e] + IF e \in rotated THEN 1
                                                      ELSE 0]
           /\ req' = [req EXCEPT
                ![r].pc = IF req[r].kind = "fetch_saved" THEN "save"
                          ELSE IF {e \in Emails : used[e] # None} = {}
                          THEN "done" ELSE "lock",
                ![r].tokens = tokens,
                ![r].map = IF req[r].kind = "fetch_saved"
                           THEN Over(@, tokens) ELSE NoMap,
                ![r].path = IF req[r].kind = "fetch_saved" THEN 1 ELSE Files]
           /\ UNCHANGED <<files, owner, members, restarts>>
  BY DEF Fetch
<1> DEFINE tokens == [e \in Emails |-> IF e \in rotated THEN issued[e] + 1
                                       ELSE used[e]]
<1>2. req[r] \in Thread /\ req[r].map \in Map /\ req[r].tokens \in Map
  BY DEF Thread, Locked
<1>3. used \in Map
  BY <1>2 DEF Used, Map
<1>4. tokens \in Map /\ issued' \in [Emails -> Token]
  <2>0. \A e \in rotated : issued[e] < MaxToken
    BY <1>1
  <2>1. \A e \in rotated : issued[e] + 1 \in Token
    BY <2>0, ConstantsAssumption DEF Token, Locked
  <2>2. \A e \in Emails : issued[e] \in Token /\ issued[e] + 0 = issued[e]
    BY ConstantsAssumption DEF Token, Locked
  <2>3. issued' = [e \in Emails |-> issued[e] + IF e \in rotated THEN 1
                                                ELSE 0]
    BY <1>1
  <2> QED BY <1>3, <2>1, <2>2, <2>3 DEF Map
<1>5. PICK map, path, there :
        /\ req' = [req EXCEPT ![r].pc = there, ![r].tokens = tokens,
                              ![r].map = map, ![r].path = path]
        /\ \/ /\ there = "save" /\ req[r].kind = "fetch_saved" /\ path = 1
              /\ map = Over(req[r].map, tokens)
           \/ /\ there \in {"done", "lock"} /\ req[r].kind # "fetch_saved"
              /\ map = NoMap /\ path = Files
        /\ req[r].pc = "fetch"
        /\ UNCHANGED <<files, owner, members, restarts>>
  BY <1>1
<1> HIDE DEF tokens, used
<1>6. map \in Map /\ path \in Paths
  BY <1>2, <1>4, <1>5, OverType, OverNothing, ConstantsAssumption DEF Paths
<1>7. TypeOK'
  BY <1>2, <1>4, <1>5, <1>6 DEF Thread, Locked
<1>8. /\ req'[r].pc = there /\ req'[r].kind = req[r].kind
      /\ \A o \in Requests \ {r} : req'[o] = req[o]
  BY <1>2, <1>5 DEF Locked, Thread
<1>9. req[r].kind \in {"fetch", "fetch_saved"}
  BY <1>5 DEF Locked, Places
<1> QED BY <1>5, <1>7, <1>8, <1>9, OneThreadLocked DEF Locking

LEMMA WritesLocked ==
  ASSUME Locked, NEW r \in Requests,
         Acquire(r) \/ Change(r) \/ Save(r) \/ Release(r)
  PROVE  Locked'
<1> USE DEF TypeOK
<1>1. /\ req[r] \in Thread
      /\ req[r].pc \in {"lock", "change", "unlock"} => req[r].kind \in Locking
      /\ req[r].pc = "save" => req[r].kind \in Locking \cup {"fetch_saved"}
      /\ req[r].pc \in {"change", "save", "unlock"}
           => req[r].kind = "fetch_saved" \/ owner = r
  BY DEF Locked, Places, MutualExclusion
<1>2. CASE Acquire(r)
  <2>1. TypeOK'
    BY <1>1, <1>2 DEF Acquire, Locked, Thread
  <2>2. /\ req'[r].pc = "load" /\ req'[r].kind = req[r].kind
        /\ \A o \in Requests \ {r} : req'[o] = req[o]
    BY <1>1, <1>2 DEF Acquire, Locked, Thread
  <2> QED BY <1>1, <1>2, <2>1, <2>2, OneThreadLocked DEF Acquire
<1>3. CASE Change(r)
  <2>1. Changed(req[r]) \in Map /\ 1 \in Paths
    BY <1>1, <1>3, ChangedType, ConstantsAssumption DEF Change, Paths
  <2>2. PICK there \in {"save", "unlock"} :
          /\ req[r].pc = "change"
          /\ req' = [req EXCEPT ![r].pc = there, ![r].map = Changed(req[r]),
                                ![r].path = 1]
          /\ UNCHANGED <<files, owner, issued, members, restarts>>
    BY <1>3 DEF Change
  <2>3. TypeOK'
    BY <1>1, <2>1, <2>2 DEF Locked, Thread
  <2>4. /\ req'[r].pc = there /\ req'[r].kind = req[r].kind
        /\ \A o \in Requests \ {r} : req'[o] = req[o]
    BY <1>1, <2>2 DEF Locked, Thread
  <2> QED BY <1>1, <2>2, <2>3, <2>4, OneThreadLocked
<1>4. CASE Save(r)
  <2> DEFINE last == req[r].path = Files
             there == IF ~last THEN "save"
                      ELSE IF req[r].kind = "fetch_saved" THEN "done"
                      ELSE "unlock"
             next == IF last THEN req[r].path ELSE req[r].path + 1
  <2>1. /\ req[r].pc = "save"
        /\ req' = [req EXCEPT ![r].pc = there, ![r].path = next]
        /\ UNCHANGED <<owner, issued, restarts>>
    BY <1>4 DEF Save
  <2>2. next \in Paths
    BY <1>1, ConstantsAssumption DEF Paths, Thread
  <2>3. /\ there \in {"save", "done", "unlock"}
        /\ there = "unlock" => req[r].kind # "fetch_saved"
    OBVIOUS
  <2>4. files' \in [Paths -> Map] /\ members' \in SUBSET Emails
    BY <1>1, <1>4 DEF Save, Locked, Thread
  <2> HIDE DEF there, next
  <2>5. TypeOK'
    BY <1>1, <2>1, <2>2, <2>3, <2>4 DEF Locked, Thread
  <2>6. /\ req'[r].pc = there /\ req'[r].kind = req[r].kind
        /\ \A o \in Requests \ {r} : req'[o] = req[o]
    BY <1>1, <2>1 DEF Locked, Thread
  <2> QED BY <1>1, <2>1, <2>3, <2>5, <2>6, OneThreadLocked
<1>5. CASE Release(r)
  <2>1. TypeOK'
    BY <1>1, <1>5, OverNothing DEF Release, Locked, Thread
  <2>2. /\ req'[r].pc = "done"
        /\ \A o \in Requests \ {r} : req'[o] = req[o]
    BY <1>1, <1>5 DEF Release, Locked, Thread
  <2>3. owner = r
    BY <1>1, <1>5 DEF Release, Locking
  <2> QED BY <2>1, <2>2, <2>3, OneThreadLocked
<1> QED BY <1>2, <1>3, <1>4, <1>5

LEMMA NextLocked ==
  ASSUME Locked, [Next]_vars
  PROVE  Locked'
<1>1. CASE Restart
  <2>1. NewThread \in Thread
    BY OverNothing, ConstantsAssumption DEF NewThread, Thread, Paths
  <2>9. [NewThread EXCEPT !.pc = "done"] \in Thread
    BY <2>1 DEF Thread
  <2>2. TypeOK'
    BY <1>1, <2>9, ConstantsAssumption DEF Restart, Locked, TypeOK
  <2>3. \A r \in Requests : req'[r].pc \in {"idle", "done"}
    BY <1>1, <2>1 DEF Restart, Thread
  <2> QED
    BY <2>2, <2>3 DEF Locked, Places, MutualExclusion
<1>2. CASE UNCHANGED vars
  BY <1>2 DEF vars, Locked, TypeOK, Places, MutualExclusion
<1> QED
  BY <1>1, <1>2, BeginsLocked, LoadLocked, FetchLocked, WritesLocked DEF Next

LEMMA InitLocked == Init => Locked
<1>1. NewThread \in Thread
  BY OverNothing, ConstantsAssumption DEF NewThread, Thread, Paths
<1>2. NewThread.pc = "idle"
  BY DEF NewThread
<1>3. ASSUME Init PROVE TypeOK
  <2>1. files \in [Paths -> Map]
    BY <1>3, ConstantsAssumption DEF Init, Map, Token
  <2>2. issued \in [Emails -> Token] /\ restarts \in 0 .. MaxRestarts
    BY <1>3, ConstantsAssumption DEF Init, Token
  <2> QED BY <1>1, <1>3, <2>1, <2>2 DEF Init, TypeOK
<1>4. Init => Places /\ MutualExclusion
  BY <1>2 DEF Init, Places, MutualExclusion
<1> QED BY <1>3, <1>4 DEF Locked

(***************************************************************************)
(* The files and the threads are well typed whichever requests overlap,    *)
(* also those that save without the lock.                                  *)
(***************************************************************************)
THEOREM TypesHold == Spec => []TypeOK
<1>1. Locked => TypeOK
  BY DEF Locked
<1> QED BY <1>1, InitLocked, NextLocked, PTL DEF Spec

-----------------------------------------------------------------------------
\* A step of one thread that writes no file.
LEMMA OneThreadMoves ==
  ASSUME IInv, TypeOK', NEW r \in Requests,
         UNCHANGED <<files, members>>,
         \A o \in Requests \ {r} : req'[o] = req[o],
         owner' = owner \/ owner \in {r, None},
         Phase(req'[r]) /\ TokensNamed(req'[r]),
         req'[r].pc \in {"load", "change", "save", "unlock"}
           => req'[r].kind = "fetch_saved" \/ owner' = r,
         Busy(r)' => \/ Busy(r) /\ req'[r].kind = req[r].kind
                     \/ \A o \in Requests \ {r} :
                          Busy(o) => "fetch_saved" \notin
                                       {req[o].kind, req'[r].kind},
         MapSoFar(req[r])' /\ Saving(req[r])'
  PROVE  IInv'
<1>1. Phases'
  BY DEF IInv, Phases, Phase, TokensNamed
<1>2. MutualExclusion'
  BY ConstantsAssumption DEF IInv, MutualExclusion
<1>3. Alone'
  BY DEF IInv, Alone, Busy
<1>4. View' = View
  BY DEF View
<1>5. SameMailboxes'
  BY <1>4 DEF IInv, SameMailboxes
<1>6. Writers'
  <2> SUFFICES ASSUME NEW o \in Requests
               PROVE  MapSoFar(req[o])' /\ Saving(req[o])'
    BY DEF Writers
  <2>1. CASE o = r
    BY <2>1
  <2>2. CASE o # r
    <3>1. req'[o] = req[o] /\ MapSoFar(req[o]) /\ Saving(req[o])
      BY <2>2 DEF IInv, Writers
    <3> QED BY <3>1, <1>4 DEF MapSoFar, Saving, Leaves, Reading, HasRead
  <2> QED BY <2>1, <2>2
<1> QED BY <1>1, <1>2, <1>3, <1>5, <1>6 DEF IInv
-----------------------------------------------------------------------------
LEMMA BeginFetchKeeps ==
  ASSUME IInv, WritersApart, NEW r \in Requests, BeginFetch(r)
  PROVE  IInv'
<1>1. PICK targets \in SUBSET Emails \ {{}}, copies \in Map :
        /\ MayBegin(r, "fetch")
        /\ \A e \in Emails : copies[e] # None => e \in targets
        /\ req' = [req EXCEPT ![r].pc = "hydrate", ![r].kind = "fetch",
                              ![r].targets = targets, ![r].tokens = copies]
        /\ UNCHANGED <<files, owner, issued, members, restarts>>
  BY DEF BeginFetch
<1> req[r] \in Thread /\ req[r].pc = "idle" /\ Phase(req[r])
  BY <1>1 DEF IInv, TypeOK, MayBegin, Phases
<1>2. TypeOK'
  BY <1>1 DEF IInv, TypeOK, Thread, MayBegin
<1>3. /\ req'[r].pc = "hydrate" /\ req'[r].kind = "fetch"
      /\ req'[r].targets = targets /\ req'[r].tokens = copies
  BY <1>1 DEF IInv, TypeOK, Thread
<1>4. Phase(req'[r]) /\ TokensNamed(req'[r])
  BY <1>1, <1>3 DEF Phase, TokensNamed, MayBegin, Imports
<1>5. MapSoFar(req[r])' /\ Saving(req[r])'
  BY <1>3 DEF MapSoFar, Saving, Reading, HasRead
<1>6. \A o \in Requests \ {r} :
        Busy(o) => "fetch_saved" \notin {req[o].kind, req'[r].kind}
  BY <1>1, <1>3 DEF MayBegin, Busy, WritersApart, IInv, Phases, Phase
<1> QED
  BY <1>1, <1>2, <1>3, <1>4, <1>5, <1>6, OneThreadMoves
     DEF IInv, TypeOK

LEMMA BeginFetchSavedKeeps ==
  ASSUME IInv, WritersApart, NEW r \in Requests, BeginFetchSaved(r)
  PROVE  IInv'
<1>1. PICK targets \in SUBSET Emails \ {{}} :
        /\ MayBegin(r, "fetch_saved")
        /\ req' = [req EXCEPT ![r].pc = "hydrate", ![r].kind = "fetch_saved",
                              ![r].targets = targets]
        /\ UNCHANGED <<files, owner, issued, members, restarts>>
  BY DEF BeginFetchSaved
<1> req[r] \in Thread /\ req[r].pc = "idle" /\ Phase(req[r])
  BY <1>1 DEF IInv, TypeOK, MayBegin, Phases
<1>2. TypeOK'
  BY <1>1 DEF IInv, TypeOK, Thread, MayBegin
<1>3. /\ req'[r].pc = "hydrate" /\ req'[r].kind = "fetch_saved"
      /\ req'[r].targets = targets /\ req'[r].tokens = NoMap
      /\ req'[r].map = NoMap /\ req'[r].path = Files
  BY <1>1 DEF IInv, TypeOK, Thread, Phase
<1>4. Phase(req'[r]) /\ TokensNamed(req'[r])
  BY <1>1, <1>3, OverNothing DEF Phase, TokensNamed, MayBegin, Imports
<1>5. MapSoFar(req[r])' /\ Saving(req[r])'
  BY <1>3 DEF MapSoFar, Saving, Reading, HasRead
<1>6. \A o \in Requests \ {r} :
        Busy(o) => "fetch_saved" \notin {req[o].kind, req'[r].kind}
  BY <1>1, <1>3 DEF MayBegin, Busy, WritersApart, IInv, Phases, Phase
<1> QED
  BY <1>1, <1>2, <1>3, <1>4, <1>5, <1>6, OneThreadMoves
     DEF IInv, TypeOK

LEMMA BeginImportKeeps ==
  ASSUME IInv, WritersApart, NEW r \in Requests, BeginImport(r)
  PROVE  IInv'
<1>1. PICK kind \in Imports, targets \in SUBSET Emails \ {{}} :
        /\ MayBegin(r, kind)
        /\ \A e \in targets : issued[e] < MaxToken
        /\ issued' = [e \in Emails |->
                        issued[e] + IF e \in targets THEN 1 ELSE 0]
        /\ req' = [req EXCEPT ![r].pc = "lock", ![r].kind = kind,
                              ![r].targets = targets,
                              ![r].tokens = [e \in Emails |->
                                  IF e \in targets THEN issued'[e] ELSE None]]
        /\ UNCHANGED <<files, owner, members, restarts>>
  BY DEF BeginImport, Imports
<1> DEFINE tokens == [e \in Emails |-> IF e \in targets THEN issued'[e]
                                       ELSE None]
<1> req[r] \in Thread /\ req[r].pc = "idle" /\ Phase(req[r])
  BY <1>1 DEF IInv, TypeOK, MayBegin, Phases
<1>2. issued' \in [Emails -> Token]
  BY <1>1, ConstantsAssumption DEF IInv, TypeOK, Token
<1>3. tokens \in Map
  BY <1>2 DEF Map
<1>4. TypeOK'
  BY <1>1, <1>2, <1>3 DEF IInv, TypeOK, Thread, MayBegin
<1>5. /\ req'[r].pc = "lock" /\ req'[r].kind = kind
      /\ req'[r].targets = targets /\ req'[r].tokens = tokens
      /\ req'[r].map = NoMap /\ req'[r].path = Files
  BY <1>1 DEF IInv, TypeOK, Thread, Phase
<1>6. Phase(req'[r])
  BY <1>1, <1>5 DEF Phase, MayBegin, Imports, Locking
<1>7. TokensNamed(req'[r])
  BY <1>2, <1>5, ConstantsAssumption DEF TokensNamed, Token
<1>8. MapSoFar(req[r])' /\ Saving(req[r])'
  BY <1>5 DEF MapSoFar, Saving, Reading, HasRead
<1>9. \A o \in Requests \ {r} :
        Busy(o) => "fetch_saved" \notin {req[o].kind, req'[r].kind}
  BY <1>1, <1>5 DEF MayBegin, Busy, WritersApart, IInv, Phases, Phase, Imports
<1> QED
  BY <1>1, <1>4, <1>5, <1>6, <1>7, <1>8, <1>9, OneThreadMoves
     DEF IInv, TypeOK

LEMMA BeginDeleteKeeps ==
  ASSUME IInv, WritersApart, NEW r \in Requests, BeginDelete(r)
  PROVE  IInv'
<1>1. PICK targets \in SUBSET Emails \ {{}} :
        /\ MayBegin(r, "delete")
        /\ req' = [req EXCEPT ![r].pc = "lock", ![r].kind = "delete",
                              ![r].targets = targets]
        /\ UNCHANGED <<files, owner, issued, members, restarts>>
  BY DEF BeginDelete
<1> req[r] \in Thread /\ req[r].pc = "idle" /\ Phase(req[r])
  BY <1>1 DEF IInv, TypeOK, MayBegin, Phases
<1>2. TypeOK'
  BY <1>1 DEF IInv, TypeOK, Thread, MayBegin
<1>3. /\ req'[r].pc = "lock" /\ req'[r].kind = "delete"
      /\ req'[r].targets = targets /\ req'[r].tokens = NoMap
      /\ req'[r].map = NoMap /\ req'[r].path = Files
  BY <1>1 DEF IInv, TypeOK, Thread, Phase
<1>4. Phase(req'[r]) /\ TokensNamed(req'[r])
  BY <1>1, <1>3, OverNothing
     DEF Phase, TokensNamed, MayBegin, Imports, Locking
<1>5. MapSoFar(req[r])' /\ Saving(req[r])'
  BY <1>3 DEF MapSoFar, Saving, Reading, HasRead
<1>6. \A o \in Requests \ {r} :
        Busy(o) => "fetch_saved" \notin {req[o].kind, req'[r].kind}
  BY <1>1, <1>3 DEF MayBegin, Busy, WritersApart, IInv, Phases, Phase
<1> QED
  BY <1>1, <1>2, <1>3, <1>4, <1>5, <1>6, OneThreadMoves
     DEF IInv, TypeOK

-----------------------------------------------------------------------------
LEMMA LoadKeeps ==
  ASSUME IInv, NEW r \in Requests, Load(r)
  PROVE  IInv'
<1> DEFINE t == req[r]
           loaded == Over(t.map, files[t.path])
           there == IF t.path > 1 THEN t.pc
                    ELSE IF t.pc = "hydrate" THEN "fetch" ELSE "change"
<1>1. /\ t.pc \in {"hydrate", "load"}
      /\ req' = [req EXCEPT ![r].map = loaded, ![r].pc = there,
                            ![r].path = Following(@)]
      /\ UNCHANGED <<files, owner, issued, members, restarts>>
  BY DEF Load
<1>2. t \in Thread /\ t.path \in Paths /\ files[t.path] \in Map
  BY DEF IInv, TypeOK, Thread
<1>3. loaded \in Map
  BY <1>2, OverType DEF Thread
<1>4. /\ Following(t.path) = (IF t.path = 2 THEN 1 ELSE t.path)
      /\ Following(t.path) \in Paths
  BY <1>2, ConstantsAssumption DEF Following, Paths
<1>5. TypeOK'
  BY <1>1, <1>2, <1>3, <1>4 DEF IInv, TypeOK, Thread
<1>6. /\ req'[r].pc = there /\ req'[r].map = loaded
      /\ req'[r].path = Following(t.path) /\ req'[r].kind = t.kind
      /\ req'[r].targets = t.targets /\ req'[r].tokens = t.tokens
  BY <1>1, <1>2 DEF IInv, TypeOK, Thread
<1>7. /\ Phase(t) /\ TokensNamed(t) /\ MapSoFar(t)
      /\ t.pc = "load" => owner = r
  BY <1>1 DEF IInv, Phases, Writers, MutualExclusion, Phase, Locking
<1>a. IF t.path > 1 THEN there = t.pc
      ELSE \/ t.pc = "hydrate" /\ there = "fetch"
           \/ t.pc = "load" /\ there = "change"
  BY <1>1
<1> HIDE DEF loaded, there
<1>8. Phase(req'[r]) /\ TokensNamed(req'[r])
  <2>1. Phase(req'[r])
    BY <1>1, <1>6, <1>7, <1>a DEF Phase
  <2>2. TokensNamed(req'[r])
    BY <1>1, <1>6, <1>7, <1>a DEF TokensNamed
  <2> QED BY <2>1, <2>2
<1>9. MapSoFar(req[r])'
  <2>1. View' = View /\ files' = files
    BY <1>1 DEF View
  <2>2. SUFFICES ASSUME Reading(t)
                 PROVE  MapSoFar(req[r])'
    <3>1. ~ Reading(t) => ~ Reading(req'[r]) /\ ~ HasRead(req'[r])
      BY <1>1, <1>6, <1>a DEF Reading, HasRead
    <3> QED BY <3>1 DEF MapSoFar
  <2>3. t.map = IF t.path = Files THEN NoMap ELSE files[2]
    BY <1>7, <2>2 DEF MapSoFar
  <2>4. CASE t.path = 1
    <3>1. loaded = View
      BY <1>2, <2>3, <2>4, OverNothing, ConstantsAssumption, ViewType
         DEF View, IInv, loaded
    <3>2. ~ Reading(req'[r])
      BY <1>6, <1>a, <2>4 DEF Reading
    <3> QED BY <1>6, <2>1, <3>1, <3>2 DEF MapSoFar
  <2>5. CASE t.path = 2
    <3>1. loaded = files[2] /\ Files = 2
      BY <1>2, <2>3, <2>5, OverNothing, ConstantsAssumption DEF Paths, loaded
    <3>2. ~ HasRead(req'[r])
      BY <1>1, <1>6, <1>a, <2>5 DEF HasRead
    <3> QED BY <1>4, <1>6, <2>1, <2>5, <3>1, <3>2 DEF MapSoFar
  <2> QED BY <1>2, <2>4, <2>5, ConstantsAssumption DEF Paths
<1>10. Saving(req[r])'
  BY <1>1, <1>6, <1>a DEF Saving
<1>b. req'[r].pc \in {"load", "change", "save", "unlock"} => owner' = r
  BY <1>1, <1>6, <1>7, <1>a
<1>c. Busy(r)' => Busy(r)
  BY <1>1 DEF Busy
<1>d. \A o \in Requests \ {r} : req'[o] = req[o]
  BY <1>1 DEF IInv, TypeOK
<1> QED
  BY <1>1, <1>5, <1>6, <1>8, <1>9, <1>10, <1>b, <1>c, <1>d, OneThreadMoves

LEMMA FetchKeeps ==
  ASSUME IInv, NEW r \in Requests, Fetch(r)
  PROVE  IInv'
<1> DEFINE t == req[r]
           used == Used(r)
           saved == t.kind = "fetch_saved"
<1>1. PICK rotated \in SUBSET {e \in Emails : used[e] # None} :
        LET tokens == [e \in Emails |-> IF e \in rotated THEN issued[e] + 1
                                        ELSE used[e]]
        IN /\ t.pc = "fetch"
           /\ \A e \in rotated : issued[e] < MaxToken
           /\ issued' = [e \in Emails |-> issued[e] + IF e \in rotated THEN 1
                                                      ELSE 0]
           /\ req' = [req EXCEPT
                ![r].pc = IF saved THEN "save"
                          ELSE IF {e \in Emails : used[e] # None} = {}
                          THEN "done" ELSE "lock",
                ![r].tokens = tokens,
                ![r].map = IF saved THEN Over(@, tokens) ELSE NoMap,
                ![r].path = IF saved THEN 1 ELSE Files]
           /\ UNCHANGED <<files, owner, members, restarts>>
  BY DEF Fetch
<1> DEFINE tokens == [e \in Emails |-> IF e \in rotated THEN issued[e] + 1
                                       ELSE used[e]]
           there == IF saved THEN "save"
                    ELSE IF {e \in Emails : used[e] # None} = {} THEN "done"
                    ELSE "lock"
<1>a. /\ t.pc = "fetch" /\ \A e \in rotated : issued[e] < MaxToken
      /\ UNCHANGED <<files, owner, members, restarts>>
      /\ issued' = [e \in Emails |-> issued[e] + IF e \in rotated THEN 1
                                                 ELSE 0]
  BY <1>1
<1>b. req' = [req EXCEPT ![r].pc = there, ![r].tokens = tokens,
                ![r].map = IF saved THEN Over(@, tokens) ELSE NoMap,
                ![r].path = IF saved THEN 1 ELSE Files]
  BY <1>1
<1>c. \/ there = "save" /\ saved
      \/ there \in {"done", "lock"} /\ ~ saved
  OBVIOUS
<1> HIDE DEF there
<1>2. t \in Thread /\ t.map \in Map /\ t.tokens \in Map
  BY DEF IInv, TypeOK, Thread
<1>3. used \in Map
  BY <1>2 DEF Used, Map
<1>4. tokens \in Map /\ issued' \in [Emails -> Token]
  <2>1. \A e \in rotated : issued[e] + 1 \in Token
    BY <1>a, ConstantsAssumption DEF IInv, TypeOK, Token
  <2>2. \A e \in Emails : issued[e] \in Token /\ issued[e] + 0 = issued[e]
    BY ConstantsAssumption DEF IInv, TypeOK, Token
  <2> QED BY <1>a, <1>3, <2>1, <2>2 DEF Map
<1>5. \A e \in Emails : tokens[e] # None => used[e] # None
  BY <1>1
<1>6. Over(t.map, tokens) \in Map
  BY <1>2, <1>4, OverType
<1> HIDE DEF tokens
<1>7. TypeOK'
  BY <1>a, <1>b, <1>c, <1>2, <1>4, <1>6, ViewType, OverNothing
     DEF IInv, TypeOK, Thread
<1>8. /\ req'[r].pc = there
      /\ req'[r].tokens = tokens /\ req'[r].kind = t.kind
      /\ req'[r].map = IF saved THEN Over(t.map, tokens) ELSE NoMap
      /\ req'[r].path = IF saved THEN 1 ELSE Files
      /\ req'[r].targets = t.targets
      /\ \A o \in Requests \ {r} : req'[o] = req[o]
  BY <1>b, <1>2 DEF IInv, TypeOK, Thread
<1>9. /\ Phase(t) /\ TokensNamed(t) /\ MapSoFar(t)
      /\ t.kind \in {"fetch", "fetch_saved"} /\ t.kind \in Kinds
  BY <1>1 DEF IInv, Phases, Writers, Phase
<1>10. \A e \in Emails : used[e] # None => /\ e \in t.targets
                                           /\ t.tokens[e] # None
                                              \/ t.map[e] # None
  BY DEF Used
<1> HIDE DEF used
<1>11. Phase(req'[r])
  BY <1>8, <1>9, <1>c DEF Phase, Locking
<1>12. TokensNamed(req'[r])
  BY <1>5, <1>8, <1>9, <1>10, <1>c, <1>a DEF TokensNamed, Imports
<1>13. MapSoFar(req[r])'
  BY <1>8, <1>c DEF MapSoFar, Reading, HasRead
<1>14. Saving(req[r])'
  <2> SUFFICES ASSUME saved PROVE Saving(req[r])'
    BY <1>8, <1>c DEF Saving
  <2>1. t.map = View /\ View' = View
    BY <1>a, <1>9 DEF MapSoFar, HasRead, View
  <2>2. \A e \in Emails : t.tokens[e] # None => t.map[e] # None
    BY <1>a, <1>9, OverNothing DEF Phase
  <2>3. \A e \in Emails :
          Over(t.map, tokens)[e] = IF tokens[e] # None THEN tokens[e]
                                   ELSE t.map[e]
    BY <1>2, <1>4, OverType
  <2>4. \A e \in Emails : Over(t.map, tokens)[e] # None <=> e \in members'
    BY <1>a, <1>5, <1>10, <2>1, <2>2, <2>3 DEF IInv, SameMailboxes
  <2>5. \A e \in Emails :
          e \notin t.targets => Over(t.map, tokens)[e] = View'[e]
    BY <1>5, <1>10, <2>1, <2>3
  <2>6. /\ req'[r].kind \notin Imports \cup {"delete"}
        /\ req'[r].map = Over(t.map, tokens) /\ req'[r].path = 1
    BY <1>8 DEF Imports
  <2> QED BY <1>8, <2>4, <2>5, <2>6 DEF Saving, Leaves, Imports
<1>15. /\ req'[r].pc \in {"load", "change", "save", "unlock"}
            => req'[r].kind = "fetch_saved"
       /\ Busy(r)
  BY <1>a, <1>8, <1>c DEF Busy
<1> QED
  BY <1>a, <1>7, <1>8, <1>11, <1>12, <1>13, <1>14, <1>15, OneThreadMoves

LEMMA AcquireKeeps ==
  ASSUME IInv, NEW r \in Requests, Acquire(r)
  PROVE  IInv'
<1> DEFINE t == req[r]
<1>1. /\ t.pc = "lock" /\ owner = None /\ owner' = r
      /\ req' = [req EXCEPT ![r].pc = "load"]
      /\ UNCHANGED <<files, issued, members, restarts>>
  BY DEF Acquire
<1>2. TypeOK'
  BY <1>1 DEF IInv, TypeOK, Thread
<1>3. /\ req'[r] = [t EXCEPT !.pc = "load"] /\ t \in Thread
      /\ \A o \in Requests \ {r} : req'[o] = req[o]
  BY <1>1 DEF IInv, TypeOK
<1>4. /\ Phase(t) /\ TokensNamed(t) /\ Busy(r)
      /\ t.map = NoMap /\ t.path = Files
  BY <1>1 DEF IInv, Phases, Phase, Busy
<1>5. Phase(req'[r]) /\ TokensNamed(req'[r])
  BY <1>1, <1>3, <1>4 DEF Phase, TokensNamed, Thread
<1>6. MapSoFar(req[r])' /\ Saving(req[r])'
  BY <1>1, <1>3, <1>4 DEF MapSoFar, Saving, Reading, HasRead, Thread
<1> QED
  BY <1>1, <1>2, <1>3, <1>4, <1>5, <1>6, OneThreadMoves DEF Thread

LEMMA ChangeKeeps ==
  ASSUME IInv, NEW r \in Requests, Change(r)
  PROVE  IInv'
<1> DEFINE t == req[r]
           map == Changed(t)
<1>1. PICK there \in {"save", "unlock"} :
        /\ t.pc = "change"
        /\ req' = [req EXCEPT ![r].pc = there, ![r].map = map, ![r].path = 1]
        /\ UNCHANGED <<files, owner, issued, members, restarts>>
  BY DEF Change
<1>2. /\ t \in Thread /\ Phase(t) /\ TokensNamed(t) /\ t.map = View
      /\ t.kind \in Locking /\ Busy(r) /\ owner = r
  BY <1>1 DEF IInv, TypeOK, Phases, Phase, Writers, MapSoFar, HasRead, Busy,
              MutualExclusion, Locking
<1>3. map \in Map
  BY <1>2, ChangedType
<1>4. TypeOK'
  <2>1. 1 \in Paths
    BY ViewType DEF IInv
  <2> HIDE DEF map
  <2>2. [t EXCEPT !.pc = there, !.map = map, !.path = 1] \in Thread
    BY <1>2, <1>3, <2>1 DEF Thread
  <2> QED BY <1>1, <2>2 DEF IInv, TypeOK
<1>5. /\ req'[r].pc = there /\ req'[r].map = map /\ req'[r].path = 1
      /\ req'[r].kind = t.kind /\ req'[r].targets = t.targets
      /\ req'[r].tokens = t.tokens
      /\ \A o \in Requests \ {r} : req'[o] = req[o]
  <2> HIDE DEF map
  <2> QED BY <1>1, <1>2 DEF IInv, TypeOK, Thread
<1>6. \A e \in Emails : /\ map[e] # None <=> Leaves(t, e)
                        /\ e \notin t.targets => map[e] = t.map[e]
  <2> SUFFICES ASSUME NEW e \in Emails
               PROVE  /\ map[e] # None <=> Leaves(t, e)
                      /\ e \notin t.targets => map[e] = t.map[e]
    OBVIOUS
  <2>1. /\ t.map[e] # None <=> e \in members
        /\ t.map \in Map /\ t.tokens \in Map
        /\ t.tokens[e] # None => e \in t.targets
        /\ t.kind \in Imports /\ e \in t.targets => t.tokens[e] # None
    BY <1>1, <1>2 DEF IInv, SameMailboxes, TokensNamed, Thread
  <2>2. CASE t.kind = "fetch"
    BY <2>1, <2>2 DEF Changed, Merged, Leaves, Imports
  <2>3. CASE t.kind = "import"
    BY <2>1, <2>3, OverType DEF Changed, Leaves, Imports
  <2>4. CASE t.kind = "import_new"
    BY <2>1, <2>4, OverType DEF Changed, Leaves, Imports
  <2>5. CASE t.kind = "delete"
    BY <2>1, <2>5 DEF Changed, Leaves, Imports
  <2> QED BY <1>2, <2>2, <2>3, <2>4, <2>5 DEF Locking
<1> HIDE DEF map
<1>7. Phase(req'[r]) /\ TokensNamed(req'[r])
  BY <1>1, <1>2, <1>5 DEF Phase, TokensNamed
<1>8. MapSoFar(req[r])'
  BY <1>5 DEF MapSoFar, Reading, HasRead
<1>9. Saving(req[r])'
  <2>1. View' = View /\ members' = members
    BY <1>1 DEF View
  <2> QED BY <1>2, <1>5, <1>6, <2>1 DEF Saving, Leaves
<1> QED
  BY <1>1, <1>2, <1>4, <1>5, <1>7, <1>8, <1>9, OneThreadMoves

LEMMA ReleaseKeeps ==
  ASSUME IInv, NEW r \in Requests, Release(r)
  PROVE  IInv'
<1> DEFINE t == req[r]
<1>1. /\ t.pc = "unlock" /\ owner' = None
      /\ req' = [req EXCEPT ![r].pc = "done", ![r].map = NoMap]
      /\ UNCHANGED <<files, issued, members, restarts>>
  BY DEF Release
<1>2. t \in Thread /\ Phase(t) /\ owner = r
  BY <1>1 DEF IInv, TypeOK, Phases, Phase, MutualExclusion, Locking
<1>3. TypeOK'
  <2>1. [t EXCEPT !.pc = "done", !.map = NoMap] \in Thread
    BY <1>2, OverNothing DEF Thread
  <2> QED BY <1>1, <2>1 DEF IInv, TypeOK
<1>4. req'[r].pc = "done" /\ \A o \in Requests \ {r} : req'[o] = req[o]
  BY <1>1, <1>2 DEF IInv, TypeOK, Thread
<1>5. Phase(req'[r]) /\ TokensNamed(req'[r])
  BY <1>4 DEF Phase, TokensNamed
<1>6. MapSoFar(req[r])' /\ Saving(req[r])'
  BY <1>4 DEF MapSoFar, Saving, Reading, HasRead
<1> QED
  BY <1>1, <1>2, <1>3, <1>4, <1>5, <1>6, OneThreadMoves DEF Busy

LEMMA RestartKeeps ==
  ASSUME IInv, Restart
  PROVE  IInv'
<1>1. /\ restarts < MaxRestarts /\ restarts' = restarts + 1 /\ owner' = None
      /\ req' = [r \in Requests |->
                   IF req[r].pc \in {"idle", "done"} THEN req[r]
                   ELSE [NewThread EXCEPT !.pc = "done"]]
      /\ UNCHANGED <<files, issued, members>>
  BY DEF Restart
<1>2. /\ [NewThread EXCEPT !.pc = "done"] \in Thread
      /\ [NewThread EXCEPT !.pc = "done"].pc = "done"
  BY OverNothing, ViewType DEF NewThread, Thread, IInv
<1>3. TypeOK'
  BY <1>1, <1>2, ConstantsAssumption DEF IInv, TypeOK
<1>4. \A r \in Requests : /\ req'[r].pc \in {"idle", "done"}
                          /\ req'[r].pc = "idle" => req'[r] = req[r]
  BY <1>1, <1>2
<1>5. Phases'
  BY <1>4 DEF IInv, Phases, Phase, TokensNamed
<1>6. MutualExclusion' /\ Alone'
  BY <1>4 DEF MutualExclusion, Alone, Busy
<1>7. SameMailboxes'
  BY <1>1 DEF IInv, SameMailboxes, View
<1>8. Writers'
  BY <1>4 DEF Writers, MapSoFar, Saving, Reading, HasRead
<1> QED BY <1>3, <1>5, <1>6, <1>7, <1>8 DEF IInv
-----------------------------------------------------------------------------
\* Who writes is the only one to hold the lock, or to do anything.
LEMMA OneWriter ==
  ASSUME IInv, NEW r \in Requests, req[r].pc = "save",
         NEW o \in Requests \ {r}
  PROVE  /\ req[o].pc \notin {"load", "change", "save", "unlock"}
         /\ Busy(o) => req[o].kind # "fetch_saved"
BY DEF IInv, MutualExclusion, Alone, Busy

LEMMA SaveShows ==
  ASSUME IInv, NEW r \in Requests, Save(r)
  PROVE  \A e \in Emails :
           /\ View'[e] = IF req[r].map[e] # None \/ req[r].path = Files
                         THEN req[r].map[e] ELSE files[2][e]
           /\ e \notin req[r].targets => View'[e] = View[e]
<1> DEFINE t == req[r]
<1>1. /\ t.pc = "save" /\ t \in Thread /\ t.map \in Map /\ t.path \in Paths
      /\ files' = [files EXCEPT ![t.path] = t.map]
      /\ files \in [Paths -> Map]
  BY DEF Save, IInv, TypeOK, Thread
<1>2. Saving(t) /\ SameMailboxes
  BY DEF IInv, Writers
<1> SUFFICES ASSUME NEW e \in Emails
             PROVE  /\ View'[e] = IF t.map[e] # None \/ t.path = Files
                                  THEN t.map[e] ELSE files[2][e]
                    /\ e \notin t.targets => View'[e] = View[e]
  OBVIOUS
<1>3. CASE Files = 1
  <2>1. t.path = 1 /\ View' = t.map
    BY <1>1, <1>3 DEF Paths, View
  <2> QED BY <1>1, <1>2, <1>3, <2>1 DEF Saving
<1>4. CASE Files = 2 /\ t.path = 1
  <2>1. View'[e] = IF t.map[e] # None THEN t.map[e] ELSE files[2][e]
    BY <1>1, <1>4 DEF Paths, View, Over
  <2>2. View[e] = IF files[1][e] # None THEN files[1][e] ELSE files[2][e]
    BY <1>4 DEF View, Over
  <2> QED BY <1>1, <1>2, <1>4, <2>1, <2>2 DEF Saving
<1>5. CASE Files = 2 /\ t.path = 2
  <2>1. files[1] = t.map
    BY <1>1, <1>2, <1>5 DEF Saving
  <2>2. View'[e] = t.map[e]
    BY <1>1, <1>5, <2>1 DEF Paths, View, Over
  <2> QED BY <1>1, <1>2, <1>5, <2>2 DEF Saving
<1> QED BY <1>1, <1>3, <1>4, <1>5, ConstantsAssumption DEF Paths

LEMMA SaveKeeps ==
  ASSUME IInv, NEW r \in Requests, Save(r)
  PROVE  IInv'
<1> DEFINE t == req[r]
           last == t.path = Files
<1>1. /\ t.pc = "save" /\ t \in Thread /\ t.map \in Map /\ t.path \in Paths
      /\ files' = [files EXCEPT ![t.path] = t.map]
      /\ members' = IF t.path = 1 /\ t.kind \in Imports
                    THEN members \cup t.targets
                    ELSE IF t.kind = "delete"
                    THEN {e \in members : e \in t.targets =>
                            \E p \in Paths : p > t.path /\ files[p][e] # None}
                    ELSE members
      /\ UNCHANGED <<owner, issued, restarts>>
  BY DEF Save, IInv, TypeOK, Thread, Imports
<1> DEFINE there == IF ~last THEN "save"
                    ELSE IF t.kind = "fetch_saved" THEN "done" ELSE "unlock"
           path == IF last THEN t.path ELSE t.path + 1
<1>2. req' = [req EXCEPT ![r].pc = there, ![r].path = path]
  BY DEF Save
<1>3. path \in Paths /\ (~last => t.path = 1 /\ path = 2 /\ Files = 2)
  BY <1>1, ConstantsAssumption DEF Paths
<1>4. /\ Saving(t) /\ Phase(t) /\ TokensNamed(t) /\ t.kind \in Kinds
      /\ \/ t.kind \in Imports
         \/ t.kind = "delete"
         \/ t.kind \in {"fetch", "fetch_saved"}
  BY <1>1, ConstantsAssumption DEF IInv, Writers, Phases, Phase, Imports
<1>5. TypeOK'
  <2>1. [t EXCEPT !.pc = there, !.path = path] \in Thread
    BY <1>1, <1>3 DEF Thread
  <2>2. req' \in [Requests -> Thread]
    BY <1>2, <2>1 DEF IInv, TypeOK
  <2>3. files' \in [Paths -> Map]
    BY <1>1 DEF IInv, TypeOK
  <2>4. members' \in SUBSET Emails
    BY <1>1 DEF IInv, TypeOK, Thread
  <2> QED BY <1>1, <2>2, <2>3, <2>4 DEF IInv, TypeOK
<1>6. /\ req'[r].pc = there /\ req'[r].path = path /\ req'[r].kind = t.kind
      /\ req'[r].targets = t.targets /\ req'[r].tokens = t.tokens
      /\ req'[r].map = t.map
      /\ \A o \in Requests \ {r} : req'[o] = req[o]
  BY <1>1, <1>2 DEF IInv, TypeOK, Thread
<1>7. \/ there = "save" /\ ~last
      \/ there = "done" /\ last
      \/ there = "unlock" /\ last /\ t.kind # "fetch_saved"
  OBVIOUS
<1> HIDE DEF there, path
<1>8. \A o \in Requests \ {r} :
        /\ req[o].pc \notin {"load", "change", "save", "unlock"}
        /\ Busy(o) => req[o].kind # "fetch_saved"
  BY <1>1, OneWriter
<1>9. Phases'
  <2>1. Phase(req'[r])
    BY <1>4, <1>6, <1>7 DEF Phase, Imports, Locking
  <2>2. TokensNamed(req'[r])
    BY <1>1, <1>4, <1>6, <1>7 DEF TokensNamed
  <2> QED BY <1>6, <2>1, <2>2 DEF IInv, Phases, Phase, TokensNamed
<1>10. MutualExclusion'
  BY <1>1, <1>6, <1>7 DEF IInv, MutualExclusion
<1>11. Alone'
  BY <1>1, <1>6, <1>7 DEF IInv, Alone, Busy
<1>12. \A e \in Emails :
         /\ View'[e] = IF t.map[e] # None \/ last THEN t.map[e]
                       ELSE files[2][e]
         /\ e \notin t.targets => View'[e] = View[e]
  BY SaveShows
<1>13. \A e \in Emails : /\ t.map[e] # None <=> Leaves(t, e)
                         /\ e \notin t.targets => t.map[e] = View[e]
                         /\ View[e] # None <=> e \in members
  BY <1>1, <1>4 DEF Saving, IInv, SameMailboxes
<1>14. ~last => \A e \in Emails : files[2][e] # None => e \in members
  <2>1. ~last => \A e \in Emails : files[2][e] # None => View[e] # None
    BY <1>3 DEF View, Over
  <2> QED BY <1>13, <2>1
<1>15. SameMailboxes'
  <2> SUFFICES ASSUME NEW e \in Emails
               PROVE  View'[e] # None <=> e \in members'
    BY DEF SameMailboxes
  <2>1. CASE t.kind \in Imports
    <3>1. e \in members' <=> e \in members \/ e \in t.targets
      BY <1>1, <1>4, <2>1, ConstantsAssumption DEF Saving, Paths, Imports
    <3>2. t.map[e] # None <=> e \in members \/ e \in t.targets
      BY <1>13, <2>1 DEF Leaves, Imports
    <3> QED BY <1>12, <1>14, <3>1, <3>2
  <2>2. CASE t.kind = "delete"
    <3>1. e \in members' <=> /\ e \in members
                             /\ e \in t.targets =>
                                  ~last /\ files[2][e] # None
      <4>1. (\E p \in Paths : p > t.path /\ files[p][e] # None)
              <=> ~last /\ files[2][e] # None
        BY <1>1, <1>3, ConstantsAssumption DEF Paths
      <4> QED BY <1>1, <2>2, <4>1 DEF Imports
    <3> QED BY <1>12, <1>13, <1>14, <2>2, <3>1 DEF Leaves, Imports
  <2>3. CASE t.kind \in {"fetch", "fetch_saved"}
    BY <1>1, <1>12, <1>13, <1>14, <2>3 DEF Leaves, Imports
  <2> QED BY <1>4, <2>1, <2>2, <2>3
<1>16. Saving(req[r])'
  <2> SUFFICES ASSUME ~last PROVE Saving(req[r])'
    BY <1>6, <1>7 DEF Saving
  <2>1. files'[1] = t.map
    BY <1>1, <1>3 DEF IInv, TypeOK
  <2>2. \A e \in Emails : e \notin t.targets
                            => (e \in members' <=> e \in members)
    BY <1>1
  <2>3. t.kind \notin Imports \cup {"delete"} => members' = members
    BY <1>1
  <2>4. \A e \in Emails : Leaves(req[r], e)' <=> Leaves(t, e)
    BY <1>1, <1>3, <1>4, <1>6, <2>2, <2>3 DEF Leaves, Imports
  <2>5. t.kind \in Imports => t.targets \subseteq members'
    BY <1>1, <1>3
  <2> QED BY <1>6, <1>12, <1>13, <2>1, <2>4, <2>5 DEF Saving
<1>17. Writers'
  BY <1>6, <1>7, <1>8, <1>16
     DEF Writers, MapSoFar, Saving, Reading, HasRead, Busy
<1> QED BY <1>5, <1>9, <1>10, <1>11, <1>15, <1>17 DEF IInv
-----------------------------------------------------------------------------
LEMMA InitIInv == Init => IInv
<1> SUFFICES ASSUME Init PROVE IInv
  OBVIOUS
<1> USE DEF Init
<1>1. NewThread \in Thread
  BY OverNothing, ConstantsAssumption DEF NewThread, Thread, Paths
<1>2. TypeOK
  <2>1. 0 \in Token
    BY ConstantsAssumption DEF Token
  <2>2. files \in [Paths -> Map]
    BY <2>1 DEF Map
  <2>3. req \in [Requests -> Thread] /\ restarts \in 0 .. MaxRestarts
    BY <1>1, ConstantsAssumption
  <2>4. issued \in [Emails -> Token]
    BY <2>1
  <2> QED BY <2>2, <2>3, <2>4 DEF TypeOK
<1>3. \A r \in Requests : /\ req[r].pc = "idle" /\ req[r].path = Files
                          /\ req[r].map = NoMap /\ req[r].tokens = NoMap
  BY DEF NewThread
<1>4. Phases
  BY <1>3 DEF Phases, Phase, TokensNamed
<1>5. MutualExclusion /\ Alone /\ Writers
  BY <1>3 DEF MutualExclusion, Alone, Busy, Writers, MapSoFar, Saving,
              Reading, HasRead
<1>6. SameMailboxes
  <2>1. \A e \in Emails, p \in Paths : files[p][e] # None <=> e \in members
    BY ConstantsAssumption
  <2> QED
    <3>1. 1 \in Paths /\ Files \in {1, 2} /\ (Files = 2 => 2 \in Paths)
      BY ConstantsAssumption DEF Paths
    <3>2. CASE Files = 1
      <4>1. View = files[1]
        BY <3>2 DEF View
      <4> HIDE DEF Init
      <4> QED BY <2>1, <3>1, <4>1 DEF SameMailboxes
    <3>3. CASE Files = 2
      <4>1. \A e \in Emails : View[e] = IF files[1][e] # None THEN files[1][e]
                                        ELSE files[2][e]
        BY <3>3 DEF View, Over
      <4> QED BY <2>1, <3>1, <3>3, <4>1 DEF SameMailboxes
    <3> QED BY <3>1, <3>2, <3>3
<1> QED BY <1>2, <1>4, <1>5, <1>6 DEF IInv

LEMMA NextKeepsIInv == WritersApart /\ IInv /\ [Next]_vars => IInv'
<1> SUFFICES ASSUME WritersApart, IInv, [Next]_vars PROVE IInv'
  OBVIOUS
<1>1. CASE UNCHANGED vars
  BY <1>1 DEF vars, IInv, TypeOK, Phases, MutualExclusion, Alone, Busy,
              SameMailboxes, Writers, MapSoFar, Saving, View, Leaves
<1>2. CASE Next
  BY <1>2, BeginFetchKeeps, BeginFetchSavedKeeps, BeginImportKeeps,
     BeginDeleteKeeps, LoadKeeps, FetchKeeps, AcquireKeeps, ChangeKeeps,
     SaveKeeps, ReleaseKeeps, RestartKeeps DEF Next
<1> QED BY <1>1, <1>2

(***************************************************************************)
(* Writers of the accounts exclude each other, and what a writer has read  *)
(* of the files is what they hold.                                         *)
(***************************************************************************)
THEOREM WritersTakeTurns == WritersApart => (Spec => []IInv)
<1> SUFFICES ASSUME WritersApart PROVE Spec => []IInv
  OBVIOUS
<1>1. IInv /\ [Next]_vars => IInv'
  BY NextKeepsIInv
<1> QED BY <1>1, InitIInv, PTL DEF Spec

(***************************************************************************)
(* However many requests import, delete and fetch, wherever a crash cuts   *)
(* them short, the workspace holds the mailboxes users imported and did    *)
(* not delete (mailbox_workspace_service.py, storage/file_lock.py).        *)
(***************************************************************************)
THEOREM MailboxesAreKept == WritersApart => (Spec => []SameMailboxes)
<1> SUFFICES ASSUME WritersApart PROVE Spec => []SameMailboxes
  OBVIOUS
<1>1. IInv => SameMailboxes
  BY DEF IInv
<1> QED BY <1>1, WritersTakeTurns, PTL

(***************************************************************************)
(* A request that saves the whole map back changes what is stored of the   *)
(* mailboxes it named, and of no other.                                    *)
(***************************************************************************)
THEOREM OthersAreUntouched == WritersApart => (Spec => UnselectedUntouched)
<1> DEFINE Touched == \A e \in Emails :
             View'[e] # View[e]
               => \E r \in Requests :
                    req[r].pc = "save" /\ e \in req[r].targets
                    /\ req'[r] # req[r]
<1> SUFFICES ASSUME WritersApart PROVE Spec => UnselectedUntouched
  OBVIOUS
<1>1. IInv /\ [Next]_vars => [Touched]_vars
  <2> SUFFICES ASSUME IInv, [Next]_vars PROVE Touched
    OBVIOUS
  <2>1. CASE \E r \in Requests : Save(r)
    <3>1. PICK r \in Requests : Save(r)
      BY <2>1
    <3>2. \A e \in Emails : e \notin req[r].targets => View'[e] = View[e]
      BY <3>1, SaveShows
    <3>3. req[r].pc = "save" /\ req'[r] # req[r]
      <4>1. req[r] \in Thread /\ req[r].path \in Paths /\ req[r].pc = "save"
        BY <3>1 DEF Save, IInv, TypeOK, Thread
      <4>2. req'[r].pc # req[r].pc \/ req'[r].path # req[r].path
        BY <3>1, <4>1, ConstantsAssumption DEF Save, IInv, TypeOK, Thread,
                                               Paths
      <4> QED BY <4>1, <4>2
    <3> QED BY <3>2, <3>3
  <2>2. CASE UNCHANGED files
    BY <2>2 DEF View
  <2>3. (\E r \in Requests : Save(r)) \/ UNCHANGED files
    <3>1. ASSUME NEW r \in Requests, BeginFetch(r) \/ BeginFetchSaved(r)
          PROVE  UNCHANGED files
      BY <3>1 DEF BeginFetch, BeginFetchSaved
    <3>2. ASSUME NEW r \in Requests, BeginImport(r) \/ BeginDelete(r)
          PROVE  UNCHANGED files
      BY <3>2 DEF BeginImport, BeginDelete
    <3>3. ASSUME NEW r \in Requests, Load(r) \/ Fetch(r)
          PROVE  UNCHANGED files
      BY <3>3 DEF Load, Fetch
    <3>4. ASSUME NEW r \in Requests, Acquire(r) \/ Change(r) \/ Release(r)
          PROVE  UNCHANGED files
      BY <3>4 DEF Acquire, Change, Release
    <3> QED BY <3>1, <3>2, <3>3, <3>4 DEF Next, vars, Restart
  <2> QED BY <2>1, <2>2, <2>3
<1> QED BY <1>1, WritersTakeTurns, PTL DEF Spec, UnselectedUntouched
=============================================================================
