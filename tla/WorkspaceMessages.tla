-------------------------- MODULE WorkspaceMessages --------------------------
(***************************************************************************)
(* The mail cache of one workspace (workspace_state.py, workspace_views.py *)
(* and storage/message_store.py): for every path a JSON file and the       *)
(* SQLite file next to it, and the list of ignored message keys.           *)
(*                                                                         *)
(* Each request runs in a thread of its own.  Receiving and deleting mail  *)
(* happen under a lock that the first thread to ask for it creates;        *)
(* reading takes no lock, and writes SQLite when it finds only the JSON.   *)
(* Every file operation is a step.  A thread may fail at any write, and    *)
(* the process may crash between any two steps.                            *)
(*                                                                         *)
(* A message stands for its key and is numbered by the order messages are  *)
(* kept in: the larger, the newer.                                         *)
(***************************************************************************)
EXTENDS Naturals, Sequences, SequencesExt

CONSTANTS
  Messages,
  Requests,     \* HTTP and mail fetch threads; the lock is named by its maker
  Kinds,        \* what requests may ask for
  Files,        \* 1 for a workspace of its own, 2 for "public"
  Cap,          \* messages a file keeps (2000)
  IgnoredCap,   \* keys the ignored list keeps (5000)
  MaxRestarts,
  Races,        \* whether two threads may create the lock at the same time
  StoreFails,   \* whether a write may raise
  None

ASSUME ConstantsAssumption ==
  /\ Messages \subseteq Nat /\ IsFiniteSet(Messages)
  /\ Kinds \subseteq {"receive", "delete", "delete_matching", "read"}
  /\ Files \in {1, 2} /\ Cap \in Nat \ {0} /\ IgnoredCap \in Nat \ {0}
  /\ MaxRestarts \in Nat /\ Races \in BOOLEAN /\ StoreFails \in BOOLEAN
  /\ None \notin Requests /\ None # "read"

Paths == 1 .. Files

VARIABLES
  json,      \* messages.json of each path
  sqlite,    \* messages.sqlite3 of each path
  ignored,   \* ignored_messages.json: a list without duplicates
  lock,      \* WORKSPACE_STATE._message_write_lock
  req,       \* the threads
  promised,  \* the deleted_keys of the replies that were sent
  restarts

vars == <<json, sqlite, ignored, lock, req, promised, restarts>>

Thread ==
  [pc : {"idle", "lookup", "make", "acquire", "known", "load", "load_json",
         "backfill", "decide", "ignore", "reenter", "reacquire",
         "write_json", "write_sqlite", "reply", "done"},
   kind : Kinds \cup {None},
   input : SUBSET Messages,           \* received, or to be deleted
   lock : Requests \cup {None},       \* the lock it is about to take
   held : SUBSET Requests,            \* the locks it holds
   path : Paths,
   loaded : SUBSET Messages,
   known : Seq(Messages),             \* the ignored keys it has read
   out : SUBSET Messages]             \* what it is writing

NewThread ==
  [pc |-> "idle", kind |-> None, input |-> {}, lock |-> None, held |-> {},
   path |-> 1, loaded |-> {}, known |-> <<>>, out |-> {}]

Newest_Uncapped(ms) == ms

\* save_messages: sorted, newest first, and cut.
Newest(ms) == {m \in ms : Cardinality({n \in ms : n > m}) < Cap}

Init ==
  /\ json \in [Paths -> {ms \in SUBSET Messages : Cardinality(ms) <= Cap}]
  /\ sqlite \in [Paths -> SUBSET Messages]
  /\ \A p \in Paths : sqlite[p] \in {{}, json[p]}   \* {}: not yet migrated
  /\ ignored = <<>>
  /\ lock = None
  /\ req = [r \in Requests |-> NewThread]
  /\ promised = {}
  /\ restarts = 0

-----------------------------------------------------------------------------
Inputs(kind) ==
  IF kind \in {"receive", "delete"} THEN SUBSET Messages \ {{}} ELSE {{}}

Begin(r) ==
  \E kind \in Kinds : \E input \in Inputs(kind) :
    /\ req[r].pc = "idle"
    /\ req' = [req EXCEPT ![r].pc = IF kind = "read" THEN "load" ELSE "lookup",
                          ![r].kind = kind,
                          ![r].input = input]
    /\ UNCHANGED <<json, sqlite, ignored, lock, promised, restarts>>

(***************************************************************************)
(* _message_lock: look the lock up, create it when there is none, take it. *)
(* save_messages_state goes through it again, inside the first.            *)
(***************************************************************************)
Lookup(r) ==
  /\ \/ /\ req[r].pc = "lookup" /\ lock # None
        /\ req' = [req EXCEPT ![r].pc = "acquire", ![r].lock = lock]
     \/ /\ req[r].pc = "lookup" /\ lock = None
        /\ Races \/ \A o \in Requests : req[o].pc # "make"
        /\ req' = [req EXCEPT ![r].pc = "make"]
     \/ /\ req[r].pc = "reenter"
        /\ req' = [req EXCEPT ![r].pc = "reacquire", ![r].lock = lock]
  /\ UNCHANGED <<json, sqlite, ignored, lock, promised, restarts>>

Make(r) ==
  /\ req[r].pc = "make"
  /\ lock' = r
  /\ req' = [req EXCEPT ![r].pc = "acquire", ![r].lock = r]
  /\ UNCHANGED <<json, sqlite, ignored, promised, restarts>>

Free_NotReentrant(r, l) == \A o \in Requests : l \notin req[o].held

Free(r, l) == \A o \in Requests \ {r} : l \notin req[o].held

Acquire(r) ==
  /\ req[r].pc \in {"acquire", "reacquire"}
  /\ Free(r, req[r].lock)
  /\ req' = [req EXCEPT ![r].pc = IF @ = "reacquire" THEN "write_json"
                                  ELSE IF req[r].kind = "receive" THEN "known"
                                  ELSE "load",
                        ![r].held = @ \cup {req[r].lock}]
  /\ UNCHANGED <<json, sqlite, ignored, lock, promised, restarts>>

LoadIgnored(r) ==
  /\ req[r].pc = "known"
  /\ req' = [req EXCEPT ![r].known = ignored,
                        ![r].pc = IF req[r].kind = "receive" THEN "load"
                                  ELSE "ignore"]
  /\ UNCHANGED <<json, sqlite, ignored, lock, promised, restarts>>

(***************************************************************************)
(* views.messages: the paths are loaded one after the other.  SQLite is    *)
(* used when it has rows; otherwise the JSON, whose rows are then copied   *)
(* to SQLite, without the path's lock.                                     *)
(***************************************************************************)
Loads(r, ms) ==
  req' = [req EXCEPT ![r].loaded = @ \cup ms,
                     ![r].path = IF @ < Files THEN @ + 1 ELSE 1,
                     ![r].pc = IF req[r].path < Files THEN "load"
                               ELSE IF req[r].kind = "read" THEN "done"
                               ELSE "decide"]

LoadSqlite(r) ==
  /\ req[r].pc = "load"
  /\ IF sqlite[req[r].path] # {}
     THEN Loads(r, sqlite[req[r].path])
     ELSE req' = [req EXCEPT ![r].pc = "load_json"]
  /\ UNCHANGED <<json, sqlite, ignored, lock, promised, restarts>>

LoadJson(r) ==
  LET ms == json[req[r].path] IN
  /\ req[r].pc = "load_json"
  /\ IF ms = {}
     THEN Loads(r, {})
     ELSE req' = [req EXCEPT ![r].pc = "backfill", ![r].out = ms]
  /\ UNCHANGED <<json, sqlite, ignored, lock, promised, restarts>>

Backfill(r) ==
  /\ req[r].pc = "backfill"
  /\ sqlite' = [sqlite EXCEPT ![req[r].path] = req[r].out]
  /\ Loads(r, req[r].out)
  /\ UNCHANGED <<json, ignored, lock, promised, restarts>>

(***************************************************************************)
(* upsert_messages_state and delete_messages_state, once they have loaded. *)
(***************************************************************************)
Merged_CacheFirst(loaded, received, known) ==
  (loaded \ known) \cup received

Merged(loaded, received, known) == (loaded \cup received) \ known

Merge(r) ==
  /\ req[r].pc = "decide" /\ req[r].kind = "receive"
  /\ req' = [req EXCEPT ![r].out = Merged(req[r].loaded, req[r].input,
                                          ToSet(req[r].known)),
                        ![r].pc = "reenter"]
  /\ UNCHANGED <<json, sqlite, ignored, lock, promised, restarts>>

\* A filter picks any of the loaded messages; with none the request is over.
ChooseTargets(r) ==
  \E targets \in SUBSET Messages :
    /\ req[r].pc = "decide"
    /\ \/ req[r].kind = "delete" /\ targets = req[r].input
       \/ req[r].kind = "delete_matching" /\ targets \subseteq req[r].loaded
    /\ req' = [req EXCEPT ![r].input = targets,
                          ![r].out = req[r].loaded \ targets,
                          ![r].pc = IF targets = {} THEN "reply"
                                    ELSE "known"]
    /\ UNCHANGED <<json, sqlite, ignored, lock, promised, restarts>>

Remembered_NewOnly(known, keys) == keys

\* save_ignored_message_keys: what has been there longest goes first.
Remembered(known, keys) ==
  LET all == known \o keys
      first == IF Len(all) > IgnoredCap THEN Len(all) - IgnoredCap + 1
               ELSE 1
  IN SubSeq(all, first, Len(all))

(***************************************************************************)
(* Keys that are in the list keep their place; the others are added in the *)
(* order of the keys, which says nothing about the age of the messages.    *)
(***************************************************************************)
Ignore(r) ==
  /\ req[r].pc = "ignore"
  /\ \E keys \in SetToSeqs(req[r].input \ ToSet(req[r].known)) :
       ignored' = Remembered(req[r].known, keys)
  /\ req' = [req EXCEPT ![r].pc = IF req[r].out # req[r].loaded THEN "reenter"
                                  ELSE "reply"]
  /\ UNCHANGED <<json, sqlite, lock, promised, restarts>>

(***************************************************************************)
(* save_messages, path by path: the JSON and then SQLite, under the path's *)
(* lock.                                                                   *)
(***************************************************************************)
WriteJson(r) ==
  /\ req[r].pc = "write_json"
  /\ \A o \in Requests :
       ~(req[o].pc = "write_sqlite" /\ req[o].path = req[r].path)
  /\ json' = [json EXCEPT ![req[r].path] = Newest(req[r].out)]
  /\ req' = [req EXCEPT ![r].pc = "write_sqlite"]
  /\ UNCHANGED <<sqlite, ignored, lock, promised, restarts>>

WriteSqlite(r) ==
  /\ req[r].pc = "write_sqlite"
  /\ sqlite' = [sqlite EXCEPT ![req[r].path] = Newest(req[r].out)]
  /\ req' = [req EXCEPT ![r].pc = IF req[r].path < Files THEN "write_json"
                                  ELSE "reply",
                        ![r].path = IF @ < Files THEN @ + 1 ELSE @]
  /\ UNCHANGED <<json, ignored, lock, promised, restarts>>

\* The locks are released and the reply is sent.
Reply(r) ==
  /\ req[r].pc = "reply"
  /\ promised' = IF req[r].kind = "receive" THEN promised
                 ELSE promised \cup req[r].input
  /\ req' = [req EXCEPT ![r] = [NewThread EXCEPT !.pc = "done"]]
  /\ UNCHANGED <<json, sqlite, ignored, lock, restarts>>

\* A write raises: the locks are released and the reply is an error.
WriteFails(r) ==
  /\ StoreFails
  /\ req[r].pc \in {"backfill", "ignore", "write_json", "write_sqlite"}
  /\ req' = [req EXCEPT ![r] = [NewThread EXCEPT !.pc = "done"]]
  /\ UNCHANGED <<json, sqlite, ignored, lock, promised, restarts>>

\* The locks live in the process, the files do not.
Restart ==
  /\ restarts < MaxRestarts
  /\ restarts' = restarts + 1
  /\ lock' = None
  /\ req' = [r \in Requests |->
               IF req[r].pc = "idle" THEN NewThread
               ELSE [NewThread EXCEPT !.pc = "done"]]
  /\ UNCHANGED <<json, sqlite, ignored, promised>>

Advance(r) ==
  \/ Lookup(r) \/ Make(r) \/ Acquire(r) \/ LoadIgnored(r)
  \/ LoadSqlite(r) \/ LoadJson(r) \/ Backfill(r)
  \/ Merge(r) \/ ChooseTargets(r) \/ Ignore(r)
  \/ WriteJson(r) \/ WriteSqlite(r) \/ Reply(r) \/ WriteFails(r)

Next ==
  \/ \E r \in Requests : Begin(r) \/ Advance(r)
  \/ Restart

Spec == Init /\ [][Next]_vars

\* A thread that can go on does; nobody has to ask for anything.
FairSpec == Spec /\ \A r \in Requests : WF_vars(Advance(r))
-----------------------------------------------------------------------------
TypeOK ==
  /\ json \in [Paths -> SUBSET Messages]
  /\ sqlite \in [Paths -> SUBSET Messages]
  /\ \A p \in Paths : Cardinality(json[p]) <= Cap
                      /\ Cardinality(sqlite[p]) <= Cap
  /\ ignored \in Seq(Messages)
  /\ Len(ignored) = Cardinality(ToSet(ignored)) /\ Len(ignored) <= IgnoredCap
  /\ lock \in Requests \cup {None}
  /\ req \in [Requests -> Thread]
  /\ promised \in SUBSET Messages
  /\ restarts \in 0 .. MaxRestarts

\* What a reader is shown of a path, and of the workspace.
Shown(p) == IF sqlite[p] # {} THEN sqlite[p] ELSE json[p]
View == UNION {Shown(p) : p \in Paths}

(***************************************************************************)
(* The cache keeps the promises of MessageCache: whatever the order of     *)
(* file writes, whichever of them fails and wherever the process crashes,  *)
(* mail only leaves what readers see because it was deleted or is too old, *)
(* deleted mail does not come back, and a deletion is confirmed only once  *)
(* the mail is gone.                                                       *)
(***************************************************************************)
Cache == INSTANCE MessageCache WITH cache <- View, ignored <- ToSet(ignored)
KeepsThePromises == Cache!Spec

(***************************************************************************)
(* "Mail deleted is not written back to the cache by later fetches, and a  *)
(* write lock protects deletions and fetches that run at the same time"    *)
(* (README.md:14): true once the threads share one lock, not of two        *)
(* threads that each create their own (Races).                             *)
(***************************************************************************)
DeletedStaysDeleted == promised \cap View = {}

(***************************************************************************)
(* A request comes to its end: taking the lock a second time inside itself *)
(* never blocks a thread for good, not even when several threads created   *)
(* a lock each.                                                            *)
(***************************************************************************)
EveryRequestReturns ==
  \A r \in Requests : req[r].pc # "idle" ~> req[r].pc = "done"
=============================================================================
