-------------------------- MODULE MailboxPagesProofs --------------------------
(***************************************************************************)
(* Proofs about MailboxPages, for any mailboxes, pages and files imported: *)
(* type correctness, what a mailbox manager shows of its imports, the      *)
(* order of the answers it merges, and whose secrets are kept; then what   *)
(* MailboxRecords states of records, lines and objects, for every field,   *)
(* and MailCredentials of what pages send and get back.                    *)
(***************************************************************************)
EXTENDS MailboxPages, MailCredentials, TLAPS

-----------------------------------------------------------------------------
(***************************************************************************)
(* The inductive invariant.  A manager's latest synchronization is its     *)
(* only latest one; what it was answered is no older than what the manager *)
(* has merged, and has every mailbox owed to it.                           *)
(***************************************************************************)
Typed ==
  /\ TypeOK
  /\ import \in [Pages -> Import \cup {None}]
  /\ delete \in [Managers -> Delete \cup {None}]

GoodSync(s, v, mg, ow) ==
  \A k \in Kinds : s.got[k] # None =>
    /\ s.got[k].version <= v
    /\ s.latest /\ s.page \in Managers =>
         /\ mg[s.page] # None => mg[s.page][k] <= s.got[k].version
         /\ \A e \in ow[s.page] \cap k : s.got[k].records[e] # None

OneLatest(ss) ==
  \A s, t \in ss : s.latest /\ t.latest /\ s.page = t.page => s = t

Answers ==
  /\ OneLatest(syncs)
  /\ \A s \in syncs : GoodSync(s, version, merged, owed)

Merges ==
  \A p \in Managers : merged[p] # None => \A k \in Kinds : merged[p][k] <= version

Debts == \A p \in Managers : \A e \in owed[p] : pool[e] # None

IInv == Typed /\ Answers /\ Merges /\ Debts /\ ImportedIsShown

-----------------------------------------------------------------------------
(***************************************************************************)
(* The helpers.                                                            *)
(***************************************************************************)
LEMMA ListOps ==
  ASSUME NEW records \in Lists, NEW items \in Lists
  PROVE  /\ Mask(records) \in Lists /\ MergeInto(records, items) \in Lists
         /\ \A p : ImportInto(p, records, items) \in Lists
         /\ \A es : Without(records, es) \in Lists
         /\ In(MergeInto(records, items)) = In(records) \cup In(items)
         /\ \A e \in Emails : Mask(records)[e] = None <=> records[e] = None
<1>1. None \notin Secret /\ "masked" \in Secret
  BY ConstantsAssumption DEF Secret
<1>2. \A e \in Emails : records[e] \in Secret \cup {None}
                        /\ items[e] \in Secret \cup {None}
  BY DEF Lists
<1>3. \A e \in Emails :
        PreferRealSecret(items[e], records[e]) \in {items[e], records[e]}
  BY DEF PreferRealSecret
<1>4. MergeInto(records, items) \in Lists
  BY <1>2, <1>3 DEF MergeInto, Lists
<1>5. \A p : ImportInto(p, records, items) \in Lists
  BY <1>2, <1>4 DEF ImportInto, Lists
<1>6. In(MergeInto(records, items)) = In(records) \cup In(items)
  BY <1>3 DEF MergeInto, In
<1>7. \A e \in Emails : Mask(records)[e] = None <=> records[e] = None
  <2>1. None # "masked"
    BY <1>1
  <2>2. \A e \in Emails :
          Mask(records)[e] = IF records[e] = "real" THEN "masked" ELSE records[e]
    BY DEF Mask
  <2>3. None # "real"
    BY ConstantsAssumption DEF Secret
  <2> QED BY <2>1, <2>2, <2>3
<1>8. Mask(records) \in Lists
  BY <1>1, <1>2 DEF Mask, Lists
<1>9. \A es : Without(records, es) \in Lists
  BY <1>2 DEF Without, Lists
<1> QED BY <1>4, <1>5, <1>6, <1>7, <1>8, <1>9

LEMMA ImportOps ==
  ASSUME pool \in Lists, NEW kind, NEW lines \in Lists
  PROVE  /\ AfterImport(kind, lines) \in Lists
         /\ \A e \in Emails :
              pool[e] # None => AfterImport(kind, lines)[e] # None
<1>1. \A e \in Taken(kind, lines) : lines[e] # None
  BY DEF Taken, In
<1>2. \A e \in Emails : /\ AfterImport(kind, lines)[e] \in Secret \cup {None}
                        /\ pool[e] # None => AfterImport(kind, lines)[e] # None
  BY <1>1 DEF AfterImport, Lists
<1> QED BY <1>2 DEF AfterImport, Lists

LEMMA FirstIsOne ==
  ASSUME NEW kinds \in SUBSET Kinds, kinds # {}
  PROVE  First(kinds) \in kinds
BY DEF First, Kinds

LEMMA KindOfEmail ==
  ASSUME NEW e \in Emails
  PROVE  LET k == CHOOSE kind \in Kinds : e \in kind IN k \in Kinds /\ e \in k
<1>1. \E kind \in Kinds : e \in kind
  BY DEF Kinds, Emails
<1> QED BY <1>1

LEMMA ItemsAre ==
  ASSUME NEW s \in Sync, Answered(s)
  PROVE  /\ Items(s) \in Lists
         /\ \A e \in Emails : \E k \in Kinds :
              e \in k /\ Items(s)[e] = s.got[k].records[e]
<1>1. \A k \in Kinds : s.got[k] \in Snapshot
  BY DEF Answered, Sync
<1>2. \A k \in Kinds, e \in Emails : s.got[k].records[e] \in Secret \cup {None}
  BY <1>1 DEF Snapshot, Lists
<1>3. \A e \in Emails : \E k \in Kinds :
        e \in k /\ Items(s)[e] = s.got[k].records[e]
  <2> SUFFICES ASSUME NEW e \in Emails
               PROVE  \E k \in Kinds :
                        e \in k /\ Items(s)[e] = s.got[k].records[e]
    OBVIOUS
  <2> DEFINE k == CHOOSE kind \in Kinds : e \in kind
  <2>1. k \in Kinds /\ e \in k
    BY KindOfEmail
  <2>2. Items(s)[e] = s.got[k].records[e]
    BY DEF Items
  <2> HIDE DEF k
  <2> QED BY <2>1, <2>2
<1>4. \A e \in Emails : Items(s)[e] \in Secret \cup {None}
  BY <1>2, <1>3
<1> QED BY <1>3, <1>4 DEF Items, Lists

LEMMA NewSyncIs ==
  ASSUME NEW p \in Pages
  PROVE  /\ NewSync(p) \in Sync /\ NewSync(p).page = p
         /\ \A v, mg, ow : GoodSync(NewSync(p), v, mg, ow)
BY DEF NewSync, Sync, GoodSync

-----------------------------------------------------------------------------
(***************************************************************************)
(* What happens to the synchronizations on their way.                      *)
(***************************************************************************)
LEMMA GoodStays ==
  ASSUME NEW s \in Sync, NEW v \in Nat, NEW v2 \in Nat, v <= v2,
         NEW mg, NEW mg2, NEW ow, NEW ow2, GoodSync(s, v, mg, ow),
         s.page \in Managers =>
           mg2[s.page] \in {mg[s.page], None} /\ ow2[s.page] \subseteq ow[s.page]
  PROVE  GoodSync(s, v2, mg2, ow2)
<1>1. \A k \in Kinds : s.got[k] # None => s.got[k].version \in Nat
  BY ConstantsAssumption DEF Sync, Snapshot
<1> QED BY <1>1 DEF GoodSync

LEMMA SupersededIsGood ==
  ASSUME NEW s \in Sync, NEW v \in Nat, NEW v2 \in Nat, v <= v2,
         NEW mg, NEW mg2, NEW ow, NEW ow2, GoodSync(s, v, mg, ow)
  PROVE  /\ [s EXCEPT !.latest = FALSE] \in Sync
         /\ GoodSync([s EXCEPT !.latest = FALSE], v2, mg2, ow2)
<1> DEFINE t == [s EXCEPT !.latest = FALSE]
<1>1. t \in Sync /\ t.latest = FALSE /\ t.got = s.got
  BY DEF Sync
<1>2. \A k \in Kinds : s.got[k] # None => s.got[k].version \in Nat
  BY ConstantsAssumption DEF Sync, Snapshot
<1> HIDE DEF t
<1>3. GoodSync(t, v2, mg2, ow2)
  BY <1>1, <1>2 DEF GoodSync
<1> QED BY <1>1, <1>3 DEF t

VersionsAre == version \in Nat /\ version' \in Nat /\ version <= version'

\* No new synchronization: nothing else may become owed.
LEMMA AnswersStay ==
  ASSUME Typed, Answers, VersionsAre, syncs' \subseteq syncs,
         \A p \in Managers : merged'[p] \in {merged[p], None}
                             /\ owed'[p] \subseteq owed[p]
  PROVE  Answers' /\ \A s \in syncs' : s \in Sync
<1>1. OneLatest(syncs')
  BY DEF Answers, OneLatest
<1>2. \A s \in syncs' : s \in Sync /\ GoodSync(s, version', merged', owed')
  <2> SUFFICES ASSUME NEW s \in syncs'
               PROVE  s \in Sync /\ GoodSync(s, version', merged', owed')
    OBVIOUS
  <2>1. s \in Sync /\ GoodSync(s, version, merged, owed)
    BY DEF Typed, TypeOK, Answers
  <2> QED BY <2>1, GoodStays DEF VersionsAre
<1> QED BY <1>1, <1>2 DEF Answers

\* A new synchronization of p: what is owed to p may grow.
LEMMA AnswersBegin ==
  ASSUME Typed, Answers, VersionsAre, NEW p \in Pages, BeginSync(p),
         UNCHANGED merged,
         \A q \in Managers \ {p} : owed'[q] \subseteq owed[q]
  PROVE  Answers' /\ \A s \in syncs' : s \in Sync
<1>1. syncs' = Superseded(p) \cup {NewSync(p)}
  BY DEF BeginSync
<1>2. ASSUME NEW s \in syncs'
      PROVE  \/ s = NewSync(p)
             \/ \E t \in syncs : t.page = p /\ s = [t EXCEPT !.latest = FALSE]
             \/ s \in syncs /\ s.page # p
  BY <1>1 DEF Superseded
<1>3. \A t \in syncs : t \in Sync /\ GoodSync(t, version, merged, owed)
  BY DEF Typed, TypeOK, Answers
<1>4. ASSUME NEW s \in syncs'
      PROVE  s \in Sync /\ GoodSync(s, version', merged', owed')
  <2>1. CASE s = NewSync(p)
    BY <2>1, NewSyncIs
  <2>2. ASSUME NEW t \in syncs, t.page = p, s = [t EXCEPT !.latest = FALSE]
        PROVE  s \in Sync /\ GoodSync(s, version', merged', owed')
    BY <1>3, <2>2, SupersededIsGood DEF VersionsAre
  <2>3. CASE s \in syncs /\ s.page # p
    <3>1. s.page \in Managers =>
            merged'[s.page] \in {merged[s.page], None}
            /\ owed'[s.page] \subseteq owed[s.page]
      BY <2>3
    <3> QED BY <1>3, <2>3, <3>1, GoodStays DEF VersionsAre
  <2> QED BY <1>2, <2>1, <2>2, <2>3
<1>5. \A s \in syncs' : s.latest => s = NewSync(p) \/ (s \in syncs /\ s.page # p)
  <2> SUFFICES ASSUME NEW s \in syncs', s.latest
               PROVE  s = NewSync(p) \/ (s \in syncs /\ s.page # p)
    OBVIOUS
  <2>1. ASSUME NEW t \in syncs, s = [t EXCEPT !.latest = FALSE]
        PROVE  FALSE
    <3>1. t \in Sync
      BY <1>3
    <3>2. [t EXCEPT !.latest = FALSE].latest = FALSE
      BY <3>1 DEF Sync
    <3> QED BY <2>1, <3>2
  <2> QED BY <1>2, <2>1
<1>6. NewSync(p).page = p
  BY NewSyncIs
<1>7. OneLatest(syncs')
  BY <1>5, <1>6 DEF Answers, OneLatest
<1> QED BY <1>4, <1>7 DEF Answers

-----------------------------------------------------------------------------
(***************************************************************************)
(* Lists and the storage.                                                  *)
(***************************************************************************)
ListsOK ==
  /\ stored \in Lists /\ list \in [Pages -> Lists]
  /\ dirty \in [Managers -> BOOLEAN]

LEMMA SetListIs ==
  ASSUME Typed, NEW p \in Pages, NEW records \in Lists, SetList(p, records)
  PROVE  /\ ListsOK' /\ list'[p] = records
         /\ \A q \in Pages \ {p} : list'[q] = list[q]
BY DEF SetList, Typed, TypeOK, ListsOK

LEMMA PoolChanges ==
  ASSUME Typed, NEW records \in Lists, ChangePool(records)
  PROVE  /\ pool' = records /\ VersionsAre /\ version' \in 0..MaxChanges
BY ConstantsAssumption DEF ChangePool, Typed, TypeOK, VersionsAre

LEMMA SameVersion ==
  ASSUME Typed, UNCHANGED version
  PROVE  VersionsAre
BY DEF Typed, TypeOK, VersionsAre

\* What the types need when the lists and the pool are typed.
LEMMA TypedIs ==
  ASSUME ListsOK', pool' \in Lists, version' \in 0..MaxChanges,
         \A s \in syncs' : s \in Sync,
         import' \in [Pages -> Import \cup {None}],
         delete' \in [Managers -> Delete \cup {None}],
         merged' \in [Managers -> [Kinds -> 0..MaxChanges] \cup {None}],
         owed' \in [Managers -> SUBSET Emails],
         synced' \in [Managers -> BOOLEAN]
  PROVE  Typed'
BY DEF ListsOK, Typed, TypeOK

TypedParts ==
  /\ ListsOK /\ pool \in Lists /\ version \in 0..MaxChanges
  /\ \A s \in syncs : s \in Sync
  /\ import \in [Pages -> Import \cup {None}]
  /\ delete \in [Managers -> Delete \cup {None}]
  /\ merged \in [Managers -> [Kinds -> 0..MaxChanges] \cup {None}]
  /\ owed \in [Managers -> SUBSET Emails]
  /\ synced \in [Managers -> BOOLEAN]

LEMMA TypedHas ==
  ASSUME Typed
  PROVE  TypedParts
BY DEF ListsOK, Typed, TypeOK, TypedParts

LEMMA SyncedIs ==
  ASSUME NEW p \in Pages, BeginSync(p), Typed
  PROVE  /\ synced' \in [Managers -> BOOLEAN]
         /\ \A q \in Managers : synced'[q] => synced[q] /\ q # p
BY DEF BeginSync, Typed, TypeOK

LEMMA MergesStay ==
  ASSUME Typed, Merges, VersionsAre,
         \A p \in Managers : merged'[p] \in {merged[p], None}
  PROVE  Merges'
<1> SUFFICES ASSUME NEW p \in Managers, merged'[p] # None, NEW k \in Kinds
             PROVE  merged'[p][k] <= version'
  BY DEF Merges
<1>1. merged'[p] = merged[p] /\ merged[p] \in [Kinds -> 0..MaxChanges]
  BY DEF Typed, TypeOK
<1>2. merged[p][k] <= version /\ merged[p][k] \in Nat
  BY <1>1, ConstantsAssumption DEF Merges
<1> QED BY <1>1, <1>2 DEF VersionsAre

-----------------------------------------------------------------------------
(***************************************************************************)
(* Synchronizations.                                                       *)
(***************************************************************************)
LEMMA KeepsSyncMailboxes ==
  ASSUME IInv, NEW p \in Pages, SyncMailboxes(p)
  PROVE  IInv'
<1>1. UNCHANGED <<pool, version, list, stored, dirty, import, delete, merged, owed>>
      /\ BeginSync(p)
  BY DEF SyncMailboxes, server
<1>2. Typed /\ TypedParts /\ VersionsAre
  BY <1>1, TypedHas, SameVersion DEF IInv
<1>3. Answers' /\ \A s \in syncs' : s \in Sync
  BY <1>1, <1>2, AnswersBegin DEF IInv
<1>4. /\ synced' \in [Managers -> BOOLEAN]
      /\ \A q \in Managers : synced'[q] => synced[q] /\ q # p
  BY <1>1, <1>2, SyncedIs
<1>5. Typed'
  BY <1>1, <1>2, <1>3, <1>4, TypedIs DEF TypedParts, ListsOK
<1>6. Merges' /\ Debts'
  BY <1>1 DEF IInv, Merges, Debts
<1>7. ImportedIsShown'
  BY <1>1, <1>4 DEF IInv, ImportedIsShown
<1> QED BY <1>3, <1>5, <1>6, <1>7 DEF IInv

LEMMA KeepsServerAnswers ==
  ASSUME IInv, NEW s \in syncs, NEW k \in Kinds, ServerAnswers(s, k)
  PROVE  IInv'
<1> DEFINE records == [e \in Emails |-> IF e \in k THEN Mask(pool)[e] ELSE None]
           answer == [version |-> version, records |-> records]
           t == [s EXCEPT !.got[k] = answer]
<1>1. /\ UNCHANGED <<pool, version, list, stored, dirty, import, delete, merged,
                     owed, synced>>
      /\ syncs' = (syncs \ {s}) \cup {t} /\ s.got[k] = None
  BY DEF ServerAnswers, server
<1>2. Typed /\ TypedParts /\ Answers /\ Merges /\ Debts
  BY TypedHas DEF IInv
<1>3. s \in Sync /\ GoodSync(s, version, merged, owed)
  BY <1>2 DEF TypedParts, Answers
<1>4. Mask(pool) \in Lists /\ \A e \in Emails : Mask(pool)[e] = None <=> pool[e] = None
  BY <1>2, ListOps DEF TypedParts
<1>5. records \in Lists
  BY <1>4 DEF Lists
<1>6. \A e \in k : pool[e] # None => records[e] # None
  <2>1. \A e \in k : e \in Emails
    BY DEF Kinds, Emails
  <2> QED BY <1>4, <2>1
<1> HIDE DEF records
<1>7. answer \in Snapshot /\ answer.version = version /\ answer.records = records
  BY <1>2, <1>5 DEF TypedParts, Snapshot
<1> HIDE DEF answer
<1>8. /\ t \in Sync /\ t.page = s.page /\ t.latest = s.latest
      /\ t.got[k] = answer /\ \A l \in Kinds \ {k} : t.got[l] = s.got[l]
  BY <1>3, <1>7 DEF Sync
<1> HIDE DEF t
<1>9. GoodSync(t, version, merged, owed)
  <2> SUFFICES ASSUME NEW l \in Kinds, t.got[l] # None
               PROVE  /\ t.got[l].version <= version
                      /\ t.latest /\ t.page \in Managers =>
                           /\ merged[t.page] # None =>
                                merged[t.page][l] <= t.got[l].version
                           /\ \A e \in owed[t.page] \cap l :
                                t.got[l].records[e] # None
    BY DEF GoodSync
  <2>1. CASE l = k
    <3>1. version \in Nat
      BY <1>2, SameVersion, ConstantsAssumption DEF TypedParts
    <3>2. t.page \in Managers /\ merged[t.page] # None =>
            merged[t.page][k] <= version
      BY <1>2 DEF Merges
    <3>3. t.page \in Managers => \A e \in owed[t.page] \cap k : records[e] # None
      BY <1>2, <1>6 DEF Debts
    <3> QED BY <1>7, <1>8, <2>1, <3>1, <3>2, <3>3
  <2>2. CASE l # k
    BY <1>3, <1>8, <2>2 DEF GoodSync
  <2> QED BY <2>1, <2>2
<1>10. OneLatest(syncs')
  BY <1>1, <1>2, <1>8 DEF Answers, OneLatest
<1>11. Answers'
  BY <1>1, <1>2, <1>9, <1>10 DEF Answers
<1>12. Typed'
  BY <1>1, <1>2, <1>8, TypedIs DEF TypedParts, ListsOK
<1>13. Merges' /\ Debts' /\ ImportedIsShown'
  BY <1>1 DEF IInv, Merges, Debts, ImportedIsShown
<1> QED BY <1>11, <1>12, <1>13 DEF IInv

LEMMA KeepsMergeSync ==
  ASSUME IInv, NEW s \in syncs, MergeSync(s)
  PROVE  IInv'
<1> DEFINE p == s.page
           versions == [k \in Kinds |-> s.got[k].version]
<1>1. /\ UNCHANGED <<pool, version, import, delete, owed>>
      /\ Answered(s) /\ IsLatest(s) /\ syncs' = syncs \ {s}
      /\ SetList(p, MergeInto(list[p], Items(s)))
      /\ merged' = [q \in Managers |-> IF q # p THEN merged[q] ELSE versions]
      /\ synced' = [q \in Managers |-> IF q = p THEN s.latest ELSE synced[q]]
  BY DEF MergeSync, server
<1>2. Typed /\ TypedParts /\ Answers /\ Merges /\ Debts
  BY TypedHas DEF IInv
<1>3. s \in Sync /\ GoodSync(s, version, merged, owed) /\ p \in Pages
  BY <1>2 DEF TypedParts, Answers, Sync
<1>4. versions \in [Kinds -> 0..MaxChanges]
      /\ \A k \in Kinds : versions[k] <= version
  BY <1>1, <1>3 DEF Answered, Sync, Snapshot, GoodSync
<1>5. /\ Items(s) \in Lists
      /\ \A e \in Emails : \E k \in Kinds :
           e \in k /\ Items(s)[e] = s.got[k].records[e]
  BY <1>1, <1>3, ItemsAre
<1>6. /\ MergeInto(list[p], Items(s)) \in Lists
      /\ In(MergeInto(list[p], Items(s))) = In(list[p]) \cup In(Items(s))
  BY <1>2, <1>3, <1>5, ListOps DEF TypedParts, ListsOK
<1> HIDE DEF versions
<1>7. /\ ListsOK' /\ list'[p] = MergeInto(list[p], Items(s))
      /\ \A q \in Pages \ {p} : list'[q] = list[q]
  BY <1>1, <1>2, <1>3, <1>6, SetListIs
<1>8. /\ merged' \in [Managers -> [Kinds -> 0..MaxChanges] \cup {None}]
      /\ synced' \in [Managers -> BOOLEAN]
  BY <1>1, <1>2, <1>3, <1>4 DEF TypedParts, Sync
<1>9. Typed'
  BY <1>1, <1>2, <1>7, <1>8, TypedIs DEF TypedParts
<1>10. Merges' /\ Debts'
  BY <1>1, <1>2, <1>4 DEF Merges, Debts
<1>11. Answers'
  <2>1. OneLatest(syncs')
    BY <1>1, <1>2 DEF Answers, OneLatest
  <2>2. ASSUME NEW t \in syncs'
        PROVE  GoodSync(t, version', merged', owed')
    <3>1. t \in syncs /\ t # s /\ GoodSync(t, version, merged, owed)
      BY <1>1, <1>2 DEF Answers
    <3>2. CASE t.page # p
      BY <1>1, <3>1, <3>2 DEF GoodSync
    <3>3. CASE t.page = p /\ p \in Managers
      <4>1. s.latest /\ ~t.latest
        BY <1>1, <1>2, <3>1, <3>3 DEF IsLatest, Answers, OneLatest
      <4> QED BY <1>1, <3>1, <4>1 DEF GoodSync
    <3>4. CASE t.page = p /\ p \notin Managers
      BY <1>1, <3>1, <3>4 DEF GoodSync
    <3> QED BY <3>2, <3>3, <3>4
  <2> QED BY <2>1, <2>2 DEF Answers
<1>12. ImportedIsShown'
  <2> SUFFICES ASSUME NEW q \in Managers, synced'[q]
               PROVE  owed'[q] \subseteq In(list'[q])
    BY DEF ImportedIsShown, In
  <2>1. CASE q # p
    <3>1. q \in Pages /\ synced[q]
      BY <1>1, <2>1 DEF Pages
    <3> QED BY <1>1, <1>7, <2>1, <3>1 DEF IInv, ImportedIsShown
  <2>2. CASE q = p
    <3>1. s.latest
      BY <1>1, <2>2 DEF IsLatest
    <3>2. ASSUME NEW e \in owed[p]
          PROVE  Items(s)[e] # None /\ e \in Emails
      <4>1. e \in Emails
        BY <1>2, <2>2 DEF TypedParts
      <4>2. PICK k \in Kinds : e \in k /\ Items(s)[e] = s.got[k].records[e]
        BY <1>5, <4>1
      <4>3. s.got[k] # None
        BY <1>1 DEF Answered
      <4> QED BY <1>3, <2>2, <3>1, <4>1, <4>2, <4>3 DEF GoodSync
    <3>3. owed[p] \subseteq In(Items(s))
      BY <3>2 DEF In
    <3> QED BY <1>1, <1>6, <1>7, <2>2, <3>3
  <2> QED BY <2>1, <2>2
<1> QED BY <1>9, <1>10, <1>11, <1>12 DEF IInv

LEMMA KeepsDropSync ==
  ASSUME IInv, NEW s \in syncs, DropSync(s) \/ SyncFails(s)
  PROVE  IInv'
<1>1. UNCHANGED <<pool, version, list, stored, dirty, import, delete, merged,
                  owed, synced>>
      /\ syncs' \subseteq syncs
  BY DEF DropSync, SyncFails, server
<1>2. Typed /\ TypedParts /\ VersionsAre
  BY <1>1, TypedHas, SameVersion DEF IInv
<1>3. Answers' /\ \A t \in syncs' : t \in Sync
  BY <1>1, <1>2, AnswersStay DEF IInv
<1>4. Typed'
  BY <1>1, <1>2, <1>3, TypedIs DEF TypedParts, ListsOK
<1>5. Merges' /\ Debts' /\ ImportedIsShown'
  BY <1>1 DEF IInv, Merges, Debts, ImportedIsShown
<1> QED BY <1>3, <1>4, <1>5 DEF IInv

-----------------------------------------------------------------------------
(***************************************************************************)
(* Imports.                                                                *)
(***************************************************************************)
LEMMA ImportIs ==
  ASSUME Typed, NEW p \in Pages, import[p] # None
  PROVE  /\ import[p] \in Import /\ import[p].lines \in Lists
         /\ import[p].kind \in Kinds /\ import[p].todo \subseteq Kinds
         /\ import[p].done \subseteq Kinds
BY DEF Typed, Import

LEMMA FilesAreLists ==
  ASSUME NEW lines \in Files, In(lines) # {}
  PROVE  /\ lines \in Lists /\ KindsOf(lines) \subseteq Kinds
         /\ KindsOf(lines) # {}
<1>1. lines \in Lists
  BY ConstantsAssumption
<1>2. PICK e \in Emails : e \in In(lines)
  BY DEF In
<1>3. PICK k \in Kinds : e \in k
  BY <1>2, KindOfEmail
<1> QED BY <1>1, <1>2, <1>3 DEF KindsOf

\* An import moves on, and nothing else does.
LEMMA ImportMoves ==
  ASSUME IInv, import' \in [Pages -> Import \cup {None}],
         UNCHANGED <<pool, version, list, stored, dirty, syncs, delete, merged,
                     owed, synced>>
  PROVE  IInv'
<1>1. Typed /\ TypedParts /\ VersionsAre
  BY TypedHas, SameVersion DEF IInv
<1>2. Answers' /\ \A s \in syncs' : s \in Sync
  BY <1>1, AnswersStay DEF IInv
<1>3. Typed'
  BY <1>1, <1>2, TypedIs DEF TypedParts, ListsOK
<1>4. Merges' /\ Debts' /\ ImportedIsShown'
  BY DEF IInv, Merges, Debts, ImportedIsShown
<1> QED BY <1>2, <1>3, <1>4 DEF IInv

LEMMA KeepsImportMailboxes ==
  ASSUME IInv, NEW p \in Pages, NEW lines \in Files, ImportMailboxes(p, lines)
  PROVE  IInv'
<1> DEFINE kind == First(KindsOf(lines))
           todo == KindsOf(lines) \ {kind}
           row == [lines |-> lines, at |-> "send", kind |-> kind,
                   todo |-> todo, done |-> {}]
<1>1. lines \in Lists /\ KindsOf(lines) \subseteq Kinds /\ KindsOf(lines) # {}
  BY FilesAreLists DEF ImportMailboxes
<1>2. kind \in Kinds /\ todo \subseteq Kinds
  BY <1>1, FirstIsOne
<1>3. import' = [import EXCEPT ![p] = row]
  BY DEF ImportMailboxes
<1> HIDE DEF kind, todo
<1>4. row \in Import
  BY <1>1, <1>2 DEF Import
<1> HIDE DEF row
<1>5. import' \in [Pages -> Import \cup {None}]
  BY <1>3, <1>4 DEF IInv, Typed
<1> QED BY <1>5, ImportMoves DEF ImportMailboxes, server

LEMMA KeepsImportNext ==
  ASSUME IInv, NEW p \in Pages, ImportNext(p)
  PROVE  IInv'
<1> DEFINE next == First(import[p].todo)
           row == [import[p] EXCEPT !.at = "send", !.kind = next,
                     !.todo = @ \ {next}, !.done = @ \cup {import[p].kind}]
<1>1. /\ import[p] \in Import /\ import[p].kind \in Kinds
      /\ import[p].todo \subseteq Kinds /\ import[p].todo # {}
      /\ import[p].done \subseteq Kinds
  BY ImportIs DEF ImportNext, IInv
<1>2. next \in Kinds
  BY <1>1, FirstIsOne
<1>3. import' = [import EXCEPT ![p] = row]
  BY DEF ImportNext
<1> HIDE DEF next
<1>4. row \in Import
  BY <1>1, <1>2 DEF Import
<1> HIDE DEF row
<1>5. import' \in [Pages -> Import \cup {None}]
  BY <1>3, <1>4 DEF IInv, Typed
<1> QED BY <1>5, ImportMoves DEF ImportNext, server

LEMMA KeepsServerImports ==
  ASSUME IInv, NEW p \in Pages, ServerImports(p)
  PROVE  IInv'
<1> DEFINE after == AfterImport(import[p].kind, import[p].lines)
           row == [import[p] EXCEPT !.at = "taken"]
<1>1. /\ UNCHANGED <<list, stored, dirty, syncs, delete, merged, owed, synced>>
      /\ ChangePool(after) /\ import' = [import EXCEPT ![p] = row]
  BY DEF ServerImports
<1>2. Typed /\ TypedParts
  BY TypedHas DEF IInv
<1>3. import[p] \in Import /\ import[p].lines \in Lists
  BY <1>2, ImportIs DEF ServerImports
<1>4. after \in Lists /\ \A e \in Emails : pool[e] # None => after[e] # None
  BY <1>2, <1>3, ImportOps DEF TypedParts
<1>5. row \in Import
  BY <1>3 DEF Import
<1> HIDE DEF after, row
<1>6. pool' = after /\ VersionsAre /\ version' \in 0..MaxChanges
  BY <1>1, <1>2, <1>4, PoolChanges
<1>7. Answers' /\ \A s \in syncs' : s \in Sync
  BY <1>1, <1>2, <1>6, AnswersStay DEF IInv
<1>8. Typed'
  BY <1>1, <1>2, <1>4, <1>5, <1>6, <1>7, TypedIs DEF TypedParts, ListsOK
<1>9. Merges'
  BY <1>1, <1>2, <1>6, MergesStay DEF IInv
<1>10. Debts'
  BY <1>1, <1>2, <1>4, <1>6 DEF IInv, Debts, TypedParts
<1>11. ImportedIsShown'
  BY <1>1 DEF IInv, ImportedIsShown
<1> QED BY <1>7, <1>8, <1>9, <1>10, <1>11 DEF IInv

\* What an import adds to what is owed to a manager.
LEMMA OweIs ==
  ASSUME Typed, Debts, NEW p \in Pages, NEW kinds \in SUBSET Kinds,
         Owe(p, kinds), UNCHANGED pool
  PROVE  /\ owed' \in [Managers -> SUBSET Emails] /\ Debts'
         /\ \A q \in Managers \ {p} : owed'[q] = owed[q]
         /\ p \notin Managers \/ kinds = {} => owed' = owed
<1>1. owed \in [Managers -> SUBSET Emails]
  BY DEF Typed, TypeOK
<1>2. CASE p \notin Managers
  BY <1>1, <1>2 DEF Owe, Debts
<1>3. CASE p \in Managers
  <2> DEFINE new == {e \in UNION kinds : e \in In(import[p].lines)
                                         /\ pool[e] # None}
  <2>1. owed' = [owed EXCEPT ![p] = @ \cup new]
    BY <1>3 DEF Owe
  <2>2. new \subseteq Emails /\ (\A e \in new : pool[e] # None)
        /\ (kinds = {} => new = {})
    BY DEF In
  <2> HIDE DEF new
  <2>3. owed' = owed \/ kinds # {}
    BY <1>1, <2>1, <2>2
  <2> QED BY <1>1, <1>3, <2>1, <2>2, <2>3 DEF Debts
<1> QED BY <1>2, <1>3

LEMMA KeepsImportEnds ==
  ASSUME IInv, NEW p \in Pages, ImportEnds(p)
  PROVE  IInv'
<1> DEFINE kinds == import[p].done \cup {import[p].kind}
<1>1. /\ UNCHANGED <<pool, version, delete, merged>>
      /\ import[p] # None /\ import' = [import EXCEPT ![p] = None]
      /\ Owe(p, kinds)
  BY DEF ImportEnds, server
<1>2. Typed /\ TypedParts /\ VersionsAre
  BY <1>1, TypedHas, SameVersion DEF IInv
<1>3. kinds \in SUBSET Kinds /\ import[p].lines \in Lists
  BY <1>1, <1>2, ImportIs
<1> HIDE DEF kinds
<1>4. /\ owed' \in [Managers -> SUBSET Emails] /\ Debts'
      /\ \A q \in Managers \ {p} : owed'[q] = owed[q]
      /\ p \notin Managers => owed' = owed
  BY <1>1, <1>2, <1>3, OweIs DEF IInv
<1>5. /\ ListsOK' /\ \A q \in Managers \ {p} : list'[q] = list[q]
  <2>1. CASE p \in Refreshes
    BY <1>2, <2>1 DEF ImportEnds, TypedParts, ListsOK
  <2>2. CASE p \notin Refreshes
    <3>1. ImportInto(p, list[p], import[p].lines) \in Lists
      BY <1>2, <1>3, ListOps DEF TypedParts, ListsOK
    <3> QED BY <1>2, <2>2, <3>1, SetListIs DEF ImportEnds, Pages
  <2> QED BY <2>1, <2>2
<1>6. /\ Answers' /\ (\A s \in syncs' : s \in Sync)
      /\ synced' \in [Managers -> BOOLEAN]
      /\ \A q \in Managers : synced'[q] => synced[q] /\ q # p
  <2>1. CASE p \in Homes
    <3>1. UNCHANGED <<syncs, synced>> /\ p \notin Managers
      BY <2>1, ConstantsAssumption DEF ImportEnds
    <3>2. Answers' /\ \A s \in syncs' : s \in Sync
      BY <1>1, <1>2, <1>4, <3>1, AnswersStay DEF IInv
    <3> QED BY <1>2, <3>1, <3>2 DEF TypedParts
  <2>2. CASE p \notin Homes
    <3>1. BeginSync(p)
      BY <2>2 DEF ImportEnds
    <3>2. Answers' /\ \A s \in syncs' : s \in Sync
      BY <1>1, <1>2, <1>4, <3>1, AnswersBegin DEF IInv
    <3> QED BY <1>2, <3>1, <3>2, SyncedIs
  <2> QED BY <2>1, <2>2
<1>7. Typed'
  BY <1>1, <1>2, <1>4, <1>5, <1>6, TypedIs DEF TypedParts
<1>8. Merges'
  BY <1>1 DEF IInv, Merges
<1>9. ImportedIsShown'
  BY <1>4, <1>5, <1>6 DEF IInv, ImportedIsShown
<1> QED BY <1>4, <1>6, <1>7, <1>8, <1>9 DEF IInv

LEMMA KeepsImportFails ==
  ASSUME IInv, NEW p \in Pages, ImportFails(p)
  PROVE  IInv'
<1> DEFINE kinds == import[p].done
<1>1. /\ UNCHANGED <<pool, version, list, stored, dirty, delete, merged>>
      /\ import[p] # None /\ import' = [import EXCEPT ![p] = None]
      /\ Owe(p, kinds)
  BY DEF ImportFails, server
<1>2. Typed /\ TypedParts /\ VersionsAre
  BY <1>1, TypedHas, SameVersion DEF IInv
<1>3. kinds \in SUBSET Kinds
  BY <1>1, <1>2, ImportIs
<1>4. CASE p \in Managers /\ kinds # {}
  <2>1. BeginSync(p)
    BY <1>4 DEF ImportFails
  <2> HIDE DEF kinds
  <2>2. /\ owed' \in [Managers -> SUBSET Emails] /\ Debts'
        /\ \A q \in Managers \ {p} : owed'[q] = owed[q]
    BY <1>1, <1>2, <1>3, OweIs DEF IInv
  <2>3. Answers' /\ \A s \in syncs' : s \in Sync
    BY <1>1, <1>2, <2>1, <2>2, AnswersBegin DEF IInv
  <2>4. /\ synced' \in [Managers -> BOOLEAN]
        /\ \A q \in Managers : synced'[q] => synced[q] /\ q # p
    BY <1>2, <2>1, SyncedIs
  <2>5. Typed'
    BY <1>1, <1>2, <2>2, <2>3, <2>4, TypedIs DEF TypedParts, ListsOK
  <2>6. Merges'
    BY <1>1 DEF IInv, Merges
  <2>7. ImportedIsShown'
    BY <1>1, <2>2, <2>4 DEF IInv, ImportedIsShown
  <2> QED BY <2>2, <2>3, <2>5, <2>6, <2>7 DEF IInv
<1>5. CASE ~(p \in Managers /\ kinds # {})
  <2>1. UNCHANGED <<syncs, synced>>
    BY <1>5 DEF ImportFails
  <2> HIDE DEF kinds
  <2>2. owed' = owed
    BY <1>1, <1>2, <1>3, <1>5, OweIs DEF IInv
  <2>3. import' \in [Pages -> Import \cup {None}]
    BY <1>1, <1>2 DEF TypedParts
  <2> QED BY <1>1, <2>1, <2>2, <2>3, ImportMoves
<1> QED BY <1>4, <1>5

-----------------------------------------------------------------------------
(***************************************************************************)
(* Deletions, loads and saves.                                             *)
(***************************************************************************)
LEMMA KeepsDeleteMoves ==
  ASSUME IInv, NEW p \in Managers,
         (\E emails \in SUBSET Emails : DeleteAccounts(p, emails)) \/ DeleteFails(p)
  PROVE  IInv'
<1>1. /\ UNCHANGED <<pool, version, list, stored, dirty, syncs, import, merged,
                     owed, synced>>
      /\ delete' \in [Managers -> Delete \cup {None}]
  <2>1. ASSUME NEW emails \in SUBSET Emails, DeleteAccounts(p, emails)
        PROVE  delete' \in [Managers -> Delete \cup {None}]
    <3>1. [emails |-> emails, at |-> "send"] \in Delete
      BY DEF Delete
    <3> QED BY <2>1, <3>1 DEF DeleteAccounts, IInv, Typed
  <2>2. CASE DeleteFails(p)
    <3>1. delete' = [delete EXCEPT ![p] = None]
      BY <2>2 DEF DeleteFails
    <3>2. delete \in [Managers -> Delete \cup {None}]
      BY DEF IInv, Typed
    <3>3. delete' \in [Managers -> Delete \cup {None}]
      BY <3>1, <3>2
    <3> QED BY <2>2, <3>3 DEF DeleteFails, server
  <2> QED BY <2>1, <2>2 DEF DeleteAccounts, DeleteFails, server
<1>2. Typed /\ TypedParts /\ VersionsAre
  BY <1>1, TypedHas, SameVersion DEF IInv
<1>3. Answers' /\ \A s \in syncs' : s \in Sync
  BY <1>1, <1>2, AnswersStay DEF IInv
<1>4. Typed'
  BY <1>1, <1>2, <1>3, TypedIs DEF TypedParts, ListsOK
<1>5. Merges' /\ Debts' /\ ImportedIsShown'
  BY <1>1 DEF IInv, Merges, Debts, ImportedIsShown
<1> QED BY <1>3, <1>4, <1>5 DEF IInv

LEMMA KeepsServerDeletes ==
  ASSUME IInv, NEW p \in Managers, ServerDeletes(p)
  PROVE  IInv'
<1> DEFINE gone == delete[p].emails
           row == [delete[p] EXCEPT !.at = "taken"]
<1>1. /\ UNCHANGED <<list, stored, dirty, syncs, import, merged, synced>>
      /\ ChangePool(Without(pool, gone)) /\ delete' = [delete EXCEPT ![p] = row]
      /\ owed' = [q \in Managers |-> owed[q] \ gone]
  BY DEF ServerDeletes
<1>2. Typed /\ TypedParts
  BY TypedHas DEF IInv
<1>3. row \in Delete
  BY <1>2 DEF TypedParts, ServerDeletes, Delete
<1>4. Without(pool, gone) \in Lists
  BY <1>2, ListOps DEF TypedParts
<1> HIDE DEF gone, row
<1>5. pool' = Without(pool, gone) /\ VersionsAre /\ version' \in 0..MaxChanges
  BY <1>1, <1>2, <1>4, PoolChanges
<1>6. Answers' /\ \A s \in syncs' : s \in Sync
  BY <1>1, <1>2, <1>5, AnswersStay DEF IInv
<1>7. owed' \in [Managers -> SUBSET Emails]
  BY <1>1, <1>2 DEF TypedParts
<1>8. Typed'
  BY <1>1, <1>2, <1>3, <1>4, <1>5, <1>6, <1>7, TypedIs DEF TypedParts, ListsOK
<1>9. Merges'
  BY <1>1, <1>2, <1>5, MergesStay DEF IInv
<1>10. Debts'
  BY <1>1, <1>2, <1>5 DEF IInv, Debts, TypedParts, Without
<1>11. ImportedIsShown'
  BY <1>1 DEF IInv, ImportedIsShown
<1> QED BY <1>6, <1>8, <1>9, <1>10, <1>11 DEF IInv

\* A page removes mailboxes from its list; what it is owed shrinks with it.
LEMMA ListShrinks ==
  ASSUME IInv, NEW p \in Pages, NEW emails,
         SetList(p, Without(list[p], emails)),
         UNCHANGED <<pool, version, syncs, import, merged, synced>>,
         delete' \in [Managers -> Delete \cup {None}],
         owed' = [q \in Managers |-> IF q = p THEN owed[q] \ emails ELSE owed[q]]
  PROVE  IInv'
<1>1. Typed /\ TypedParts /\ VersionsAre
  BY TypedHas, SameVersion DEF IInv
<1>2. Without(list[p], emails) \in Lists
  BY <1>1, ListOps DEF TypedParts, ListsOK
<1>3. /\ ListsOK' /\ list'[p] = Without(list[p], emails)
      /\ \A q \in Pages \ {p} : list'[q] = list[q]
  BY <1>1, <1>2, SetListIs
<1>4. /\ owed' \in [Managers -> SUBSET Emails]
      /\ \A q \in Managers : owed'[q] \subseteq owed[q]
      /\ p \in Managers => owed'[p] = owed[p] \ emails
  BY <1>1 DEF TypedParts
<1>5. Answers' /\ \A s \in syncs' : s \in Sync
  BY <1>1, <1>4, AnswersStay DEF IInv
<1>6. Typed'
  BY <1>1, <1>3, <1>4, <1>5, TypedIs DEF TypedParts
<1>7. Merges' /\ Debts'
  BY <1>4 DEF IInv, Merges, Debts
<1>8. In(Without(list[p], emails)) = In(list[p]) \ emails
  BY DEF In, Without
<1>9. ImportedIsShown'
  <2> SUFFICES ASSUME NEW q \in Managers, synced[q]
               PROVE  owed'[q] \subseteq In(list'[q])
    BY DEF ImportedIsShown, In
  <2>1. owed[q] \subseteq In(list[q]) /\ q \in Pages
    BY DEF IInv, ImportedIsShown, Pages
  <2>2. CASE q = p
    BY <1>3, <1>4, <1>8, <2>1, <2>2
  <2>3. CASE q # p
    BY <1>3, <1>4, <2>1, <2>3
  <2> QED BY <2>2, <2>3
<1> QED BY <1>5, <1>6, <1>7, <1>9 DEF IInv

LEMMA KeepsDeleteEnds ==
  ASSUME IInv, NEW p \in Managers, DeleteEnds(p)
  PROVE  IInv'
<1> DEFINE emails == delete[p].emails
<1>1. p \in Pages /\ owed \in [Managers -> SUBSET Emails]
  BY DEF Pages, IInv, Typed, TypeOK
<1>2. /\ SetList(p, Without(list[p], emails))
      /\ UNCHANGED <<pool, version, syncs, import, merged, synced>>
      /\ owed' = [owed EXCEPT ![p] = @ \ emails]
  BY DEF DeleteEnds, server
<1>3. delete' \in [Managers -> Delete \cup {None}]
  BY DEF DeleteEnds, IInv, Typed
<1> HIDE DEF emails
<1>4. owed' = [q \in Managers |-> IF q = p THEN owed[q] \ emails ELSE owed[q]]
  BY <1>1, <1>2
<1> QED BY <1>1, <1>2, <1>3, <1>4, ListShrinks

LEMMA KeepsRemoveLocally ==
  ASSUME IInv, NEW p \in Homes, NEW emails \in SUBSET Emails,
         RemoveLocally(p, emails)
  PROVE  IInv'
<1>1. p \in Pages /\ p \notin Managers /\ owed \in [Managers -> SUBSET Emails]
  BY ConstantsAssumption DEF Pages, IInv, Typed, TypeOK
<1>2. owed' = [q \in Managers |-> IF q = p THEN owed[q] \ emails ELSE owed[q]]
  BY <1>1 DEF RemoveLocally
<1>3. delete' \in [Managers -> Delete \cup {None}]
  BY DEF RemoveLocally, IInv, Typed
<1> QED BY <1>1, <1>2, <1>3, ListShrinks DEF RemoveLocally, server

LEMMA KeepsLoad ==
  ASSUME IInv, NEW p \in Pages, Load(p)
  PROVE  IInv'
<1>1. /\ UNCHANGED <<pool, version, stored, owed>>
      /\ list' = [list EXCEPT ![p] = stored]
      /\ import' = [import EXCEPT ![p] = None]
      /\ syncs' = (syncs \ Of(p)) \cup {NewSync(p)}
      /\ synced' = [q \in Managers |-> synced[q] /\ q # p]
      /\ merged' = [q \in Managers |-> IF q = p THEN None ELSE merged[q]]
  BY DEF Load, server
<1>2. Typed /\ TypedParts /\ VersionsAre /\ Answers
  BY <1>1, TypedHas, SameVersion DEF IInv
<1>3. /\ ListsOK' /\ (\A q \in Managers \ {p} : list'[q] = list[q])
      /\ import' \in [Pages -> Import \cup {None}]
      /\ synced' \in [Managers -> BOOLEAN]
      /\ (\A q \in Managers : synced'[q] => synced[q] /\ q # p)
      /\ merged' \in [Managers -> [Kinds -> 0..MaxChanges] \cup {None}]
  <2>1. dirty' \in [Managers -> BOOLEAN]
    BY <1>2 DEF TypedParts, ListsOK, Load
  <2>2. /\ stored' \in Lists /\ list' \in [Pages -> Lists]
        /\ \A q \in Pages \ {p} : list'[q] = list[q]
    BY <1>1, <1>2 DEF TypedParts, ListsOK
  <2>3. \A q \in Managers : q \in Pages
    BY DEF Pages
  <2>4. import' \in [Pages -> Import \cup {None}]
    BY <1>1, <1>2 DEF TypedParts
  <2>5. /\ synced' \in [Managers -> BOOLEAN]
        /\ \A q \in Managers : synced'[q] => synced[q] /\ q # p
    BY <1>1, <1>2 DEF TypedParts
  <2>6. merged' \in [Managers -> [Kinds -> 0..MaxChanges] \cup {None}]
    BY <1>1, <1>2 DEF TypedParts
  <2> QED BY <2>1, <2>2, <2>3, <2>4, <2>5, <2>6 DEF ListsOK
<1>4. delete' \in [Managers -> Delete \cup {None}]
  BY <1>2 DEF TypedParts, Load
<1>5. \A s \in syncs' : s = NewSync(p) \/ (s \in syncs /\ s.page # p)
  BY <1>1 DEF Of
<1>6. ASSUME NEW s \in syncs'
      PROVE  s \in Sync /\ GoodSync(s, version', merged', owed')
  <2>1. CASE s = NewSync(p)
    BY <2>1, NewSyncIs
  <2>2. CASE s \in syncs /\ s.page # p
    <3>1. s \in Sync /\ GoodSync(s, version, merged, owed)
      BY <1>2, <2>2 DEF TypedParts, Answers
    <3>2. s.page \in Managers =>
            merged'[s.page] \in {merged[s.page], None}
            /\ owed'[s.page] \subseteq owed[s.page]
      BY <1>1
    <3> QED BY <1>2, <3>1, <3>2, GoodStays DEF VersionsAre
  <2> QED BY <1>5, <2>1, <2>2
<1>7. OneLatest(syncs')
  <2>1. NewSync(p).page = p
    BY NewSyncIs
  <2> QED BY <1>2, <1>5, <2>1 DEF Answers, OneLatest
<1>8. Answers'
  BY <1>6, <1>7 DEF Answers
<1>9. Typed'
  BY <1>1, <1>2, <1>3, <1>4, <1>6, TypedIs DEF TypedParts
<1>10. Merges' /\ Debts'
  BY <1>1 DEF IInv, Merges, Debts
<1>11. ImportedIsShown'
  BY <1>1, <1>3 DEF IInv, ImportedIsShown
<1> QED BY <1>8, <1>9, <1>10, <1>11 DEF IInv

LEMMA KeepsSaveList ==
  ASSUME IInv, NEW p \in Pages, SaveList(p)
  PROVE  IInv'
<1>1. UNCHANGED <<pool, version, list, syncs, import, delete, merged, owed, synced>>
  BY DEF SaveList, server
<1>2. Typed /\ TypedParts /\ VersionsAre
  BY <1>1, TypedHas, SameVersion DEF IInv
<1>3. ListsOK'
  BY <1>1, <1>2 DEF TypedParts, ListsOK, SaveList
<1>4. Answers' /\ \A s \in syncs' : s \in Sync
  BY <1>1, <1>2, AnswersStay DEF IInv
<1>5. Typed'
  BY <1>1, <1>2, <1>3, <1>4, TypedIs DEF TypedParts
<1>6. Merges' /\ Debts' /\ ImportedIsShown'
  BY <1>1 DEF IInv, Merges, Debts, ImportedIsShown
<1> QED BY <1>4, <1>5, <1>6 DEF IInv

-----------------------------------------------------------------------------
LEMMA Initially ==
  ASSUME Init
  PROVE  IInv
<1>1. NoList \in Lists
  BY DEF NoList, Lists
<1>2. Typed
  <2>1. 0 \in 0..MaxChanges
    BY ConstantsAssumption
  <2> QED BY <1>1, <2>1 DEF Init, Typed, TypeOK
<1>3. Answers /\ Merges /\ Debts /\ ImportedIsShown
  BY DEF Init, Answers, OneLatest, Merges, Debts, ImportedIsShown
<1> QED BY <1>2, <1>3 DEF IInv

LEMMA Inductive ==
  ASSUME IInv, [Next]_vars
  PROVE  IInv'
<1>1. CASE Synchronize
  BY <1>1, KeepsSyncMailboxes, KeepsServerAnswers, KeepsMergeSync,
     KeepsDropSync DEF Synchronize
<1>2. CASE Imports
  BY <1>2, KeepsImportMailboxes, KeepsServerImports, KeepsImportNext,
     KeepsImportEnds, KeepsImportFails DEF Imports
<1>3. CASE Deletes
  BY <1>3, KeepsDeleteMoves, KeepsServerDeletes, KeepsDeleteEnds,
     KeepsRemoveLocally DEF Deletes
<1>4. CASE \E p \in Pages : Load(p) \/ SaveList(p)
  BY <1>4, KeepsLoad, KeepsSaveList
<1>5. CASE UNCHANGED vars
  BY <1>5 DEF vars, server, IInv, Typed, TypeOK, Answers, Merges, Debts,
              ImportedIsShown
<1> QED BY <1>1, <1>2, <1>3, <1>4, <1>5 DEF Next

LEMMA Invariance == Spec => []IInv
<1>1. Init => IInv
  BY Initially
<1>2. IInv /\ [Next]_vars => IInv'
  BY Inductive
<1> QED BY <1>1, <1>2, PTL DEF Spec

-----------------------------------------------------------------------------
(***************************************************************************)
(* Every variable holds what server and pages may keep there: an import    *)
(* goes on with a kind it still has to send (importMailboxes of            *)
(* static/mailboxes.js), and every answer merged is one of a snapshot.     *)
(***************************************************************************)
THEOREM PagesAreTyped == Spec => []TypeOK
<1>1. IInv => TypeOK
  BY DEF IInv, Typed
<1> QED BY <1>1, Invariance, PTL

(***************************************************************************)
(* A mailbox manager whose last synchronization succeeded shows all that   *)
(* its imports brought to the server and nobody has deleted: an import     *)
(* synchronizes whenever the server has confirmed lines of it, and         *)
(* whatever was on its way before is superseded (syncRequestId).           *)
(***************************************************************************)
THEOREM ImportsAreShown == Spec => []ImportedIsShown
<1>1. IInv => ImportedIsShown
  BY DEF IInv
<1> QED BY <1>1, Invariance, PTL

(***************************************************************************)
(* No mailbox manager merges an answer that is older, of any kind of       *)
(* mailbox, than one it has merged since it was loaded (syncRequestId).    *)
(***************************************************************************)
THEOREM AnswersInOrder == Spec => SnapshotsInOrder
<1> DEFINE InOrder == \A p \in Managers :
             merged[p] # None /\ merged'[p] # None
               => \A k \in Kinds : merged[p][k] <= merged'[p][k]
<1>1. IInv /\ [Next]_vars => [InOrder]_vars
  <2> SUFFICES ASSUME IInv, [Next]_vars, NEW p \in Managers,
                      merged[p] # None, merged'[p] # None, NEW k \in Kinds
               PROVE  merged[p][k] <= merged'[p][k]
    OBVIOUS
  <2>1. merged \in [Managers -> [Kinds -> 0..MaxChanges] \cup {None}]
    BY DEF IInv, Typed, TypeOK
  <2>2. merged[p][k] \in Nat
    BY <2>1, ConstantsAssumption
  <2>3. CASE merged'[p] = merged[p]
    BY <2>2, <2>3
  <2>4. ASSUME NEW s \in syncs, MergeSync(s)
        PROVE  merged[p][k] <= merged'[p][k]
    <3>1. merged' = [q \in Managers |-> IF q # s.page THEN merged[q]
                       ELSE [l \in Kinds |-> s.got[l].version]]
      BY <2>4 DEF MergeSync
    <3>2. CASE p # s.page
      BY <2>3, <3>1, <3>2
    <3>3. CASE p = s.page
      <4>1. s.latest /\ s.got[k] # None /\ GoodSync(s, version, merged, owed)
        BY <2>4, <3>3 DEF MergeSync, IsLatest, Answered, IInv, Answers
      <4>2. merged[p][k] <= s.got[k].version
        BY <3>3, <4>1 DEF GoodSync
      <4> QED BY <3>1, <3>3, <4>2
    <3> QED BY <3>2, <3>3
  <2>5. ASSUME NEW q \in Pages, Load(q)
        PROVE  merged'[p] = merged[p]
    BY <2>5 DEF Load
  <2>6. \/ UNCHANGED merged
        \/ \E s \in syncs : MergeSync(s)
        \/ \E q \in Pages : Load(q)
    BY DEF Next, Synchronize, Imports, Deletes, SyncMailboxes, ServerAnswers,
           DropSync, SyncFails, ImportMailboxes, ServerImports, ImportNext,
           ImportEnds, ImportFails, DeleteAccounts, ServerDeletes, DeleteEnds,
           DeleteFails, RemoveLocally, SaveList, vars
  <2> QED BY <2>3, <2>4, <2>5, <2>6
<1> QED BY <1>1, Invariance, PTL DEF Spec, SnapshotsInOrder

-----------------------------------------------------------------------------
(***************************************************************************)
(* Secrets.                                                                *)
(***************************************************************************)
LEMMA MergeKeepsReal ==
  ASSUME NEW records \in Lists, NEW items \in Lists, NEW e \in Emails,
         records[e] = "real"
  PROVE  MergeInto(records, items)[e] = "real"
<1>1. items[e] \in Secret \cup {None} /\ None \notin Secret
  BY ConstantsAssumption DEF Lists
<1>2. MergeInto(records, items)[e] =
        IF items[e] = None THEN records[e]
        ELSE IF records[e] = None THEN items[e]
        ELSE PreferRealSecret(items[e], records[e])
  BY DEF MergeInto
<1>3. "real" # None
  BY <1>1 DEF Secret
<1>4. CASE items[e] = None
  BY <1>2, <1>4
<1>5. CASE items[e] # None
  <2>1. items[e] \in {"none", "masked", "real"}
    BY <1>1, <1>5 DEF Secret
  <2> QED BY <1>2, <1>3, <1>5, <2>1 DEF PreferRealSecret
<1> QED BY <1>4, <1>5

LEMMA RealStays ==
  ASSUME IInv, [Next]_vars, NEW p \in Pages, NEW e \in Emails,
         list[p][e] = "real", list'[p][e] \notin {"real", None}
  PROVE  \/ list'[p] = stored
         \/ p \in Homes /\ import[p] # None /\ import'[p] = None
<1>1. Typed /\ TypedParts /\ list \in [Pages -> Lists]
  BY TypedHas DEF IInv, TypedParts, ListsOK
<1>2. ASSUME list'[p] = list[p]
      PROVE  FALSE
  BY <1>2
<1>3. ASSUME NEW s \in syncs, MergeSync(s)
      PROVE  FALSE
  <2>1. s \in Sync /\ s.page \in Pages /\ Answered(s)
    BY <1>1, <1>3 DEF TypedParts, Sync, MergeSync
  <2>2. Items(s) \in Lists
    BY <2>1, ItemsAre
  <2>3. MergeInto(list[s.page], Items(s)) \in Lists
    BY <1>1, <2>1, <2>2, ListOps
  <2>4. /\ list'[s.page] = MergeInto(list[s.page], Items(s))
        /\ \A q \in Pages \ {s.page} : list'[q] = list[q]
    BY <1>1, <1>3, <2>1, <2>3, SetListIs DEF MergeSync
  <2>5. p = s.page
    BY <1>2, <2>4
  <2>6. list'[p][e] = "real"
    BY <1>1, <2>2, <2>4, <2>5, MergeKeepsReal
  <2> QED BY <2>6
<1>4. ASSUME NEW q \in Pages, ImportEnds(q), ~(p = q /\ p \in Homes)
      PROVE  FALSE
  <2>1. import[q].lines \in Lists
    BY <1>1, <1>4, ImportIs DEF ImportEnds
  <2>2. q \notin Refreshes
    BY <1>2, <1>4 DEF ImportEnds
  <2>3. ImportInto(q, list[q], import[q].lines) \in Lists
    BY <1>1, <2>1, ListOps
  <2>4. /\ list'[q] = ImportInto(q, list[q], import[q].lines)
        /\ \A o \in Pages \ {q} : list'[o] = list[o]
    BY <1>1, <1>4, <2>2, <2>3, SetListIs DEF ImportEnds
  <2>5. p = q /\ q \notin Homes
    BY <1>2, <1>4, <2>4
  <2>6. list'[p] = MergeInto(list[p], import[p].lines)
    BY <2>4, <2>5 DEF ImportInto
  <2>7. list'[p][e] = "real"
    BY <1>1, <2>1, <2>5, <2>6, MergeKeepsReal
  <2> QED BY <2>7
<1>5. ASSUME NEW q \in Pages, ImportEnds(q), p = q
      PROVE  import[p] # None /\ import'[p] = None
  BY <1>1, <1>5 DEF ImportEnds, TypedParts
<1>6. ASSUME NEW q \in Pages, NEW emails, SetList(q, Without(list[q], emails))
      PROVE  FALSE
  <2>1. Without(list[q], emails) \in Lists
    BY <1>1, ListOps
  <2>2. /\ list'[q] = Without(list[q], emails)
        /\ \A o \in Pages \ {q} : list'[o] = list[o]
    BY <1>1, <1>6, <2>1, SetListIs
  <2>3. p = q /\ list'[p][e] \in {None, list[p][e]}
    BY <1>2, <2>2 DEF Without
  <2> QED BY <2>3
<1>7. ASSUME NEW q \in Pages, Load(q)
      PROVE  list'[p] = stored
  BY <1>1, <1>2, <1>7 DEF Load
<1>8. \A q \in Managers : q \in Pages
  BY DEF Pages
<1>9. \A q \in Homes : q \in Pages
  BY DEF Pages
<1>10. \/ UNCHANGED list
       \/ \E s \in syncs : MergeSync(s)
       \/ \E q \in Pages : ImportEnds(q)
       \/ \E q \in Pages : Load(q)
       \/ \E q \in Managers : DeleteEnds(q)
       \/ \E q \in Homes, emails \in SUBSET Emails : RemoveLocally(q, emails)
  BY DEF Next, Synchronize, Imports, Deletes, SyncMailboxes, ServerAnswers,
         DropSync, SyncFails, ImportMailboxes, ServerImports, ImportNext,
         ImportFails, DeleteAccounts, ServerDeletes, DeleteFails, SaveList, vars
<1>11. ASSUME NEW q \in Managers, DeleteEnds(q)
       PROVE  FALSE
  BY <1>6, <1>8, <1>11 DEF DeleteEnds
<1>12. ASSUME NEW q \in Homes, NEW emails \in SUBSET Emails,
              RemoveLocally(q, emails)
       PROVE  FALSE
  BY <1>6, <1>9, <1>12 DEF RemoveLocally
<1> QED BY <1>2, <1>3, <1>4, <1>5, <1>7, <1>10, <1>11, <1>12

(***************************************************************************)
(* A masked answer never takes a real secret away from a page, nor does a  *)
(* masked line imported by the mailbox manager (preferRealSecret): the     *)
(* mailbox is removed, the page loaded, or client.js imports a line.       *)
(***************************************************************************)
THEOREM PagesKeepSecrets == Spec => RealSecretsKept
<1> DEFINE PageKeeps == \A p \in Pages, e \in Emails :
             list[p][e] = "real" /\ list'[p][e] \notin {"real", None}
               => \/ list'[p] = stored
                  \/ p \in Homes /\ import[p] # None /\ import'[p] = None
<1>1. IInv /\ [Next]_vars => [PageKeeps]_vars
  BY RealStays
<1> QED BY <1>1, Invariance, PTL DEF Spec, RealSecretsKept

(***************************************************************************)
(* The server keeps the secret of a temporary or other mailbox, whatever   *)
(* is imported for it, until the mailbox is deleted (usable_secret).       *)
(***************************************************************************)
THEOREM PoolKeepsSecrets == Spec => PoolSecretsKept
<1> DEFINE PoolKeeps == \A e \in Temp \cup Generic :
             pool[e] = "real" /\ pool'[e] # None => pool'[e] = "real"
<1>1. IInv /\ [Next]_vars => [PoolKeeps]_vars
  <2> SUFFICES ASSUME IInv, [Next]_vars, NEW e \in Temp \cup Generic,
                      pool[e] = "real", pool'[e] # None
               PROVE  pool'[e] = "real"
    OBVIOUS
  <2>1. e \in Emails /\ e \notin Microsoft
    BY ConstantsAssumption DEF Emails
  <2>2. ASSUME NEW p \in Pages, ServerImports(p)
        PROVE  pool'[e] = "real"
    <3>1. pool' = AfterImport(import[p].kind, import[p].lines)
      BY <2>2 DEF ServerImports, ChangePool
    <3>2. "real" # None
      BY ConstantsAssumption DEF Secret
    <3>3. import[p].kind = Microsoft => e \notin Taken(import[p].kind, import[p].lines)
      BY <2>1 DEF Taken
    <3> QED BY <2>1, <3>1, <3>2, <3>3 DEF AfterImport
  <2>3. ASSUME NEW p \in Managers, ServerDeletes(p)
        PROVE  pool'[e] = "real"
    <3>1. pool' = Without(pool, delete[p].emails)
      BY <2>3 DEF ServerDeletes, ChangePool
    <3> QED BY <2>1, <3>1 DEF Without
  <2>4. \/ UNCHANGED pool
        \/ \E p \in Pages : ServerImports(p)
        \/ \E p \in Managers : ServerDeletes(p)
    BY DEF Next, Synchronize, Imports, Deletes, SyncMailboxes, ServerAnswers,
           MergeSync, DropSync, SyncFails, ImportMailboxes, ImportNext,
           ImportEnds, ImportFails, DeleteAccounts, DeleteEnds, DeleteFails,
           RemoveLocally, Load, SaveList, vars, server
  <2> QED BY <2>2, <2>3, <2>4
<1> QED BY <1>1, Invariance, PTL DEF Spec, PoolSecretsKept

-----------------------------------------------------------------------------
(***************************************************************************)
(* What the pages store, send and read back: the statements of             *)
(* MailboxRecords, for every field, and of MailCredentials.                *)
(***************************************************************************)

LEMMA EmptyIsPlain ==
  /\ \A c \in {Urls, Jwts, ClientIds, Tokens, Long, Masked, Dashed, Digits} :
       "" \notin c
  /\ \A n \in Names : n \in Fields
BY FieldsAssumption DEF Names

LEMMA ClassesAreFields ==
  \A f : f \in Addresses \cup Jwts \cup ClientIds \cup Tokens \cup Digits
           => f \in Fields
BY FieldsAssumption

\* Writing into a record what it has changes nothing.
LEMMA SameRecord ==
  ASSUME NEW b \in Account
  PROVE  /\ b = [b EXCEPT !.client_id = b.client_id,
                   !.refresh_token = b.refresh_token, !.jwt = b.jwt,
                   !.site_password = b.site_password, !.mode = b.mode,
                   !.imap_host = b.imap_host, !.imap_port = b.imap_port,
                   !.pop3_port = b.pop3_port]
         /\ b = [b EXCEPT !.source = b.source, !.category = b.category]
         /\ b = [b EXCEPT !.password = b.password, !.client_id = b.client_id,
                   !.refresh_token = b.refresh_token, !.jwt = b.jwt,
                   !.base_url = b.base_url, !.category = b.category]
BY DEF Account

LEMMA SameGeneric ==
  ASSUME NEW b \in Account
  PROVE  [b EXCEPT !.source = b.source, !.jwt = b.jwt,
            !.client_id = b.client_id, !.refresh_token = b.refresh_token,
            !.site_password = b.site_password, !.base_url = b.base_url,
            !.password = b.password, !.imap_host = b.imap_host,
            !.time = b.time] = b
BY DEF Account

LEMMA NormalizedIsAccount ==
  ASSUME NEW a \in Account
  PROVE  NormalizeStoredAccount(a) \in Account
<1>1. {"", "993", "995"} \subseteq Fields
  BY EmptyIsPlain DEF Names
<1>2. CASE a.source = "generic"
  <2>1. /\ ModeOf[a.mode] \in Modes /\ Or(a.imap_host, a.base_url) \in Fields
        /\ Or(a.imap_port, "993") \in Fields
        /\ Or(a.pop3_port, "995") \in Fields
    BY <1>1, ModesAssumption DEF Account, Or
  <2> QED
    BY <1>1, <1>2, <2>1 DEF NormalizeStoredAccount, Account
<1>3. CASE a.source # "generic" /\ IsLegacyMicrosoft(a)
  <2>1. /\ Or(a.password, a.jwt) \in Fields
        /\ Or(a.client_id, a.category) \in Fields
        /\ Or(a.refresh_token, a.site_password) \in Fields
    BY DEF Account, Or
  <2> QED
    BY <1>1, <1>3, <2>1 DEF NormalizeStoredAccount, Account, Sources
<1>4. CASE a.source # "generic" /\ ~IsLegacyMicrosoft(a)
  <2>1. CategoryOf(a.category) \in Fields /\ WorkerUrl[a.base_url] \in Fields
    BY <1>1, UrlsAssumption DEF Account, CategoryOf
  <2> QED
    BY <1>1, <1>4, <2>1 DEF NormalizeStoredAccount, Account, Sources
<1> QED
  BY <1>2, <1>3, <1>4

(***************************************************************************)
(* A normalised record stays as it is: by the kind the first normalisation *)
(* gives it.                                                               *)
(***************************************************************************)
THEOREM Normalized == NormalizedStays(Account)
<1> SUFFICES ASSUME NEW a \in Account
             PROVE  NormalizeStoredAccount(NormalizeStoredAccount(a))
                      = NormalizeStoredAccount(a)
  BY DEF NormalizedStays
<1>1. "" \notin ClientIds /\ "" \notin Jwts
  BY EmptyIsPlain
<1> DEFINE b == NormalizeStoredAccount(a)
<1>b. b \in Account
  BY NormalizedIsAccount
<1>2. CASE a.source = "generic"
  <2>1. b = [a EXCEPT !.client_id = "", !.refresh_token = "", !.jwt = "",
               !.site_password = "", !.mode = ModeOf[a.mode],
               !.imap_host = Or(a.imap_host, a.base_url),
               !.imap_port = Or(a.imap_port, "993"),
               !.pop3_port = Or(a.pop3_port, "995")]
    BY <1>2 DEF NormalizeStoredAccount
  <2>2. /\ b.source = "generic" /\ b.base_url = a.base_url
        /\ b.client_id = "" /\ b.refresh_token = "" /\ b.jwt = ""
        /\ b.site_password = ""
        /\ b.mode = ModeOf[a.mode] /\ b.imap_host = Or(a.imap_host, a.base_url)
        /\ b.imap_port = Or(a.imap_port, "993")
        /\ b.pop3_port = Or(a.pop3_port, "995")
    BY <1>2, <2>1 DEF Account
  <2>3. /\ ModeOf[b.mode] = b.mode /\ Or(b.imap_host, b.base_url) = b.imap_host
        /\ Or(b.imap_port, "993") = b.imap_port
        /\ Or(b.pop3_port, "995") = b.pop3_port
    BY <2>2, ModesAssumption DEF Account, Or
  <2>4. NormalizeStoredAccount(b)
          = [b EXCEPT !.client_id = b.client_id,
               !.refresh_token = b.refresh_token, !.jwt = b.jwt,
               !.site_password = b.site_password, !.mode = b.mode,
               !.imap_host = b.imap_host, !.imap_port = b.imap_port,
               !.pop3_port = b.pop3_port]
    BY <2>2, <2>3 DEF NormalizeStoredAccount
  <2> QED
    BY <1>b, <2>4, SameRecord, Zenon
<1>3. CASE a.source # "generic" /\ IsLegacyMicrosoft(a)
  <2>1. b = [a EXCEPT !.source = "microsoft",
               !.password = Or(a.password, a.jwt),
               !.client_id = Or(a.client_id, a.category),
               !.refresh_token = Or(a.refresh_token, a.site_password),
               !.jwt = "", !.site_password = "", !.category = ""]
    BY <1>3 DEF NormalizeStoredAccount
  <2>2. b.source = "microsoft" /\ b.category = ""
    BY <2>1 DEF Account
  <2>3. NormalizeStoredAccount(b)
          = [b EXCEPT !.source = "microsoft",
                         !.category = CategoryOf(b.category)]
    BY <2>2 DEF NormalizeStoredAccount, IsLegacyMicrosoft
  <2>4. NormalizeStoredAccount(b)
          = [b EXCEPT !.source = b.source, !.category = b.category]
    BY <2>2, <2>3 DEF CategoryOf
  <2> QED
    BY <1>b, <2>4, SameRecord, Zenon
<1>4. CASE a.source # "generic" /\ ~IsLegacyMicrosoft(a)
            /\ (a.source = "microsoft" \/ HasOAuth(a))
  BY <1>4, <1>1 DEF NormalizeStoredAccount, IsLegacyMicrosoft, CategoryOf,
                      Account
<1>5. CASE a.source # "generic" /\ ~IsLegacyMicrosoft(a)
            /\ ~(a.source = "microsoft" \/ HasOAuth(a))
  <2>1. WorkerUrl[WorkerUrl[a.base_url]] = WorkerUrl[a.base_url]
    BY UrlsAssumption DEF Account
  <2>0. b = [a EXCEPT
          !.password = "", !.client_id = "", !.refresh_token = "",
          !.jwt = IF a.jwt # "" THEN a.jwt
                  ELSE IF a.password \in Jwts THEN a.password ELSE "",
          !.base_url = WorkerUrl[a.base_url],
          !.category = CategoryOf(a.category)]
    BY <1>5 DEF NormalizeStoredAccount
  <2>2. /\ b.source = a.source /\ a.source = "temp"
        /\ b.client_id = "" /\ b.refresh_token = "" /\ b.password = ""
        /\ b.base_url = WorkerUrl[a.base_url]
        /\ b.category = CategoryOf(a.category)
        /\ b.site_password = a.site_password
    BY <1>5, <2>0 DEF Account, Sources
  <2>3. ~IsLegacyMicrosoft(b)
    BY <1>5, <1>1, <2>2 DEF IsLegacyMicrosoft, CategoryOf
  <2>4. ~HasOAuth(b)
    BY <2>2 DEF HasOAuth
  <2>5. NormalizeStoredAccount(b) = [b EXCEPT
          !.password = "", !.client_id = "", !.refresh_token = "",
          !.jwt = IF b.jwt # "" THEN b.jwt
                  ELSE IF b.password \in Jwts THEN b.password ELSE "",
          !.base_url = WorkerUrl[b.base_url],
          !.category = CategoryOf(b.category)]
    BY <2>2, <2>3, <2>4 DEF NormalizeStoredAccount
  <2>6. /\ (IF b.jwt # "" THEN b.jwt
            ELSE IF b.password \in Jwts THEN b.password ELSE "") = b.jwt
        /\ WorkerUrl[b.base_url] = b.base_url
        /\ CategoryOf(b.category) = b.category
    BY <1>1, <2>1, <2>2 DEF CategoryOf
  <2>7. NormalizeStoredAccount(b) = [b EXCEPT
          !.password = b.password, !.client_id = b.client_id,
          !.refresh_token = b.refresh_token, !.jwt = b.jwt,
          !.base_url = b.base_url, !.category = b.category]
    BY <2>2, <2>5, <2>6
  <2> QED
    BY <1>b, <2>7, SameRecord, Zenon
<1> QED
  BY <1>2, <1>3, <1>4, <1>5

(***************************************************************************)
(* Merging keeps real secrets, whichever record is the better one.         *)
(***************************************************************************)
LEMMA PreferredIsReal ==
  ASSUME NEW f, NEW g, IsReal(f) \/ IsReal(g)
  PROVE  IsReal(PreferReal(f, g)) /\ IsReal(PreferReal(g, f))
BY DEF IsReal, PreferReal

THEOREM SecretsAreKept == MergeKeepsSecrets(Account)
<1> SUFFICES ASSUME NEW a \in Account, NEW b \in Account,
                    NEW m, m = MergeAccountRecords(a, b)
             PROVE  /\ IsReal(a.jwt) \/ IsReal(b.jwt) => IsReal(m.jwt)
                    /\ IsReal(a.password) \/ IsReal(b.password)
                         => IsReal(m.password)
                    /\ IsReal(a.client_id) \/ IsReal(b.client_id)
                         => IsReal(m.client_id)
                    /\ IsReal(a.refresh_token) \/ IsReal(b.refresh_token)
                         => IsReal(m.refresh_token)
                    /\ IsReal(a.site_password) \/ IsReal(b.site_password)
                         => IsReal(m.site_password)
  BY DEF MergeKeepsSecrets
<1>1. ASSUME NEW x \in Account, NEW y \in Account
      PROVE  /\ FillUp(x, y).jwt = PreferReal(x.jwt, y.jwt)
             /\ FillUp(x, y).password = PreferReal(x.password, y.password)
             /\ FillUp(x, y).client_id = PreferReal(x.client_id, y.client_id)
             /\ FillUp(x, y).refresh_token
                  = PreferReal(x.refresh_token, y.refresh_token)
             /\ FillUp(x, y).site_password
                  = PreferReal(x.site_password, y.site_password)
  BY DEF FillUp, Account
<1>2. m = FillUp(a, b) \/ m = FillUp(b, a)
  BY DEF MergeAccountRecords
<1> QED
  BY <1>1, <1>2, PreferredIsReal

-----------------------------------------------------------------------------
(***************************************************************************)
(* Lines without a part that ends with - are split where they were joined. *)
(***************************************************************************)
IsRead(line, n, first, second, third, fourth, fifth, sixth) ==
  /\ Split(line) = line /\ Len(line) = n /\ line[1] = first
  /\ Part(line, 2) = second /\ Part(line, 3) = third
  /\ Part(line, 4) = fourth /\ Part(line, 5) = fifth
  /\ Part(line, 6) = sixth

LEMMA CleanSplit ==
  ASSUME NEW line \in Seq(Fields),
         \A i \in 1..Len(line) : i < Len(line) => line[i] \notin Dashed
  PROVE  Split(line) = line
<1>1. Split(line) = [i \in 1..Len(line) |-> line[i]]
  BY DEF Split
<1> QED
  BY <1>1

LEMMA SixParts ==
  ASSUME NEW e \in Fields, NEW p \in Fields, NEW f \in Fields,
         NEW g \in Fields, NEW h \in Fields, NEW c \in Fields,
         NEW line, line = <<e, p, f, g, h, c>>,
         e \notin Dashed, p \notin Dashed, f \notin Dashed, g \notin Dashed,
         h \notin Dashed
  PROVE  IsRead(line, 6, e, p, f, g, h, c)
<1>1. line \in Seq(Fields) /\ Len(line) = 6
  OBVIOUS
<1>2. /\ line[1] = e /\ line[2] = p /\ line[3] = f /\ line[4] = g
      /\ line[5] = h /\ line[6] = c
  OBVIOUS
<1>3. Split(line) = line
  <2>1. \A i \in 1..5 : line[i] \notin Dashed
    BY <1>2
  <2>2. \A i \in 1..Len(line) : i < Len(line) => line[i] \notin Dashed
    BY <1>1, <2>1
  <2>3. line \in Seq(Fields)
    BY <1>1
  <2> QED
    BY <2>2, <2>3, CleanSplit, Zenon
<1> QED
  BY <1>1, <1>2, <1>3 DEF Part, IsRead

LEMMA FiveParts ==
  ASSUME NEW e \in Fields, NEW p \in Fields, NEW f \in Fields,
         NEW g \in Fields, NEW c \in Fields,
         NEW line, line = <<e, p, f, g, c>>,
         e \notin Dashed, p \notin Dashed, f \notin Dashed, g \notin Dashed
  PROVE  IsRead(line, 5, e, p, f, g, c, "")
<1>1. line \in Seq(Fields) /\ Len(line) = 5
  OBVIOUS
<1>2. line[1] = e /\ line[2] = p /\ line[3] = f /\ line[4] = g /\ line[5] = c
  OBVIOUS
<1>3. Split(line) = line
  <2>1. \A i \in 1..4 : line[i] \notin Dashed
    BY <1>2
  <2>2. \A i \in 1..Len(line) : i < Len(line) => line[i] \notin Dashed
    BY <1>1, <2>1
  <2>3. line \in Seq(Fields)
    BY <1>1
  <2> QED
    BY <2>2, <2>3, CleanSplit, Zenon
<1> QED
  BY <1>1, <1>2, <1>3 DEF Part, IsRead

\* Without a category, the line of another mailbox may have two parts.
LEMMA TwoParts ==
  ASSUME NEW e \in Fields, NEW p \in Fields, e \notin Dashed,
         NEW line, line = <<e, p>>
  PROVE  IsRead(line, 2, e, p, "", "", "", "")
<1>1. line \in Seq(Fields) /\ Len(line) = 2
  OBVIOUS
<1>2. line[1] = e /\ line[2] = p
  OBVIOUS
<1>3. Split(line) = line
  BY <1>1, <1>2, CleanSplit
<1> QED
  BY <1>1, <1>2, <1>3 DEF Part, IsRead

(***************************************************************************)
(* The line of a Microsoft mailbox: its kind is guessed from its third and *)
(* fourth part.                                                            *)
(***************************************************************************)
THEOREM MicrosoftLine == MicrosoftLineIsRead(Fields)
<1> SUFFICES ASSUME NEW page \in Readers,
                    NEW selected \in {"auto", "microsoft"},
                    NEW email \in Addresses, NEW password \in Fields \ Jwts,
                    NEW id \in ClientIds \ Urls, NEW token \in Tokens \cap Long,
                    NEW category \in Fields, NEW row,
                    row = MicrosoftRow(email, password, id, token, category),
                    {email, password, id, token} \cap Dashed = {}
             PROVE  ParseLine(page, MailboxCopyLine(row), selected)
                      = Kept(page, row)
  BY DEF MicrosoftLineIsRead
<1> DEFINE line == MailboxCopyLine(row)
<1>1. line = <<email, password, id, token, category>>
  BY DEF MailboxCopyLine, MicrosoftRow, Blank
<1> HIDE DEF line
<1>2. IsRead(line, 5, email, password, id, token, category, "")
  <2>1. /\ email \in Fields /\ password \in Fields /\ id \in Fields
        /\ token \in Fields
    BY ClassesAreFields
  <2> QED
    BY <1>1, <2>1, FiveParts
<1>3. SourceOf(page, line, selected) = "microsoft"
  <2>1. /\ Len(line) = 5 /\ Part(line, 2) = password /\ Part(line, 3) = id
        /\ Part(line, 4) = token
    BY <1>2 DEF IsRead
  <2>2. /\ Len(line) >= 4
        /\ id \notin Urls /\ password \notin Jwts /\ id \in ClientIds
        /\ token \in Tokens /\ token \in Long
    BY <2>1
  <2>3. ServiceForParsedParts(line) = "microsoft"
    BY <2>1, <2>2 DEF ServiceForParsedParts, LooksMicrosoft, Guess
  <2>4. DetectLineService(line) = "microsoft"
    BY <2>1, <2>2 DEF DetectLineService, LooksMicrosoft, Guess
  <2> QED
    BY <2>3, <2>4 DEF SourceOf
<1> QED
  BY <1>2, <1>3 DEF ParseLine, IsRead, line

(***************************************************************************)
(* The line of a temporary mailbox: its kind is guessed from its JWT.      *)
(***************************************************************************)
THEOREM TempLine == TempLineIsRead(Fields)
<1> SUFFICES ASSUME NEW page \in Readers, NEW selected \in {"auto", "temp"},
                    NEW email \in Addresses, NEW jwt \in Jwts,
                    NEW f \in Fields, NEW url, url = WorkerUrl[f],
                    NEW site \in Fields, NEW category \in Fields, NEW row,
                    row = TempRow(email, jwt, url, site, category),
                    {email, jwt, url, site} \cap Dashed = {}
             PROVE  ParseLine(page, MailboxCopyLine(row), selected)
                      = Kept(page, row)
  BY DEF TempLineIsRead
<1> DEFINE line == MailboxCopyLine(row)
<1>1. line = <<email, jwt, url, site, category>>
  BY DEF MailboxCopyLine, TempRow, Blank
<1>2. url \in Fields /\ WorkerUrl[url] = url
  BY UrlsAssumption
<1> HIDE DEF line
<1>3. IsRead(line, 5, email, jwt, url, site, category, "")
  <2>1. email \in Fields /\ jwt \in Fields
    BY ClassesAreFields
  <2> QED
    BY <1>1, <1>2, <2>1, FiveParts
<1>4. SourceOf(page, line, selected) = "temp"
  BY <1>3 DEF IsRead, SourceOf, ServiceForParsedParts, DetectLineService,
              LooksMicrosoft, Guess
<1>5. ParseTempParts(page, line) = row
  <2>1. /\ Len(line) = 5 /\ line[1] = email /\ Part(line, 2) = jwt
        /\ Part(line, 3) = url /\ Part(line, 4) = site
        /\ Part(line, 5) = category
    BY <1>3 DEF IsRead
  <2>2. Len(line) \notin {3, 4}
    BY <2>1
  <2> QED
    BY <1>2, <2>1, <2>2 DEF ParseTempParts
<1> QED
  BY <1>3, <1>4, <1>5 DEF ParseLine, IsRead, line

(***************************************************************************)
(* The line of another mailbox, as the two pages copy it.  Its second part *)
(* is no JWT, its fourth one a port, a mode or empty: it is not guessed to *)
(* be of another kind.                                                     *)
(***************************************************************************)
LEMMA GenericIsGuessed ==
  ASSUME NEW page, NEW line, NEW selected \in {"auto", "generic"},
         Part(line, 2) \notin Jwts,
         Part(line, 4) \in Ports \cup Modes \cup {""}
  PROVE  SourceOf(page, line, selected) = "generic"
<1>1. Part(line, 4) \notin Long \cup Tokens
  BY FieldsAssumption DEF Names, Ports
<1> QED
  BY <1>1 DEF SourceOf, ServiceForParsedParts, DetectLineService, Guess

LEMMA Plain ==
  /\ \A f \in Modes \cup Ports \cup {"", "993", "995"} :
       f \in Fields /\ f \notin Dashed
  /\ \A f \in Modes \cup {""} : f \notin Digits
  /\ ModeOf[""] = "auto"
  /\ {"993", "995"} \subseteq Ports
BY FieldsAssumption, ModesAssumption DEF Names, Ports

(***************************************************************************)
(* The line that the mailbox manager copies of another mailbox, read by any *)
(* page with the kind guessed or chosen.                                   *)
(***************************************************************************)
THEOREM CopiedLine == CopiedLineIsRead(Fields)
<1> USE DEF CopiedLineIsRead
<1> TAKE page \in Readers, selected \in {"auto", "generic"},
         email \in Addresses,
         password \in Fields \ Jwts, mode \in Modes, username \in Fields,
         host \in Fields \ Digits, port \in Ports, category \in Fields
<1> HAVE /\ {email, password, host} \cap Dashed = {}
         /\ ModeOf[host] = "auto"
<1> DEFINE row == GenericRow(email, password, username, mode, host, port,
                             category)
           line == MailboxCopyLine(row)
<1>1. port # "" /\ port \in Digits
  BY Plain DEF Ports
<1>2. line = <<email, password, host, port, mode, category>>
  BY <1>1 DEF MailboxCopyLine, GenericRow, Blank, HostOf, PortOf, Or
<1> HIDE DEF line
<1>3. IsRead(line, 6, email, password, host, port, mode, category)
  <2>1. /\ email \in Fields /\ port \in Fields /\ mode \in Fields
        /\ port \notin Dashed /\ mode \notin Dashed
    BY Plain, ClassesAreFields
  <2> QED
    BY <1>2, <2>1, SixParts
<1>4. SourceOf(page, line, selected) = "generic"
  BY <1>3, GenericIsGuessed DEF IsRead
<1>5. ModeOf[mode] = mode /\ "auto" \notin Api
  BY ModesAssumption DEF Api
<1>6. ParseGenericParts(line)
        = GenericRow(email, password, "", mode, host, port,
                     IF mode \in Api THEN category ELSE mode)
  BY <1>1, <1>3, <1>5 DEF IsRead, ParseGenericParts
<1> QED
  BY <1>3, <1>4, <1>6 DEF IsRead, ParseLine, line

(***************************************************************************)
(* The refresh page writes lines of four shapes: with a mode that is an    *)
(* interface, with a host, with a category only, and with neither.         *)
(***************************************************************************)
THEOREM PickupLine == PickupLineIsRead(Fields)
<1> USE DEF PickupLineIsRead
<1> TAKE page \in Readers, selected \in {"auto", "generic"},
         email \in Addresses,
         password \in Fields \ Jwts, mode \in Modes, username \in Fields,
         host \in Fields \ Digits, port \in Ports \cup {""}, category \in Fields
<1> HAVE /\ {email, password, username, host} \cap Dashed = {}
         /\ {ModeOf[f] : f \in {username, host, category}} = {"auto"}
         /\ mode = "luckmail" => username # "" \/ category = ""
         /\ host = "" => mode \notin {"imap", "pop3"}
<1> DEFINE row == GenericRow(email, password, username, mode, host, port,
                             category)
           name == IF mode = "luckmail" THEN username ELSE ""
           site == IF mode \in Api THEN "" ELSE host
           gate == IF mode = "auto" /\ host # "" THEN Or(port, "993") ELSE ""
           read == GenericRow(email, password, name, mode, site, gate, category)
<1>1. /\ ModeOf[username] = "auto" /\ ModeOf[host] = "auto"
      /\ ModeOf[category] = "auto" /\ ModeOf[""] = "auto"
      /\ ModeOf[mode] = mode
  BY ModesAssumption
<1>2. PickupMailboxCopyLine(row) = PickupGenericLine(row)
  BY DEF PickupMailboxCopyLine, GenericRow, Blank
<1>3. /\ row.email = email /\ row.password = password
      /\ row.mode = mode /\ row.username = username
      /\ row.category = category /\ HostOf(row) = host
      /\ mode = "auto" => PortOf(row) = Or(port, "993")
  BY DEF GenericRow, Blank, HostOf, PortOf
<1>4. email \in Fields /\ email \in Addresses
  BY FieldsAssumption
<1> DEFINE line == PickupGenericLine(row)
<1> HIDE DEF line
<1>5. SUFFICES /\ Split(line) = line /\ line[1] = email
               /\ Part(line, 2) = password
               /\ Part(line, 4) \in Ports \cup Modes \cup {""}
               /\ ParseGenericParts(line) = read
  <2> HIDE DEF read
  <2>1. SourceOf(page, line, selected) = "generic"
    BY <1>5, GenericIsGuessed
  <2> QED
    BY <1>2, <1>4, <1>5, <2>1 DEF ParseLine, line, read
<1>6. CASE mode = "luckmail" /\ username # ""
  <2>1. line = <<email, password, mode, "", username, category>>
    BY <1>3, <1>6 DEF line, PickupGenericLine, Api
  <2>2. IsRead(line, 6, email, password, mode, "", username, category)
    BY <1>4, <2>1, SixParts, Plain
  <2>3. ParseGenericParts(line) = read
    BY <1>1, <1>6, <2>2, Plain DEF IsRead, ParseGenericParts, Api
  <2> QED
    BY <2>2, <2>3 DEF IsRead
<1>7. CASE mode \in Api /\ ~(mode = "luckmail" /\ username # "")
  <2>1. line = <<email, password, mode, "", category>>
    BY <1>3, <1>7 DEF line, PickupGenericLine
  <2>2. IsRead(line, 5, email, password, mode, "", category, "")
    BY <1>4, <2>1, FiveParts, Plain
  <2>3. mode = "luckmail" => username = "" /\ category = ""
    BY <1>7
  <2>4. ParseGenericParts(line) = read
    BY <1>1, <1>7, <2>2, <2>3, Plain DEF IsRead, ParseGenericParts, Api
  <2> QED
    BY <2>2, <2>4 DEF IsRead
<1>8. CASE mode \notin Api /\ host # ""
  <2> DEFINE fourth == IF mode # "auto" THEN mode ELSE Or(port, "993")
  <2>1. line = <<email, password, host, fourth, category>>
    BY <1>3, <1>8 DEF line, PickupGenericLine
  <2>2. fourth \in Ports \cup Modes
    BY Plain DEF Or
  <2>3. fourth \in Fields /\ fourth \notin Dashed
    BY <2>2, Plain
  <2> HIDE DEF fourth
  <2>4. IsRead(line, 5, email, password, host, fourth, category, "")
    BY <1>4, <2>1, <2>3, FiveParts
  <2>5. ParseGenericParts(line) = read
    <3>1. CASE mode = "auto"
      <4>1. fourth = Or(port, "993") /\ fourth \in Digits /\ fourth # ""
        BY <3>1, Plain DEF fourth, Or, Ports
      <4> QED
        BY <1>1, <1>8, <2>4, <3>1, <4>1 DEF IsRead, ParseGenericParts, Api
    <3>2. CASE mode # "auto"
      <4>1. fourth = mode /\ fourth \notin Digits /\ fourth # ""
        BY <3>2, Plain DEF fourth, Modes, Api
      <4> QED
        BY <1>1, <1>8, <2>4, <3>2, <4>1 DEF IsRead, ParseGenericParts, Api
    <3> QED
      BY <3>1, <3>2
  <2> QED
    BY <2>2, <2>4, <2>5 DEF IsRead
<1>9. CASE mode \notin Api /\ host = "" /\ category # ""
  <2>1. line = <<email, password, "", "", category>> /\ mode = "auto"
    BY <1>3, <1>9 DEF line, PickupGenericLine, Modes
  <2>2. IsRead(line, 5, email, password, "", "", category, "")
    BY <1>4, <2>1, FiveParts, Plain
  <2>3. ParseGenericParts(line) = read
    BY <1>1, <1>9, <2>1, <2>2, Plain DEF IsRead, ParseGenericParts, Api
  <2> QED
    BY <2>2, <2>3 DEF IsRead
<1>10. CASE mode \notin Api /\ host = "" /\ category = ""
  <2>1. line = <<email, password>> /\ mode = "auto"
    BY <1>3, <1>10 DEF line, PickupGenericLine, Modes
  <2>2. IsRead(line, 2, email, password, "", "", "", "")
    BY <1>4, <2>1, TwoParts
  <2>3. ParseGenericParts(line) = read
    BY <1>1, <1>10, <2>1, <2>2, Plain DEF IsRead, ParseGenericParts, Api
  <2> QED
    BY <2>2, <2>3 DEF IsRead
<1> QED
  BY <1>6, <1>7, <1>8, <1>9, <1>10

(***************************************************************************)
(* Objects carry every field under its name.                               *)
(***************************************************************************)
THEOREM Object == ObjectIsRead(Fields)
<1> USE DEF ObjectIsRead
<1> TAKE page \in Readers, email \in Addresses, f, g, h, k \in Fields
<1>1. "" \notin Jwts
  BY EmptyIsPlain
<1>2. ASSUME g # "" \/ h # "", NEW row, row = MicrosoftRow(email, f, g, h, k)
      PROVE  StructuredRow(page, row, "", "auto") = Kept(page, row)
  <2>1. /\ row.email = email /\ row.password = f /\ row.client_id = g
        /\ row.refresh_token = h /\ row.category = k
    BY <1>2 DEF MicrosoftRow, Blank
  <2>2. DetectStructuredRowSource(row, "", "auto") = "microsoft"
    BY <1>2, <2>1, Zenon DEF DetectStructuredRowSource, Guess
  <2> QED
    BY <1>2, <2>1, <2>2 DEF StructuredRow
<1>3. ASSUME f \in Jwts, NEW row, row = TempRow(email, f, WorkerUrl[g], h, k)
      PROVE  StructuredRow(page, row, "", "auto") = Kept(page, row)
  <2>1. /\ row.email = email /\ row.jwt = f /\ row.client_id = ""
        /\ row.refresh_token = "" /\ row.site_password = h
        /\ row.base_url = WorkerUrl[g] /\ row.category = k
    BY <1>3 DEF TempRow, Blank
  <2>2. WorkerUrl[WorkerUrl[g]] = WorkerUrl[g]
    BY UrlsAssumption
  <2> QED
    BY <1>1, <1>3, <2>1, <2>2
       DEF StructuredRow, DetectStructuredRowSource, Guess, Or
<1>4. ASSUME NEW mode \in Modes, NEW row,
             row = GenericRow(email, f, g, mode, h, "", k)
      PROVE  StructuredRow(page, row, "", "auto") = Kept(page, row)
  <2>1. /\ row.client_id = "" /\ row.refresh_token = "" /\ row.jwt = ""
        /\ row.base_url = ""
    BY <1>4 DEF GenericRow, Blank
  <2>2. /\ Or(row.password, "") = row.password
        /\ Or(row.imap_host, row.base_url) = row.imap_host
    BY <2>1 DEF Or
  <2>3. row \in Account
    <3>1. {"", "993", "995"} \subseteq Fields /\ mode \in Fields
      BY FieldsAssumption DEF Names
    <3> QED
      BY <1>4, <3>1 DEF GenericRow, Blank, Account, Or, Sources, Modes, Api
  <2>4. /\ row.source = "generic" /\ row.site_password = "" /\ row.time = 0
    BY <1>4 DEF GenericRow, Blank
  <2>5. [row EXCEPT !.source = "generic", !.jwt = "", !.client_id = "",
           !.refresh_token = "", !.site_password = "", !.base_url = "",
           !.password = Or(row.password, ""),
           !.imap_host = Or(row.imap_host, row.base_url), !.time = 0]
          = row
    BY <2>1, <2>2, <2>3, <2>4, SameGeneric, Zenon
  <2>6. DetectStructuredRowSource(row, "", "auto") = "generic"
    BY <1>1, <2>1 DEF DetectStructuredRowSource, Guess, Or
  <2> QED
    BY <2>5, <2>6, Zenon DEF StructuredRow
<1> QED
  BY <1>2, <1>3, <1>4

-----------------------------------------------------------------------------
(***************************************************************************)
(* The statements of MailCredentials, for every record.                    *)
(***************************************************************************)

OneOfEach(items) == \A i, j \in items : i.source = j.source => i = j

LEMMA SentFields ==
  ASSUME NEW a \in Account, NEW page
  PROVE  /\ Sent(page, a).source = a.source
         /\ a.source = "microsoft" =>
              /\ Sent(page, a).client_id = a.client_id
              /\ Sent(page, a).refresh_token = a.refresh_token
         /\ a.source = "temp" =>
              /\ Sent(page, a).jwt = a.jwt
              /\ Sent(page, a).site_password = TempSitePassword(a)
         /\ a.source = "generic" => Sent(page, a).password = a.password
<1>1. CASE a.source = "generic"
  BY <1>1 DEF Sent, GenericAccountPayload, Blank
<1>2. CASE a.source = "temp"
  BY <1>2 DEF Sent, TempRow, Blank
<1>3. CASE a.source = "microsoft"
  BY <1>3 DEF Sent, MicrosoftRow, Blank
<1> QED
  BY <1>1, <1>2, <1>3 DEF Account, Sources

(***************************************************************************)
(* What is sent is one item of each source, like the list it is sent of.   *)
(***************************************************************************)
LEMMA SentOneOfEach ==
  ASSUME NEW rows \in Holdings(Account), NEW page, NEW part \in SUBSET rows
  PROVE  OneOfEach({Sent(page, a) : a \in part})
<1>1. \A a, b \in part : a.source = b.source => a = b
  BY DEF Holdings
<1>2. \A a \in part : Sent(page, a).source = a.source
  BY SentFields DEF Holdings
<1> QED
  BY <1>1, <1>2 DEF OneOfEach

(***************************************************************************)
(* Filling up what was sent with what is stored.                           *)
(***************************************************************************)
LEMMA HydratedIsWhole ==
  ASSUME NEW items, NEW held, NEW source,
         OneOfEach(items), OneOfEach(held)
  PROVE  Whole(items, held, source, Jobs(Hydrated(items, held), source))
<1> DEFINE taken == {s \in held :
             HasSecrets(s)
               /\ \A i \in items : i.source = s.source => ~HasSecrets(i)}
           jobs == Jobs(Hydrated(items, held), source)
<1>1. Hydrated(items, held)
        = {i \in items : \A s \in taken : s.source # i.source} \cup taken
  BY Zenon DEF Hydrated
<1> HIDE DEF taken
<1>2. taken \subseteq held
  BY DEF taken
<1>3. \A j : j \in jobs <=> /\ j \in Hydrated(items, held)
                            /\ HasSecrets(j) /\ source \in {"all", j.source}
  BY DEF Jobs
<1> HIDE DEF jobs
<1>4. jobs \subseteq items \cup held
  BY <1>1, <1>2, <1>3
<1>5. \A i, j \in jobs : i.source = j.source => i = j
  BY <1>1, <1>2, <1>3 DEF OneOfEach
<1>6. ASSUME NEW i \in items \cup held,
             HasSecrets(i), source \in {"all", i.source}
      PROVE  \E j \in jobs : j.source = i.source /\ (i \in items => j = i)
  <2>1. CASE i \in items
    <3>1. \A s \in taken : s.source # i.source
      BY <1>6, <2>1 DEF taken
    <3> QED
      BY <1>1, <1>3, <1>6, <2>1, <3>1
  <2>2. CASE i \notin items /\ i \in taken
    BY <1>1, <1>3, <1>6, <2>2
  <2>3. CASE i \notin items /\ i \notin taken
    <3>1. PICK k \in items : k.source = i.source /\ HasSecrets(k)
      BY <1>6, <2>3 DEF taken
    <3>2. \A s \in taken : s.source # k.source
      BY <3>1 DEF taken
    <3> QED
      BY <1>1, <1>3, <1>6, <2>3, <3>1, <3>2
  <2> QED
    BY <2>1, <2>2, <2>3
<1> QED
  BY <1>4, <1>5, <1>6 DEF Whole, jobs

(***************************************************************************)
(* Mail is read once for each source, with whole credentials.              *)
(***************************************************************************)
THEOREM WholeCredentials == CredentialsAreWhole(Account)
<1> SUFFICES ASSUME NEW rows \in Holdings(Account),
                    NEW held \in Holdings(Account),
                    NEW source \in Sources \cup {"all"}
             PROVE  /\ Whole(ClientPayloadForSync(rows, source), held, source,
                             SyncJobs(rows, held, source))
                    /\ Whole(LoginPayload(rows), held, "all",
                             LoginMailboxes(rows, held))
                    /\ \A page \in Readers, a \in rows :
                         Whole(MailboxFetchPayload(page, a), held, a.source,
                               VerifyJobs(page, a, held))
  BY DEF CredentialsAreWhole
<1>1. OneOfEach(held)
  BY DEF Holdings, OneOfEach
<1>2. OneOfEach(ClientPayloadForSync(rows, source))
  <2> DEFINE part == {b \in rows : source \in {"all", b.source}}
  <2>1. OneOfEach({Sent("client", a) : a \in part})
    BY SentOneOfEach
  <2> QED
    BY <2>1 DEF ClientPayloadForSync, OneOfEach
<1>3. OneOfEach(LoginPayload(rows))
  BY SentOneOfEach DEF LoginPayload
<1>4. \A page, a : OneOfEach(MailboxFetchPayload(page, a))
  BY DEF MailboxFetchPayload, OneOfEach
<1>5. Whole(ClientPayloadForSync(rows, source), held, source,
            SyncJobs(rows, held, source))
  BY <1>1, <1>2, HydratedIsWhole DEF SyncJobs
<1>6. Whole(LoginPayload(rows), held, "all", LoginMailboxes(rows, held))
  BY <1>1, <1>3, HydratedIsWhole DEF LoginMailboxes
<1>7. \A page \in Readers, a \in rows :
        Whole(MailboxFetchPayload(page, a), held, a.source,
              VerifyJobs(page, a, held))
  BY <1>1, <1>4, HydratedIsWhole DEF VerifyJobs
<1> QED
  BY <1>5, <1>6, <1>7

(***************************************************************************)
(* What is masked is not sent to a provider.                               *)
(***************************************************************************)
THEOREM HeldBack == MaskedIsHeldBack(Account)
<1> SUFFICES ASSUME NEW rows \in Holdings(Account),
                    NEW held \in Holdings(Account),
                    NEW source \in Sources \cup {"all"},
                    \A s \in held : HasSecrets(s) => IsUsable(s)
             PROVE  /\ \A j \in SyncJobs(rows, held, source) : IsUsable(j)
                    /\ \A page \in Readers, a \in rows :
                         TempSitePassword(a) \notin Masked =>
                           \A j \in VerifyJobs(page, a, held) : IsUsable(j)
  BY DEF MaskedIsHeldBack
<1>1. \A items, s : \A j \in Jobs(Hydrated(items, held), s) :
        HasSecrets(j) /\ j \in items \cup held
  BY DEF Jobs, Hydrated
<1>2. \A i \in ClientPayloadForSync(rows, source) : IsUsable(i)
  BY DEF ClientPayloadForSync
<1>3. \A j \in SyncJobs(rows, held, source) : IsUsable(j)
  BY <1>1, <1>2 DEF SyncJobs
<1>4. ASSUME NEW page \in Readers, NEW a \in rows,
             TempSitePassword(a) \notin Masked,
             NEW j \in VerifyJobs(page, a, held)
      PROVE  IsUsable(j)
  <2>1. HasSecrets(j) /\ j \in {Sent(page, a)} \cup held
    BY <1>1 DEF VerifyJobs, MailboxFetchPayload
  <2>2. CASE j \in held
    BY <2>1, <2>2
  <2>3. CASE j = Sent(page, a)
    <3>1. a \in Account
      BY DEF Holdings
    <3>2. /\ j.source = a.source
          /\ a.source = "temp" => j.site_password = TempSitePassword(a)
      BY <2>3, <3>1, SentFields
    <3> QED
      BY <1>4, <2>1, <3>2 DEF IsUsable
  <2> QED
    BY <2>1, <2>2, <2>3
<1> QED
  BY <1>3, <1>4

(***************************************************************************)
(* An address with a JWT of the worker is no longer without credentials.   *)
(***************************************************************************)
LEMMA NoSource ==
  ASSUME NEW email, NEW rows, \A a \in rows : a.source \in Sources
  PROVE  CredentialSourceForRow(email, rows) = ""
           <=> \A a \in rows : a.email # email
<1> DEFINE kinds == {a.source : a \in {b \in rows : b.email = email}}
<1>1. CredentialSourceForRow(email, rows) = ""
        <=> kinds \cap Sources = {}
  BY DEF CredentialSourceForRow, Sources
<1> QED
  BY <1>1

LEMMA JwtRow ==
  ASSUME NEW e \in Addresses, NEW jwt \in Fields, NEW url \in Fields,
         NEW site \in Fields
  PROVE  /\ NormalizeStoredAccount(NormalizeServerMailbox("refresh",
              TempRow(e, jwt, url, site, ""))).source = "temp"
         /\ NormalizeStoredAccount(NormalizeServerMailbox("refresh",
              TempRow(e, jwt, url, site, ""))).email = e
<1> SUFFICES ASSUME NEW given, given = TempRow(e, jwt, url, site, ""),
                    NEW row, row = NormalizeServerMailbox("refresh", given)
             PROVE  /\ NormalizeStoredAccount(row).source = "temp"
                    /\ NormalizeStoredAccount(row).email = e
  OBVIOUS
<1>1. /\ given.source = "temp" /\ given.email = e /\ given.jwt = jwt
      /\ given.base_url = url /\ given.site_password = site
      /\ given.category = "" /\ given.client_id = ""
  BY DEF TempRow, Blank
<1>2. row = given
  BY <1>1, Zenon DEF NormalizeServerMailbox, ServerRow
<1>3. ~IsLegacyMicrosoft(given) /\ ~HasOAuth(given)
  BY <1>1, FieldsAssumption DEF IsLegacyMicrosoft, HasOAuth, Names
<1>4. NormalizeStoredAccount(given)
        = [given EXCEPT !.password = "", !.client_id = "", !.refresh_token = "",
          !.jwt = IF given.jwt # "" THEN given.jwt
                  ELSE IF given.password \in Jwts THEN given.password ELSE "",
          !.base_url = WorkerUrl[given.base_url],
          !.category = CategoryOf(given.category)]
  BY <1>1, <1>3 DEF NormalizeStoredAccount
<1>5. given \in Account
  <2>1. {"", "993", "995"} \subseteq Fields
    BY FieldsAssumption DEF Names
  <2> QED
    BY <2>1 DEF TempRow, Blank, Account, Sources, Modes, Api
<1>6. /\ NormalizeStoredAccount(given).source = given.source
      /\ NormalizeStoredAccount(given).email = given.email
  BY <1>4, <1>5 DEF Account
<1> QED
  BY <1>1, <1>2, <1>6

(***************************************************************************)
(* The queue's temporary addresses: every JWT that arrives settles one, and *)
(* the list loses nothing.                                                 *)
(***************************************************************************)
THEOREM QueueGetsJwts == JwtsAreGiven(SUBSET Account, Addresses)
<1> SUFFICES
      ASSUME NEW rows \in SUBSET Account, NEW known \in SUBSET Addresses,
             NEW jwts \in
               [known \cap TempEmailsNeedingCredentials(Addresses, rows)
                 -> Fields \ {""}],
             \A a \in rows : NormalizeStoredAccount(a) = a
      PROVE  /\ TempEmailsNeedingCredentials(Addresses,
                  MergeTempJwtResults(jwts, rows))
                  = TempEmailsNeedingCredentials(Addresses, rows) \ known
             /\ rows \subseteq MergeTempJwtResults(jwts, rows)
  BY DEF JwtsAreGiven
<1> DEFINE needing == TempEmailsNeedingCredentials(Addresses, rows)
<1> DEFINE new == MergeTempJwtResults(jwts, rows)
           Row(e) == NormalizeServerMailbox("refresh",
                       TempRow(e, jwts[e], TempApi, SitePassword, ""))
           Normal(e) == NormalizeStoredAccount(Row(e))
           given == {Normal(e) : e \in DOMAIN jwts}
<1>1. \A a \in rows : a.source \in Sources
  BY DEF Account
<1>2. \A e \in Addresses :
        e \in needing <=> e \in TempDomains /\ \A a \in rows : a.email # e
  BY <1>1, NoSource DEF TempEmailsNeedingCredentials
<1>3. DOMAIN jwts = known \cap needing
  OBVIOUS
<1>4. \A e \in DOMAIN jwts, a \in rows : a.email # e
  BY <1>2, <1>3
<1>5. new = rows \cup given
  <2> DEFINE Known(e) == {a \in rows : a.source = "temp" /\ a.email = e}
             Got(e) == IF Known(e) = {} THEN {Normal(e)}
                       ELSE {MergeServerRow("refresh", Row(e), a) :
                               a \in Known(e)}
  <2>1. \A e \in DOMAIN jwts : Got(e) = {Normal(e)}
    BY <1>4
  <2>2. new = {NormalizeStoredAccount(a) :
                 a \in {b \in rows : \/ b.source # "temp"
                                     \/ b.email \notin DOMAIN jwts}}
              \cup UNION {Got(e) : e \in DOMAIN jwts}
    BY DEF MergeTempJwtResults
  <2>3. {NormalizeStoredAccount(a) :
           a \in {b \in rows : \/ b.source # "temp"
                               \/ b.email \notin DOMAIN jwts}}
        = rows
    BY <1>4
  <2> HIDE DEF Got, Normal, Row, new
  <2>4. UNION {Got(e) : e \in DOMAIN jwts} = given
    <3>1. \A x : x \in given <=> \E e \in DOMAIN jwts : x = Normal(e)
      OBVIOUS
    <3>2. \A x : x \in UNION {Got(e) : e \in DOMAIN jwts}
                   <=> \E e \in DOMAIN jwts : x \in Got(e)
      OBVIOUS
    <3> HIDE DEF given
    <3>3. \A e \in DOMAIN jwts : \A x : x \in Got(e) <=> x = Normal(e)
      BY <2>1
    <3>4. \A x : (\E e \in DOMAIN jwts : x \in Got(e))
                   <=> \E e \in DOMAIN jwts : x = Normal(e)
      BY <3>3, Zenon
    <3>5. \A x : x \in UNION {Got(e) : e \in DOMAIN jwts} <=> x \in given
      BY <3>1, <3>2, <3>4, Zenon
    <3> QED
      BY <3>5, Zenon
  <2> QED
    BY <2>2, <2>3, <2>4
<1>6. /\ \A e \in DOMAIN jwts :
           \E a \in given : a.source = "temp" /\ a.email = e
      /\ \A a \in given : a.source = "temp" /\ a.email \in DOMAIN jwts
  <2>1. ASSUME NEW e \in DOMAIN jwts
        PROVE  Normal(e).source = "temp" /\ Normal(e).email = e
    <3>1. e \in Addresses /\ jwts[e] \in Fields
      BY <1>3
    <3> QED
      BY <3>1, JwtRow, InputsAssumption
  <2> HIDE DEF Normal
  <2>2. \A x : x \in given <=> \E e \in DOMAIN jwts : x = Normal(e)
    OBVIOUS
  <2> HIDE DEF given
  <2>3. ASSUME NEW e \in DOMAIN jwts
        PROVE  \E a \in given : a.source = "temp" /\ a.email = e
    <3>1. Normal(e) \in given
      BY <2>2
    <3> QED
      BY <2>1, <3>1
  <2>4. ASSUME NEW a \in given
        PROVE  a.source = "temp" /\ a.email \in DOMAIN jwts
    <3>1. PICK e \in DOMAIN jwts : a = Normal(e)
      BY <2>2
    <3> QED
      BY <2>1, <3>1
  <2> QED
    BY <2>3, <2>4
<1> HIDE DEF given, new
<1>7. \A a \in new : a.source \in Sources
  BY <1>1, <1>5, <1>6 DEF Sources
<1>8. \A e \in Addresses :
        e \in TempEmailsNeedingCredentials(Addresses, new)
          <=> e \in TempDomains /\ \A a \in new : a.email # e
  BY <1>7, NoSource DEF TempEmailsNeedingCredentials
<1>9. TempEmailsNeedingCredentials(Addresses, new) = needing \ known
  <2>1. TempEmailsNeedingCredentials(Addresses, new) \subseteq Addresses
        /\ needing \subseteq Addresses
    BY DEF TempEmailsNeedingCredentials
  <2>2. \A e \in Addresses : (\A a \in new : a.email # e)
          <=> (\A a \in rows : a.email # e) /\ e \notin DOMAIN jwts
    BY <1>5, <1>6
  <2> HIDE DEF needing
  <2>3. \A e \in Addresses : e \in TempEmailsNeedingCredentials(Addresses, new)
          <=> e \in needing /\ e \notin known
    BY <1>2, <1>3, <1>8, <2>2
  <2> QED
    BY <2>1, <2>3
<1> QED
  BY <1>5, <1>9 DEF new
=============================================================================
