---------------------------- MODULE MailPageProofs ----------------------------
(***************************************************************************)
(* Proofs about MailPage: what the page shows, for any cache, filters,     *)
(* page size and clicks, however requests interleave.                      *)
(***************************************************************************)
EXTENDS MailPage, FiniteSetTheorems, TLAPS

(***************************************************************************)
(* Why a late answer cannot show: one load at most counts; it was asked by *)
(* what the inputs hold, unless a key or a load is still to come; and      *)
(* whatever it brings the server read after the page was last told.        *)
(***************************************************************************)
OneLoad == \A l, k \in loads : l = k

Asked ==
  \A l \in loads :
    ~typing /\ ~unasked => l.query = query /\ l.page = Atleast1(page)

Fresh == \A l \in loads : l.got # None => l.got.version >= told

Done ==
  \A d \in deletes : d.told # None => d.told <= version /\ d.of \subseteq removed

IInv ==
  /\ TypeOK
  /\ OneLoad
  /\ Asked
  /\ Fresh
  /\ Done
  /\ WaitsForLoad
  /\ ShownIsAsked
  /\ FetchedIsShown

-----------------------------------------------------------------------------
\* A part of the mails is counted, and not above all of them.
LEMMA Counted ==
  ASSUME NEW ms \in SUBSET Mails
  PROVE  Cardinality(ms) \in 0..Cardinality(Mails)
BY FS_Subset, FS_CardinalityType, ConstantsAssumption

LEMMA PagesType ==
  ASSUME NEW n \in Nat
  PROVE  Pages(n) \in Nat \ {0}
BY ConstantsAssumption DEF Pages, Atleast1

LEMMA Atleast1Type ==
  ASSUME NEW n \in Nat
  PROVE  /\ Atleast1(n) \in Nat \ {0}
         /\ n >= 1 => Atleast1(n) = n
         /\ Atleast1(Atleast1(n)) = Atleast1(n)
         /\ n \in 0..MaxPage => Atleast1(n) \in 1..MaxPage
BY ConstantsAssumption DEF Atleast1

LEMMA CountType ==
  ASSUME NEW s, s = None \/ s \in Shown
  PROVE  CountOf(s) \in Nat /\ Pages(CountOf(s)) \in Nat \ {0}
<1>1. CountOf(s) \in Nat
  BY FS_CardinalityType, ConstantsAssumption DEF CountOf, Shown
<1> QED BY <1>1, PagesType

LEMMA AnswerType ==
  ASSUME TypeOK, NEW l \in Load
  PROVE  AnswerTo(l) \in Answer /\ AnswerTo(l).version = version
<1>1. Found(l.query) \in SUBSET Mails
  BY DEF Found, TypeOK
<1>2. PageOf(Found(l.query), l.page) \in SUBSET Mails
  BY <1>1 DEF PageOf
<1> QED
  BY <1>1, <1>2, Counted DEF AnswerTo, Answer, TypeOK

LEMMA Rendered ==
  ASSUME NEW p \in 0..MaxPage, NEW s, s = None \/ s \in Shown, Render(p, s)
  PROVE  /\ page' \in 1..MaxPage
         /\ pager' \subseteq Buttons
         /\ p <= Pages(CountOf(s)) => page' = Atleast1(p)
<1>1. Pages(CountOf(s)) \in Nat \ {0}
  BY CountType
<1> QED BY <1>1, Atleast1Type, ConstantsAssumption DEF Render

\* A change of the cache keeps what is removed away, and makes a version.
LEMMA CacheChanges ==
  ASSUME TypeOK, NEW mails, NEW gone, SetCache(mails, gone),
         gone \subseteq Mails, mails \subseteq Mails \ gone
  PROVE  /\ cache' \subseteq Mails \ removed' /\ removed' \subseteq Mails
         /\ cache' = mails /\ removed' = gone
         /\ version' \in 0..MaxChanges /\ version <= version'
         /\ told \in 0..version'
BY DEF SetCache, TypeOK

-----------------------------------------------------------------------------
\* What a new load leaves nothing to ask of.
LEMMA LoadStarts ==
  ASSUME IInv, NEW by \in {"page", "sync"}, NEW p \in 0..MaxPage,
         query' \in Queries, StartLoad(by, query', p)
  PROVE  /\ loads' = {NewLoad(by, query', p)}
         /\ NewLoad(by, query', p) \in Load
         /\ OneLoad' /\ Asked' /\ Fresh' /\ ShownIsAsked' /\ FetchedIsShown'
         /\ page' = p /\ loading' = TRUE /\ unasked' = FALSE
         /\ failed' = failed /\ shown' = shown
         /\ loading' = (loads' # {})
         /\ (\E l \in loads' : l.by = "sync") <=> by = "sync"
<1> DEFINE new == NewLoad(by, query', p)
<1>1. /\ page' = p /\ loading' = TRUE /\ unasked' = FALSE
      /\ failed' = failed /\ shown' = shown /\ loads' = {new}
  BY DEF StartLoad, Aborted
<1>2. new \in Load /\ new.by = by /\ new.query = query' /\ new.got = None
      /\ new.page = Atleast1(p)
  BY Atleast1Type DEF NewLoad, Load
<1> HIDE DEF new
<1>3. OneLoad' /\ Asked' /\ Fresh'
  BY <1>1, <1>2 DEF OneLoad, Asked, Fresh
<1>4. ShownIsAsked' /\ FetchedIsShown'
  BY <1>1 DEF ShownIsAsked, FetchedIsShown
<1>5. loading' = (loads' # {})
  BY <1>1
<1>6. (\E l \in loads' : l.by = "sync") <=> by = "sync"
  BY <1>1, <1>2
<1> QED BY <1>1, <1>2, <1>3, <1>4, <1>5, <1>6 DEF new

\* syncMail does not wait for a load that was aborted.
LEMMA Resumed ==
  ASSUME IInv, Resume(loads)
  PROVE  /\ sync' # "loading"
         /\ sync' \in {"off", "starting", "waiting", "loading"}
         /\ sync' = "off" \/ sync' = sync
BY DEF IInv, WaitsForLoad, Resume, TypeOK

\* The page asks, having done whatever else leaves the server alone.
LEMMA PageAsks ==
  ASSUME IInv, NEW p \in 0..MaxPage,
         query' \in Queries, StartLoad("page", query', p),
         Resume(Aborted),
         UNCHANGED <<server, job>>,
         typing' \in BOOLEAN, pager' \subseteq Buttons,
         told' \in 0..version, ignored' \subseteq removed,
         deletes' \subseteq deletes
  PROVE  IInv'
<1>1. /\ loads' = {NewLoad("page", query', p)}
      /\ NewLoad("page", query', p) \in Load
      /\ OneLoad' /\ Asked' /\ Fresh' /\ ShownIsAsked' /\ FetchedIsShown'
      /\ page' = p /\ loading' = TRUE /\ unasked' = FALSE
      /\ failed' = failed /\ shown' = shown
      /\ loading' = (loads' # {})
      /\ ~ \E l \in loads' : l.by = "sync"
  BY LoadStarts
<1>2. sync' # "loading" /\ sync' \in {"off", "starting", "waiting", "loading"}
  BY Resumed DEF Aborted
<1>3. TypeOK'
  BY <1>1, <1>2 DEF IInv, TypeOK, server
<1>4. Done'
  BY DEF IInv, Done, server
<1>5. WaitsForLoad'
  BY <1>1, <1>2 DEF WaitsForLoad
<1> QED BY <1>1, <1>3, <1>4, <1>5 DEF IInv

LEMMA FilterKeeps ==
  ASSUME IInv, NEW q \in Queries, Filter(q)
  PROVE  IInv'
BY PageAsks, ConstantsAssumption DEF Filter, BeginLoad, IInv, TypeOK

LEMMA RemoveMailboxKeeps ==
  ASSUME IInv, NEW q \in Queries, RemoveMailbox(q)
  PROVE  IInv'
<1>1. page' \in 0..MaxPage /\ pager' \subseteq Buttons
  BY Rendered DEF RemoveMailbox, IInv, TypeOK
<1> QED BY <1>1, PageAsks DEF RemoveMailbox, IInv, TypeOK

LEMMA SearchKeeps ==
  ASSUME IInv, Search
  PROVE  IInv'
<1>1. 1 \in 0..MaxPage /\ StartLoad("page", query', 1)
  BY ConstantsAssumption DEF Search, BeginLoad
<1> QED BY <1>1, PageAsks DEF Search, BeginLoad, IInv, TypeOK

LEMMA TurnKeeps ==
  ASSUME IInv, NEW button \in Buttons, Turn(button)
  PROVE  IInv'
<1> DEFINE p == IF button = "prev" THEN page - 1 ELSE page + 1
<1>1. p \in 0..MaxPage /\ BeginLoad(query, p)
  BY ConstantsAssumption DEF Turn
<1> HIDE DEF p
<1> QED BY <1>1, PageAsks DEF Turn, BeginLoad, IInv, TypeOK

LEMMA DeleteAnsweredKeeps ==
  ASSUME IInv, NEW d \in deletes, DeleteAnswered(d)
  PROVE  IInv'
<1> DEFINE p == IF d.one THEN page ELSE 1
<1>1. p \in 0..MaxPage /\ BeginLoad(query, p)
  BY ConstantsAssumption DEF DeleteAnswered, IInv, TypeOK
<1>2. ignored' \subseteq removed /\ deletes' \subseteq deletes
  BY DEF DeleteAnswered, IInv, TypeOK, Done
<1>3. told' \in 0..version
  <2>1. d.told \in 0..MaxChanges /\ d.told <= version
    BY DEF DeleteAnswered, IInv, TypeOK, Done, Delete
  <2> QED BY <2>1 DEF DeleteAnswered, IInv, TypeOK
<1> HIDE DEF p
<1> QED
  BY <1>1, <1>2, <1>3, PageAsks DEF DeleteAnswered, BeginLoad, IInv, TypeOK

LEMMA SyncAnsweredKeeps ==
  ASSUME IInv, SyncAnswered
  PROVE  IInv'
<1>0. 1 \in 0..MaxPage /\ StartLoad("sync", query', 1)
  BY ConstantsAssumption DEF SyncAnswered
<1>1. /\ loads' = {NewLoad("sync", query', 1)}
      /\ NewLoad("sync", query', 1) \in Load
      /\ OneLoad' /\ Asked' /\ Fresh' /\ ShownIsAsked' /\ FetchedIsShown'
      /\ page' = 1 /\ loading' = TRUE /\ unasked' = FALSE
      /\ failed' = failed /\ shown' = shown
      /\ loading' = (loads' # {})
      /\ \E l \in loads' : l.by = "sync"
  BY <1>0, LoadStarts DEF SyncAnswered, IInv, TypeOK
<1>2. /\ sync' = "loading" /\ job' = "none" /\ told' = version
      /\ UNCHANGED <<server, query, typing, pager, ignored, deletes>>
  BY DEF SyncAnswered
<1>3. TypeOK'
  <2>1. UNCHANGED <<cache, removed, version>> /\ version \in 0..version
    BY <1>2 DEF IInv, TypeOK, server
  <2> QED BY <1>0, <1>1, <1>2, <2>1 DEF IInv, TypeOK
<1>4. Done' /\ WaitsForLoad'
  BY <1>1, <1>2 DEF IInv, Done, WaitsForLoad, server
<1> QED BY <1>1, <1>3, <1>4 DEF IInv
-----------------------------------------------------------------------------
\* A load on its way: what the server reads is fresh.
LEMMA ServerReadsKeeps ==
  ASSUME IInv, NEW l \in loads, ServerReads(l)
  PROVE  IInv'
<1> DEFINE read == [l EXCEPT !.got = AnswerTo(l)]
<1>1. /\ l.got = None /\ loads' = (loads \ {l}) \cup {read}
      /\ UNCHANGED <<cache, removed, version, query, page, unasked, loading,
                     failed, shown, pager, typing, ignored, deletes, sync, job,
                     told>>
  BY DEF ServerReads, server, view
<1>2. l \in Load /\ AnswerTo(l) \in Answer /\ AnswerTo(l).version = version
  BY AnswerType DEF IInv, TypeOK
<1>3. /\ read \in Load /\ read.got = AnswerTo(l) /\ read.query = l.query
      /\ read.page = l.page /\ read.by = l.by
  BY <1>2 DEF Load
<1> HIDE DEF read
<1>4. loads' = {read} /\ loads = {l}
  BY <1>1 DEF IInv, OneLoad
<1>5. TypeOK'
  BY <1>1, <1>3, <1>4 DEF IInv, TypeOK
<1>6. OneLoad' /\ Asked' /\ Done'
  BY <1>1, <1>3, <1>4 DEF IInv, OneLoad, Asked, Done
<1>7. Fresh'
  BY <1>1, <1>2, <1>3, <1>4 DEF IInv, TypeOK, Fresh
<1>8. WaitsForLoad'
  BY <1>1, <1>3, <1>4 DEF IInv, WaitsForLoad
<1>9. ShownIsAsked' /\ FetchedIsShown'
  BY <1>1 DEF IInv, ShownIsAsked, FetchedIsShown
<1> QED BY <1>5, <1>6, <1>7, <1>8, <1>9 DEF IInv

LEMMA ShownType ==
  ASSUME TypeOK, NEW l \in loads, l.got # None
  PROVE  /\ ShownBy(l) \in Shown
         /\ ShownBy(l).count = l.got.count
         /\ ShownBy(l).query = l.query /\ ShownBy(l).page = l.page
         /\ ShownBy(l).version = l.got.version
         /\ ShownBy(l).items \cap ignored = {}
         /\ l.got.count \in Nat /\ Pages(l.got.count) \in Nat \ {0}
<1>1. l \in Load /\ l.got \in Answer
  BY DEF TypeOK, Load
<1>2. l.got.count \in Nat
  BY <1>1, FS_CardinalityType, ConstantsAssumption DEF Answer
<1> QED BY <1>1, <1>2, PagesType DEF ShownBy, Shown, Load, Answer

LEMMA LoadContinuesKeeps ==
  ASSUME IInv, NEW l \in loads, LoadContinues(l)
  PROVE  IInv'
<1> DEFINE again == [NewLoad(l.by, query, page') EXCEPT !.again = TRUE]
<1>1. /\ l.got # None /\ page > Pages(l.got.count)
      /\ shown' = ShownBy(l) /\ page' = Pages(l.got.count)
      /\ loads' = (loads \ {l}) \cup {again}
      /\ UNCHANGED <<cache, removed, version, query, typing, unasked, loading,
                     failed, pager, ignored, deletes, sync, job, told>>
  BY DEF LoadContinues, AskAgain, server
<1>2. loads = {l} /\ loads' = {again} /\ l \in Load /\ loading = TRUE
  BY <1>1 DEF IInv, TypeOK, OneLoad, WaitsForLoad
<1>3. page' \in 1..MaxPage /\ Atleast1(page') = page'
  BY <1>1, ShownType, Atleast1Type, ConstantsAssumption DEF IInv, TypeOK
<1>4. /\ again \in Load /\ again.by = l.by /\ again.query = query
      /\ again.page = page' /\ again.got = None
  BY <1>2, <1>3 DEF NewLoad, Load, IInv, TypeOK
<1> HIDE DEF again
<1>5. TypeOK'
  BY <1>1, <1>2, <1>3, <1>4, ShownType DEF IInv, TypeOK
<1>6. OneLoad' /\ Asked' /\ Fresh' /\ Done'
  BY <1>1, <1>2, <1>3, <1>4 DEF IInv, OneLoad, Asked, Fresh, Done
<1>7. WaitsForLoad'
  BY <1>1, <1>2, <1>4 DEF IInv, WaitsForLoad
<1>8. ShownIsAsked' /\ FetchedIsShown'
  BY <1>1, <1>2 DEF ShownIsAsked, FetchedIsShown
<1> QED BY <1>5, <1>6, <1>7, <1>8 DEF IInv

\* The only load comes to its end, and syncMail with it.
LEMMA LoadOver ==
  ASSUME IInv, NEW l \in loads, loads' = loads \ {l}, loading' = FALSE,
         Resume({l})
  PROVE  /\ loads' = {}
         /\ OneLoad' /\ Asked' /\ Fresh' /\ WaitsForLoad'
         /\ sync' \in {"off", "starting", "waiting"}
<1>1. loads = {l} /\ loads' = {}
  BY DEF IInv, OneLoad
<1>2. sync' \in {"off", "starting", "waiting"}
  BY <1>1 DEF IInv, WaitsForLoad, TypeOK, Resume
<1> QED BY <1>1, <1>2 DEF OneLoad, Asked, Fresh, WaitsForLoad

LEMMA LoadEndsKeeps ==
  ASSUME IInv, NEW l \in loads, LoadEnds(l)
  PROVE  IInv'
<1>1. /\ l.got # None /\ (l.again \/ ~(page > Pages(l.got.count)))
      /\ loads' = loads \ {l} /\ shown' = ShownBy(l)
      /\ loading' = FALSE /\ failed' = FALSE
      /\ Render(page, shown')
      /\ unasked' = (unasked \/ page > Pages(shown'.count))
      /\ Resume({l})
      /\ UNCHANGED <<cache, removed, version, query, typing, ignored, deletes,
                     job, told>>
  BY DEF LoadEnds, AskAgain, server
<1>2. /\ loads' = {} /\ OneLoad' /\ Asked' /\ Fresh' /\ WaitsForLoad'
      /\ sync' \in {"off", "starting", "waiting"}
  BY <1>1, LoadOver
<1>3. /\ shown' \in Shown /\ shown'.count = l.got.count
      /\ shown'.query = l.query /\ shown'.page = l.page
      /\ shown'.version = l.got.version /\ shown'.items \cap ignored = {}
      /\ Pages(shown'.count) \in Nat \ {0}
  BY <1>1, ShownType DEF IInv
<1>4. /\ page' \in 1..MaxPage /\ pager' \subseteq Buttons
      /\ page <= Pages(CountOf(shown')) => page' = Atleast1(page)
  BY <1>1, <1>3, Rendered DEF IInv, TypeOK
<1>5. TypeOK'
  <2>1. unasked' \in BOOLEAN
    BY <1>1, Zenon
  <2>2. /\ loading' = FALSE /\ failed' = FALSE
        /\ UNCHANGED <<cache, removed, version, query, typing, ignored,
                       deletes, job, told>>
    BY <1>1
  <2>3. typing' \in BOOLEAN
    BY <2>2 DEF IInv, TypeOK
  <2>4. {typing', unasked', loading', failed'} \subseteq BOOLEAN
    BY <2>1, <2>2, <2>3
  <2>5. /\ cache' \subseteq Mails \ removed' /\ removed' \subseteq Mails
        /\ version' \in 0..MaxChanges /\ told' \in 0..version'
        /\ query' \in Queries /\ ignored' \subseteq removed'
        /\ \A d \in deletes' : d \in Delete
        /\ job' \in {"none", "running", "success", "failed"}
        /\ shown # None => shown \in Shown
    BY <2>2 DEF IInv, TypeOK
  <2> QED BY <1>2, <1>3, <1>4, <2>2, <2>4, <2>5 DEF TypeOK
<1>6. Done' /\ FetchedIsShown'
  BY <1>1, <1>3 DEF IInv, Done, Fresh, FetchedIsShown
<1>7. ShownIsAsked'
  <2> SUFFICES ASSUME ~typing', ~unasked', shown' # None
               PROVE  shown'.query = query' /\ shown'.page = page'
    BY DEF ShownIsAsked
  <2>1. l.query = query /\ l.page = Atleast1(page)
    BY <1>1 DEF IInv, Asked
  <2>2. page <= Pages(CountOf(shown'))
    <3>1. ~(page > Pages(shown'.count))
      BY <1>1, Zenon
    <3> QED BY <1>3, <3>1 DEF CountOf, IInv, TypeOK
  <2> QED BY <1>1, <1>3, <1>4, <2>1, <2>2
<1> QED BY <1>2, <1>5, <1>6, <1>7 DEF IInv

LEMMA LoadFailsKeeps ==
  ASSUME IInv, NEW l \in loads, LoadFails(l)
  PROVE  IInv'
<1>1. /\ loads' = loads \ {l} /\ loading' = FALSE /\ failed' = TRUE
      /\ Render(page, shown)
      /\ unasked' = (unasked \/ page > Pages(CountOf(shown)))
      /\ Resume({l})
      /\ UNCHANGED <<cache, removed, version, query, typing, shown, ignored,
                     deletes, job, told>>
  BY DEF LoadFails, server
<1>2. /\ loads' = {} /\ OneLoad' /\ Asked' /\ Fresh' /\ WaitsForLoad'
      /\ sync' \in {"off", "starting", "waiting"}
  BY <1>1, LoadOver
<1>3. page' \in 1..MaxPage /\ pager' \subseteq Buttons
  BY <1>1, Rendered DEF IInv, TypeOK
<1>4. TypeOK'
  <2>1. unasked' \in BOOLEAN
    BY <1>1, Zenon
  <2>2. /\ loading' = FALSE /\ failed' = TRUE
        /\ UNCHANGED <<cache, removed, version, query, typing, shown, ignored,
                       deletes, job, told>>
    BY <1>1
  <2>3. typing' \in BOOLEAN
    BY <2>2 DEF IInv, TypeOK
  <2>4. {typing', unasked', loading', failed'} \subseteq BOOLEAN
    BY <2>1, <2>2, <2>3
  <2>5. /\ cache' \subseteq Mails \ removed' /\ removed' \subseteq Mails
        /\ version' \in 0..MaxChanges /\ told' \in 0..version'
        /\ query' \in Queries /\ ignored' \subseteq removed'
        /\ \A d \in deletes' : d \in Delete
        /\ job' \in {"none", "running", "success", "failed"}
        /\ shown # None => shown \in Shown
    BY <2>2 DEF IInv, TypeOK
  <2> QED BY <1>2, <1>3, <2>2, <2>4, <2>5 DEF TypeOK
<1>5. Done' /\ ShownIsAsked' /\ FetchedIsShown'
  BY <1>1 DEF IInv, Done, ShownIsAsked, FetchedIsShown
<1> QED BY <1>2, <1>4, <1>5 DEF IInv
-----------------------------------------------------------------------------
\* What renders without loading brings the page into range, no more.
LEMMA RendersOnly ==
  ASSUME IInv, TypeOK', Done',
         NEW p \in 0..MaxPage, Render(p, shown),
         \/ p = page /\ unasked' = (unasked \/ page > Pages(CountOf(shown)))
         \/ unasked' = TRUE,
         UNCHANGED <<typing, loads, loading, failed, shown, ignored, sync,
                     told>>,
         query' = query \/ unasked' = TRUE
  PROVE  IInv'
<1>1. p <= Pages(CountOf(shown)) => page' = Atleast1(p)
  BY Rendered DEF IInv, TypeOK
<1>2. unasked' = TRUE
      \/ /\ query' = query /\ p = page /\ page <= Pages(CountOf(shown))
         /\ ~unasked
  <2>1. \/ unasked' = TRUE
        \/ ~(page > Pages(CountOf(shown))) /\ ~unasked /\ p = page
    BY Zenon
  <2>2. Pages(CountOf(shown)) \in Nat /\ page \in Nat
    BY CountType DEF IInv, TypeOK
  <2> QED BY <2>1, <2>2
<1>3. Asked'
  BY <1>1, <1>2, Atleast1Type DEF IInv, Asked, TypeOK
<1>4. ShownIsAsked'
  BY <1>1, <1>2, Atleast1Type DEF IInv, ShownIsAsked, TypeOK, Shown
<1>5. OneLoad' /\ Fresh' /\ WaitsForLoad' /\ FetchedIsShown'
  BY DEF IInv, OneLoad, Fresh, WaitsForLoad, FetchedIsShown
<1> QED BY <1>3, <1>4, <1>5 DEF IInv

LEMMA SelectMailKeeps ==
  ASSUME IInv, SelectMail
  PROVE  IInv'
<1>1. /\ shown # None /\ Render(page, shown)
      /\ unasked' = (unasked \/ page > Pages(CountOf(shown)))
      /\ UNCHANGED <<cache, removed, version, query, typing, loads, loading,
                     failed, shown, ignored, deletes, sync, job, told>>
  BY DEF SelectMail, server, CountOf
<1>2. page \in 0..MaxPage /\ page' \in 0..MaxPage /\ pager' \subseteq Buttons
      /\ unasked' \in BOOLEAN
  <2>1. unasked' \in BOOLEAN
    BY <1>1, Zenon
  <2> QED BY <1>1, <2>1, Rendered DEF IInv, TypeOK
<1>3. TypeOK' /\ Done'
  BY <1>1, <1>2 DEF IInv, TypeOK, Done
<1> QED BY <1>1, <1>2, <1>3, RendersOnly

LEMMA DeleteCategoryKeeps ==
  ASSUME IInv, NEW q \in Queries, DeleteCategory(q)
  PROVE  IInv'
<1>1. /\ query' = q /\ Render(1, shown) /\ unasked' = TRUE
      /\ UNCHANGED <<cache, removed, version, typing, loads, loading, failed,
                     shown, ignored, deletes, sync, job, told>>
  BY DEF DeleteCategory, server
<1>2. 1 \in 0..MaxPage /\ page' \in 0..MaxPage /\ pager' \subseteq Buttons
  BY <1>1, Rendered, ConstantsAssumption DEF IInv, TypeOK
<1>3. TypeOK' /\ Done'
  BY <1>1, <1>2 DEF IInv, TypeOK, Done
<1> QED BY <1>1, <1>2, <1>3, RendersOnly

LEMMA ClearLocalKeeps ==
  ASSUME IInv, NEW q \in Queries, ClearLocal(q)
  PROVE  IInv'
<1>1. /\ query' = q /\ shown' = None /\ Render(page, None) /\ unasked' = TRUE
      /\ UNCHANGED <<cache, removed, version, typing, loads, loading, failed,
                     ignored, deletes, sync, job, told>>
  BY DEF ClearLocal, server
<1>2. page' \in 0..MaxPage /\ pager' \subseteq Buttons
  BY <1>1, Rendered DEF IInv, TypeOK
<1>3. TypeOK'
  BY <1>1, <1>2 DEF IInv, TypeOK
<1>4. /\ OneLoad' /\ Asked' /\ Fresh' /\ Done' /\ WaitsForLoad'
      /\ ShownIsAsked' /\ FetchedIsShown'
  BY <1>1 DEF IInv, OneLoad, Asked, Fresh, Done, WaitsForLoad, ShownIsAsked,
              FetchedIsShown
<1> QED BY <1>3, <1>4 DEF IInv

LEMMA TypeKeeps ==
  ASSUME IInv, NEW q \in Queries, Type(q)
  PROVE  IInv'
<1>1. /\ query' = q /\ typing' = TRUE
      /\ UNCHANGED <<cache, removed, version, page, unasked, loading, failed,
                     shown, pager, loads, ignored, deletes, sync, job, told>>
  BY DEF Type, server, view
<1>2. TypeOK'
  BY <1>1 DEF IInv, TypeOK
<1>3. /\ OneLoad' /\ Asked' /\ Fresh' /\ Done' /\ WaitsForLoad'
      /\ ShownIsAsked' /\ FetchedIsShown'
  BY <1>1 DEF IInv, OneLoad, Asked, Fresh, Done, WaitsForLoad, ShownIsAsked,
              FetchedIsShown
<1> QED BY <1>2, <1>3 DEF IInv

LEMMA ReloadKeeps ==
  ASSUME IInv, NEW q \in Queries, NEW keys \in SUBSET ignored, Reload(q, keys)
  PROVE  IInv'
<1>1. 1 \in 0..MaxPage /\ 0 \in 0..version /\ Atleast1(1) = 1
  BY ConstantsAssumption DEF IInv, TypeOK, Atleast1
<1>2. /\ query' = q /\ page' = 1 /\ loads' = {NewLoad("page", q, 1)}
      /\ loading' = TRUE /\ ignored' = keys /\ shown' = None /\ pager' = {}
      /\ typing' = FALSE /\ unasked' = FALSE /\ failed' = FALSE
      /\ deletes' = {} /\ sync' = "off" /\ job' = "none" /\ told' = 0
      /\ UNCHANGED <<cache, removed, version>>
  BY DEF Reload, server
<1> DEFINE new == NewLoad("page", q, 1)
<1>3. /\ new \in Load /\ new.by = "page" /\ new.query = q /\ new.page = 1
      /\ new.got = None
  BY <1>1, ConstantsAssumption DEF NewLoad, Load
<1> HIDE DEF new
<1>4. loads' = {new}
  BY <1>2 DEF new
<1>5. TypeOK'
  BY <1>1, <1>2, <1>3, <1>4 DEF IInv, TypeOK
<1>6. /\ OneLoad' /\ Asked' /\ Fresh' /\ Done' /\ WaitsForLoad'
      /\ ShownIsAsked' /\ FetchedIsShown'
  BY <1>1, <1>2, <1>3, <1>4
     DEF OneLoad, Asked, Fresh, Done, WaitsForLoad, ShownIsAsked,
         FetchedIsShown
<1> QED BY <1>5, <1>6 DEF IInv
-----------------------------------------------------------------------------
\* What neither loads nor renders: the server's steps and what is sent to it.
LEMMA ShowsTheSame ==
  ASSUME IInv, TypeOK', Done',
         UNCHANGED <<query, page, unasked, loading, failed, shown, pager,
                     typing, loads, ignored, told>>,
         sync' = sync \/ "loading" \notin {sync, sync'}
  PROVE  IInv'
BY DEF IInv, OneLoad, Asked, Fresh, WaitsForLoad, ShownIsAsked, FetchedIsShown

LEMMA SendDeleteKeeps ==
  ASSUME IInv, NEW d \in Delete, d.told = None, SendDelete(d)
  PROVE  IInv'
<1>1. TypeOK' /\ Done'
  BY DEF SendDelete, server, view, IInv, TypeOK, Done
<1> QED BY <1>1, ShowsTheSame DEF SendDelete, view

LEMMA ServerDeletesKeeps ==
  ASSUME IInv, NEW d \in deletes, ServerDeletes(d)
  PROVE  IInv'
<1> DEFINE gone == IF d.one THEN d.of ELSE cache \cap d.of
           told1 == [d EXCEPT !.of = gone, !.told = version']
<1>1. /\ SetCache(cache \ gone, removed \cup gone)
      /\ deletes' = (deletes \ {d}) \cup {told1}
      /\ UNCHANGED <<query, page, unasked, loading, failed, shown, pager,
                     typing, loads, ignored, sync, job, told>>
  BY DEF ServerDeletes, view
<1>2. d \in Delete /\ gone \subseteq Mails
  BY DEF IInv, TypeOK, Delete
<1> HIDE DEF gone
<1>3. /\ cache' \subseteq Mails \ removed' /\ removed' \subseteq Mails
      /\ removed' = removed \cup gone
      /\ version' \in 0..MaxChanges /\ version <= version'
      /\ told \in 0..version'
  BY <1>1, <1>2, CacheChanges DEF IInv, TypeOK
<1>4. /\ told1 \in Delete /\ told1.of = gone /\ told1.told = version'
  BY <1>2, <1>3 DEF Delete
<1> HIDE DEF told1
<1>5. TypeOK'
  BY <1>1, <1>3, <1>4 DEF IInv, TypeOK
<1>6. Done'
  BY <1>1, <1>3, <1>4 DEF IInv, TypeOK, Done, Delete
<1> QED BY <1>1, <1>5, <1>6, ShowsTheSame

LEMMA DeleteFailsKeeps ==
  ASSUME IInv, NEW d \in deletes, DeleteFails(d)
  PROVE  IInv'
<1>1. /\ deletes' = deletes \ {d}
      /\ UNCHANGED <<cache, removed, version, query, typing, loads, loading,
                     failed, shown, ignored, sync, job, told>>
  BY DEF DeleteFails, server
<1>2. CASE d.one
  <2>1. UNCHANGED <<page, pager, unasked>>
    BY <1>2 DEF DeleteFails
  <2>2. TypeOK' /\ Done'
    BY <1>1, <2>1 DEF IInv, TypeOK, Done
  <2> QED BY <1>1, <2>1, <2>2, ShowsTheSame
<1>3. CASE ~d.one
  <2>1. /\ Render(page, shown)
        /\ unasked' = (unasked \/ page > Pages(CountOf(shown)))
    BY <1>3 DEF DeleteFails
  <2>2. unasked' \in BOOLEAN
    BY <2>1, Zenon
  <2>3. page \in 0..MaxPage /\ page' \in 0..MaxPage /\ pager' \subseteq Buttons
    BY <2>1, Rendered DEF IInv, TypeOK
  <2>4. TypeOK' /\ Done'
    BY <1>1, <2>2, <2>3 DEF IInv, TypeOK, Done
  <2> QED BY <1>1, <2>1, <2>3, <2>4, RendersOnly
<1> QED BY <1>2, <1>3

\* The server takes in mail that it was never told to delete.
LEMMA CacheGrows ==
  ASSUME IInv, NEW new, new \subseteq Mails \ (cache \cup removed),
         SetCache(cache \cup new, removed)
  PROVE  /\ cache' \subseteq Mails \ removed' /\ removed' = removed
         /\ version' \in 0..MaxChanges /\ version <= version'
         /\ told \in 0..version'
BY CacheChanges DEF IInv, TypeOK

LEMMA OthersChangeKeeps ==
  ASSUME IInv, NEW m \in Mails, OthersChange(m)
  PROVE  IInv'
<1>1. UNCHANGED <<query, page, unasked, loading, failed, shown, pager, typing,
                  loads, ignored, deletes, sync, job, told>>
  BY DEF OthersChange, view
<1>2. /\ cache' \subseteq Mails \ removed' /\ removed' \subseteq Mails
      /\ removed \subseteq removed'
      /\ version' \in 0..MaxChanges /\ version <= version'
      /\ told \in 0..version'
  <2>1. CASE m \in cache /\ SetCache(cache \ {m}, removed \cup {m})
    BY <2>1, CacheChanges DEF IInv, TypeOK
  <2>2. CASE m \in Mails \ (cache \cup removed)
             /\ SetCache(cache \cup {m}, removed)
    BY <2>2, CacheGrows DEF IInv, TypeOK
  <2> QED BY <2>1, <2>2 DEF OthersChange
<1>3. TypeOK'
  BY <1>1, <1>2 DEF IInv, TypeOK
<1>4. Done'
  BY <1>1, <1>2 DEF IInv, TypeOK, Done, Delete
<1> QED BY <1>1, <1>3, <1>4, ShowsTheSame

LEMMA JobEndsKeeps ==
  ASSUME IInv, JobEnds
  PROVE  IInv'
<1>1. /\ job' \in {"success", "failed"}
      /\ UNCHANGED <<query, page, unasked, loading, failed, shown, pager,
                     typing, loads, ignored, deletes, sync, told>>
  BY DEF JobEnds, view
<1>2. /\ cache' \subseteq Mails \ removed' /\ removed' = removed
      /\ version' \in 0..MaxChanges /\ version <= version'
      /\ told \in 0..version'
  <2>1. CASE UNCHANGED server
    BY <2>1 DEF server, IInv, TypeOK
  <2>2. CASE \E new \in SUBSET (Mails \ (cache \cup removed)) :
               SetCache(cache \cup new, removed)
    BY <2>2, CacheGrows
  <2> QED BY <2>1, <2>2 DEF JobEnds
<1>3. TypeOK'
  BY <1>1, <1>2 DEF IInv, TypeOK
<1>4. Done'
  BY <1>1, <1>2 DEF IInv, TypeOK, Done, Delete
<1> QED BY <1>1, <1>3, <1>4, ShowsTheSame

LEMMA SyncStepsKeep ==
  ASSUME IInv, SyncMail \/ SyncStarted \/ SyncFails
  PROVE  IInv'
<1>1. /\ sync # "loading" /\ sync' \in {"off", "starting", "waiting"}
      /\ job' \in {"none", "running"}
      /\ UNCHANGED <<cache, removed, version, query, page, unasked, loading,
                     failed, shown, pager, typing, loads, ignored, deletes,
                     told>>
  BY DEF SyncMail, SyncStarted, SyncFails, server, view
<1>2. TypeOK' /\ Done'
  BY <1>1 DEF IInv, TypeOK, Done
<1> QED BY <1>1, <1>2, ShowsTheSame
-----------------------------------------------------------------------------
LEMMA InitIInv == Init => IInv
<1> SUFFICES ASSUME Init PROVE IInv
  OBVIOUS
<1> DEFINE new == NewLoad("page", query, 1)
<1>1. /\ cache \in SUBSET Mails /\ removed = {} /\ version = 0
      /\ query \in Queries /\ page = 1 /\ loads = {new} /\ loading = TRUE
      /\ typing = FALSE /\ unasked = FALSE /\ failed = FALSE /\ shown = None
      /\ pager = {} /\ ignored = {} /\ deletes = {} /\ sync = "off"
      /\ job = "none" /\ told = 0
  BY ConstantsAssumption DEF Init
<1>2. /\ new \in Load /\ new.by = "page" /\ new.query = query /\ new.page = 1
      /\ new.got = None /\ Atleast1(1) = 1 /\ 1 \in 0..MaxPage
      /\ 0 \in 0..MaxChanges /\ 0 \in 0..0
  BY <1>1, ConstantsAssumption DEF NewLoad, Load, Atleast1
<1> HIDE DEF new
<1>3. TypeOK
  BY <1>1, <1>2 DEF TypeOK
<1>4. /\ OneLoad /\ Asked /\ Fresh /\ Done /\ WaitsForLoad
      /\ ShownIsAsked /\ FetchedIsShown
  BY <1>1, <1>2 DEF OneLoad, Asked, Fresh, Done, WaitsForLoad, ShownIsAsked,
                    FetchedIsShown
<1> QED BY <1>3, <1>4 DEF IInv

LEMMA UserKeepsIInv ==
  ASSUME IInv, User
  PROVE  IInv'
<1>1. CASE \E q \in Queries : Filter(q) \/ RemoveMailbox(q) \/ Type(q)
                              \/ DeleteCategory(q) \/ ClearLocal(q)
  BY <1>1, FilterKeeps, RemoveMailboxKeeps, TypeKeeps, DeleteCategoryKeeps,
     ClearLocalKeeps
<1>2. CASE \E b \in Buttons : Turn(b)
  BY <1>2, TurnKeeps
<1>3. CASE SelectMail \/ SyncMail
  BY <1>3, SelectMailKeeps, SyncStepsKeep
<1>4. ASSUME NEW m \in Mails, DeleteMessage(m)
      PROVE  IInv'
  <2> DEFINE d == [of |-> {m}, one |-> TRUE, told |-> None]
  <2>1. d \in Delete /\ d.told = None
    BY DEF Delete
  <2> HIDE DEF d
  <2> QED BY <1>4, <2>1, SendDeleteKeeps DEF DeleteMessage, d
<1>5. ASSUME NEW t \in Ticked, DeleteFilteredMessages(t)
      PROVE  IInv'
  <2> DEFINE d == [of |-> Matches[query] \cap t, one |-> FALSE, told |-> None]
  <2>1. d \in Delete /\ d.told = None
    BY ConstantsAssumption DEF Delete, IInv, TypeOK
  <2> HIDE DEF d
  <2> QED BY <1>5, <2>1, SendDeleteKeeps DEF DeleteFilteredMessages, d
<1>6. CASE \E q \in Queries, keys \in SUBSET ignored : Reload(q, keys)
  BY <1>6, ReloadKeeps
<1> QED BY <1>1, <1>2, <1>3, <1>4, <1>5, <1>6 DEF User

LEMMA NextKeepsIInv == IInv /\ [Next]_vars => IInv'
<1> SUFFICES ASSUME IInv, [Next]_vars PROVE IInv'
  OBVIOUS
<1>1. CASE User \/ Search
  BY <1>1, UserKeepsIInv, SearchKeeps
<1>2. CASE \E l \in loads : ServerReads(l) \/ LoadContinues(l) \/ LoadEnds(l)
                            \/ LoadFails(l)
  BY <1>2, ServerReadsKeeps, LoadContinuesKeeps, LoadEndsKeeps, LoadFailsKeeps
<1>3. CASE SyncStarted \/ JobEnds \/ SyncAnswered \/ SyncFails
  BY <1>3, SyncStepsKeep, JobEndsKeeps, SyncAnsweredKeeps
<1>4. CASE \E d \in deletes : ServerDeletes(d) \/ DeleteAnswered(d)
                              \/ DeleteFails(d)
  BY <1>4, ServerDeletesKeeps, DeleteAnsweredKeeps, DeleteFailsKeeps
<1>5. CASE \E m \in Mails : OthersChange(m)
  BY <1>5, OthersChangeKeeps
<1>6. CASE UNCHANGED vars
  BY <1>6 DEF vars, IInv, TypeOK, OneLoad, Asked, Fresh, Done, WaitsForLoad,
              ShownIsAsked, FetchedIsShown
<1> QED BY <1>1, <1>2, <1>3, <1>4, <1>5, <1>6 DEF Next

LEMMA Invariance == Spec => []IInv
BY InitIInv, NextKeepsIInv, PTL DEF Spec

(***************************************************************************)
(* Page and server keep what they may keep, whatever is clicked: the cache *)
(* takes no deleted mail back, and the page hides none but deleted mail.   *)
(***************************************************************************)
THEOREM PageIsTyped == Spec => []TypeOK
<1>1. IInv => TypeOK
  BY DEF IInv
<1> QED BY <1>1, Invariance, PTL

(***************************************************************************)
(* What the page shows was asked by its inputs, in whichever order the     *)
(* answers come: a load that counts is the one for the query and the page  *)
(* of the moment.                                                          *)
(***************************************************************************)
THEOREM WhatIsShownWasAsked == Spec => []ShownIsAsked
<1>1. IInv => ShownIsAsked
  BY DEF IInv
<1> QED BY <1>1, Invariance, PTL

(***************************************************************************)
(* After a fetch or a deletion the page was told of, it shows an answer    *)
(* the server gave since: a load that began before does not hide it.       *)
(***************************************************************************)
THEOREM FetchedMailIsShown == Spec => []FetchedIsShown
<1>1. IInv => FetchedIsShown
  BY DEF IInv
<1> QED BY <1>1, Invariance, PTL

(***************************************************************************)
(* The page shows that it waits exactly while a load that counts is on its *)
(* way: no superseded, failed or aborted load leaves it waiting.           *)
(***************************************************************************)
THEOREM WaitingEndsWithTheLoad == Spec => []WaitsForLoad
<1>1. IInv => WaitsForLoad
  BY DEF IInv
<1> QED BY <1>1, Invariance, PTL
=============================================================================
