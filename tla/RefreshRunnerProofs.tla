-------------------------- MODULE RefreshRunnerProofs --------------------------
(***************************************************************************)
(* Proofs about the refresh page, in two parts.                            *)
(*                                                                         *)
(* The runner (RefreshRunner), for any number of rows, workers, jobs and   *)
(* exits: type correctness, that a row has one worker, that a success that *)
(* is shown was earned, that the exits of a run are distinct, that no row  *)
(* that waits or runs is forgotten, and that a cancel holds.               *)
(*                                                                         *)
(* The queue and the lists of mailboxes (MailboxLists), for queues and     *)
(* lists of any length.  What a whole selection does to a queue is a fold  *)
(* over it and is left to TLC; here is what each step of it does.          *)
(***************************************************************************)
EXTENDS RefreshRunner, MailboxLists, TLAPS

(***************************************************************************)
(* What the page knows travels in copies: the row object, the view of the  *)
(* row, the views and answers the actors hold across their awaits.  Each   *)
(* belongs to one row, names a job of that row, and claims a success only  *)
(* if a job of that row has it.                                            *)
(***************************************************************************)
HasRow(o) == o \in Objects /\ obj[o] # None

JobOf(j, i) == j \in Jobs /\ server[j] # None /\ server[j].id = i

Earned(i) == \E j \in Jobs : JobOf(j, i) /\ server[j].status = "success"

GoodView(v, i) ==
  /\ v \in View
  /\ v.job # None => JobOf(v.job, i)
  /\ v.status = "success" => Earned(i)

GoodAnswer(a, j) ==
  a \in Answer /\ (a.status = "success" => server[j].status = "success")

ViewOf(row) == [status |-> row.status, job |-> row.job, retry |-> row.retry]

RowsGood == \A o \in Objects :
  obj[o] # None => GoodView(ViewOf(obj[o]), obj[o].id)

ViewsGood == \A i \in Ids : jobs[i] # None => GoodView(jobs[i], i)

QueueGood == \A i \in Ids :
  queue[i] # None => HasRow(queue[i]) /\ obj[queue[i]].id = i

GoodWorker(k) ==
  k.pc \in Login =>
    /\ HasRow(k.obj)
    /\ k.attempt >= 1
    /\ k.pc = "cooldown" => k.attempt < MaxAttempts
    /\ k.pc \in {"confirm", "start", "created"} => k.ip \in Ips
    /\ k.pc \in {"created", "wait", "poll"} => JobOf(k.job, obj[k.obj].id)
    /\ k.pc = "poll" => /\ GoodView(k.current, obj[k.obj].id)
                        /\ GoodAnswer(k.seen, k.job)

WorkersGood == \A w \in Workers : GoodWorker(worker[w])

GoodPoll(p) ==
  /\ HasRow(p.obj)
  /\ GoodView(p.current, obj[p.obj].id)
  /\ p.current.job # None
  /\ GoodAnswer(p.seen, p.current.job)

PollerGood ==
  /\ \A o \in poller.pending : HasRow(o)
  /\ poller.at # None => GoodPoll(poller.at)

GoodCancel(c) ==
  /\ HasRow(c.obj)
  /\ GoodView(c.current, obj[c.obj].id)
  /\ JobOf(c.job, obj[c.obj].id)
  /\ GoodAnswer(c.seen, c.job)

CancelsGood == \A c \in cancels : GoodCancel(c)

IInv ==
  /\ TypeOK
  /\ RowsGood /\ ViewsGood /\ QueueGood
  /\ WorkersGood /\ PollerGood /\ CancelsGood
  /\ OneWorkerPerRow

-----------------------------------------------------------------------------
(***************************************************************************)
(* Rows keep their ids, and jobs their row, for good; a job that has       *)
(* succeeded stays so.                                                     *)
(***************************************************************************)
RowsStay ==
  /\ obj' \in [Objects -> Row \cup {None}]
  /\ \A o \in Objects :
       obj[o] # None => obj'[o] # None /\ obj'[o].id = obj[o].id

JobsStay ==
  /\ server' \in [Jobs -> ServerJob \cup {None}]
  /\ \A j \in Jobs :
       server[j] # None =>
         /\ server'[j] # None /\ server'[j].id = server[j].id
         /\ server[j].status = "success" => server'[j].status = "success"

\* What was good stays good.
LEMMA GoodStays ==
  ASSUME TypeOK, RowsStay, JobsStay
  PROVE  /\ \A o : HasRow(o) => HasRow(o)' /\ obj'[o].id = obj[o].id
         /\ \A j, i : JobOf(j, i) => JobOf(j, i)'
         /\ \A i : Earned(i) => Earned(i)'
         /\ \A v, i : GoodView(v, i) => GoodView(v, i)'
         /\ \A a, j, i : JobOf(j, i) /\ GoodAnswer(a, j) => GoodAnswer(a, j)'
<1>1. \A o : HasRow(o) => HasRow(o)' /\ obj'[o].id = obj[o].id
  BY DEF HasRow, RowsStay
<1>2. \A j, i : JobOf(j, i) => JobOf(j, i)'
  BY DEF JobOf, JobsStay
<1>3. \A i : Earned(i) => Earned(i)'
  BY <1>2 DEF Earned, JobOf, JobsStay
<1>4. \A v, i : GoodView(v, i) => GoodView(v, i)'
  BY <1>2, <1>3 DEF GoodView
<1>5. \A a, j, i : JobOf(j, i) /\ GoodAnswer(a, j) => GoodAnswer(a, j)'
  BY DEF GoodAnswer, JobOf, JobsStay
<1> QED
  BY <1>1, <1>2, <1>3, <1>4, <1>5

LEMMA ActorsStay ==
  ASSUME TypeOK, RowsStay, JobsStay
  PROVE  /\ \A k : GoodWorker(k) => GoodWorker(k)'
         /\ \A c : GoodCancel(c) => GoodCancel(c)'
         /\ \A p : GoodPoll(p) => GoodPoll(p)'
<1>1. ASSUME NEW k, GoodWorker(k), k.pc \in Login
      PROVE  GoodWorker(k)'
  <2>1. /\ HasRow(k.obj)' /\ obj'[k.obj].id = obj[k.obj].id
    BY <1>1, GoodStays DEF GoodWorker
  <2>2. k.pc \in {"created", "wait", "poll"} => JobOf(k.job, obj[k.obj].id)'
    BY <1>1, <2>1, GoodStays DEF GoodWorker
  <2>3. k.pc = "poll" => /\ GoodView(k.current, obj[k.obj].id)'
                         /\ GoodAnswer(k.seen, k.job)'
    BY <1>1, <2>1, GoodStays DEF GoodWorker
  <2>4. QED
    BY <1>1, <2>1, <2>2, <2>3 DEF GoodWorker
<1>2. ASSUME NEW c, GoodCancel(c)
      PROVE  GoodCancel(c)'
  <2>1. HasRow(c.obj)' /\ obj'[c.obj].id = obj[c.obj].id
    BY <1>2, GoodStays DEF GoodCancel
  <2>2. QED
    BY <1>2, <2>1, GoodStays DEF GoodCancel
<1>3. ASSUME NEW p, GoodPoll(p)
      PROVE  GoodPoll(p)'
  <2>1. HasRow(p.obj)' /\ obj'[p.obj].id = obj[p.obj].id
    BY <1>3, GoodStays DEF GoodPoll
  <2>2. JobOf(p.current.job, obj[p.obj].id)
    BY <1>3 DEF GoodPoll, GoodView
  <2>3. QED
    BY <1>3, <2>1, <2>2, GoodStays DEF GoodPoll
<1>4. \A k : GoodWorker(k) => GoodWorker(k)'
  BY <1>1 DEF GoodWorker
<1> QED
  BY <1>2, <1>3, <1>4

-----------------------------------------------------------------------------
(***************************************************************************)
(* What the page writes to a row.                                          *)
(***************************************************************************)
Written ==
  /\ RowsStay /\ RowsGood' /\ ViewsGood'
  /\ jobs' \in [Ids -> View \cup {None}]

LEMMA RowStateGood ==
  ASSUME IInv, NEW o, HasRow(o)
  PROVE  GoodView(RowState(o), obj[o].id)
BY DEF IInv, HasRow, RowsGood, ViewsGood, RowState, ViewOf, TypeOK, Row

LEMMA WriteKeeps ==
  ASSUME IInv, NEW o, HasRow(o), NEW row \in Row, NEW view \in View,
         row.id = obj[o].id,
         GoodView(ViewOf(row), obj[o].id), GoodView(view, obj[o].id),
         WriteRow(o, row, view), server' = server
  PROVE  Written
<1>1. o \in Objects /\ row # None /\ view # None /\ obj[o].id \in Ids
  BY NoneAssumption DEF HasRow, IInv, TypeOK, Row
<1>2. RowsStay /\ jobs' \in [Ids -> View \cup {None}]
  BY <1>1 DEF WriteRow, RowsStay, IInv, TypeOK
<1>3. \A v, i : GoodView(v, i) => GoodView(v, i)'
  BY DEF GoodView, Earned, JobOf
<1>4. RowsGood'
  <2> SUFFICES ASSUME NEW p \in Objects, obj'[p] # None
               PROVE  GoodView(ViewOf(obj[p]), obj[p].id)'
    BY DEF RowsGood
  <2>1. CASE p = o
    <3>1. obj'[p] = row
      BY <1>1, <2>1 DEF WriteRow, IInv, TypeOK
    <3>2. GoodView(ViewOf(row), row.id)'
      BY <1>3
    <3>3. QED
      BY <3>1, <3>2 DEF ViewOf
  <2>2. CASE p # o
    <3>1. obj'[p] = obj[p]
      BY <1>1, <2>2 DEF WriteRow, IInv, TypeOK
    <3>2. GoodView(ViewOf(obj[p]), obj[p].id)
      BY <3>1 DEF IInv, RowsGood
    <3> QED
      BY <3>1, <3>2, <1>3 DEF ViewOf
  <2> QED
    BY <2>1, <2>2
<1>5. ViewsGood'
  <2> SUFFICES ASSUME NEW i \in Ids, jobs'[i] # None
               PROVE  GoodView(jobs[i], i)'
    BY DEF ViewsGood
  <2>1. \/ i = obj[o].id /\ jobs'[i] = view
        \/ jobs'[i] = jobs[i]
    BY <1>1 DEF WriteRow, IInv, TypeOK
  <2>2. GoodView(jobs'[i], i)
    BY <2>1 DEF IInv, ViewsGood
  <2> QED
    BY <2>2, <1>3
<1> QED
  BY <1>2, <1>4, <1>5 DEF Written

LEMMA SetRowKeeps ==
  ASSUME IInv, NEW o, HasRow(o), NEW status \in RowStatuses \ {"success"},
         NEW job, job = None \/ JobOf(job, obj[o].id),
         SetRow(o, status, job), server' = server
  PROVE  Written
<1> DEFINE row == [obj[o] EXCEPT !.status = status, !.job = job,
                                 !.retry = FALSE]
           view == [status |-> status, job |-> job, retry |-> FALSE]
<1>1. obj[o] \in Row /\ job \in Jobs \cup {None}
  BY DEF HasRow, IInv, TypeOK, JobOf
<1>2. view \in View
  BY <1>1 DEF View
<1>3. row \in Row /\ row.id = obj[o].id /\ ViewOf(row) = view
  BY <1>1 DEF Row, ViewOf
<1>4. GoodView(view, obj[o].id)
  BY <1>2 DEF GoodView
<1>5. WriteRow(o, row, view)
  BY DEF SetRow
<1> HIDE DEF row, view
<1> QED
  BY <1>2, <1>3, <1>4, <1>5, WriteKeeps

LEMMA CommitFailureKeeps ==
  ASSUME IInv, NEW o, HasRow(o), NEW current, GoodView(current, obj[o].id),
         NEW retry \in BOOLEAN, CommitFailure(o, current, retry),
         server' = server
  PROVE  Written
<1> DEFINE row == [obj[o] EXCEPT !.status = "failed", !.retry = retry]
           view == [status |-> "failed", job |-> KnownJob(o, current),
                    retry |-> retry]
<1>1. obj[o] \in Row /\ current \in View
  BY DEF HasRow, IInv, TypeOK, GoodView
<1>2. GoodView(ViewOf(obj[o]), obj[o].id)
  BY DEF HasRow, IInv, RowsGood
<1>3. row \in Row /\ row.id = obj[o].id /\ row.job = obj[o].job
      /\ row.status = "failed" /\ row.retry = retry
  BY <1>1 DEF Row, RowStatuses, Terminal
<1>4. /\ KnownJob(o, current) \in Jobs \cup {None}
      /\ KnownJob(o, current) # None => JobOf(KnownJob(o, current), obj[o].id)
  BY <1>1, <1>2 DEF KnownJob, GoodView, ViewOf, Row, View
<1>5. view \in View /\ GoodView(view, obj[o].id)
  BY <1>4 DEF View, GoodView, RowStatuses, Terminal
<1>6. GoodView(ViewOf(row), obj[o].id)
  BY <1>1, <1>2, <1>3 DEF GoodView, ViewOf, View, RowStatuses, Terminal, Row
<1>7. WriteRow(o, row, view)
  BY DEF CommitFailure
<1> HIDE DEF row, view
<1> QED
  BY <1>3, <1>5, <1>6, <1>7, WriteKeeps

LEMMA FailRowKeeps ==
  ASSUME IInv, NEW o, HasRow(o), NEW retry \in BOOLEAN, FailRow(o, retry),
         server' = server
  PROVE  Written
BY RowStateGood, CommitFailureKeeps DEF FailRow

LEMMA ApplyJobKeeps ==
  ASSUME IInv, NEW o, HasRow(o), NEW current, GoodView(current, obj[o].id),
         NEW j, JobOf(j, obj[o].id), NEW answer, GoodAnswer(answer, j),
         ApplyJob(o, current, answer), server' = server
  PROVE  Written
<1> DEFINE row == [obj[o] EXCEPT !.status = answer.status,
                     !.retry = answer.retry,
                     !.auth = @ \/ answer.status = "success"]
           view == [status |-> answer.status, retry |-> answer.retry,
                    job |-> IF current.job # None THEN current.job
                            ELSE obj[o].job]
<1>1. obj[o] \in Row /\ current \in View /\ answer \in Answer
  BY DEF HasRow, IInv, TypeOK, GoodView, GoodAnswer
<1>2. GoodView(ViewOf(obj[o]), obj[o].id)
  BY DEF HasRow, IInv, RowsGood
<1>3. answer.status = "success" => Earned(obj[o].id)
  BY DEF GoodAnswer, Earned, JobOf
<1>4. answer.status \in RowStatuses /\ answer.retry \in BOOLEAN
  BY <1>1 DEF Answer, RowStatuses
<1>5. row \in Row /\ row.id = obj[o].id /\ row.job = obj[o].job
      /\ row.status = answer.status /\ row.retry = answer.retry
  BY <1>1, <1>4 DEF Row
<1>6. view \in View /\ GoodView(view, obj[o].id)
  BY <1>1, <1>2, <1>3, <1>4 DEF View, GoodView, ViewOf, Row
<1>7. GoodView(ViewOf(row), obj[o].id)
  BY <1>1, <1>2, <1>3, <1>4, <1>5 DEF GoodView, ViewOf, View, Row
<1>8. WriteRow(o, row, view)
  BY DEF ApplyJob
<1> HIDE DEF row, view
<1> QED
  BY <1>5, <1>6, <1>7, <1>8, WriteKeeps

-----------------------------------------------------------------------------
(***************************************************************************)
(* What a worker's step does to the page: one worker moves on, for the row *)
(* object o if it logs in at all, and the run may end with it.             *)
(***************************************************************************)
Moves(w, o) ==
  /\ \E x \in Worker : /\ GoodWorker(x)'
                       /\ x.pc \in Login => x.obj = o
                       /\ worker' = [worker EXCEPT ![w] = x]
  /\ run' \in {"off", run} /\ runner' \in {0, runner}
  /\ poller' = poller \/ \E b \in BOOLEAN : poller' = [poller EXCEPT !.on = b]

LEMMA ServerStays ==
  ASSUME TypeOK, server' = server
  PROVE  JobsStay
BY DEF TypeOK, JobsStay

LEMMA NothingWritten ==
  ASSUME IInv, JobsStay, UNCHANGED <<obj, jobs>>
  PROVE  Written
<1>1. RowsStay /\ jobs' \in [Ids -> View \cup {None}]
  BY DEF RowsStay, IInv, TypeOK
<1>2. \A v, i : GoodView(v, i) => GoodView(v, i)'
  BY <1>1, GoodStays DEF IInv
<1>3. RowsGood'
  <2> SUFFICES ASSUME NEW o \in Objects, obj'[o] # None
               PROVE  GoodView(ViewOf(obj[o]), obj[o].id)'
    BY DEF RowsGood
  <2>1. GoodView(ViewOf(obj[o]), obj[o].id)
    BY DEF IInv, RowsGood
  <2> QED
    BY <2>1, <1>2 DEF ViewOf
<1>4. ViewsGood'
  <2> SUFFICES ASSUME NEW i \in Ids, jobs'[i] # None
               PROVE  GoodView(jobs[i], i)'
    BY DEF ViewsGood
  <2> QED
    BY <1>2 DEF IInv, ViewsGood
<1> QED
  BY <1>1, <1>3, <1>4 DEF Written

LEMMA OffIsGood ==
  /\ Off \in Worker /\ Off.pc \notin Login
  /\ [Off EXCEPT !.pc = "pause"] \in Worker
  /\ [Off EXCEPT !.pc = "pause"].pc \notin Login
  /\ GoodWorker(Off)' /\ GoodWorker([Off EXCEPT !.pc = "pause"])'
BY RunnerAssumption DEF Off, Worker, At, Login, GoodWorker

LEMMA PollingIsTyped ==
  ASSUME TypeOK, StartPolling
  PROVE  \E b \in BOOLEAN : poller' = [poller EXCEPT !.on = b]
<1> DEFINE b == poller.on \/ (runner' = 0 /\ ShouldUseRecoveryPolling')
<1>1. b \in BOOLEAN
  OBVIOUS
<1>2. poller' = [poller EXCEPT !.on = b]
  BY DEF StartPolling
<1> HIDE DEF b
<1> QED
  BY <1>1, <1>2

LEMMA GotoMoves ==
  ASSUME NEW w, NEW o, NEW x \in Worker, GoodWorker(x)',
         x.pc \in Login => x.obj = o, Goto(w, x)
  PROVE  Moves(w, o)
BY DEF Moves, Goto

LEMMA LeaveMoves ==
  ASSUME TypeOK, NEW w, NEW o, Leave(w)
  PROVE  Moves(w, o)
<1>1. \E x \in Worker : /\ GoodWorker(x)'
                        /\ x.pc \in Login => x.obj = o
                        /\ worker' = [worker EXCEPT ![w] = x]
  BY OffIsGood DEF Leave
<1>2. run' \in {"off", run} /\ runner' \in {0, runner}
  BY DEF Leave, EndRun
<1>3. poller' = poller \/ \E b \in BOOLEAN : poller' = [poller EXCEPT !.on = b]
  BY PollingIsTyped DEF Leave, EndRun
<1> QED
  BY <1>1, <1>2, <1>3 DEF Moves

LEMMA LoginReturnsMoves ==
  ASSUME TypeOK, NEW w, NEW o, LoginReturns(w)
  PROVE  Moves(w, o)
<1>1. CASE Leave(w)
  BY <1>1, LeaveMoves
<1>2. CASE ~Leave(w)
  <2>1. /\ worker' = [worker EXCEPT ![w] = [Off EXCEPT !.pc = "pause"]]
        /\ UNCHANGED <<run, runner, poller>>
    BY <1>2 DEF LoginReturns
  <2> QED
    BY <2>1, OffIsGood DEF Moves
<1> QED
  BY <1>1, <1>2

LEMMA AfterFailureMoves ==
  ASSUME IInv, RowsStay, JobsStay, NEW w \in Workers, NEW retry,
         worker[w].pc \in Login, AfterFailure(w, retry)
  PROVE  Moves(w, worker[w].obj)
<1>1. CASE LoginReturns(w)
  BY <1>1, LoginReturnsMoves DEF IInv
<1>2. CASE ~LoginReturns(w)
  <2>1. /\ worker[w].attempt < MaxAttempts
        /\ Goto(w, [Off EXCEPT !.pc = "cooldown", !.obj = worker[w].obj,
                               !.attempt = worker[w].attempt])
    BY <1>2 DEF AfterFailure
  <2>2. /\ worker[w] \in Worker /\ HasRow(worker[w].obj)
        /\ worker[w].attempt >= 1
    BY DEF IInv, TypeOK, WorkersGood, GoodWorker
  <2>3. PICK x \in Worker : x = [Off EXCEPT !.pc = "cooldown",
                                            !.obj = worker[w].obj,
                                            !.attempt = worker[w].attempt]
    BY <2>2 DEF Off, Worker, At
  <2>4. /\ x.pc = "cooldown" /\ x.obj = worker[w].obj
        /\ x.attempt = worker[w].attempt
    BY <2>3 DEF Off
  <2>5. HasRow(x.obj)'
    BY <2>2, <2>4, GoodStays DEF IInv
  <2>6. GoodWorker(x)'
    BY <2>1, <2>2, <2>4, <2>5 DEF GoodWorker
  <2>7. Goto(w, x)
    BY <2>1, <2>3
  <2> QED
    BY <2>4, <2>6, <2>7, GotoMoves
<1> QED
  BY <1>1, <1>2

LEMMA FailsMoves ==
  ASSUME IInv, NEW w \in Workers, worker[w].pc \in Login, Fails(w),
         server' = server
  PROVE  Written /\ Moves(w, worker[w].obj)
<1>1. HasRow(worker[w].obj)
  BY DEF IInv, WorkersGood, GoodWorker
<1>2. PICK retry \in BOOLEAN :
        FailRow(worker[w].obj, retry) /\ AfterFailure(w, retry)
  BY DEF Fails
<1>3. Written
  BY <1>1, <1>2, FailRowKeeps
<1> QED
  BY <1>2, <1>3, AfterFailureMoves, ServerStays DEF Written, IInv

\* Nobody else logs in for the row of o.
Alone(w, o) ==
  \A v \in Workers \ {w} :
    worker[v].pc \in Login => obj[worker[v].obj].id # obj[o].id

LEMMA WorkerKeeps ==
  ASSUME IInv, NEW w \in Workers, NEW o, Moves(w, o),
         worker'[w].pc \in Login => HasRow(o) /\ Alone(w, o),
         Written, JobsStay, errors' \in [Ids -> 0 .. 3],
         usedIps' \subseteq Ips,
         UNCHANGED <<queue, runnerToken, handlers, history>>
  PROVE  IInv'
<1> USE DEF IInv, Written
<1>1. PICK x \in Worker : /\ GoodWorker(x)'
                          /\ x.pc \in Login => x.obj = o
                          /\ worker' = [worker EXCEPT ![w] = x]
  BY DEF Moves
<1>2. poller' \in [on : BOOLEAN, pending : SUBSET Objects,
                   at : Poll \cup {None}]
      /\ poller'.pending = poller.pending /\ poller'.at = poller.at
  BY DEF Moves, TypeOK
<1>3. TypeOK'
  <2>1. run' \in {"off", "syncing", "working"} /\ runner' \in Nat
    BY DEF Moves, TypeOK
  <2>2. worker' \in [Workers -> Worker]
    BY <1>1 DEF TypeOK
  <2> QED
    BY <1>2, <2>1, <2>2 DEF TypeOK, RowsStay, JobsStay, handlers, history
<1>4. QueueGood'
  BY GoodStays DEF QueueGood
<1>5. WorkersGood'
  <2> SUFFICES ASSUME NEW v \in Workers
               PROVE  GoodWorker(worker[v])'
    BY DEF WorkersGood
  <2>1. worker'[v] = x \/ worker'[v] = worker[v]
    BY <1>1 DEF TypeOK
  <2>2. GoodWorker(worker[v])
    BY DEF WorkersGood
  <2>3. \A k : GoodWorker(k) => GoodWorker(k)'
    BY ActorsStay
  <2> QED
    BY <1>1, <2>1, <2>2, <2>3
<1>6. PollerGood'
  BY <1>2, GoodStays, ActorsStay DEF PollerGood
<1>7. CancelsGood'
  BY ActorsStay DEF CancelsGood, handlers
<1>8. OneWorkerPerRow'
  <2> SUFFICES ASSUME NEW u \in Workers, NEW v \in Workers, u # v,
                      worker'[u].pc \in Login, worker'[v].pc \in Login
               PROVE  obj'[worker'[u].obj].id # obj'[worker'[v].obj].id
    BY DEF OneWorkerPerRow
  <2>1. \A y \in Workers \ {w} : worker'[y] = worker[y]
    BY <1>1 DEF TypeOK
  <2>2. worker'[w] = x
    BY <1>1 DEF TypeOK
  <2>3. \A y \in Workers \ {w} : worker[y].pc \in Login =>
          HasRow(worker[y].obj)
          /\ obj'[worker[y].obj].id = obj[worker[y].obj].id
    BY GoodStays DEF WorkersGood, GoodWorker
  <2>4. x.pc \in Login => obj'[o].id = obj[o].id
    BY <2>2, GoodStays
  <2>5. CASE u # w /\ v # w
    BY <2>1, <2>3, <2>5 DEF OneWorkerPerRow
  <2>6. CASE u = w
    BY <1>1, <2>1, <2>2, <2>3, <2>4, <2>6 DEF Alone
  <2>7. CASE v = w
    BY <1>1, <2>1, <2>2, <2>3, <2>4, <2>7 DEF Alone
  <2> QED
    BY <2>5, <2>6, <2>7
<1> QED
  BY <1>3, <1>4, <1>5, <1>6, <1>7, <1>8

-----------------------------------------------------------------------------
(***************************************************************************)
(* The steps of a worker.                                                  *)
(***************************************************************************)
LEMMA AtWork ==
  ASSUME IInv, NEW w \in Workers, worker[w].pc \in Login
  PROVE  /\ worker[w] \in Worker /\ HasRow(worker[w].obj)
         /\ Alone(w, worker[w].obj) /\ GoodWorker(worker[w])
         /\ worker[w].attempt >= 1
BY DEF IInv, TypeOK, WorkersGood, GoodWorker, OneWorkerPerRow, Alone

LEMMA FailsKeeps ==
  ASSUME IInv, NEW w \in Workers, worker[w].pc \in Login, Fails(w),
         UNCHANGED <<queue, errors, runnerToken, usedIps, handlers, server,
                     history>>
  PROVE  IInv'
BY AtWork, FailsMoves, WorkerKeeps, ServerStays DEF IInv, TypeOK

\* A step that only changes the worker's own record.
LEMMA GotoKeeps ==
  ASSUME IInv, NEW w \in Workers, NEW x \in Worker, worker[w].pc \in Login,
         x.pc \in Login, x.obj = worker[w].obj, Written, JobsStay,
         GoodWorker(x)', Goto(w, x), errors' \in [Ids -> 0 .. 3],
         usedIps' \subseteq Ips,
         UNCHANGED <<queue, runnerToken, handlers, history>>
  PROVE  IInv'
BY AtWork, GotoMoves, WorkerKeeps

LEMMA CheckingIsGood ==
  ASSUME IInv, RowsStay, JobsStay, NEW o, HasRow(o),
         NEW n \in 1 .. MaxAttempts
  PROVE  \E x \in Worker : /\ x = Checking(o, n)
                           /\ x.pc = "check" /\ x.obj = o
                           /\ GoodWorker(x)'
<1> n \in 0 .. MaxAttempts
  BY RunnerAssumption
<1> Checking(o, n) \in Worker
  BY DEF Checking, Off, Worker, At, HasRow
<1>1. PICK x \in Worker : x = Checking(o, n)
  OBVIOUS
<1>2. x.pc = "check" /\ x.obj = o /\ x.attempt = n
  BY <1>1 DEF Checking, Off
<1>3. HasRow(x.obj)'
  BY <1>2, GoodStays DEF IInv
<1>4. GoodWorker(x)'
  BY <1>2, <1>3 DEF GoodWorker
<1> QED
  BY <1>1, <1>2, <1>4

LEMMA TakeRowKeeps ==
  ASSUME IInv, NEW w \in Workers, TakeRow(w)
  PROVE  IInv'
<1>1. worker[w].pc = "pause"
      /\ UNCHANGED <<queue, errors, runnerToken, usedIps, handlers, server,
                     history>>
  BY DEF TakeRow
<1>2. JobsStay /\ errors' \in [Ids -> 0 .. 3] /\ usedIps' \subseteq Ips
  BY <1>1, ServerStays DEF IInv, TypeOK
<1>3. CASE UNCHANGED <<obj, jobs>> /\ Leave(w)
  <2>1. Written
    BY <1>2, <1>3, NothingWritten
  <2>2. worker'[w].pc \notin Login
    BY <1>3, OffIsGood DEF Leave, IInv, TypeOK
  <2>3. Moves(w, Off)
    BY <1>3, LeaveMoves DEF IInv
  <2> QED
    BY <1>1, <1>2, <2>1, <2>2, <2>3, WorkerKeeps
<1>4. CASE ~(UNCHANGED <<obj, jobs>> /\ Leave(w))
  <2>1. PICK i \in QueuedRows \ ActiveRows :
          \/ SetRow(queue[i], "queued", None)
             /\ Goto(w, Checking(queue[i], 1))
          \/ FailRow(queue[i], FALSE) /\ LoginReturns(w)
    BY <1>4 DEF TakeRow
  <2>2. PICK o : o = queue[i]
    OBVIOUS
  <2>3. HasRow(o) /\ obj[o].id = i
    BY <2>2 DEF QueuedRows, Queued, IInv, QueueGood
  <2>4. Alone(w, o)
    BY <2>1, <2>3 DEF Alone, ActiveRows
  <2>5. Written
    BY <1>1, <2>1, <2>2, <2>3, SetRowKeeps, FailRowKeeps
       DEF RowStatuses, Live
  <2>6. Moves(w, o)
    <3>1. CASE LoginReturns(w)
      BY <3>1, LoginReturnsMoves DEF IInv
    <3>2. CASE Goto(w, Checking(o, 1))
      <4>1. 1 \in 1 .. MaxAttempts
        BY RunnerAssumption
      <4> QED
        BY <1>2, <2>3, <2>5, <3>2, <4>1, CheckingIsGood, GotoMoves
           DEF Written
    <3> QED
      BY <2>1, <2>2, <3>1, <3>2
  <2> QED
    BY <1>1, <1>2, <2>3, <2>4, <2>5, <2>6, WorkerKeeps
<1> QED
  BY <1>3, <1>4

LEMMA ProbeExitKeeps ==
  ASSUME IInv, NEW w \in Workers, ProbeExit(w)
  PROVE  IInv'
<1>1. worker[w].pc = "check" /\ worker[w].pc \in Login
      /\ UNCHANGED <<queue, errors, runnerToken, usedIps, handlers, server,
                     history>>
  BY DEF ProbeExit, Login, At
<1>2. CASE Fails(w)
  BY <1>1, <1>2, FailsKeeps
<1>3. CASE ~Fails(w)
  <2>1. PICK ip \in Ips : Goto(w, [worker[w] EXCEPT !.pc = "confirm",
                                                   !.ip = ip])
    BY <1>3 DEF ProbeExit
  <2>2. PICK x : x = [worker[w] EXCEPT !.pc = "confirm", !.ip = ip]
    OBVIOUS
  <2>3. /\ x \in Worker /\ x.pc = "confirm" /\ x.obj = worker[w].obj
        /\ x.ip = ip /\ x.attempt = worker[w].attempt
    BY <1>1, <2>2, AtWork DEF Worker, At
  <2>4. /\ Written /\ JobsStay
        /\ errors' \in [Ids -> 0 .. 3] /\ usedIps' \subseteq Ips
    BY <1>1, <1>3, ServerStays, NothingWritten DEF ProbeExit, IInv, TypeOK
  <2>5. GoodWorker(x)'
    <3>1. HasRow(x.obj)'
      BY <1>1, <2>3, <2>4, AtWork, GoodStays DEF IInv, Written
    <3> QED
      BY <1>1, <2>3, <3>1, AtWork DEF GoodWorker
  <2> QED
    BY <1>1, <2>1, <2>2, <2>3, <2>4, <2>5, GotoKeeps DEF Login, At
<1> QED
  BY <1>2, <1>3

LEMMA ConfirmExitKeeps ==
  ASSUME IInv, NEW w \in Workers, ConfirmExit(w)
  PROVE  IInv'
<1>1. worker[w].pc = "confirm" /\ worker[w].pc \in Login
      /\ UNCHANGED <<queue, errors, runnerToken, handlers, server, history>>
  BY DEF ConfirmExit, Login, At
<1>2. CASE Fails(w) /\ UNCHANGED usedIps
  BY <1>1, <1>2, FailsKeeps
<1>3. CASE ~(Fails(w) /\ UNCHANGED usedIps)
  <2>1. /\ usedIps' = usedIps \cup {worker[w].ip}
        /\ SetRow(worker[w].obj, "running", None)
        /\ Goto(w, [worker[w] EXCEPT !.pc = "start"])
    BY <1>3 DEF ConfirmExit
  <2>2. PICK x : x = [worker[w] EXCEPT !.pc = "start"]
    OBVIOUS
  <2>3. /\ x \in Worker /\ x.pc = "start" /\ x.obj = worker[w].obj
        /\ x.ip = worker[w].ip /\ x.attempt = worker[w].attempt
        /\ x.ip \in Ips
    BY <1>1, <2>2, AtWork DEF Worker, At, GoodWorker
  <2>4. Written
    BY <1>1, <2>1, AtWork, SetRowKeeps DEF RowStatuses, Live
  <2>5. JobsStay /\ errors' \in [Ids -> 0 .. 3] /\ usedIps' \subseteq Ips
    BY <1>1, <2>1, <2>3, ServerStays DEF IInv, TypeOK
  <2>6. GoodWorker(x)'
    <3>1. HasRow(x.obj)'
      BY <1>1, <2>3, <2>4, <2>5, AtWork, GoodStays DEF IInv, Written
    <3> QED
      BY <1>1, <2>3, <3>1, AtWork DEF GoodWorker
  <2> QED
    BY <1>1, <2>1, <2>2, <2>3, <2>4, <2>5, <2>6, GotoKeeps DEF Login, At
<1> QED
  BY <1>2, <1>3

LEMMA ErrorsForgotten ==
  ASSUME errors \in [Ids -> 0 .. 3], NEW i,
         errors' = [errors EXCEPT ![i] = 0]
  PROVE  errors' \in [Ids -> 0 .. 3]
<1> 0 \in 0 .. 3
  OBVIOUS
<1> QED
  OBVIOUS

LEMMA CreateJobKeeps ==
  ASSUME IInv, NEW w \in Workers, CreateJob(w)
  PROVE  IInv'
<1>1. worker[w].pc = "start" /\ worker[w].pc \in Login
      /\ UNCHANGED <<queue, obj, jobs, errors, runnerToken, usedIps, handlers,
                     history>>
  BY DEF CreateJob, Login, At
<1>2. PICK j \in Jobs :
        /\ server[j] = None
        /\ server' = [server EXCEPT ![j] =
             [id |-> obj[worker[w].obj].id, status |-> "queued",
              retry |-> FALSE, ip |-> worker[w].ip, run |-> runner]]
        /\ Goto(w, [worker[w] EXCEPT !.pc = "created", !.job = j])
  BY DEF CreateJob
<1>3. PICK x : x = [worker[w] EXCEPT !.pc = "created", !.job = j]
  OBVIOUS
<1>4. /\ x \in Worker /\ x.pc = "created" /\ x.obj = worker[w].obj
      /\ x.ip = worker[w].ip /\ x.attempt = worker[w].attempt
      /\ x.job = j /\ x.ip \in Ips
  BY <1>1, <1>3, AtWork DEF Worker, At, GoodWorker
<1>5. PICK new \in ServerJob :
        /\ new.id = obj[worker[w].obj].id
        /\ server' = [server EXCEPT ![j] = new]
  <2>1. obj[worker[w].obj].id \in Ids
    BY <1>1, AtWork DEF HasRow, IInv, TypeOK, Row
  <2>2. [id |-> obj[worker[w].obj].id, status |-> "queued", retry |-> FALSE,
         ip |-> worker[w].ip, run |-> runner] \in ServerJob
    BY <1>4, <2>1 DEF ServerJob, Live, IInv, TypeOK
  <2> QED
    BY <1>2, <2>2
<1>6. JobsStay /\ server'[j] # None /\ server'[j].id = new.id
  <2>1. new # None /\ server'[j] = new
    BY <1>5, NoneAssumption DEF IInv, TypeOK
  <2>2. \A k \in Jobs \ {j} : server'[k] = server[k]
    BY <1>5 DEF IInv, TypeOK
  <2>3. server' \in [Jobs -> ServerJob \cup {None}]
    BY <1>5 DEF IInv, TypeOK
  <2> QED
    BY <1>2, <2>1, <2>2, <2>3 DEF JobsStay
<1>7. Written /\ errors' \in [Ids -> 0 .. 3] /\ usedIps' \subseteq Ips
  BY <1>1, <1>6, NothingWritten DEF IInv, TypeOK
<1>8. GoodWorker(x)'
  <2>1. HasRow(x.obj)' /\ obj'[x.obj].id = obj[x.obj].id
    BY <1>1, <1>4, <1>6, <1>7, AtWork, GoodStays DEF IInv, Written
  <2>2. JobOf(x.job, obj[x.obj].id)'
    BY <1>4, <1>5, <1>6, <2>1 DEF JobOf
  <2> QED
    BY <1>1, <1>4, <2>1, <2>2, AtWork DEF GoodWorker
<1> QED
  BY <1>1, <1>2, <1>3, <1>4, <1>6, <1>7, <1>8, GotoKeeps DEF Login, At

LEMMA StartFailsKeeps ==
  ASSUME IInv, NEW w \in Workers, StartFails(w)
  PROVE  IInv'
BY FailsKeeps DEF StartFails, Login, At

LEMMA StartAnsweredKeeps ==
  ASSUME IInv, NEW w \in Workers, StartAnswered(w)
  PROVE  IInv'
<1>1. /\ worker[w].pc = "created" /\ worker[w].pc \in Login
      /\ SetRow(worker[w].obj, "queued", worker[w].job)
      /\ errors' = [errors EXCEPT ![obj[worker[w].obj].id] = 0]
      /\ Goto(w, [worker[w] EXCEPT !.pc = "wait", !.ip = None])
      /\ UNCHANGED <<queue, runnerToken, usedIps, handlers, server, history>>
  BY DEF StartAnswered, Login, At
<1>2. PICK x : x = [worker[w] EXCEPT !.pc = "wait", !.ip = None]
  OBVIOUS
<1>3. /\ x \in Worker /\ x.pc = "wait" /\ x.obj = worker[w].obj
      /\ x.attempt = worker[w].attempt /\ x.job = worker[w].job
  BY <1>1, <1>2, AtWork DEF Worker, At
<1>4. JobOf(x.job, obj[x.obj].id)
  BY <1>1, <1>3, AtWork DEF GoodWorker
<1>5. Written
  BY <1>1, <1>3, <1>4, AtWork, SetRowKeeps DEF RowStatuses, Live
<1>6. JobsStay /\ errors' \in [Ids -> 0 .. 3] /\ usedIps' \subseteq Ips
  BY <1>1, ServerStays, ErrorsForgotten DEF IInv, TypeOK
<1>7. GoodWorker(x)'
  <2>1. HasRow(x.obj)' /\ obj'[x.obj].id = obj[x.obj].id
    BY <1>1, <1>3, <1>5, <1>6, AtWork, GoodStays DEF IInv, Written
  <2>2. JobOf(x.job, obj[x.obj].id)'
    BY <1>4, <1>5, <1>6, <2>1, GoodStays DEF IInv, Written
  <2> QED
    BY <1>1, <1>3, <2>1, <2>2, AtWork DEF GoodWorker
<1> QED
  BY <1>1, <1>2, <1>3, <1>5, <1>6, <1>7, GotoKeeps DEF Login, At

LEMMA WaitReturnsMoves ==
  ASSUME IInv, RowsStay, JobsStay, NEW w \in Workers, NEW shown,
         worker[w].pc \in Login, WaitReturns(w, shown)
  PROVE  Moves(w, worker[w].obj)
BY AfterFailureMoves, LoginReturnsMoves DEF WaitReturns, IInv

LEMMA KnownAnswer ==
  ASSUME IInv, NEW j, NEW i, JobOf(j, i)
  PROVE  GoodAnswer(AnswerOf(j), j)
BY DEF GoodAnswer, AnswerOf, Answer, JobOf, IInv, TypeOK, ServerJob

LEMMA WaitPollsKeeps ==
  ASSUME IInv, NEW w \in Workers, WaitPolls(w)
  PROVE  IInv'
<1>1. /\ worker[w].pc = "wait" /\ worker[w].pc \in Login
      /\ UNCHANGED <<queue, obj, jobs, errors, runnerToken, usedIps, handlers,
                     server, history>>
  BY DEF WaitPolls, Login, At
<1>2. JobsStay /\ Written /\ errors' \in [Ids -> 0 .. 3]
      /\ usedIps' \subseteq Ips
  BY <1>1, ServerStays, NothingWritten DEF IInv, TypeOK
<1>3. CASE WaitReturns(w, RowState(worker[w].obj))
  BY <1>1, <1>2, <1>3, AtWork, WaitReturnsMoves, WorkerKeeps DEF Written
<1>4. CASE ~WaitReturns(w, RowState(worker[w].obj))
  <2>1. Goto(w, [worker[w] EXCEPT !.pc = "poll",
                                  !.current = RowState(worker[w].obj),
                                  !.seen = AnswerOf(worker[w].job)])
    BY <1>4 DEF WaitPolls
  <2>2. PICK x : x = [worker[w] EXCEPT !.pc = "poll",
                                       !.current = RowState(worker[w].obj),
                                       !.seen = AnswerOf(worker[w].job)]
    OBVIOUS
  <2>3. /\ JobOf(worker[w].job, obj[worker[w].obj].id)
        /\ GoodView(RowState(worker[w].obj), obj[worker[w].obj].id)
        /\ GoodAnswer(AnswerOf(worker[w].job), worker[w].job)
    BY <1>1, AtWork, RowStateGood, KnownAnswer DEF GoodWorker
  <2>4. /\ x \in Worker /\ x.pc = "poll" /\ x.obj = worker[w].obj
        /\ x.attempt = worker[w].attempt /\ x.job = worker[w].job
        /\ x.current = RowState(worker[w].obj)
        /\ x.seen = AnswerOf(worker[w].job)
    BY <1>1, <2>2, <2>3, AtWork DEF Worker, At, GoodView, GoodAnswer
  <2>5. GoodWorker(x)
    BY <1>1, <2>3, <2>4, AtWork DEF GoodWorker
  <2>6. GoodWorker(x)'
    BY <1>2, <2>5, ActorsStay DEF IInv, Written
  <2> QED
    BY <1>1, <1>2, <2>1, <2>2, <2>4, <2>6, GotoKeeps DEF Login, At
<1> QED
  BY <1>3, <1>4

LEMMA WaitAnsweredKeeps ==
  ASSUME IInv, NEW w \in Workers, WaitAnswered(w)
  PROVE  IInv'
<1>1. /\ worker[w].pc = "poll" /\ worker[w].pc \in Login
      /\ UNCHANGED <<queue, runnerToken, usedIps, handlers, server, history>>
  BY DEF WaitAnswered, Login, At
<1>2. JobsStay /\ usedIps' \subseteq Ips
  BY <1>1, ServerStays DEF IInv, TypeOK
<1>3. CASE ~IsTracked(worker[w].obj)
  <2>1. UNCHANGED <<obj, jobs, errors>>
        /\ WaitReturns(w, RowState(worker[w].obj))
    BY <1>3 DEF WaitAnswered
  <2>2. Written /\ errors' \in [Ids -> 0 .. 3]
    BY <1>2, <2>1, NothingWritten DEF IInv, TypeOK
  <2> QED
    BY <1>1, <1>2, <2>1, <2>2, AtWork, WaitReturnsMoves, WorkerKeeps
       DEF Written
<1>4. CASE IsTracked(worker[w].obj)
  <2>1. PICK answer \in {worker[w].seen, AnswerOf(worker[w].job)} :
          /\ ApplyJob(worker[w].obj, worker[w].current, answer)
          /\ errors' = [errors EXCEPT ![obj[worker[w].obj].id] = 0]
          /\ IF answer.status \in Live
             THEN Goto(w, [worker[w] EXCEPT !.pc = "wait",
                             !.current = None, !.seen = None])
             ELSE WaitReturns(w, answer)
    BY <1>4 DEF WaitAnswered
  <2>2. /\ JobOf(worker[w].job, obj[worker[w].obj].id)
        /\ GoodView(worker[w].current, obj[worker[w].obj].id)
        /\ GoodAnswer(answer, worker[w].job)
    BY <1>1, <2>1, AtWork, KnownAnswer DEF GoodWorker
  <2>3. Written /\ errors' \in [Ids -> 0 .. 3]
    BY <1>1, <2>1, <2>2, AtWork, ApplyJobKeeps, ErrorsForgotten
       DEF IInv, TypeOK
  <2>4. CASE answer.status \notin Live
    BY <1>1, <1>2, <2>1, <2>3, <2>4, AtWork, WaitReturnsMoves, WorkerKeeps
       DEF Written
  <2>5. CASE answer.status \in Live
    <3>1. PICK x : x = [worker[w] EXCEPT !.pc = "wait",
                                         !.current = None, !.seen = None]
      OBVIOUS
    <3>2. /\ x \in Worker /\ x.pc = "wait" /\ x.obj = worker[w].obj
          /\ x.attempt = worker[w].attempt /\ x.job = worker[w].job
      BY <1>1, <3>1, AtWork DEF Worker, At
    <3>3. GoodWorker(x)
      BY <1>1, <2>2, <3>2, AtWork DEF GoodWorker
    <3>4. GoodWorker(x)'
      BY <1>2, <2>3, <3>3, ActorsStay DEF IInv, Written
    <3>5. Goto(w, x)
      BY <2>1, <2>5, <3>1
    <3> QED
      BY <1>1, <1>2, <2>3, <3>2, <3>4, <3>5, GotoKeeps DEF Login, At
  <2> QED
    BY <2>4, <2>5
<1> QED
  BY <1>3, <1>4

LEMMA WaitFailsKeeps ==
  ASSUME IInv, NEW w \in Workers, WaitFails(w)
  PROVE  IInv'
BY FailsKeeps DEF WaitFails, Login, At

LEMMA CooldownKeeps ==
  ASSUME IInv, NEW w \in Workers, Cooldown(w)
  PROVE  IInv'
<1>1. /\ worker[w].pc = "cooldown" /\ worker[w].pc \in Login
      /\ UNCHANGED <<queue, errors, runnerToken, usedIps, handlers, server,
                     history>>
      /\ SetRow(worker[w].obj, "queued", None)
      /\ Goto(w, Checking(worker[w].obj, worker[w].attempt + 1))
  BY DEF Cooldown, Login, At
<1>2. Written
  BY <1>1, AtWork, SetRowKeeps DEF RowStatuses, Live
<1>3. JobsStay /\ errors' \in [Ids -> 0 .. 3] /\ usedIps' \subseteq Ips
  BY <1>1, ServerStays DEF IInv, TypeOK
<1>4. worker[w].attempt + 1 \in 1 .. MaxAttempts
  BY <1>1, AtWork, RunnerAssumption DEF GoodWorker, Worker
<1>5. PICK x \in Worker :
        /\ x = Checking(worker[w].obj, worker[w].attempt + 1)
        /\ x.pc = "check" /\ x.obj = worker[w].obj
        /\ GoodWorker(x)'
  BY <1>1, <1>2, <1>3, <1>4, AtWork, CheckingIsGood DEF Written
<1> QED
  BY <1>1, <1>2, <1>3, <1>5, GotoKeeps DEF Login, At

LEMMA ActKeeps ==
  ASSUME IInv, NEW w \in Workers, Act(w)
  PROVE  IInv'
BY TakeRowKeeps, ProbeExitKeeps, ConfirmExitKeeps, CreateJobKeeps,
   StartFailsKeeps, StartAnsweredKeeps, WaitPollsKeeps, WaitAnsweredKeeps,
   WaitFailsKeeps, CooldownKeeps DEF Act

-----------------------------------------------------------------------------
(***************************************************************************)
(* The steps of everybody else leave the workers as they are, or start     *)
(* them anew.                                                              *)
(***************************************************************************)
LEMMA RowsWritten ==
  ASSUME IInv, JobsStay,
         obj' \in [Objects -> Row \cup {None}],
         jobs' \in [Ids -> View \cup {None}],
         \A o \in Objects :
           \/ obj'[o] = obj[o]
           \/ /\ obj'[o] \in Row
              /\ obj[o] # None => obj'[o].id = obj[o].id
              /\ GoodView(ViewOf(obj'[o]), obj'[o].id),
         \A i \in Ids : jobs'[i] \in {jobs[i], None} \/ GoodView(jobs'[i], i)
  PROVE  Written
<1>1. RowsStay
  BY NoneAssumption DEF RowsStay
<1>2. \A v, i : GoodView(v, i) => GoodView(v, i)'
  BY <1>1, GoodStays DEF IInv
<1>3. RowsGood'
  <2> SUFFICES ASSUME NEW o \in Objects, obj'[o] # None
               PROVE  GoodView(ViewOf(obj[o]), obj[o].id)'
    BY DEF RowsGood
  <2>1. GoodView(ViewOf(obj'[o]), obj'[o].id)
    BY DEF IInv, RowsGood
  <2>2. PICK v, i : v = ViewOf(obj'[o]) /\ i = obj'[o].id
    OBVIOUS
  <2>3. GoodView(v, i)'
    BY <2>1, <2>2, <1>2
  <2> QED
    BY <2>2, <2>3 DEF ViewOf
<1>4. ViewsGood'
  <2> SUFFICES ASSUME NEW i \in Ids, jobs'[i] # None
               PROVE  GoodView(jobs[i], i)'
    BY DEF ViewsGood
  <2>1. GoodView(jobs'[i], i)
    BY DEF IInv, ViewsGood
  <2> QED
    BY <2>1, <1>2
<1> QED
  BY <1>1, <1>3, <1>4 DEF Written

LEMMA OthersKeep ==
  ASSUME IInv, TypeOK', Written, JobsStay, QueueGood',
         \A o \in poller'.pending : HasRow(o),
         \A p : p = poller'.at /\ p # None => GoodPoll(p),
         \A c \in cancels' : GoodCancel(c),
         worker' = worker \/ \A w \in Workers : worker'[w].pc \notin Login
  PROVE  IInv'
<1> USE DEF IInv, Written
<1>1. WorkersGood'
  <2> SUFFICES ASSUME NEW w \in Workers
               PROVE  GoodWorker(worker[w])'
    BY DEF WorkersGood
  <2>1. CASE worker'[w].pc \notin Login
    BY <2>1 DEF GoodWorker
  <2>2. CASE worker' = worker
    <3>1. GoodWorker(worker[w])
      BY DEF WorkersGood
    <3> QED
      BY <2>2, <3>1, ActorsStay
  <2> QED
    BY <2>1, <2>2
<1>2. PollerGood'
  <2>1. \A o \in poller'.pending : HasRow(o)'
    BY GoodStays
  <2>2. PICK p : p = poller'.at
    OBVIOUS
  <2>3. p # None => GoodPoll(p)'
    BY <2>2, ActorsStay
  <2> QED
    BY <2>1, <2>2, <2>3 DEF PollerGood
<1>3. CancelsGood'
  BY ActorsStay DEF CancelsGood
<1>4. OneWorkerPerRow'
  <2>1. CASE \A w \in Workers : worker'[w].pc \notin Login
    BY <2>1 DEF OneWorkerPerRow
  <2>2. CASE worker' = worker
    <3>1. \A w \in Workers : worker[w].pc \in Login =>
            obj'[worker[w].obj].id = obj[worker[w].obj].id
      BY GoodStays DEF WorkersGood, GoodWorker
    <3> QED
      BY <2>2, <3>1 DEF OneWorkerPerRow
  <2> QED
    BY <2>1, <2>2
<1> QED
  BY <1>1, <1>2, <1>3, <1>4

\* The actors that a step leaves alone.
LEMMA ActorsGood ==
  ASSUME IInv
  PROVE  /\ \A o \in poller.pending : HasRow(o)
         /\ \A p : p = poller.at /\ p # None => GoodPoll(p)
         /\ \A c \in cancels : GoodCancel(c)
BY DEF IInv, PollerGood, CancelsGood

LEMMA QueueStays ==
  ASSUME IInv, RowsStay, JobsStay,
         \A i \in Ids : queue'[i] \in {queue[i], None}
  PROVE  QueueGood'
BY GoodStays DEF IInv, QueueGood

LEMMA StartRowsKeeps ==
  ASSUME IInv, NEW rows \in SUBSET Queued, StartRows(rows)
  PROVE  IInv'
<1> DEFINE marked == {i \in rows : RowState(queue[i]).status \notin Live}
           mine == {queue[i] : i \in marked}
<1>1. /\ obj' = [o \in Objects |->
                  IF o \in mine
                  THEN [obj[o] EXCEPT !.status = "queued", !.job = None,
                                      !.retry = FALSE]
                  ELSE obj[o]]
      /\ jobs' = [i \in Ids |->
                   IF i \in marked
                   THEN [status |-> "queued", job |-> None, retry |-> FALSE]
                   ELSE jobs[i]]
      /\ asked' = [i \in Ids |-> i \in rows \/ asked[i]]
      /\ UNCHANGED <<queue, errors, usedIps, worker, poller, handlers, server>>
  BY DEF StartRows, MarkRowsQueued
<1>2. /\ runnerToken' \in {runnerToken, runnerToken + 1}
      /\ runner' \in {runner, runnerToken + 1}
      /\ run' \in {run, "syncing"}
      /\ asks < MaxAsks /\ asks' = asks + 1
  BY DEF StartRows
<1>3. \A o \in mine : HasRow(o)
  BY DEF IInv, QueueGood, Queued
<1> HIDE DEF mine, marked
<1>4. \A i : GoodView([status |-> "queued", job |-> None, retry |-> FALSE], i)
  BY DEF GoodView, View, RowStatuses, Live
<1>5. \A o \in Objects :
        \/ obj'[o] = obj[o]
        \/ /\ obj'[o] \in Row
           /\ obj[o] # None => obj'[o].id = obj[o].id
           /\ GoodView(ViewOf(obj'[o]), obj'[o].id)
  <2> SUFFICES ASSUME NEW o \in mine, o \in Objects
               PROVE  /\ obj'[o] \in Row /\ obj'[o].id = obj[o].id
                      /\ GoodView(ViewOf(obj'[o]), obj'[o].id)
    BY <1>1
  <2>1. obj[o] \in Row
    BY <1>3 DEF HasRow, IInv, TypeOK
  <2>2. obj'[o] = [obj[o] EXCEPT !.status = "queued", !.job = None,
                                 !.retry = FALSE]
    BY <1>1
  <2>3. /\ obj'[o] \in Row /\ obj'[o].id = obj[o].id
        /\ ViewOf(obj'[o]) = [status |-> "queued", job |-> None,
                              retry |-> FALSE]
    BY <2>1, <2>2 DEF Row, RowStatuses, Live, ViewOf
  <2> QED
    BY <2>3, <1>4
<1>6. \A i \in Ids : jobs'[i] \in {jobs[i], None} \/ GoodView(jobs'[i], i)
  BY <1>1, <1>4
<1>7. JobsStay /\ jobs' \in [Ids -> View \cup {None}]
      /\ obj' \in [Objects -> Row \cup {None}]
  <2>1. [status |-> "queued", job |-> None, retry |-> FALSE] \in View
    BY DEF View, RowStatuses, Live
  <2> QED
    BY <1>1, <1>5, <2>1, ServerStays DEF IInv, TypeOK
<1>8. Written
  BY <1>5, <1>6, <1>7, RowsWritten
<1>9. TypeOK'
  <2>1. asked' \in [Ids -> BOOLEAN]
    BY <1>1 DEF IInv, TypeOK
  <2>2. runner' \in Nat /\ runnerToken' \in Nat /\ asks' \in 0 .. MaxAsks
    <3>1. /\ runner \in Nat /\ runnerToken \in Nat
          /\ asks \in 0 .. MaxAsks /\ MaxAsks \in Nat
      BY RunnerAssumption DEF IInv, TypeOK
    <3>2. runner' \in Nat /\ runnerToken' \in Nat
      BY <1>2, <3>1
    <3>3. asks' \in 0 .. MaxAsks
      BY <1>2, <3>1
    <3> QED
      BY <3>2, <3>3
  <2>3. run' \in {"off", "syncing", "working"}
    BY <1>2 DEF IInv, TypeOK
  <2> QED
    BY <1>1, <1>7, <2>1, <2>2, <2>3 DEF IInv, TypeOK, handlers
<1>10. QueueGood'
  BY <1>1, <1>7, <1>8, QueueStays DEF Written
<1> QED
  BY <1>1, <1>7, <1>8, <1>9, <1>10, ActorsGood, OthersKeep DEF handlers

LEMMA RunQueuedRowsKeeps ==
  ASSUME IInv, RunQueuedRows
  PROVE  IInv'
<1>1. UNCHANGED <<queue, obj, jobs, errors, runnerToken, handlers, server,
                  history>>
      /\ usedIps' = {}
  BY DEF RunQueuedRows
<1>2. /\ worker' = worker \/ \A w \in Workers : worker'[w].pc \notin Login
      /\ worker' \in [Workers -> Worker]
  <2>1. CASE worker' = worker
    BY <2>1 DEF IInv, TypeOK
  <2>2. CASE worker' # worker
    <3>1. PICK team \in SUBSET Workers :
            worker' = [w \in Workers |->
              IF w \in team THEN [Off EXCEPT !.pc = "pause"] ELSE Off]
      BY <2>2 DEF RunQueuedRows
    <3> QED
      BY <3>1, OffIsGood
  <2> QED
    BY <2>1, <2>2
<1>3. run' \in {"off", "working"} /\ runner' \in {0, runner}
      /\ (poller' = poller \/ StartPolling)
  BY DEF RunQueuedRows, EndRun
<1>4. poller' \in [on : BOOLEAN, pending : SUBSET Objects,
                   at : Poll \cup {None}]
      /\ poller'.pending = poller.pending /\ poller'.at = poller.at
  <2>1. poller \in [on : BOOLEAN, pending : SUBSET Objects,
                    at : Poll \cup {None}]
    BY DEF IInv, TypeOK
  <2>2. CASE StartPolling
    <3>1. PICK b \in BOOLEAN : poller' = [poller EXCEPT !.on = b]
      BY <2>2, PollingIsTyped DEF IInv
    <3> QED
      BY <2>1, <3>1
  <2> QED
    BY <1>3, <2>1, <2>2
<1>5. JobsStay /\ Written
  BY <1>1, ServerStays, NothingWritten DEF IInv
<1>6. TypeOK'
  BY <1>1, <1>2, <1>3, <1>4 DEF IInv, TypeOK, handlers, history
<1>7. QueueGood'
  BY <1>1, <1>5, QueueStays DEF Written
<1> QED
  BY <1>1, <1>2, <1>4, <1>5, <1>6, <1>7, ActorsGood, OthersKeep DEF handlers

LEMMA PollBeginsKeeps ==
  ASSUME IInv, PollBegins
  PROVE  IInv'
<1>1. UNCHANGED <<queue, obj, jobs, errors, runs, worker, handlers, server,
                  history>>
      /\ poller' = IF LiveRows = {}
                   THEN [poller EXCEPT !.on = FALSE]
                   ELSE [poller EXCEPT !.pending = {queue[i] : i \in LiveRows}]
  BY DEF PollBegins
<1>2. \A i \in LiveRows : HasRow(queue[i])
  BY DEF LiveRows, Queued, IInv, QueueGood
<1>3. poller' \in [on : BOOLEAN, pending : SUBSET Objects,
                   at : Poll \cup {None}]
      /\ poller'.at = poller.at
      /\ \A o \in poller'.pending : HasRow(o)
  <2>1. poller \in [on : BOOLEAN, pending : SUBSET Objects,
                    at : Poll \cup {None}]
    BY DEF IInv, TypeOK
  <2>2. {queue[i] : i \in LiveRows} \in SUBSET Objects
    BY <1>2 DEF HasRow
  <2>3. CASE LiveRows = {}
    BY <1>1, <2>1, <2>3, ActorsGood
  <2>4. CASE LiveRows # {}
    <3>1. poller'.pending = {queue[i] : i \in LiveRows}
      BY <1>1, <2>1, <2>4
    <3> QED
      BY <1>1, <1>2, <2>1, <2>2, <2>4, <3>1
  <2> QED
    BY <2>3, <2>4
<1>4. JobsStay /\ Written
  BY <1>1, ServerStays, NothingWritten DEF IInv
<1>5. TypeOK'
  BY <1>1, <1>3 DEF IInv, TypeOK, runs, handlers, history
<1>6. QueueGood'
  BY <1>1, <1>4, QueueStays DEF Written
<1> QED
  BY <1>1, <1>3, <1>4, <1>5, <1>6, ActorsGood, OthersKeep DEF handlers

LEMMA PollSendsKeeps ==
  ASSUME IInv, PollSends
  PROVE  IInv'
<1>1. UNCHANGED <<queue, obj, jobs, errors, runs, worker, handlers, server,
                  history>>
  BY DEF PollSends
<1>2. PICK o \in poller.pending :
        poller' = [poller EXCEPT !.pending = @ \ {o},
            !.at = IF RowState(o).job = None THEN None
                   ELSE [obj |-> o, current |-> RowState(o),
                         seen |-> AnswerOf(RowState(o).job)]]
  BY DEF PollSends
<1>3. HasRow(o) /\ GoodView(RowState(o), obj[o].id)
  BY ActorsGood, RowStateGood
<1>4. poller' \in [on : BOOLEAN, pending : SUBSET Objects,
                   at : Poll \cup {None}]
      /\ poller'.pending \subseteq poller.pending
      /\ \A p : p = poller'.at /\ p # None => GoodPoll(p)
  <2>1. poller \in [on : BOOLEAN, pending : SUBSET Objects,
                    at : Poll \cup {None}]
    BY DEF IInv, TypeOK
  <2>2. CASE RowState(o).job = None
    BY <1>2, <2>1, <2>2
  <2>3. CASE RowState(o).job # None
    <3>1. PICK p : p = [obj |-> o, current |-> RowState(o),
                        seen |-> AnswerOf(RowState(o).job)]
      OBVIOUS
    <3>2. GoodAnswer(AnswerOf(RowState(o).job), RowState(o).job)
      BY <1>3, <2>3, KnownAnswer DEF GoodView
    <3>3. GoodPoll(p)
      BY <1>3, <2>3, <3>1, <3>2 DEF GoodPoll
    <3>4. p \in Poll
      BY <1>3, <3>1, <3>2 DEF Poll, HasRow, GoodView, GoodAnswer
    <3>5. poller' = [poller EXCEPT !.pending = @ \ {o}, !.at = p]
      BY <1>2, <2>3, <3>1
    <3> QED
      BY <2>1, <3>3, <3>4, <3>5
  <2> QED
    BY <2>2, <2>3
<1>5. JobsStay /\ Written
  BY <1>1, ServerStays, NothingWritten DEF IInv
<1>6. TypeOK'
  BY <1>1, <1>4 DEF IInv, TypeOK, runs, handlers, history
<1>7. QueueGood'
  BY <1>1, <1>5, QueueStays DEF Written
<1> QED
  BY <1>1, <1>4, <1>5, <1>6, <1>7, ActorsGood, OthersKeep DEF handlers

\* A poll has come back: what it holds is dropped.
LEMMA PollEnds ==
  ASSUME IInv, poller' = [poller EXCEPT !.at = None]
  PROVE  /\ poller' \in [on : BOOLEAN, pending : SUBSET Objects,
                         at : Poll \cup {None}]
         /\ \A o \in poller'.pending : HasRow(o)
         /\ \A p : p = poller'.at /\ p # None => GoodPoll(p)
<1>1. poller \in [on : BOOLEAN, pending : SUBSET Objects,
                  at : Poll \cup {None}]
  BY DEF IInv, TypeOK
<1> QED
  BY <1>1, ActorsGood

LEMMA PollAnsweredKeeps ==
  ASSUME IInv, PollAnswered
  PROVE  IInv'
<1>1. /\ poller.at # None /\ poller' = [poller EXCEPT !.at = None]
      /\ UNCHANGED <<queue, runs, worker, handlers, server, history>>
  BY DEF PollAnswered
<1>2. PICK p : p = poller.at
  OBVIOUS
<1>3. GoodPoll(p)
  BY <1>1, <1>2, ActorsGood
<1>4. JobsStay
  BY <1>1, ServerStays DEF IInv
<1>5. Written /\ errors' \in [Ids -> 0 .. 3]
  <2>1. CASE UNCHANGED <<obj, jobs, errors>>
    BY <1>4, <2>1, NothingWritten DEF IInv, TypeOK
  <2>2. CASE ~UNCHANGED <<obj, jobs, errors>>
    <3>1. PICK answer \in {p.seen, AnswerOf(p.current.job)} :
            /\ ApplyJob(p.obj, p.current, answer)
            /\ errors' = [errors EXCEPT ![obj[p.obj].id] = 0]
      BY <1>2, <2>2 DEF PollAnswered
    <3>2. JobOf(p.current.job, obj[p.obj].id)
      BY <1>3 DEF GoodPoll, GoodView
    <3>3. GoodAnswer(answer, p.current.job)
      BY <1>3, <3>1, <3>2, KnownAnswer DEF GoodPoll
    <3>4. Written
      BY <1>1, <1>3, <3>1, <3>2, <3>3, ApplyJobKeeps DEF GoodPoll
    <3> QED
      BY <3>1, <3>4, ErrorsForgotten DEF IInv, TypeOK
  <2> QED
    BY <2>1, <2>2
<1>6. TypeOK'
  BY <1>1, <1>5, PollEnds
     DEF IInv, TypeOK, runs, handlers, history, Written, RowsStay
<1>7. QueueGood'
  BY <1>1, <1>4, <1>5, QueueStays DEF Written
<1> QED
  BY <1>1, <1>4, <1>5, <1>6, <1>7, PollEnds, ActorsGood, OthersKeep
     DEF handlers

LEMMA PollFailsKeeps ==
  ASSUME IInv, PollFails
  PROVE  IInv'
<1>1. /\ poller.at # None /\ poller' = [poller EXCEPT !.at = None]
      /\ UNCHANGED <<queue, runs, worker, handlers, server, history>>
  BY DEF PollFails
<1>2. PICK p : p = poller.at
  OBVIOUS
<1>3. GoodPoll(p)
  BY <1>1, <1>2, ActorsGood
<1>4. JobsStay
  BY <1>1, ServerStays DEF IInv
<1>5. Written
  <2>1. PICK retry \in BOOLEAN :
          \/ CommitFailure(p.obj, p.current, retry)
          \/ /\ jobs' = [jobs EXCEPT ![obj[p.obj].id] = p.current]
             /\ UNCHANGED obj
    BY <1>2 DEF PollFails
  <2>2. CASE CommitFailure(p.obj, p.current, retry)
    BY <1>1, <1>3, <2>2, CommitFailureKeeps DEF GoodPoll
  <2>3. CASE /\ jobs' = [jobs EXCEPT ![obj[p.obj].id] = p.current]
             /\ UNCHANGED obj
    <3>1. \A i \in Ids : jobs'[i] \in {jobs[i], None} \/ GoodView(jobs'[i], i)
      BY <1>3, <2>3 DEF GoodPoll, IInv, TypeOK
    <3>2. jobs' \in [Ids -> View \cup {None}]
      BY <1>3, <2>3 DEF GoodPoll, GoodView, IInv, TypeOK
    <3> QED
      BY <1>4, <2>3, <3>1, <3>2, RowsWritten DEF IInv, TypeOK
  <2> QED
    BY <2>1, <2>2, <2>3
<1>6. errors' \in [Ids -> 0 .. 3]
  <2>1. PICK count :
          /\ count = IF errors[obj[p.obj].id] < 3
                     THEN errors[obj[p.obj].id] + 1 ELSE 3
          /\ errors' = [errors EXCEPT ![obj[p.obj].id] = count]
    BY <1>2 DEF PollFails
  <2>2. obj[p.obj].id \in Ids
    BY <1>3 DEF GoodPoll, HasRow, IInv, TypeOK, Row
  <2>3. errors \in [Ids -> 0 .. 3] /\ errors[obj[p.obj].id] \in 0 .. 3
    BY <2>2 DEF IInv, TypeOK
  <2>4. count \in 0 .. 3
    BY <2>1, <2>3
  <2> QED
    BY <2>1, <2>3, <2>4
<1>7. TypeOK'
  BY <1>1, <1>5, <1>6, PollEnds
     DEF IInv, TypeOK, runs, handlers, history, Written, RowsStay
<1>8. QueueGood'
  BY <1>1, <1>4, <1>5, QueueStays DEF Written
<1> QED
  BY <1>1, <1>4, <1>5, <1>7, <1>8, PollEnds, ActorsGood, OthersKeep
     DEF handlers

\* Jobs keep their exit and their run, and there are no new ones.
SameExits ==
  \A j \in Jobs :
    /\ server'[j] = None <=> server[j] = None
    /\ server[j] # None => /\ server'[j].ip = server[j].ip
                           /\ server'[j].run = server[j].run

LEMMA SendCancelKeeps ==
  ASSUME IInv, NEW rows \in SUBSET LiveRows, NEW clear \in BOOLEAN,
         SendCancel(rows, clear)
  PROVE  /\ JobsStay /\ Written /\ SameExits
         /\ cancels' \subseteq Cancel /\ \A c \in cancels' : GoodCancel(c)
         /\ asked' \in [Ids -> BOOLEAN]
<1> DEFINE known(i) == KnownJob(queue[i], RowState(queue[i]))
           sent == {i \in rows : known(i) # None}
           killed == {known(i) : i \in sent}
           Killed(j) == IF server[j].status \in Live
                        THEN [server[j] EXCEPT !.status = "failed",
                                               !.retry = FALSE]
                        ELSE server[j]
           message(i) == [obj |-> queue[i], current |-> RowState(queue[i]),
                          job |-> known(i),
                          seen |-> [status |-> Killed(known(i)).status,
                                    retry |-> Killed(known(i)).retry],
                          clear |-> clear]
           stopped == {queue[i] : i \in rows \ sent}
<1>1. /\ server' = [j \in Jobs |-> IF j \in killed THEN Killed(j)
                                    ELSE server[j]]
      /\ cancels' = cancels \cup {message(i) : i \in sent}
      /\ obj' = [o \in Objects |->
           IF o \in stopped
           THEN [obj[o] EXCEPT !.status = "failed", !.retry = FALSE]
           ELSE obj[o]]
      /\ jobs' = [i \in Ids |->
           IF i \in rows \ sent
           THEN [status |-> "failed", job |-> None, retry |-> FALSE]
           ELSE jobs[i]]
      /\ asked' = [i \in Ids |->
           asked[i] /\ (i \notin rows \ sent \/ Working(i))]
  BY DEF SendCancel
<1>2. \A i \in rows :
        /\ i \in Ids /\ HasRow(queue[i]) /\ obj[queue[i]].id = i
        /\ GoodView(RowState(queue[i]), i)
        /\ known(i) \in Jobs \cup {None}
        /\ known(i) # None => JobOf(known(i), i)
  <2> SUFFICES ASSUME NEW i \in rows
               PROVE  /\ i \in Ids /\ HasRow(queue[i]) /\ obj[queue[i]].id = i
                      /\ GoodView(RowState(queue[i]), i)
                      /\ known(i) \in Jobs \cup {None}
                      /\ known(i) # None => JobOf(known(i), i)
    OBVIOUS
  <2>1. i \in Ids /\ HasRow(queue[i]) /\ obj[queue[i]].id = i
    BY DEF LiveRows, Queued, IInv, QueueGood
  <2>2. GoodView(RowState(queue[i]), i)
    BY <2>1, RowStateGood
  <2>3. GoodView(ViewOf(obj[queue[i]]), i)
    BY <2>1 DEF IInv, RowsGood, HasRow
  <2> QED
    BY <2>1, <2>2, <2>3 DEF GoodView, ViewOf, View, KnownJob
<1>3. \A j \in Jobs : server[j] # None =>
        /\ Killed(j) \in ServerJob /\ Killed(j).id = server[j].id
        /\ Killed(j).ip = server[j].ip /\ Killed(j).run = server[j].run
        /\ Killed(j).status = "success" <=> server[j].status = "success"
  <2> SUFFICES ASSUME NEW j \in Jobs, server[j] # None
               PROVE  /\ Killed(j) \in ServerJob
                      /\ Killed(j).id = server[j].id
                      /\ Killed(j).ip = server[j].ip
                      /\ Killed(j).run = server[j].run
                      /\ Killed(j).status = "success"
                           <=> server[j].status = "success"
    OBVIOUS
  <2>1. server[j] \in ServerJob
    BY DEF IInv, TypeOK
  <2>2. CASE server[j].status \in Live
    BY <2>1, <2>2 DEF ServerJob, Live, Terminal
  <2>3. CASE server[j].status \notin Live
    BY <2>1, <2>3
  <2> QED
    BY <2>2, <2>3
<1>4. \A i \in sent : message(i) \in Cancel /\ GoodCancel(message(i))
  <2> SUFFICES ASSUME NEW i \in sent
               PROVE  message(i) \in Cancel /\ GoodCancel(message(i))
    OBVIOUS
  <2>1. PICK j : j = known(i)
    OBVIOUS
  <2>2. /\ JobOf(j, i) /\ HasRow(queue[i]) /\ obj[queue[i]].id = i
        /\ GoodView(RowState(queue[i]), i)
    BY <1>2, <2>1
  <2>3. PICK a : a = [status |-> Killed(j).status, retry |-> Killed(j).retry]
    OBVIOUS
  <2>4. GoodAnswer(a, j)
    BY <1>3, <2>2, <2>3 DEF GoodAnswer, Answer, ServerJob, JobOf
  <2>5. PICK m : m = [obj |-> queue[i], current |-> RowState(queue[i]),
                      job |-> j, seen |-> a, clear |-> clear]
    OBVIOUS
  <2>6. m \in Cancel /\ GoodCancel(m)
    BY <2>2, <2>4, <2>5
       DEF Cancel, GoodCancel, HasRow, JobOf, GoodView, GoodAnswer
  <2>7. m = message(i)
    BY <2>1, <2>3, <2>5
  <2> QED
    BY <2>6, <2>7
<1>5. \A o \in stopped : HasRow(o)
  BY <1>2
<1>6. killed \subseteq Jobs /\ \A j \in killed : server[j] # None
  BY <1>2 DEF JobOf
<1> HIDE DEF known, sent, killed, Killed, message, stopped
<1>7. JobsStay /\ SameExits
  <2>1. \A j \in Jobs :
          \/ server'[j] = server[j]
          \/ server[j] # None /\ server'[j] = Killed(j)
    BY <1>1, <1>6
  <2>2. server' \in [Jobs -> ServerJob \cup {None}]
    BY <1>1, <1>3, <1>6 DEF IInv, TypeOK
  <2>3. \A j \in Jobs : server[j] # None => Killed(j) # None
    BY <1>3, NoneAssumption
  <2> QED
    BY <1>3, <2>1, <2>2, <2>3 DEF JobsStay, SameExits
<1>8. \A o \in Objects :
        \/ obj'[o] = obj[o]
        \/ /\ obj'[o] \in Row
           /\ obj[o] # None => obj'[o].id = obj[o].id
           /\ GoodView(ViewOf(obj'[o]), obj'[o].id)
  <2> SUFFICES ASSUME NEW o \in stopped, o \in Objects
               PROVE  /\ obj'[o] \in Row /\ obj'[o].id = obj[o].id
                      /\ GoodView(ViewOf(obj'[o]), obj'[o].id)
    BY <1>1
  <2>1. obj[o] \in Row /\ GoodView(ViewOf(obj[o]), obj[o].id)
    BY <1>5 DEF HasRow, IInv, TypeOK, RowsGood
  <2>2. obj'[o] = [obj[o] EXCEPT !.status = "failed", !.retry = FALSE]
    BY <1>1
  <2>3. /\ obj'[o] \in Row /\ obj'[o].id = obj[o].id
        /\ ViewOf(obj'[o]) = [status |-> "failed", job |-> obj[o].job,
                              retry |-> FALSE]
    BY <2>1, <2>2 DEF Row, RowStatuses, Terminal, ViewOf
  <2> QED
    BY <2>1, <2>3 DEF GoodView, ViewOf, View, RowStatuses, Terminal
<1>9. /\ \A i \in Ids : jobs'[i] \in {jobs[i], None} \/ GoodView(jobs'[i], i)
      /\ jobs' \in [Ids -> View \cup {None}]
  <2>1. PICK v : v = [status |-> "failed", job |-> None, retry |-> FALSE]
    OBVIOUS
  <2>2. v \in View /\ \A i : GoodView(v, i)
    BY <2>1 DEF GoodView, View, RowStatuses, Terminal
  <2>3. jobs' = [i \in Ids |-> IF i \in rows \ sent THEN v ELSE jobs[i]]
    BY <1>1, <2>1
  <2> QED
    BY <2>2, <2>3 DEF IInv, TypeOK
<1>10. obj' \in [Objects -> Row \cup {None}]
  BY <1>1, <1>8 DEF IInv, TypeOK
<1>11. Written
  BY <1>7, <1>8, <1>9, <1>10, RowsWritten
<1>12. cancels' \subseteq Cancel /\ \A c \in cancels' : GoodCancel(c)
  BY <1>1, <1>4, ActorsGood DEF IInv, TypeOK
<1>13. asked' \in [Ids -> BOOLEAN]
  BY <1>1
<1> QED
  BY <1>7, <1>11, <1>12, <1>13

LEMMA CancelLoginJobKeeps ==
  ASSUME IInv, NEW i, CancelLoginJob(i)
  PROVE  IInv'
<1>1. /\ {i} \in SUBSET LiveRows /\ FALSE \in BOOLEAN
      /\ SendCancel({i}, FALSE)
      /\ UNCHANGED <<queue, errors, runs, worker, poller, cleaning, clearing,
                     asks>>
  BY DEF CancelLoginJob
<1>2. /\ JobsStay /\ Written
      /\ cancels' \subseteq Cancel /\ \A c \in cancels' : GoodCancel(c)
      /\ asked' \in [Ids -> BOOLEAN]
  BY <1>1, SendCancelKeeps
<1>3. TypeOK'
  BY <1>1, <1>2 DEF IInv, TypeOK, runs, Written, RowsStay, JobsStay
<1>4. QueueGood'
  BY <1>1, <1>2, QueueStays DEF Written
<1> QED
  BY <1>1, <1>2, <1>3, <1>4, ActorsGood, OthersKeep

LEMMA ClearQueueKeeps ==
  ASSUME IInv, ClearQueue
  PROVE  IInv'
<1>1. /\ LiveRows \in SUBSET LiveRows /\ TRUE \in BOOLEAN
      /\ SendCancel(LiveRows, TRUE)
      /\ clearing' = TRUE /\ runnerToken' = runnerToken + 1
      /\ poller' = [poller EXCEPT !.on = FALSE]
      /\ UNCHANGED <<queue, errors, runner, run, usedIps, worker, cleaning,
                     asks>>
  BY DEF ClearQueue
<1>2. /\ JobsStay /\ Written
      /\ cancels' \subseteq Cancel /\ \A c \in cancels' : GoodCancel(c)
      /\ asked' \in [Ids -> BOOLEAN]
  BY <1>1, SendCancelKeeps
<1>3. poller' \in [on : BOOLEAN, pending : SUBSET Objects,
                   at : Poll \cup {None}]
      /\ poller'.pending = poller.pending /\ poller'.at = poller.at
  <2>1. poller \in [on : BOOLEAN, pending : SUBSET Objects,
                    at : Poll \cup {None}]
    BY DEF IInv, TypeOK
  <2> QED
    BY <1>1, <2>1
<1>4. TypeOK'
  BY <1>1, <1>2, <1>3 DEF IInv, TypeOK, Written, RowsStay, JobsStay
<1>5. QueueGood'
  BY <1>1, <1>2, QueueStays DEF Written
<1> QED
  BY <1>1, <1>2, <1>3, <1>4, <1>5, ActorsGood, OthersKeep

LEMMA CancelAnsweredKeeps ==
  ASSUME IInv, NEW c \in cancels, CancelAnswered(c)
  PROVE  IInv'
<1>1. /\ cancels' = cancels \ {c}
      /\ UNCHANGED <<queue, runs, worker, poller, cleaning, clearing, server,
                     asks>>
  BY DEF CancelAnswered
<1>2. GoodCancel(c) /\ JobsStay
  BY <1>1, ActorsGood, ServerStays DEF IInv
<1>3. Written /\ errors' \in [Ids -> 0 .. 3] /\ asked' \in [Ids -> BOOLEAN]
  <2>1. CASE UNCHANGED <<obj, jobs, errors, asked>>
    BY <1>2, <2>1, NothingWritten DEF IInv, TypeOK
  <2>2. CASE ~UNCHANGED <<obj, jobs, errors, asked>>
    <3>1. /\ ApplyJob(c.obj, c.current, c.seen)
          /\ errors' = [errors EXCEPT ![obj[c.obj].id] = 0]
          /\ asked' = [asked EXCEPT ![obj[c.obj].id] =
                                         @ /\ Working(obj[c.obj].id)]
      BY <2>2 DEF CancelAnswered
    <3>2. Written
      BY <1>1, <1>2, <3>1, ApplyJobKeeps DEF GoodCancel
    <3>3. asked' \in [Ids -> BOOLEAN]
      BY <3>1 DEF IInv, TypeOK
    <3>4. errors' \in [Ids -> 0 .. 3]
      BY <3>1, ErrorsForgotten DEF IInv, TypeOK
    <3> QED
      BY <3>2, <3>3, <3>4
  <2> QED
    BY <2>1, <2>2
<1>4. TypeOK'
  BY <1>1, <1>3 DEF IInv, TypeOK, runs, Written, RowsStay
<1>5. QueueGood'
  BY <1>1, <1>2, <1>3, QueueStays DEF Written
<1> QED
  BY <1>1, <1>2, <1>3, <1>4, <1>5, ActorsGood, OthersKeep

LEMMA RemoveKeeps ==
  ASSUME IInv, NEW ids, RemoveRows(ids),
         UNCHANGED <<obj, errors, runs, worker, poller, cancels, server, asks>>,
         cleaning' \in SUBSET Ids, clearing' \in BOOLEAN
  PROVE  IInv'
<1>1. /\ queue' = [i \in Ids |-> IF i \in ids THEN None ELSE queue[i]]
      /\ jobs' = [i \in Ids |-> IF i \in ids THEN None ELSE jobs[i]]
      /\ asked' = [i \in Ids |-> i \notin ids /\ asked[i]]
  BY DEF RemoveRows
<1>2. JobsStay /\ obj' \in [Objects -> Row \cup {None}]
      /\ \A o \in Objects : obj'[o] = obj[o]
  BY ServerStays DEF IInv, TypeOK
<1>3. jobs' \in [Ids -> View \cup {None}]
      /\ \A i \in Ids : jobs'[i] \in {jobs[i], None}
  BY <1>1 DEF IInv, TypeOK
<1>4. Written
  BY <1>2, <1>3, RowsWritten
<1>5. queue' \in [Ids -> Objects \cup {None}]
      /\ \A i \in Ids : queue'[i] \in {queue[i], None}
  BY <1>1 DEF IInv, TypeOK
<1>6. asked' \in [Ids -> BOOLEAN]
  BY <1>1
<1>7. TypeOK'
  BY <1>2, <1>3, <1>5, <1>6 DEF IInv, TypeOK, runs
<1>8. QueueGood'
  BY <1>2, <1>4, <1>5, QueueStays DEF Written
<1> QED
  BY <1>2, <1>4, <1>7, <1>8, ActorsGood, OthersKeep

LEMMA RemovalsKeep ==
  ASSUME IInv,
         \/ \E rows \in SUBSET Queued \ {{}} : RemoveSelectedSources(rows)
         \/ FailedRowsCleaned \/ QueueCleared
  PROVE  IInv'
<1>1. CASE \E rows \in SUBSET Queued \ {{}} : RemoveSelectedSources(rows)
  BY <1>1, RemoveKeeps DEF RemoveSelectedSources, handlers, IInv, TypeOK
<1>2. CASE FailedRowsCleaned
  BY <1>2, RemoveKeeps DEF FailedRowsCleaned, IInv, TypeOK
<1>3. CASE QueueCleared
  BY <1>3, RemoveKeeps DEF QueueCleared, IInv, TypeOK
<1> QED
  BY <1>1, <1>2, <1>3

LEMMA CleanFailedRowsKeeps ==
  ASSUME IInv, NEW rows \in SUBSET Queued, CleanFailedRows(rows)
  PROVE  IInv'
<1>1. /\ cleaning' = rows
      /\ UNCHANGED <<queue, obj, jobs, errors, runs, worker, poller, cancels,
                     clearing, server, history>>
  BY DEF CleanFailedRows
<1>2. JobsStay /\ Written
  BY <1>1, ServerStays, NothingWritten DEF IInv
<1>3. TypeOK'
  BY <1>1 DEF IInv, TypeOK, Queued, runs, history
<1>4. QueueGood'
  BY <1>1, <1>2, QueueStays DEF Written
<1> QED
  BY <1>1, <1>2, <1>3, <1>4, ActorsGood, OthersKeep

LEMMA AddToQueueKeeps ==
  ASSUME IInv, NEW i \in Ids, NEW o \in Objects, AddToQueue(i, o)
  PROVE  IInv'
<1>1. /\ obj[o] = None
      /\ queue' = [queue EXCEPT ![i] = o]
      /\ UNCHANGED <<jobs, errors, runs, worker, poller, handlers, server,
                     history>>
  BY DEF AddToQueue
<1>2. PICK row : /\ row = IF queue[i] # None
                          THEN [obj[queue[i]] EXCEPT !.auth = HasAuth(i)]
                          ELSE [id |-> i, status |-> "idle", job |-> None,
                                retry |-> FALSE, auth |-> HasAuth(i)]
                 /\ obj' = [obj EXCEPT ![o] = row]
  BY DEF AddToQueue
<1>3. PICK auth \in BOOLEAN : auth = HasAuth(i)
  BY DEF HasAuth
<1>4. row \in Row /\ row.id = i /\ GoodView(ViewOf(row), i)
  <2>1. CASE queue[i] = None
    <3>1. row = [id |-> i, status |-> "idle", job |-> None,
                 retry |-> FALSE, auth |-> auth]
      BY <1>2, <1>3, <2>1
    <3> QED
      BY <3>1 DEF Row, RowStatuses, GoodView, View, ViewOf
  <2>2. CASE queue[i] # None
    <3>1. HasRow(queue[i]) /\ obj[queue[i]].id = i
      BY <2>2 DEF IInv, QueueGood
    <3>2. obj[queue[i]] \in Row /\ GoodView(ViewOf(obj[queue[i]]), i)
      BY <3>1 DEF HasRow, IInv, TypeOK, RowsGood
    <3>3. row = [obj[queue[i]] EXCEPT !.auth = auth]
      BY <1>2, <1>3, <2>2
    <3>4. row \in Row /\ row.id = i /\ ViewOf(row) = ViewOf(obj[queue[i]])
      BY <3>1, <3>2, <3>3 DEF Row, ViewOf
    <3> QED
      BY <3>2, <3>4
  <2> QED
    BY <2>1, <2>2
<1>5. JobsStay /\ jobs' \in [Ids -> View \cup {None}]
      /\ obj' \in [Objects -> Row \cup {None}]
  BY <1>1, <1>2, <1>4, ServerStays DEF IInv, TypeOK
<1>6. obj'[o] = row /\ \A p \in Objects \ {o} : obj'[p] = obj[p]
  BY <1>2 DEF IInv, TypeOK
<1>7. Written
  BY <1>1, <1>4, <1>5, <1>6, RowsWritten
<1>8. TypeOK'
  BY <1>1, <1>5 DEF IInv, TypeOK, runs, handlers, history
<1>9. QueueGood'
  <2> SUFFICES ASSUME NEW k \in Ids, queue'[k] # None
               PROVE  HasRow(queue[k])' /\ obj'[queue'[k]].id = k
    BY DEF QueueGood
  <2>1. CASE k = i
    <3>1. queue'[k] = o
      BY <1>1, <2>1 DEF IInv, TypeOK
    <3> QED
      BY <1>4, <1>6, <2>1, <3>1, NoneAssumption DEF HasRow
  <2>2. CASE k # i
    <3>1. queue'[k] = queue[k]
      BY <1>1, <2>2 DEF IInv, TypeOK
    <3>2. HasRow(queue[k]) /\ obj[queue[k]].id = k
      BY <3>1 DEF IInv, QueueGood
    <3> QED
      BY <1>5, <1>7, <3>1, <3>2, GoodStays DEF IInv, Written
  <2> QED
    BY <2>1, <2>2
<1> QED
  BY <1>1, <1>5, <1>7, <1>8, <1>9, ActorsGood, OthersKeep DEF handlers

LEMMA JobMovesStay ==
  ASSUME IInv, NEW j \in Jobs, JobMoves(j)
  PROVE  JobsStay
<1>1. /\ server[j] # None
      /\ UNCHANGED <<queue, obj, jobs, errors, runs, worker, poller, handlers,
                     history>>
  BY DEF JobMoves
<1>2. server[j] \in ServerJob
  BY <1>1 DEF IInv, TypeOK
<1>3. PICK new : /\ new \in ServerJob /\ new.id = server[j].id
                 /\ server[j].status # "success"
                 /\ server' = [server EXCEPT ![j] = new]
  <2>1. CASE server[j].status = "queued"
    <3>1. server' = [server EXCEPT ![j] = [@ EXCEPT !.status = "running"]]
      BY <2>1 DEF JobMoves
    <3>2. [server[j] EXCEPT !.status = "running"] \in ServerJob
      BY <1>2 DEF ServerJob, Live
    <3> QED
      BY <1>2, <2>1, <3>1, <3>2 DEF ServerJob
  <2>2. CASE server[j].status = "running"
    <3>1. CASE server' = [server EXCEPT ![j] = [@ EXCEPT !.status = "success"]]
      <4>1. [server[j] EXCEPT !.status = "success"] \in ServerJob
        BY <1>2 DEF ServerJob, Terminal
      <4> QED
        BY <1>2, <2>2, <3>1, <4>1 DEF ServerJob
    <3>2. ASSUME NEW retry \in BOOLEAN,
                 server' = [server EXCEPT ![j] =
                   [@ EXCEPT !.status = "failed", !.retry = retry]]
          PROVE  \E new : /\ new \in ServerJob /\ new.id = server[j].id
                          /\ server[j].status # "success"
                          /\ server' = [server EXCEPT ![j] = new]
      <4>1. [server[j] EXCEPT !.status = "failed", !.retry = retry]
              \in ServerJob
        BY <1>2 DEF ServerJob, Terminal
      <4> QED
        BY <1>2, <2>2, <3>2, <4>1 DEF ServerJob
    <3>3. \/ server' = [server EXCEPT ![j] = [@ EXCEPT !.status = "success"]]
          \/ \E retry \in BOOLEAN :
               server' = [server EXCEPT ![j] =
                 [@ EXCEPT !.status = "failed", !.retry = retry]]
      BY <1>2, <2>2 DEF JobMoves, IInv, TypeOK, ServerJob
    <3> QED
      BY <3>1, <3>2, <3>3
  <2> QED
    BY <2>1, <2>2 DEF JobMoves
<1>4. new # None /\ server'[j] = new
  BY <1>3, NoneAssumption DEF IInv, TypeOK
<1>5. \A k \in Jobs \ {j} : server'[k] = server[k]
  BY <1>3 DEF IInv, TypeOK
<1>6. server' \in [Jobs -> ServerJob \cup {None}]
  BY <1>3 DEF IInv, TypeOK
<1> QED
  BY <1>3, <1>4, <1>5, <1>6 DEF JobsStay

LEMMA JobMovesKeeps ==
  ASSUME IInv, NEW j \in Jobs, JobMoves(j)
  PROVE  IInv'
<1>1. UNCHANGED <<queue, obj, jobs, errors, runs, worker, poller, handlers,
                  history>>
  BY DEF JobMoves
<1>2. JobsStay
  BY JobMovesStay
<1>3. Written
  BY <1>1, <1>2, NothingWritten
<1>4. TypeOK'
  BY <1>1, <1>2 DEF IInv, TypeOK, runs, handlers, history, JobsStay
<1>5. QueueGood'
  BY <1>1, <1>2, <1>3, QueueStays DEF Written
<1> QED
  BY <1>1, <1>2, <1>3, <1>4, <1>5, ActorsGood, OthersKeep DEF handlers

-----------------------------------------------------------------------------
(***************************************************************************)
(* The invariant.                                                          *)
(***************************************************************************)
LEMMA NextKeeps ==
  ASSUME IInv, Next
  PROVE  IInv'
<1>1. CASE \E w \in Workers : Act(w)
  BY <1>1, ActKeeps
<1>2. CASE Polling
  BY <1>2, PollBeginsKeeps, PollSendsKeeps, PollAnsweredKeeps, PollFailsKeeps
     DEF Polling
<1>3. CASE Answered
  BY <1>3, CancelAnsweredKeeps, RemovalsKeep DEF Answered
<1>4. CASE User
  BY <1>4, StartRowsKeeps, CleanFailedRowsKeeps, RemovalsKeep,
     CancelLoginJobKeeps, AddToQueueKeeps, ClearQueueKeeps DEF User
<1> QED
  BY <1>1, <1>2, <1>3, <1>4, RunQueuedRowsKeeps, JobMovesKeeps DEF Next

LEMMA InitHolds ==
  ASSUME Init
  PROVE  /\ IInv
         /\ \A j \in Jobs : server[j] # None =>
              server[j].run = 0 /\ server[j].ip = None
         /\ \A o \in Objects : obj[o] # None =>
              queue[obj[o].id] = o /\ obj[o].status \in Loaded
<1> DEFINE Loads(ids, object, job, stored, now) ==
        /\ \A i, k \in ids : i # k => object[i] # object[k] /\ job[i] # job[k]
        /\ \A i \in ids : stored[i].job => stored[i].status # "idle"
        /\ \A i \in ids : stored[i].status = "success"
                            => stored[i].job /\ now[i] = "success"
        /\ queue = [i \in Ids |-> IF i \in ids THEN object[i] ELSE None]
        /\ obj = [o \in Objects |->
             IF \E i \in ids : object[i] = o
             THEN LET i == CHOOSE i \in ids : object[i] = o
                  IN StoredRow(i, job[i], stored[i])
             ELSE None]
        /\ server = [j \in Jobs |->
             IF \E i \in ids : job[i] = j /\ stored[i].job
             THEN LET i == CHOOSE i \in ids : job[i] = j
                  IN [id |-> i, status |-> now[i], retry |-> FALSE,
                      ip |-> None, run |-> 0]
             ELSE None]
<1>a. PICK ids \in SUBSET Ids :
        \E object \in [ids -> Objects], job \in [ids -> Jobs],
           stored \in [ids -> Stored], now \in [ids -> Live \cup Terminal] :
          Loads(ids, object, job, stored, now)
  BY DEF Init
<1> HIDE DEF Loads
<1>b. PICK object \in [ids -> Objects], job \in [ids -> Jobs],
           stored \in [ids -> Stored], now \in [ids -> Live \cup Terminal] :
        Loads(ids, object, job, stored, now)
  BY <1>a
<1>1. Loads(ids, object, job, stored, now)
  BY <1>b
<1> USE DEF Loads
<1>2. /\ jobs = [i \in Ids |-> None] /\ errors = [i \in Ids |-> 0]
      /\ runner = 0 /\ runnerToken = 0 /\ run = "off" /\ usedIps = {}
      /\ worker = [w \in Workers |-> Off]
      /\ poller = [on |-> ShouldUseRecoveryPolling, pending |-> {},
                   at |-> None]
      /\ cancels = {} /\ cleaning = {} /\ clearing = FALSE
      /\ asked = [i \in Ids |-> i \in LiveRows] /\ asks = 0
  BY DEF Init
<1>3. \A i \in ids : obj[object[i]] = StoredRow(i, job[i], stored[i])
  <2> SUFFICES ASSUME NEW i \in ids
               PROVE  obj[object[i]] = StoredRow(i, job[i], stored[i])
    OBVIOUS
  <2>1. (CHOOSE k \in ids : object[k] = object[i]) = i
    BY <1>1
  <2>2. object[i] \in Objects
    OBVIOUS
  <2> QED
    BY <1>1, <2>1, <2>2
<1>4. \A i \in ids : stored[i].job =>
        server[job[i]] = [id |-> i, status |-> now[i], retry |-> FALSE,
                          ip |-> None, run |-> 0]
  <2> SUFFICES ASSUME NEW i \in ids, stored[i].job
               PROVE  server[job[i]] = [id |-> i, status |-> now[i],
                                        retry |-> FALSE, ip |-> None,
                                        run |-> 0]
    OBVIOUS
  <2>1. (CHOOSE k \in ids : job[k] = job[i]) = i
    BY <1>1
  <2>2. job[i] \in Jobs
    OBVIOUS
  <2> QED
    BY <1>1, <2>1, <2>2
<1>5. \A o \in Objects : obj[o] = None \/ \E i \in ids : object[i] = o
  BY <1>1
<1>6. \A j \in Jobs : server[j] = None
                      \/ \E i \in ids : job[i] = j /\ stored[i].job
  BY <1>1
<1>7. \A i \in ids : /\ StoredRow(i, job[i], stored[i]) \in Row
                     /\ StoredRow(i, job[i], stored[i]).id = i
                     /\ GoodView(ViewOf(StoredRow(i, job[i], stored[i])), i)
  <2> SUFFICES ASSUME NEW i \in ids
               PROVE  /\ StoredRow(i, job[i], stored[i]) \in Row
                      /\ StoredRow(i, job[i], stored[i]).id = i
                      /\ GoodView(ViewOf(StoredRow(i, job[i], stored[i])), i)
    OBVIOUS
  <2>1. PICK row : row = StoredRow(i, job[i], stored[i])
    OBVIOUS
  <2>2. /\ stored[i] \in Stored /\ i \in Ids /\ job[i] \in Jobs
        /\ stored[i].status \in RowStatuses /\ stored[i].job \in BOOLEAN
    BY RunnerAssumption DEF Stored, RowStatuses, Live, Terminal
  <2>3. row = [id |-> i, status |-> stored[i].status,
               job |-> IF stored[i].job THEN job[i] ELSE None,
               retry |-> FALSE, auth |-> stored[i].status = "success"]
    BY <2>1 DEF StoredRow
  <2>4. row \in Row /\ row.id = i
    <3>1. PICK a \in BOOLEAN : a = (stored[i].status = "success")
      OBVIOUS
    <3>2. row = [id |-> i, status |-> stored[i].status,
                 job |-> IF stored[i].job THEN job[i] ELSE None,
                 retry |-> FALSE, auth |-> a]
      BY <2>3, <3>1
    <3> QED
      BY <2>2, <3>2 DEF Row
  <2>5. ViewOf(row) = [status |-> stored[i].status,
                       job |-> IF stored[i].job THEN job[i] ELSE None,
                       retry |-> FALSE]
    BY <2>3 DEF ViewOf
  <2>6. stored[i].job => JobOf(job[i], i) /\ server[job[i]].status = now[i]
    <3> SUFFICES ASSUME stored[i].job
                 PROVE  JobOf(job[i], i) /\ server[job[i]].status = now[i]
      OBVIOUS
    <3>1. server[job[i]] = [id |-> i, status |-> now[i], retry |-> FALSE,
                            ip |-> None, run |-> 0]
      BY <1>4
    <3>2. now[i] \in Live \cup Terminal
      OBVIOUS
    <3>3. server[job[i]] \in ServerJob
      BY <2>2, <3>1, <3>2 DEF ServerJob
    <3> HIDE DEF Loads
    <3>4. server[job[i]].id = i
      BY <3>1
    <3>5. server[job[i]] # None
      BY <3>3, NoneAssumption
    <3> QED
      BY <2>2, <3>1, <3>4, <3>5 DEF JobOf
  <2>7. GoodView(ViewOf(row), i)
    BY <1>1, <2>2, <2>5, <2>6 DEF GoodView, View, Earned
  <2> QED
    BY <2>1, <2>4, <2>7
<1>8. TypeOK
  <2>1. queue \in [Ids -> Objects \cup {None}]
    BY <1>1
  <2>2. obj \in [Objects -> Row \cup {None}]
    <3>1. \A o \in Objects : obj[o] \in Row \cup {None}
      BY <1>3, <1>5, <1>7
    <3> QED
      BY <1>1, <3>1
  <2>3. server \in [Jobs -> ServerJob \cup {None}]
    <3>1. \A i \in ids : [id |-> i, status |-> now[i], retry |-> FALSE,
                          ip |-> None, run |-> 0] \in ServerJob
      BY DEF ServerJob
    <3>2. ASSUME NEW j \in Jobs, server[j] # None
          PROVE  server[j] \in ServerJob
      <4>1. PICK i \in ids : job[i] = j /\ stored[i].job
        BY <1>6, <3>2
      <4> HIDE DEF Loads
      <4> QED
        BY <1>4, <3>1, <4>1
    <3> QED
      BY <1>1, <3>2
  <2>4. worker \in [Workers -> Worker]
    BY <1>2, OffIsGood
  <2>5. poller \in [on : BOOLEAN, pending : SUBSET Objects,
                    at : Poll \cup {None}]
    <3>1. PICK on \in BOOLEAN : on = ShouldUseRecoveryPolling
      BY DEF ShouldUseRecoveryPolling
    <3>2. poller = [on |-> on, pending |-> {}, at |-> None]
      BY <1>2, <3>1
    <3> QED
      BY <3>2
  <2>6. jobs \in [Ids -> View \cup {None}] /\ asked \in [Ids -> BOOLEAN]
    BY <1>2
  <2>7. errors \in [Ids -> 0 .. 3] /\ asks \in 0 .. MaxAsks
    BY <1>2, RunnerAssumption
  <2> QED
    BY <1>2, <2>1, <2>2, <2>3, <2>4, <2>5, <2>6, <2>7 DEF TypeOK
<1>9. RowsGood
  <2> SUFFICES ASSUME NEW o \in Objects, obj[o] # None
               PROVE  GoodView(ViewOf(obj[o]), obj[o].id)
    BY DEF RowsGood
  <2>1. PICK i \in ids : object[i] = o
    BY <1>5
  <2> QED
    BY <2>1, <1>3, <1>7
<1>10. QueueGood
  <2> SUFFICES ASSUME NEW i \in Ids, queue[i] # None
               PROVE  HasRow(queue[i]) /\ obj[queue[i]].id = i
    BY DEF QueueGood
  <2>1. i \in ids /\ queue[i] = object[i] /\ object[i] \in Objects
    BY <1>1
  <2> QED
    BY <2>1, <1>3, <1>7, NoneAssumption DEF HasRow
<1>11. ViewsGood /\ CancelsGood
  BY <1>2 DEF ViewsGood, CancelsGood
<1>12. PollerGood
  BY <1>2 DEF PollerGood
<1>13. WorkersGood /\ OneWorkerPerRow
  BY <1>2 DEF WorkersGood, OneWorkerPerRow, GoodWorker, Off, Login
<1>14. \A j \in Jobs : server[j] # None =>
         server[j].run = 0 /\ server[j].ip = None
  <2> SUFFICES ASSUME NEW j \in Jobs, server[j] # None
               PROVE  server[j].run = 0 /\ server[j].ip = None
    OBVIOUS
  <2>1. PICK i \in ids : job[i] = j /\ stored[i].job
    BY <1>6
  <2> HIDE DEF Loads
  <2>2. server[j] = [id |-> i, status |-> now[i], retry |-> FALSE,
                     ip |-> None, run |-> 0]
    BY <1>4, <2>1
  <2> QED
    BY <2>2
<1>15. \A o \in Objects : obj[o] # None =>
         queue[obj[o].id] = o /\ obj[o].status \in Loaded
  <2> SUFFICES ASSUME NEW o \in Objects, obj[o] # None
               PROVE  queue[obj[o].id] = o /\ obj[o].status \in Loaded
    OBVIOUS
  <2>1. PICK i \in ids : object[i] = o
    BY <1>5
  <2>2. obj[o] = StoredRow(i, job[i], stored[i]) /\ obj[o].id = i
    BY <2>1, <1>3, <1>7
  <2>3. obj[o].status = stored[i].status /\ stored[i].status \in Loaded
    BY <2>2 DEF StoredRow, Stored
  <2> QED
    BY <1>1, <2>1, <2>2, <2>3
<1> QED
  BY <1>8, <1>9, <1>10, <1>11, <1>12, <1>13, <1>14, <1>15 DEF IInv

LEMMA Invariance == Spec => []IInv
<1>1. IInv /\ UNCHANGED vars => IInv'
  <2> SUFFICES ASSUME IInv, UNCHANGED vars
               PROVE  IInv'
    OBVIOUS
  <2> USE DEF vars
  <2>1. TypeOK' /\ RowsGood' /\ ViewsGood' /\ QueueGood'
    BY DEF IInv, TypeOK, RowsGood, ViewsGood, QueueGood, GoodView, Earned,
           JobOf, HasRow
  <2>2. JobsStay /\ Written
    BY ServerStays, NothingWritten DEF IInv
  <2> QED
    BY <2>1, <2>2, ActorsGood, OthersKeep
<1> QED
  BY <1>1, InitHolds, NextKeeps, PTL DEF Spec

(***************************************************************************)
(* Everything the page keeps has its type, whatever order the answers, the *)
(* timers and the user's actions come in.                                  *)
(***************************************************************************)
THEOREM TypesHold == Spec => []TypeOK
BY Invariance, PTL DEF IInv

(***************************************************************************)
(* No two workers log in for the same row: activeRows keeps the row's id   *)
(* through checks and cooldowns, and ids never change under the worker.    *)
(***************************************************************************)
THEOREM RowsHaveOneWorker == Spec => []OneWorkerPerRow
BY Invariance, PTL DEF IInv

(***************************************************************************)
(* A success that the page shows is one the server reports of a job that   *)
(* was started for the row, however late the answer that says so.          *)
(***************************************************************************)
THEOREM SuccessesAreEarned == Spec => []SuccessIsEarned
<1>1. IInv => SuccessIsEarned
  BY DEF IInv, ViewsGood, GoodView, Earned, JobOf, SuccessIsEarned, Queued
<1> QED
  BY <1>1, Invariance, PTL

-----------------------------------------------------------------------------
(***************************************************************************)
(* Exits.  Those of the run that goes on are reserved in usedIps: the ones *)
(* its jobs leave by, and the ones of the workers about to start a job, no *)
(* two of them the same.  A new run has a token no job has yet.            *)
(***************************************************************************)
TokensGood ==
  /\ runner <= runnerToken
  /\ run # "off" => runner # 0
  /\ \A w \in Workers : run # "working" => worker[w].pc = "off"
  /\ \A j \in Jobs : server[j] # None =>
       /\ server[j].run <= runnerToken
       /\ run = "syncing" => server[j].run # runner

Reserved ==
  /\ \A j \in Jobs : server[j] # None /\ server[j].ip # None =>
       server[j].run # 0 /\ (server[j].run = runner => server[j].ip \in usedIps)
  /\ \A w \in Workers : worker[w].pc = "start" =>
       /\ worker[w].ip \in usedIps
       /\ \A j \in Jobs : server[j] # None /\ server[j].run = runner
                            => server[j].ip # worker[w].ip
  /\ \A v, w \in Workers :
       v # w /\ worker[v].pc = "start" /\ worker[w].pc = "start"
       => worker[v].ip # worker[w].ip

EInv == TokensGood /\ Reserved /\ DistinctExits

LEMMA SameExitsKeep ==
  ASSUME TypeOK, EInv, SameExits,
         runnerToken' \in {runnerToken, runnerToken + 1},
         UNCHANGED <<runner, run, usedIps, worker>>
  PROVE  EInv'
<1>1. TokensGood'
  <2>1. runner \in Nat /\ runnerToken \in Nat
        /\ runnerToken <= runnerToken'
    BY DEF TypeOK
  <2>2. \A j \in Jobs : server[j] # None => server[j].run \in Nat
    BY DEF TypeOK, ServerJob
  <2> QED
    BY <2>1, <2>2 DEF EInv, TokensGood, SameExits, TypeOK
<1>2. Reserved'
  BY DEF EInv, Reserved, SameExits
<1>3. DistinctExits'
  BY DEF EInv, DistinctExits, SameExits
<1> QED
  BY <1>1, <1>2, <1>3 DEF EInv

\* A worker moves on without an exit, or is the last to leave.
Drifts(w) ==
  \E x : /\ x.pc # "start" /\ worker' = [worker EXCEPT ![w] = x]
         /\ \/ UNCHANGED <<run, runner>>
            \/ /\ x.pc = "off" /\ \A v \in Workers \ {w} : worker[v].pc = "off"
               /\ run' = "off" /\ runner' \in {0, runner}

LEMMA DriftsKeep ==
  ASSUME TypeOK, EInv, NEW w \in Workers, worker[w].pc # "off", Drifts(w),
         UNCHANGED <<runnerToken, usedIps, server>>
  PROVE  EInv'
<1>1. PICK x : /\ x.pc # "start" /\ worker' = [worker EXCEPT ![w] = x]
               /\ \/ UNCHANGED <<run, runner>>
                  \/ /\ x.pc = "off"
                     /\ \A v \in Workers \ {w} : worker[v].pc = "off"
                     /\ run' = "off" /\ runner' \in {0, runner}
  BY DEF Drifts
<1>2. /\ worker'[w] = x
      /\ \A v \in Workers \ {w} : worker'[v] = worker[v]
  BY <1>1 DEF TypeOK
<1>3. runner \in Nat /\ runnerToken \in Nat
  BY DEF TypeOK
<1>4. CASE UNCHANGED <<run, runner>>
  <2>1. TokensGood'
    BY <1>2, <1>4 DEF EInv, TokensGood
  <2>2. Reserved'
    BY <1>1, <1>2, <1>4 DEF EInv, Reserved
  <2> QED
    BY <2>1, <2>2 DEF EInv, DistinctExits
<1>5. CASE ~UNCHANGED <<run, runner>>
  <2>1. \A v \in Workers : worker'[v].pc = "off"
    BY <1>1, <1>2, <1>5
  <2>2. run' = "off" /\ runner' \in {0, runner}
    BY <1>1, <1>5
  <2>3. TokensGood'
    BY <1>3, <2>1, <2>2 DEF EInv, TokensGood
  <2>4. Reserved'
    BY <2>1, <2>2 DEF EInv, Reserved
  <2> QED
    BY <2>3, <2>4 DEF EInv, DistinctExits
<1> QED
  BY <1>4, <1>5

LEMMA Drifting ==
  ASSUME TypeOK, NEW w \in Workers
  PROVE  /\ Leave(w) => Drifts(w)
         /\ LoginReturns(w) => Drifts(w)
         /\ \A retry : AfterFailure(w, retry) => Drifts(w)
         /\ Fails(w) => Drifts(w)
         /\ \A shown : WaitReturns(w, shown) => Drifts(w)
         /\ \A x : x.pc # "start" /\ Goto(w, x) => Drifts(w)
<1>1. \A x : x.pc # "start" /\ Goto(w, x) => Drifts(w)
  BY DEF Goto, Drifts
<1>2. Leave(w) => Drifts(w)
  <2> SUFFICES ASSUME Leave(w)
               PROVE  Drifts(w)
    OBVIOUS
  <2>1. Off.pc = "off" /\ worker' = [worker EXCEPT ![w] = Off]
    BY DEF Leave, Off
  <2>2. \/ UNCHANGED <<run, runner>>
        \/ /\ \A v \in Workers \ {w} : worker[v].pc = "off"
           /\ run' = "off" /\ runner' \in {0, runner}
    BY DEF Leave, EndRun
  <2> QED
    BY <2>1, <2>2 DEF Drifts
<1>3. LoginReturns(w) => Drifts(w)
  <2>1. [Off EXCEPT !.pc = "pause"].pc = "pause"
    BY DEF Off
  <2> QED
    BY <1>2, <2>1 DEF LoginReturns, Drifts
<1>4. \A retry : AfterFailure(w, retry) => Drifts(w)
  <2>1. [Off EXCEPT !.pc = "cooldown", !.obj = worker[w].obj,
                    !.attempt = worker[w].attempt].pc = "cooldown"
    BY DEF Off
  <2> QED
    BY <1>1, <1>3, <2>1 DEF AfterFailure
<1> QED
  BY <1>1, <1>2, <1>3, <1>4 DEF Fails, WaitReturns

LEMMA ActKeepsExits ==
  ASSUME IInv, EInv, NEW w \in Workers, Act(w)
  PROVE  EInv'
<1> USE DEF IInv
<1>1. CASE TakeRow(w)
  <2>1. worker[w].pc # "off" /\ UNCHANGED <<runnerToken, usedIps, server>>
    BY <1>1 DEF TakeRow
  <2>2. \A o, n : Checking(o, n).pc # "start"
    BY DEF Checking, Off
  <2>3. Drifts(w)
    BY <1>1, <2>2, Drifting DEF TakeRow
  <2> QED
    BY <2>1, <2>3, DriftsKeep
<1>2. CASE ProbeExit(w)
  <2>1. worker[w].pc # "off" /\ UNCHANGED <<runnerToken, usedIps, server>>
    BY <1>2 DEF ProbeExit
  <2>2. \A ip : [worker[w] EXCEPT !.pc = "confirm", !.ip = ip].pc # "start"
    BY DEF TypeOK, Worker
  <2>3. Drifts(w)
    BY <1>2, <2>2, Drifting DEF ProbeExit
  <2> QED
    BY <2>1, <2>3, DriftsKeep
<1>3. CASE ConfirmExit(w)
  <2>1. worker[w].pc = "confirm" /\ UNCHANGED <<runnerToken, server>>
    BY <1>3 DEF ConfirmExit
  <2>2. CASE Fails(w) /\ UNCHANGED usedIps
    BY <2>1, <2>2, Drifting, DriftsKeep
  <2>3. CASE ~(Fails(w) /\ UNCHANGED usedIps)
    <3>1. /\ worker[w].ip \notin usedIps
          /\ usedIps' = usedIps \cup {worker[w].ip}
          /\ worker' = [worker EXCEPT ![w] = [worker[w] EXCEPT !.pc = "start"]]
          /\ UNCHANGED <<run, runner>>
      BY <1>3, <2>3 DEF ConfirmExit, Goto
    <3>2. worker[w].ip \in Ips /\ worker[w].ip # None
      BY <2>1, RunnerAssumption DEF WorkersGood, GoodWorker, Login, At
    <3>3. /\ worker'[w].pc = "start" /\ worker'[w].ip = worker[w].ip
          /\ \A v \in Workers \ {w} : worker'[v] = worker[v]
      BY <3>1 DEF TypeOK, Worker
    <3>4. TokensGood'
      BY <2>1, <3>1, <3>3 DEF EInv, TokensGood
    <3>5. Reserved'
      BY <2>1, <3>1, <3>2, <3>3 DEF EInv, Reserved
    <3> QED
      BY <2>1, <3>4, <3>5 DEF EInv, DistinctExits
  <2> QED
    BY <2>2, <2>3
<1>4. CASE CreateJob(w)
  <2>1. worker[w].pc = "start" /\ UNCHANGED <<runnerToken, usedIps>>
    BY <1>4 DEF CreateJob
  <2>2. PICK j \in Jobs :
          /\ server[j] = None
          /\ server' = [server EXCEPT ![j] =
               [id |-> obj[worker[w].obj].id, status |-> "queued",
                retry |-> FALSE, ip |-> worker[w].ip, run |-> runner]]
          /\ worker' = [worker EXCEPT ![w] =
               [worker[w] EXCEPT !.pc = "created", !.job = j]]
          /\ UNCHANGED <<run, runner>>
    BY <1>4 DEF CreateJob, Goto
  <2>3. /\ worker'[w].pc = "created"
        /\ \A v \in Workers \ {w} : worker'[v] = worker[v]
    BY <2>2 DEF TypeOK, Worker
  <2>4. /\ server'[j].run = runner /\ server'[j].ip = worker[w].ip
        /\ \A k \in Jobs \ {j} : server'[k] = server[k]
    BY <2>2 DEF TypeOK
  <2>5. run = "working" /\ runner # 0 /\ runner <= runnerToken
    BY <2>1 DEF EInv, TokensGood
  <2>6. TokensGood'
    BY <2>1, <2>2, <2>3, <2>4, <2>5 DEF EInv, TokensGood
  <2>7. Reserved'
    BY <2>1, <2>2, <2>3, <2>4, <2>5 DEF EInv, Reserved
  <2>8. DistinctExits'
    BY <2>1, <2>2, <2>4, <2>5 DEF EInv, Reserved, DistinctExits
  <2> QED
    BY <2>6, <2>7, <2>8 DEF EInv
<1>5. CASE StartFails(w)
  BY <1>5, Drifting, DriftsKeep DEF StartFails
<1>6. CASE StartAnswered(w)
  <2>1. [worker[w] EXCEPT !.pc = "wait", !.ip = None].pc # "start"
    BY DEF TypeOK, Worker
  <2> QED
    BY <1>6, <2>1, Drifting, DriftsKeep DEF StartAnswered
<1>7. CASE WaitPolls(w)
  <2>1. \A c, s : [worker[w] EXCEPT !.pc = "poll", !.current = c,
                                    !.seen = s].pc # "start"
    BY DEF TypeOK, Worker
  <2> QED
    BY <1>7, <2>1, Drifting, DriftsKeep DEF WaitPolls
<1>8. CASE WaitAnswered(w)
  <2>1. [worker[w] EXCEPT !.pc = "wait", !.current = None,
                          !.seen = None].pc # "start"
    BY DEF TypeOK, Worker
  <2> QED
    BY <1>8, <2>1, Drifting, DriftsKeep DEF WaitAnswered
<1>9. CASE WaitFails(w)
  BY <1>9, Drifting, DriftsKeep DEF WaitFails
<1>10. CASE Cooldown(w)
  <2>1. \A o, n : Checking(o, n).pc # "start"
    BY DEF Checking, Off
  <2> QED
    BY <1>10, <2>1, Drifting, DriftsKeep DEF Cooldown
<1> QED
  BY <1>1, <1>2, <1>3, <1>4, <1>5, <1>6, <1>7, <1>8, <1>9, <1>10 DEF Act

LEMMA StartRowsKeepsExits ==
  ASSUME IInv, EInv, NEW rows, StartRows(rows)
  PROVE  EInv'
<1>1. UNCHANGED <<usedIps, worker, server>>
  BY DEF StartRows
<1>2. runner \in Nat /\ runnerToken \in Nat
  BY DEF IInv, TypeOK
<1>3. CASE runner # 0
  <2>1. UNCHANGED <<runner, runnerToken, run>>
    BY <1>3 DEF StartRows
  <2> QED
    BY <1>1, <2>1, SameExitsKeep DEF SameExits, IInv
<1>4. CASE runner = 0
  <2>1. /\ runnerToken' = runnerToken + 1 /\ runner' = runnerToken + 1
        /\ run' = "syncing"
    BY <1>4 DEF StartRows
  <2>2. \A w \in Workers : worker[w].pc = "off"
    BY <1>4 DEF EInv, TokensGood
  <2>3. \A j \in Jobs : server[j] # None =>
          server[j].run \in Nat /\ server[j].run <= runnerToken
    BY DEF EInv, TokensGood, IInv, TypeOK, ServerJob
  <2>4. TokensGood'
    BY <1>1, <1>2, <2>1, <2>2, <2>3 DEF TokensGood
  <2>5. Reserved'
    BY <1>1, <1>2, <2>1, <2>2, <2>3 DEF EInv, Reserved
  <2> QED
    BY <1>1, <2>4, <2>5 DEF EInv, DistinctExits
<1> QED
  BY <1>3, <1>4

LEMMA RunQueuedRowsKeepsExits ==
  ASSUME IInv, EInv, RunQueuedRows
  PROVE  EInv'
<1>1. run = "syncing" /\ usedIps' = {} /\ UNCHANGED <<runnerToken, server>>
  BY DEF RunQueuedRows
<1>2. /\ \A w \in Workers : worker'[w].pc \in {"off", "pause"}
      /\ run' \in {"off", "working"} /\ runner' \in {0, runner}
      /\ run' = "off" => worker' = worker
      /\ run' = "working" => runner' = runner
  <2>1. CASE QueuedRows = {}
    BY <1>1, <2>1 DEF RunQueuedRows, EndRun, EInv, TokensGood
  <2>2. CASE QueuedRows # {}
    <3>1. run' = "working" /\ runner' = runner
      BY <2>2 DEF RunQueuedRows
    <3>2. PICK team \in SUBSET Workers :
            worker' = [w \in Workers |->
              IF w \in team THEN [Off EXCEPT !.pc = "pause"] ELSE Off]
      BY <2>2 DEF RunQueuedRows
    <3>3. [Off EXCEPT !.pc = "pause"].pc = "pause" /\ Off.pc = "off"
      BY DEF Off
    <3> QED
      BY <3>1, <3>2, <3>3
  <2> QED
    BY <2>1, <2>2
<1>3. \A w \in Workers : worker[w].pc = "off"
  BY <1>1 DEF EInv, TokensGood
<1>4. runner \in Nat /\ runnerToken \in Nat
  BY DEF IInv, TypeOK
<1>5. TokensGood'
  BY <1>1, <1>2, <1>3, <1>4 DEF EInv, TokensGood
<1>6. Reserved'
  BY <1>1, <1>2 DEF EInv, TokensGood, Reserved
<1> QED
  BY <1>1, <1>5, <1>6 DEF EInv, DistinctExits

LEMMA JobMovesSameExits ==
  ASSUME IInv, NEW j \in Jobs, JobMoves(j)
  PROVE  SameExits
<1>1. server[j] \in ServerJob
  BY DEF JobMoves, IInv, TypeOK
<1>2. \A k \in Jobs \ {j} : server'[k] = server[k]
  BY DEF JobMoves, IInv, TypeOK
<1>3. server'[j].ip = server[j].ip /\ server'[j].run = server[j].run
  BY <1>1 DEF JobMoves, IInv, TypeOK, ServerJob
<1>4. server[j] # None /\ server'[j] # None
  <2>1. JobsStay
    BY JobMovesStay
  <2> QED
    BY <2>1 DEF JobMoves, JobsStay
<1> QED
  BY <1>2, <1>3, <1>4 DEF SameExits

LEMMA NextKeepsExits ==
  ASSUME IInv, EInv, Next
  PROVE  EInv'
<1>1. CASE \E w \in Workers : Act(w)
  BY <1>1, ActKeepsExits
<1>2. CASE RunQueuedRows
  BY <1>2, RunQueuedRowsKeepsExits
<1>3. CASE \E rows \in SUBSET Queued : StartRows(rows)
  BY <1>3, StartRowsKeepsExits
<1>4. CASE \E j \in Jobs : JobMoves(j)
  <2>1. UNCHANGED <<runner, runnerToken, run, usedIps, worker>>
    BY <1>4 DEF JobMoves, runs
  <2> QED
    BY <1>4, <2>1, JobMovesSameExits, SameExitsKeep DEF IInv
<1>5. CASE ClearQueue
  <2>1. /\ UNCHANGED <<runner, run, usedIps, worker>>
        /\ runnerToken' = runnerToken + 1
        /\ SendCancel(LiveRows, TRUE)
    BY <1>5 DEF ClearQueue
  <2>2. SameExits
    BY <2>1, SendCancelKeeps
  <2> QED
    BY <2>1, <2>2, SameExitsKeep DEF IInv
<1>6. CASE \E i \in Ids : CancelLoginJob(i)
  <2>1. PICK i \in LiveRows :
          /\ SendCancel({i}, FALSE)
          /\ UNCHANGED <<runner, runnerToken, run, usedIps, worker>>
    BY <1>6 DEF CancelLoginJob, runs
  <2>2. SameExits
    BY <2>1, SendCancelKeeps
  <2> QED
    BY <2>1, <2>2, SameExitsKeep DEF IInv
<1>7. CASE \/ Polling \/ Answered
           \/ \E rows \in SUBSET Queued :
                CleanFailedRows(rows) \/ RemoveSelectedSources(rows)
           \/ \E i \in Ids, o \in Objects : AddToQueue(i, o)
  <2>1. UNCHANGED <<runner, runnerToken, run, usedIps, worker, server>>
    BY <1>7 DEF Polling, PollBegins, PollSends, PollAnswered, PollFails,
                Answered, CancelAnswered, FailedRowsCleaned, QueueCleared,
                CleanFailedRows, RemoveSelectedSources, AddToQueue, runs
  <2> QED
    BY <2>1, SameExitsKeep DEF SameExits, IInv
<1> QED
  BY <1>1, <1>2, <1>3, <1>4, <1>5, <1>6, <1>7 DEF Next, User

LEMMA InitExits ==
  ASSUME Init
  PROVE  EInv
<1>1. \A j \in Jobs : server[j] # None =>
        server[j].run = 0 /\ server[j].ip = None
  BY InitHolds
<1>2. /\ runner = 0 /\ runnerToken = 0 /\ run = "off"
      /\ \A w \in Workers : worker[w].pc = "off"
  BY DEF Init, Off
<1> QED
  BY <1>1, <1>2 DEF EInv, TokensGood, Reserved, DistinctExits

LEMMA ExitsInvariance == Spec => []EInv
<1>1. Init => EInv
  BY InitExits
<1>2. IInv /\ EInv /\ [Next]_vars => EInv'
  <2>1. CASE Next
    BY <2>1, NextKeepsExits
  <2>2. CASE UNCHANGED vars
    BY <2>2 DEF vars, EInv, TokensGood, Reserved, DistinctExits
  <2> QED
    BY <2>1, <2>2
<1> QED
  BY <1>1, <1>2, Invariance, PTL DEF Spec

(***************************************************************************)
(* No two logins of a run leave by the same exit, although the workers     *)
(* probe at the same time: an exit is reserved in the turn that finds it   *)
(* unused, and the reservations of a run outlive its workers' attempts.    *)
(***************************************************************************)
THEOREM ExitsAreDistinct == Spec => []DistinctExits
<1>1. EInv => DistinctExits
  BY DEF EInv
<1> QED
  BY <1>1, ExitsInvariance, PTL

-----------------------------------------------------------------------------
(***************************************************************************)
(* Live rows are somebody's business.  Rows that leave the queue must not  *)
(* come back while something still holds their old object, as they may     *)
(* when a user removes or clears rows and adds them again.                 *)
(***************************************************************************)
RowsDoNotReturn ==
  "add" \in UserDoes => "remove" \notin UserDoes /\ "clear" \notin UserDoes

\* The queue is being cleared, or nothing is left and nothing can be added.
Over == clearing \/ ("add" \notin UserDoes /\ \A i \in Ids : queue[i] = None)

\* The view of a row whose job is about to be created.
Starting(view) == view # None /\ view.status = "running" /\ view.job = None

StartsRow(k, i) == k.pc \in {"start", "created"} /\ obj[k.obj].id = i

StartsHaveWorker ==
  \A i \in Ids : Starting(jobs[i]) => \E w \in Workers : StartsRow(worker[w], i)

\* Whoever may write to a row has a row that is in the queue.
RowsTracked ==
  "add" \in UserDoes =>
    /\ \A o \in Objects : obj[o] # None => queue[obj[o].id] # None
    /\ \A i \in Ids : jobs[i] # None => queue[i] # None

\* A run that is over leaves nothing but jobs, to the poller.
Left ==
  \A i \in Ids :
    queue[i] # None /\ jobs[i] # None /\ jobs[i].status \in Live
    => jobs[i].job # None /\ poller.on

Tended ==
  /\ runner \in {0, runnerToken}
  /\ PollInFlight => poller.on
  /\ runner = 0 => Left

TInv ==
  /\ clearing => "clear" \in UserDoes
  /\ cleaning # {} => "remove" \in UserDoes
  /\ \A w \in Workers : worker[w].pc = "poll" => worker[w].current.job # None
  /\ \A c \in cancels : c.seen.status \in Terminal
  /\ RowsTracked /\ StartsHaveWorker
  /\ Over \/ Tended

LEMMA TInvShows ==
  ASSUME IInv, EInv, TInv
  PROVE  NoRowIsForgotten
<1> SUFFICES ASSUME NEW i \in LiveRows, jobs[i] # None, ~clearing
             PROVE  \/ i \in ActiveRows
                    \/ /\ runner # 0 /\ runner = runnerToken
                       /\ jobs[i].status = "queued" \/ jobs[i].job # None
                    \/ poller.on /\ jobs[i].job # None
  BY DEF NoRowIsForgotten
<1>1. i \in Ids /\ queue[i] # None /\ jobs[i].status \in Live
  BY DEF LiveRows, Queued, IInv, QueueGood, RowState
<1>2. Tended
  BY <1>1 DEF TInv, Over
<1>3. Starting(jobs[i]) => i \in ActiveRows
  BY <1>1 DEF TInv, StartsHaveWorker, StartsRow, ActiveRows, Login, At
<1>4. ~Starting(jobs[i]) => jobs[i].status = "queued" \/ jobs[i].job # None
  BY <1>1 DEF Starting, Live
<1> QED
  BY <1>1, <1>2, <1>3, <1>4 DEF Tended, Left

-----------------------------------------------------------------------------
\* A row gets a new view, and no row a new object.
Wrote(i, status, job) ==
  /\ \A o \in Objects : IF obj[o] = None THEN obj'[o] = None
                        ELSE obj'[o] # None /\ obj'[o].id = obj[o].id
  /\ \E o \in Objects : obj[o] # None /\ obj[o].id = i
  /\ \A o \in Objects : obj[o] # None /\ obj[o].id # i => obj'[o] = obj[o]
  /\ i \in Ids /\ jobs'[i] # None
  /\ jobs'[i].status = status /\ jobs'[i].job = job
  /\ \A k \in Ids \ {i} : jobs'[k] = jobs[k]

LEMMA WriteRowWrites ==
  ASSUME IInv, NEW o, HasRow(o), NEW row, NEW view \in View, row # None,
         row.id = obj[o].id, WriteRow(o, row, view)
  PROVE  Wrote(obj[o].id, view.status, view.job)
BY NoneAssumption DEF WriteRow, Wrote, HasRow, IInv, TypeOK, Row

LEMMA SetRowWrites ==
  ASSUME IInv, NEW o, HasRow(o), NEW status \in RowStatuses,
         NEW job \in Jobs \cup {None}, SetRow(o, status, job)
  PROVE  Wrote(obj[o].id, status, job)
<1> DEFINE row == [obj[o] EXCEPT !.status = status, !.job = job,
                                 !.retry = FALSE]
           view == [status |-> status, job |-> job, retry |-> FALSE]
<1>1. obj[o] \in Row
  BY DEF HasRow, IInv, TypeOK
<1>2. row \in Row /\ row.id = obj[o].id
  BY <1>1 DEF Row
<1>3. row # None
  BY <1>2, NoneAssumption
<1>4. WriteRow(o, row, view) /\ view.status = status /\ view.job = job
      /\ view \in View
  BY DEF SetRow, View
<1> HIDE DEF row, view
<1> QED
  BY <1>2, <1>3, <1>4, WriteRowWrites

LEMMA CommitFailureWrites ==
  ASSUME IInv, NEW o, HasRow(o), NEW current \in View,
         NEW retry \in BOOLEAN, CommitFailure(o, current, retry)
  PROVE  \E j : Wrote(obj[o].id, "failed", j)
<1> DEFINE row == [obj[o] EXCEPT !.status = "failed", !.retry = retry]
           view == [status |-> "failed", job |-> KnownJob(o, current),
                    retry |-> retry]
<1>1. obj[o] \in Row
  BY DEF HasRow, IInv, TypeOK
<1>2. row \in Row /\ row.id = obj[o].id
  BY <1>1 DEF Row, RowStatuses, Terminal
<1>3. row # None
  BY <1>2, NoneAssumption
<1>4. KnownJob(o, current) \in Jobs \cup {None}
  BY <1>1 DEF KnownJob, Row, View
<1>5. WriteRow(o, row, view) /\ view.status = "failed" /\ view \in View
  BY <1>4 DEF CommitFailure, View, RowStatuses, Terminal
<1> HIDE DEF row, view
<1> QED
  BY <1>2, <1>3, <1>5, WriteRowWrites

LEMMA ApplyJobWrites ==
  ASSUME IInv, NEW o, HasRow(o), NEW current \in View,
         NEW answer \in Answer, ApplyJob(o, current, answer)
  PROVE  \E j : /\ Wrote(obj[o].id, answer.status, j)
                /\ current.job # None => j = current.job
<1> DEFINE row == [obj[o] EXCEPT !.status = answer.status,
                     !.retry = answer.retry,
                     !.auth = @ \/ answer.status = "success"]
           view == [status |-> answer.status, retry |-> answer.retry,
                    job |-> IF current.job # None THEN current.job
                            ELSE obj[o].job]
<1>1. obj[o] \in Row
  BY DEF HasRow, IInv, TypeOK
<1>2. answer.status \in RowStatuses /\ answer.retry \in BOOLEAN
  BY DEF Answer, RowStatuses
<1>3. row \in Row /\ row.id = obj[o].id
  BY <1>1, <1>2 DEF Row
<1>4. row # None
  BY <1>3, NoneAssumption
<1>5. WriteRow(o, row, view) /\ view.status = answer.status
      /\ (current.job # None => view.job = current.job)
      /\ view \in View
  BY <1>1, <1>2 DEF ApplyJob, View, Row
<1> HIDE DEF row, view
<1> QED
  BY <1>3, <1>4, <1>5, WriteRowWrites

-----------------------------------------------------------------------------
(***************************************************************************)
(* Nobody gets a view but the rows there are.                              *)
(***************************************************************************)
Steady ==
  /\ \A o \in Objects : IF obj[o] = None THEN obj'[o] = None
                        ELSE obj'[o] # None /\ obj'[o].id = obj[o].id
  /\ \A i \in Ids :
       jobs'[i] # None /\ jobs[i] = None
       => \E o \in Objects : obj[o] # None /\ obj[o].id = i

LEMMA WritesAreSteady ==
  /\ \A i, s, j : Wrote(i, s, j) => Steady
  /\ TypeOK /\ UNCHANGED <<obj, jobs>> => Steady
BY DEF Wrote, Steady

LEMMA TrackedKeeps ==
  ASSUME IInv, RowsTracked, Steady, "add" \in UserDoes => queue' = queue
  PROVE  RowsTracked'
<1> SUFFICES ASSUME "add" \in UserDoes
             PROVE  /\ \A o \in Objects : obj'[o] # None
                                            => queue[obj'[o].id] # None
                    /\ \A i \in Ids : jobs'[i] # None => queue[i] # None
  BY DEF RowsTracked
<1> QED
  BY DEF RowsTracked, Steady

\* A worker's step; with the last worker's the run may end.
MovesOn(w, x) ==
  /\ worker' = [worker EXCEPT ![w] = x]
  /\ \/ UNCHANGED <<run, runner, poller>>
     \/ /\ x = Off /\ \A v \in Workers \ {w} : worker[v].pc = "off"
        /\ EndRun
        /\ runner # runnerToken \/ QueuedRows' = {}

\* It takes the next row, leaves, or tries again.
Retries(x, o) ==
  x.pc \in {"off", "pause"} \/ (x.pc = "cooldown" /\ x.obj = o)

LEMMA MovingOn ==
  ASSUME IInv, NEW w \in Workers
  PROVE  /\ LoginReturns(w) =>
              \E x : MovesOn(w, x) /\ x.pc \in {"off", "pause"}
         /\ \A retry : AfterFailure(w, retry) =>
              \E x : MovesOn(w, x) /\ Retries(x, worker[w].obj)
         /\ \A shown : WaitReturns(w, shown) =>
              \E x : MovesOn(w, x) /\ Retries(x, worker[w].obj)
         /\ \A x : Goto(w, x) => MovesOn(w, x)
<1>1. \A x : Goto(w, x) => MovesOn(w, x)
  BY DEF Goto, MovesOn
<1>2. LoginReturns(w) => \E x : MovesOn(w, x) /\ x.pc \in {"off", "pause"}
  <2> SUFFICES ASSUME LoginReturns(w)
               PROVE  \E x : MovesOn(w, x) /\ x.pc \in {"off", "pause"}
    OBVIOUS
  <2>1. CASE runner = runnerToken /\ QueuedRows' # {}
    <3>1. [Off EXCEPT !.pc = "pause"].pc = "pause"
      BY DEF Off
    <3>2. MovesOn(w, [Off EXCEPT !.pc = "pause"])
      BY <2>1 DEF LoginReturns, MovesOn
    <3> QED
      BY <3>1, <3>2
  <2>2. CASE ~(runner = runnerToken /\ QueuedRows' # {})
    <3>1. Off.pc = "off"
      BY DEF Off
    <3>2. MovesOn(w, Off)
      BY <2>2 DEF LoginReturns, Leave, MovesOn
    <3> QED
      BY <3>1, <3>2
  <2> QED
    BY <2>1, <2>2
<1>3. \A retry : AfterFailure(w, retry) =>
        \E x : MovesOn(w, x) /\ Retries(x, worker[w].obj)
  <2>1. [Off EXCEPT !.pc = "cooldown", !.obj = worker[w].obj,
                    !.attempt = worker[w].attempt].pc = "cooldown"
      /\ [Off EXCEPT !.pc = "cooldown", !.obj = worker[w].obj,
                      !.attempt = worker[w].attempt].obj = worker[w].obj
    BY DEF Off
  <2> QED
    BY <1>1, <1>2, <2>1 DEF AfterFailure, Retries
<1> QED
  BY <1>1, <1>2, <1>3 DEF WaitReturns, Retries

LEMMA WorkerStarts ==
  ASSUME IInv, StartsHaveWorker, NEW w \in Workers, NEW x, Steady,
         worker' = [worker EXCEPT ![w] = x],
         \A i \in Ids : Starting(jobs'[i]) =>
           \/ jobs'[i] = jobs[i] /\ ~StartsRow(worker[w], i)
           \/ HasRow(x.obj) /\ StartsRow(x, i)
  PROVE  StartsHaveWorker'
<1>1. worker'[w] = x /\ \A v \in Workers \ {w} : worker'[v] = worker[v]
  BY DEF IInv, TypeOK
<1> SUFFICES ASSUME NEW i \in Ids, Starting(jobs'[i])
             PROVE  \E v \in Workers :
                      /\ worker'[v].pc \in {"start", "created"}
                      /\ obj'[worker'[v].obj].id = i
  BY DEF StartsHaveWorker, StartsRow, Starting
<1>2. CASE jobs'[i] = jobs[i] /\ ~StartsRow(worker[w], i)
  <2>1. PICK v \in Workers : StartsRow(worker[v], i)
    BY <1>2 DEF StartsHaveWorker
  <2>2. HasRow(worker[v].obj)
    BY <2>1 DEF IInv, WorkersGood, GoodWorker, StartsRow, Login, At
  <2> QED
    BY <1>1, <1>2, <2>1, <2>2 DEF StartsRow, Steady, HasRow
<1>3. CASE HasRow(x.obj) /\ StartsRow(x, i)
  BY <1>1, <1>3 DEF StartsRow, Steady, HasRow
<1> QED
  BY <1>2, <1>3

\* The end of a run: its last worker has found nothing to do.
LEMMA EndsTended ==
  ASSUME IInv', Tended, StartsHaveWorker', EndRun,
         runner = runnerToken, QueuedRows' = {},
         runnerToken' = runnerToken, TypeOK,
         \A w \in Workers : worker'[w].pc = "off"
  PROVE  Tended'
<1>1. runner' = 0 /\ poller'.pending = poller.pending /\ poller'.at = poller.at
      /\ poller'.on = (poller.on \/ ShouldUseRecoveryPolling')
  <2>1. poller \in [on : BOOLEAN, pending : SUBSET Objects,
                    at : Poll \cup {None}]
    BY DEF TypeOK
  <2> QED
    BY <2>1 DEF EndRun, StartPolling
<1>2. ASSUME NEW i \in Ids, queue'[i] # None, jobs'[i] # None,
             jobs'[i].status \in Live
      PROVE  jobs'[i].job # None /\ ShouldUseRecoveryPolling'
  <2>1. obj'[queue'[i]].id = i /\ RowState(queue[i])' = jobs'[i]
    BY <1>2 DEF IInv, QueueGood, RowState
  <2>2. i \in LiveRows'
    BY <1>2, <2>1 DEF LiveRows, Queued
  <2>3. jobs'[i].status = "running"
    BY <1>2, <2>1 DEF QueuedRows, Queued, Live
  <2>4. jobs'[i].job # None
    BY <1>2, <2>3 DEF StartsHaveWorker, Starting, StartsRow
  <2> QED
    BY <2>1, <2>2, <2>4 DEF ShouldUseRecoveryPolling, KnownJob
<1>3. Left'
  BY <1>1, <1>2 DEF Left
<1> QED
  BY <1>1, <1>3 DEF Tended, PollInFlight

LEMMA WorkerTends ==
  ASSUME IInv, IInv', EInv, TInv, NEW w \in Workers, worker[w].pc # "off",
         NEW x, MovesOn(w, x), x.pc = "poll" => x.current.job # None, Steady,
         \A i \in Ids : Starting(jobs'[i]) =>
           \/ jobs'[i] = jobs[i] /\ ~StartsRow(worker[w], i)
           \/ HasRow(x.obj) /\ StartsRow(x, i),
         UNCHANGED <<queue, runnerToken, handlers>>
  PROVE  TInv'
<1>1. worker' = [worker EXCEPT ![w] = x]
  BY DEF MovesOn
<1>2. worker'[w] = x /\ \A v \in Workers \ {w} : worker'[v] = worker[v]
  BY <1>1 DEF IInv, TypeOK
<1>3. StartsHaveWorker' /\ RowsTracked'
  BY <1>1, WorkerStarts, TrackedKeeps DEF TInv
<1>4. Over \/ Tended'
  <2> SUFFICES ASSUME Tended, ~Over
               PROVE  Tended'
    BY DEF TInv
  <2>1. run = "working" /\ runner # 0
    BY DEF EInv, TokensGood
  <2>2. runner = runnerToken
    BY <2>1 DEF Tended
  <2>3. CASE UNCHANGED <<run, runner, poller>>
    BY <2>1, <2>2, <2>3 DEF Tended, PollInFlight
  <2>4. CASE ~UNCHANGED <<run, runner, poller>>
    <3>1. \A v \in Workers : worker'[v].pc = "off"
      BY <1>2, <2>4 DEF MovesOn, Off
    <3>2. EndRun /\ QueuedRows' = {}
      BY <2>2, <2>4 DEF MovesOn
    <3> QED
      BY <1>3, <2>2, <3>1, <3>2, EndsTended DEF IInv
  <2> QED
    BY <2>3, <2>4
<1>5. Over => Over'
  BY DEF Over, handlers
<1> QED
  BY <1>2, <1>3, <1>4, <1>5 DEF TInv, handlers

LEMMA FailsMovesOn ==
  ASSUME IInv, NEW w \in Workers, worker[w].pc \in Login, Fails(w)
  PROVE  /\ \E x : MovesOn(w, x) /\ Retries(x, worker[w].obj)
         /\ \E j : Wrote(obj[worker[w].obj].id, "failed", j)
<1>1. PICK retry \in BOOLEAN :
        FailRow(worker[w].obj, retry) /\ AfterFailure(w, retry)
  BY DEF Fails
<1> QED
  BY <1>1, AtWork, MovingOn, RowStateGood, CommitFailureWrites
     DEF FailRow, GoodView

\* A worker fails, or writes a view that starts nothing, and moves on.
LEMMA WritingTends ==
  ASSUME IInv, IInv', EInv, TInv, NEW w \in Workers,
         worker[w].pc \in Login,
         NEW x, MovesOn(w, x), x.pc # "poll",
         NEW s, s # "running", NEW j, Wrote(obj[worker[w].obj].id, s, j),
         UNCHANGED <<queue, runnerToken, handlers>>
  PROVE  TInv'
<1>1. Steady
  BY WritesAreSteady
<1>2. ASSUME NEW i \in Ids, Starting(jobs'[i])
      PROVE  jobs'[i] = jobs[i] /\ ~StartsRow(worker[w], i)
  BY <1>2 DEF Wrote, Starting, StartsRow
<1> QED
  BY <1>1, <1>2, WorkerTends DEF Login

\* A worker that is not about to start a job moves on and writes nothing.
LEMMA LookingTends ==
  ASSUME IInv, IInv', EInv, TInv, NEW w \in Workers,
         worker[w].pc \notin {"off", "start", "created"},
         NEW x, MovesOn(w, x), x.pc = "poll" => x.current.job # None,
         UNCHANGED <<obj, jobs, queue, runnerToken, handlers>>
  PROVE  TInv'
<1>1. Steady
  BY WritesAreSteady DEF IInv
<1>2. \A i \in Ids : jobs'[i] = jobs[i] /\ ~StartsRow(worker[w], i)
  BY DEF StartsRow
<1> QED
  BY <1>1, <1>2, WorkerTends

LEMMA FailsTends ==
  ASSUME IInv, IInv', EInv, TInv, NEW w \in Workers,
         worker[w].pc \in Login, Fails(w),
         UNCHANGED <<queue, runnerToken, handlers>>
  PROVE  TInv'
<1>1. PICK x : MovesOn(w, x) /\ x.pc # "poll"
  BY FailsMovesOn DEF Retries
<1>2. PICK j : Wrote(obj[worker[w].obj].id, "failed", j)
  BY FailsMovesOn
<1> QED
  BY <1>1, <1>2, WritingTends

LEMMA TakeRowTends ==
  ASSUME IInv, IInv', EInv, TInv, NEW w \in Workers, TakeRow(w)
  PROVE  TInv'
<1>1. /\ worker[w].pc = "pause"
      /\ UNCHANGED <<queue, runnerToken, handlers>>
  BY DEF TakeRow
<1>2. CASE runner # runnerToken \/ QueuedRows \subseteq ActiveRows
  <2>1. UNCHANGED <<obj, jobs>> /\ Leave(w)
    BY <1>2 DEF TakeRow
  <2>2. (\A v \in Workers \ {w} : worker[v].pc = "off")
          => runner # runnerToken \/ QueuedRows' = {}
    <3> SUFFICES ASSUME \A v \in Workers \ {w} : worker[v].pc = "off",
                        runner = runnerToken
                 PROVE  QueuedRows' = {}
      OBVIOUS
    <3>1. ActiveRows = {}
      BY <1>1 DEF ActiveRows, Login
    <3>2. QueuedRows' = QueuedRows
      BY <1>1, <2>1 DEF QueuedRows, Queued, RowState
    <3> QED
      BY <1>2, <3>1, <3>2
  <2>3. MovesOn(w, Off)
    BY <2>1, <2>2 DEF Leave, MovesOn
  <2>4. Off.pc = "off"
    BY DEF Off
  <2> QED
    BY <1>1, <2>1, <2>3, <2>4, LookingTends
<1>3. CASE ~(runner # runnerToken \/ QueuedRows \subseteq ActiveRows)
  <2>1. PICK i \in QueuedRows :
          \/ SetRow(queue[i], "queued", None) /\ Goto(w, Checking(queue[i], 1))
          \/ FailRow(queue[i], FALSE) /\ LoginReturns(w)
    BY <1>3 DEF TakeRow
  <2>2. HasRow(queue[i])
    BY DEF QueuedRows, Queued, IInv, QueueGood
  <2>3. PICK x : MovesOn(w, x) /\ x.pc # "poll"
    <3>1. Checking(queue[i], 1).pc = "check"
      BY DEF Checking, Off
    <3> QED
      BY <2>1, <3>1, MovingOn
  <2>4. PICK s, j : s # "running" /\ Wrote(obj[queue[i]].id, s, j)
    <3>1. CASE SetRow(queue[i], "queued", None)
      BY <2>2, <3>1, SetRowWrites DEF RowStatuses, Live
    <3>2. CASE FailRow(queue[i], FALSE)
      BY <2>2, <3>2, RowStateGood, CommitFailureWrites DEF FailRow, GoodView
    <3> QED
      BY <2>1, <3>1, <3>2
  <2>5. Steady
    BY <2>4, WritesAreSteady
  <2>6. ASSUME NEW k \in Ids, Starting(jobs'[k])
        PROVE  jobs'[k] = jobs[k] /\ ~StartsRow(worker[w], k)
    BY <1>1, <2>4, <2>6 DEF Wrote, Starting, StartsRow
  <2> QED
    BY <1>1, <2>3, <2>5, <2>6, WorkerTends
<1> QED
  BY <1>2, <1>3

LEMMA ConfirmExitTends ==
  ASSUME IInv, IInv', EInv, TInv, NEW w \in Workers, ConfirmExit(w)
  PROVE  TInv'
<1>1. /\ worker[w].pc = "confirm" /\ worker[w].pc \in Login
      /\ UNCHANGED <<queue, runnerToken, handlers>>
  BY DEF ConfirmExit, Login, At
<1>2. CASE Fails(w)
  BY <1>1, <1>2, FailsTends
<1>3. CASE ~Fails(w)
  <2>1. /\ SetRow(worker[w].obj, "running", None)
        /\ Goto(w, [worker[w] EXCEPT !.pc = "start"])
    BY <1>3 DEF ConfirmExit
  <2>2. HasRow(worker[w].obj) /\ worker[w] \in Worker
    BY <1>1, AtWork
  <2>3. Wrote(obj[worker[w].obj].id, "running", None)
    BY <2>1, <2>2, SetRowWrites DEF RowStatuses, Live
  <2>4. PICK x : x = [worker[w] EXCEPT !.pc = "start"]
    OBVIOUS
  <2>5. x.pc = "start" /\ x.obj = worker[w].obj
    BY <2>2, <2>4 DEF Worker
  <2>6. MovesOn(w, x)
    BY <2>1, <2>4, MovingOn
  <2>7. ASSUME NEW k \in Ids
        PROVE  \/ jobs'[k] = jobs[k] /\ ~StartsRow(worker[w], k)
               \/ HasRow(x.obj) /\ StartsRow(x, k)
    BY <1>1, <2>2, <2>3, <2>5 DEF Wrote, StartsRow
  <2> QED
    BY <1>1, <2>3, <2>5, <2>6, <2>7, WritesAreSteady, WorkerTends
<1> QED
  BY <1>2, <1>3

LEMMA CreateJobTends ==
  ASSUME IInv, IInv', EInv, TInv, NEW w \in Workers, CreateJob(w)
  PROVE  TInv'
<1>1. /\ worker[w].pc = "start" /\ worker[w].pc \in Login
      /\ UNCHANGED <<obj, jobs, queue, runnerToken, handlers>>
  BY DEF CreateJob, Login, At
<1>2. PICK j \in Jobs :
        Goto(w, [worker[w] EXCEPT !.pc = "created", !.job = j])
  BY DEF CreateJob
<1>3. PICK x : x = [worker[w] EXCEPT !.pc = "created", !.job = j]
  OBVIOUS
<1>4. HasRow(worker[w].obj) /\ worker[w] \in Worker
  BY <1>1, AtWork
<1>5. x.pc = "created" /\ x.obj = worker[w].obj
  BY <1>3, <1>4 DEF Worker
<1>6. MovesOn(w, x)
  BY <1>2, <1>3, MovingOn
<1>7. ASSUME NEW k \in Ids
      PROVE  \/ jobs'[k] = jobs[k] /\ ~StartsRow(worker[w], k)
             \/ HasRow(x.obj) /\ StartsRow(x, k)
  BY <1>1, <1>4, <1>5 DEF StartsRow
<1>8. Steady
  BY <1>1, WritesAreSteady DEF IInv
<1> QED
  BY <1>1, <1>5, <1>6, <1>7, <1>8, WorkerTends

LEMMA StartAnsweredTends ==
  ASSUME IInv, IInv', EInv, TInv, NEW w \in Workers, StartAnswered(w)
  PROVE  TInv'
<1>1. /\ worker[w].pc = "created" /\ worker[w].pc \in Login
      /\ SetRow(worker[w].obj, "queued", worker[w].job)
      /\ Goto(w, [worker[w] EXCEPT !.pc = "wait", !.ip = None])
      /\ UNCHANGED <<queue, runnerToken, handlers>>
  BY DEF StartAnswered, Login, At
<1>2. HasRow(worker[w].obj) /\ worker[w] \in Worker
  BY <1>1, AtWork
<1>3. worker[w].job \in Jobs \cup {None}
  BY <1>2 DEF Worker
<1>4. Wrote(obj[worker[w].obj].id, "queued", worker[w].job)
  BY <1>1, <1>2, <1>3, SetRowWrites DEF RowStatuses, Live
<1>5. PICK x : x = [worker[w] EXCEPT !.pc = "wait", !.ip = None]
  OBVIOUS
<1>6. x.pc = "wait" /\ MovesOn(w, x)
  BY <1>1, <1>2, <1>5, MovingOn DEF Worker
<1> QED
  BY <1>1, <1>4, <1>6, WritingTends

LEMMA WaitPollsTends ==
  ASSUME IInv, IInv', EInv, TInv, NEW w \in Workers, WaitPolls(w)
  PROVE  TInv'
<1>1. /\ worker[w].pc = "wait" /\ worker[w].pc \in Login
      /\ UNCHANGED <<obj, jobs, queue, runnerToken, handlers>>
  BY DEF WaitPolls, Login, At
<1>2. CASE WaitReturns(w, RowState(worker[w].obj))
  <2>1. PICK x : MovesOn(w, x) /\ x.pc # "poll"
    BY <1>2, MovingOn DEF Retries
  <2> QED
    BY <1>1, <2>1, LookingTends
<1>3. CASE ~WaitReturns(w, RowState(worker[w].obj))
  <2>1. PICK c : c = RowState(worker[w].obj)
    OBVIOUS
  <2>2. /\ c.job # None
        /\ Goto(w, [worker[w] EXCEPT !.pc = "poll", !.current = c,
                      !.seen = AnswerOf(worker[w].job)])
    BY <1>3, <2>1 DEF WaitPolls
  <2>3. worker[w] \in Worker
    BY <1>1, AtWork
  <2>4. PICK x : x = [worker[w] EXCEPT !.pc = "poll", !.current = c,
                                       !.seen = AnswerOf(worker[w].job)]
    OBVIOUS
  <2>5. x.current.job # None /\ MovesOn(w, x)
    BY <2>2, <2>3, <2>4, MovingOn DEF Worker
  <2> QED
    BY <1>1, <2>5, LookingTends
<1> QED
  BY <1>2, <1>3

LEMMA WaitAnsweredTends ==
  ASSUME IInv, IInv', EInv, TInv, NEW w \in Workers, WaitAnswered(w)
  PROVE  TInv'
<1>1. /\ worker[w].pc = "poll" /\ worker[w].pc \in Login
      /\ UNCHANGED <<queue, runnerToken, handlers>>
  BY DEF WaitAnswered, Login, At
<1>2. HasRow(worker[w].obj) /\ worker[w] \in Worker /\ GoodWorker(worker[w])
  BY <1>1, AtWork
<1>3. CASE ~IsTracked(worker[w].obj)
  <2>1. PICK x : MovesOn(w, x) /\ x.pc # "poll"
    BY <1>3, MovingOn DEF WaitAnswered, Retries
  <2>2. UNCHANGED <<obj, jobs>>
    BY <1>3 DEF WaitAnswered
  <2> QED
    BY <1>1, <2>1, <2>2, LookingTends
<1>4. CASE IsTracked(worker[w].obj)
  <2>1. PICK answer \in {worker[w].seen, AnswerOf(worker[w].job)} :
          /\ ApplyJob(worker[w].obj, worker[w].current, answer)
          /\ IF answer.status \in Live
             THEN Goto(w, [worker[w] EXCEPT !.pc = "wait",
                             !.current = None, !.seen = None])
             ELSE WaitReturns(w, answer)
    BY <1>4 DEF WaitAnswered
  <2>2. answer \in Answer
    <3>1. GoodAnswer(AnswerOf(worker[w].job), worker[w].job)
      BY <1>1, <1>2, KnownAnswer DEF GoodWorker
    <3> QED
      BY <1>1, <1>2, <2>1, <3>1 DEF GoodWorker, GoodAnswer
  <2>3. PICK j : /\ Wrote(obj[worker[w].obj].id, answer.status, j)
                 /\ worker[w].current.job # None
                      => j = worker[w].current.job
    BY <1>1, <1>2, <2>1, <2>2, ApplyJobWrites DEF GoodWorker, GoodView
  <2>4. j # None
    BY <1>1, <2>3 DEF TInv
  <2>5. PICK x : MovesOn(w, x) /\ x.pc # "poll"
    <3>1. [worker[w] EXCEPT !.pc = "wait", !.current = None,
                            !.seen = None].pc = "wait"
      BY <1>2 DEF Worker
    <3> QED
      BY <2>1, <3>1, MovingOn DEF Retries
  <2>6. ASSUME NEW k \in Ids, Starting(jobs'[k])
        PROVE  jobs'[k] = jobs[k] /\ ~StartsRow(worker[w], k)
    BY <1>1, <2>3, <2>4, <2>6 DEF Wrote, Starting, StartsRow
  <2> QED
    BY <1>1, <2>3, <2>5, <2>6, WritesAreSteady, WorkerTends
<1> QED
  BY <1>3, <1>4

LEMMA ActTends ==
  ASSUME IInv, IInv', EInv, TInv, NEW w \in Workers, Act(w)
  PROVE  TInv'
<1>1. CASE ProbeExit(w)
  <2>1. /\ worker[w].pc = "check" /\ worker[w].pc \in Login
        /\ UNCHANGED <<queue, runnerToken, handlers>>
    BY <1>1 DEF ProbeExit, Login, At
  <2>2. CASE Fails(w)
    BY <2>1, <2>2, FailsTends
  <2>3. CASE ~Fails(w)
    <3>1. PICK ip \in Ips :
            Goto(w, [worker[w] EXCEPT !.pc = "confirm", !.ip = ip])
      BY <1>1, <2>3 DEF ProbeExit
    <3>2. [worker[w] EXCEPT !.pc = "confirm", !.ip = ip].pc = "confirm"
      BY <2>1, AtWork DEF Worker
    <3>3. PICK x : MovesOn(w, x) /\ x.pc # "poll"
      BY <3>1, <3>2, MovingOn
    <3>4. UNCHANGED <<obj, jobs>>
      BY <1>1, <2>3 DEF ProbeExit
    <3> QED
      BY <2>1, <3>3, <3>4, LookingTends
  <2> QED
    BY <2>2, <2>3
<1>2. CASE StartFails(w) \/ WaitFails(w)
  <2>1. /\ worker[w].pc \in Login /\ Fails(w)
        /\ UNCHANGED <<queue, runnerToken, handlers>>
    BY <1>2 DEF StartFails, WaitFails, Login, At
  <2> QED
    BY <2>1, FailsTends
<1>3. CASE Cooldown(w)
  <2>1. /\ worker[w].pc = "cooldown" /\ worker[w].pc \in Login
        /\ UNCHANGED <<queue, runnerToken, handlers>>
        /\ SetRow(worker[w].obj, "queued", None)
        /\ Goto(w, Checking(worker[w].obj, worker[w].attempt + 1))
    BY <1>3 DEF Cooldown, Login, At
  <2>2. Wrote(obj[worker[w].obj].id, "queued", None)
    BY <2>1, AtWork, SetRowWrites DEF RowStatuses, Live
  <2>3. \A o, n : Checking(o, n).pc = "check"
    BY DEF Checking, Off
  <2>4. PICK x : MovesOn(w, x) /\ x.pc # "poll"
    BY <2>1, <2>3, MovingOn
  <2> QED
    BY <2>1, <2>2, <2>4, WritingTends
<1> QED
  BY <1>1, <1>2, <1>3, TakeRowTends, ConfirmExitTends, CreateJobTends,
     StartAnsweredTends, WaitPollsTends, WaitAnsweredTends DEF Act

-----------------------------------------------------------------------------
(***************************************************************************)
(* The steps in which no worker moves.                                     *)
(***************************************************************************)
IdsStay ==
  \A o \in Objects : obj[o] # None => obj'[o] # None /\ obj'[o].id = obj[o].id

LEMMA StartsStay ==
  ASSUME IInv, StartsHaveWorker, IdsStay, worker' = worker,
         \A i \in Ids : Starting(jobs'[i]) => jobs'[i] = jobs[i]
  PROVE  StartsHaveWorker'
<1> SUFFICES ASSUME NEW i \in Ids, Starting(jobs'[i])
             PROVE  \E w \in Workers : /\ worker[w].pc \in {"start", "created"}
                                       /\ obj'[worker[w].obj].id = i
  BY DEF StartsHaveWorker, StartsRow, Starting
<1>1. PICK w \in Workers : StartsRow(worker[w], i)
  BY DEF StartsHaveWorker
<1>2. HasRow(worker[w].obj)
  BY <1>1 DEF IInv, WorkersGood, GoodWorker, StartsRow, Login, At
<1> QED
  BY <1>1, <1>2 DEF StartsRow, IdsStay, HasRow

\* Nothing is written that is live, nothing queued that was not.
Calm ==
  /\ \A i \in Ids : jobs'[i] = jobs[i] \/ jobs'[i] = None
                    \/ jobs'[i].status \notin Live
  /\ \A i \in Ids : queue'[i] # None /\ jobs[i] # None => queue[i] # None

LEMMA CalmTends ==
  ASSUME IInv, TInv, Steady, Calm, Over => Over',
         "add" \in UserDoes => queue' = queue,
         clearing' => "clear" \in UserDoes,
         cleaning' # {} => "remove" \in UserDoes,
         \A c \in cancels' : c.seen.status \in Terminal,
         UNCHANGED <<worker, runner, runnerToken, poller>>
  PROVE  TInv'
<1>1. IdsStay
  BY DEF Steady, IdsStay
<1>2. \A i \in Ids : Starting(jobs'[i]) => jobs'[i] = jobs[i]
  BY DEF Calm, Starting, Live
<1>3. StartsHaveWorker'
  BY <1>1, <1>2, StartsStay DEF TInv
<1>4. RowsTracked'
  BY TrackedKeeps DEF TInv
<1>5. Over' \/ Tended'
  BY DEF TInv, Tended, PollInFlight, Left, Calm
<1> QED
  BY <1>3, <1>4, <1>5 DEF TInv

\* Steps that write nothing to rows.
LEMMA UnwrittenTends ==
  ASSUME IInv, TInv,
         clearing' => clearing, cleaning' # {} => "remove" \in UserDoes,
         clearing => clearing',
         UNCHANGED <<obj, jobs, queue, cancels, worker, runner, runnerToken,
                     poller>>
  PROVE  TInv'
<1>1. Steady
  BY WritesAreSteady DEF IInv
<1>2. Calm /\ (Over => Over')
  BY DEF Calm, Over
<1> QED
  BY <1>1, <1>2, CalmTends DEF TInv

LEMMA StartRowsTends ==
  ASSUME IInv, EInv, TInv, NEW rows \in SUBSET Queued, StartRows(rows)
  PROVE  TInv'
<1> DEFINE marked == {i \in rows : RowState(queue[i]).status \notin Live}
           mine == {queue[i] : i \in marked}
<1>1. /\ obj' = [o \in Objects |->
                  IF o \in mine
                  THEN [obj[o] EXCEPT !.status = "queued", !.job = None,
                                      !.retry = FALSE]
                  ELSE obj[o]]
      /\ jobs' = [i \in Ids |->
                   IF i \in marked
                   THEN [status |-> "queued", job |-> None, retry |-> FALSE]
                   ELSE jobs[i]]
      /\ UNCHANGED <<queue, worker, poller, cancels, cleaning, clearing>>
  BY DEF StartRows, MarkRowsQueued, handlers
<1>2. \A i \in marked : i \in Ids /\ HasRow(queue[i]) /\ obj[queue[i]].id = i
  BY DEF IInv, QueueGood, Queued
<1>3. \A o \in mine : HasRow(o)
  BY <1>2
<1> HIDE DEF mine, marked
<1>4. ASSUME NEW o \in Objects
      PROVE  IF obj[o] = None THEN obj'[o] = None
             ELSE obj'[o] # None /\ obj'[o].id = obj[o].id
  <2>1. CASE o \in mine
    <3>1. obj[o] \in Row /\ obj[o] # None
      BY <1>3, <2>1 DEF HasRow, IInv, TypeOK
    <3>2. obj'[o] \in Row /\ obj'[o].id = obj[o].id
      BY <1>1, <2>1, <3>1 DEF Row, RowStatuses, Live
    <3> QED
      BY <3>1, <3>2, NoneAssumption
  <2>2. CASE o \notin mine
    BY <1>1, <2>2
  <2> QED
    BY <2>1, <2>2
<1>5. Steady
  <2>1. \A i \in Ids : jobs'[i] # None /\ jobs[i] = None => i \in marked
    BY <1>1
  <2> QED
    BY <1>2, <1>4, <2>1 DEF Steady, HasRow
<1>6. IdsStay
  BY <1>5 DEF Steady, IdsStay
<1>7. \A i \in Ids : Starting(jobs'[i]) => jobs'[i] = jobs[i]
  BY <1>1 DEF Starting
<1>8. StartsHaveWorker' /\ RowsTracked'
  BY <1>1, <1>5, <1>6, <1>7, StartsStay, TrackedKeeps DEF TInv
<1>9. Over => Over'
  BY <1>1 DEF Over
<1>10. Over' \/ Tended'
  <2> SUFFICES ASSUME Tended
               PROVE  Tended'
    BY <1>9 DEF TInv
  <2>1. PollInFlight' => poller'.on
    BY <1>1 DEF Tended, PollInFlight
  <2>2. runner' # 0 /\ runner' = runnerToken'
    BY DEF StartRows, Tended, IInv, TypeOK
  <2> QED
    BY <2>1, <2>2 DEF Tended
<1> QED
  BY <1>1, <1>8, <1>10 DEF TInv

LEMMA RunQueuedRowsTends ==
  ASSUME IInv, IInv', EInv, TInv, RunQueuedRows
  PROVE  TInv'
<1>1. /\ run = "syncing"
      /\ UNCHANGED <<queue, obj, jobs, runnerToken, cancels, cleaning,
                     clearing>>
  BY DEF RunQueuedRows, handlers
<1>2. \A w \in Workers : worker[w].pc = "off"
  BY <1>1 DEF EInv, TokensGood
<1>3. \A i \in Ids : ~Starting(jobs[i])
  BY <1>2 DEF TInv, StartsHaveWorker, StartsRow
<1>4. StartsHaveWorker' /\ RowsTracked'
  <2>1. Steady
    BY <1>1, WritesAreSteady DEF IInv
  <2> QED
    BY <1>1, <1>3, <2>1, TrackedKeeps DEF TInv, StartsHaveWorker, Starting
<1>5. Over => Over'
  BY <1>1 DEF Over
<1>6. CASE QueuedRows = {}
  <2>1. EndRun /\ worker' = worker
    BY <1>6 DEF RunQueuedRows
  <2>2. QueuedRows' = {}
    BY <1>1, <1>6 DEF QueuedRows, Queued, RowState
  <2>3. Over \/ Tended'
    <3> SUFFICES ASSUME Tended
                 PROVE  Tended'
      BY DEF TInv
    <3>1. runner = runnerToken
      BY <1>1 DEF EInv, TokensGood, Tended
    <3> QED
      BY <1>1, <1>2, <1>4, <2>1, <2>2, <3>1, EndsTended DEF IInv
  <2> QED
    BY <1>1, <1>4, <1>5, <2>1, <2>3 DEF TInv
<1>7. CASE QueuedRows # {}
  <2>1. UNCHANGED <<runner, poller>>
    BY <1>7 DEF RunQueuedRows
  <2>2. PICK team \in SUBSET Workers :
          worker' = [w \in Workers |->
            IF w \in team THEN [Off EXCEPT !.pc = "pause"] ELSE Off]
    BY <1>7 DEF RunQueuedRows
  <2>3. \A w \in Workers : worker'[w].pc # "poll"
    BY <2>2 DEF Off
  <2>4. Over \/ Tended'
    BY <1>1, <2>1 DEF TInv, EInv, TokensGood, Tended, PollInFlight
  <2> QED
    BY <1>1, <1>4, <1>5, <2>3, <2>4 DEF TInv
<1> QED
  BY <1>6, <1>7

\* A poll puts back what it read, or writes what it was answered.
LEMMA PollWriteTends ==
  ASSUME IInv, TInv, poller.at # None, IdsStay, RowsTracked',
         poller' = [poller EXCEPT !.at = None],
         \A i \in Ids : jobs'[i] = jobs[i] \/ jobs'[i].status \notin Live
                        \/ jobs'[i].job # None,
         UNCHANGED <<queue, worker, runner, runnerToken, cancels, cleaning,
                     clearing>>
  PROVE  TInv'
<1>1. \A i \in Ids : Starting(jobs'[i]) => jobs'[i] = jobs[i]
  BY DEF Starting, Live
<1>2. StartsHaveWorker'
  BY <1>1, StartsStay DEF TInv
<1>3. poller'.on = poller.on /\ poller'.pending = poller.pending
  BY DEF IInv, TypeOK
<1>4. Over' \/ Tended'
  BY <1>3 DEF TInv, Over, Tended, PollInFlight, Left
<1> QED
  BY <1>2, <1>4 DEF TInv

LEMMA PollingTends ==
  ASSUME IInv, TInv, Polling
  PROVE  TInv'
<1>1. CASE PollBegins
  <2>1. /\ poller.on
        /\ UNCHANGED <<obj, jobs, queue, worker, runner, runnerToken,
                       cancels, cleaning, clearing>>
        /\ poller' = IF LiveRows = {}
                     THEN [poller EXCEPT !.on = FALSE]
                     ELSE [poller EXCEPT !.pending =
                                           {queue[i] : i \in LiveRows}]
    BY <1>1 DEF PollBegins, runs, handlers
  <2>2. ~PollInFlight
    BY <1>1 DEF PollBegins
  <2>3. StartsHaveWorker' /\ RowsTracked'
    BY <2>1 DEF TInv, StartsHaveWorker, StartsRow, RowsTracked
  <2>4. poller \in [on : BOOLEAN, pending : SUBSET Objects,
                    at : Poll \cup {None}]
    BY DEF IInv, TypeOK
  <2>5. CASE LiveRows = {}
    <3>1. poller'.at = None /\ poller'.pending = {}
      BY <2>1, <2>2, <2>4, <2>5 DEF PollInFlight
    <3>2. Left'
      BY <2>1, <2>5 DEF Left, LiveRows, Queued, IInv, QueueGood, RowState
    <3> QED
      BY <2>1, <2>3, <3>1, <3>2 DEF TInv, Over, Tended, PollInFlight
  <2>6. CASE LiveRows # {}
    <3>1. poller'.on
      BY <2>1, <2>4, <2>6
    <3> QED
      BY <2>1, <2>3, <3>1 DEF TInv, Over, Tended, Left
  <2> QED
    BY <2>5, <2>6
<1>2. CASE PollSends
  <2>1. UNCHANGED <<obj, jobs, queue, worker, runner, runnerToken, cancels,
                    cleaning, clearing>>
    BY <1>2 DEF PollSends, runs, handlers
  <2>2. PICK o, p :
          /\ o \in poller.pending
          /\ poller' = [poller EXCEPT !.pending = @ \ {o}, !.at = p]
    BY <1>2 DEF PollSends
  <2>3. poller'.on = poller.on /\ PollInFlight
    BY <2>2 DEF IInv, TypeOK, PollInFlight
  <2> QED
    BY <2>1, <2>3 DEF TInv, StartsHaveWorker, StartsRow, RowsTracked, Over,
                      Tended, Left
<1>3. CASE PollAnswered
  <2>1. /\ poller.at # None /\ poller' = [poller EXCEPT !.at = None]
        /\ UNCHANGED <<queue, worker, runner, runnerToken, cancels, cleaning,
                       clearing>>
    BY <1>3 DEF PollAnswered, runs, handlers
  <2>2. PICK p : p = poller.at
    OBVIOUS
  <2>3. GoodPoll(p)
    BY <2>1, <2>2, ActorsGood
  <2>4. CASE UNCHANGED <<obj, jobs>>
    <3>1. IdsStay /\ RowsTracked'
      BY <2>1, <2>4 DEF IdsStay, TInv, RowsTracked
    <3> QED
      BY <2>1, <2>4, <3>1, PollWriteTends
  <2>5. CASE ~UNCHANGED <<obj, jobs>>
    <3>1. PICK answer \in {p.seen, AnswerOf(p.current.job)} :
            ApplyJob(p.obj, p.current, answer)
      BY <1>3, <2>2, <2>5 DEF PollAnswered
    <3>2. GoodAnswer(answer, p.current.job)
      BY <2>3, <3>1, KnownAnswer DEF GoodPoll, GoodView
    <3>3. PICK j : j # None /\ Wrote(obj[p.obj].id, answer.status, j)
      BY <2>3, <3>1, <3>2, ApplyJobWrites
         DEF GoodPoll, GoodAnswer, GoodView
    <3>4. Steady
      BY <3>3, WritesAreSteady
    <3>5. RowsTracked' /\ IdsStay
      BY <2>1, <3>4, TrackedKeeps DEF TInv, Steady, IdsStay
    <3>6. \A i \in Ids : jobs'[i] = jobs[i] \/ jobs'[i].job # None
      BY <3>3 DEF Wrote
    <3> QED
      BY <2>1, <3>5, <3>6, PollWriteTends
  <2> QED
    BY <2>4, <2>5
<1>4. CASE PollFails
  <2>1. /\ poller.at # None /\ poller' = [poller EXCEPT !.at = None]
        /\ UNCHANGED <<queue, worker, runner, runnerToken, cancels, cleaning,
                       clearing>>
    BY <1>4 DEF PollFails, runs, handlers
  <2>2. PICK p : p = poller.at
    OBVIOUS
  <2>3. GoodPoll(p)
    BY <2>1, <2>2, ActorsGood
  <2>4. PICK retry \in BOOLEAN :
          \/ CommitFailure(p.obj, p.current, retry)
          \/ /\ jobs' = [jobs EXCEPT ![obj[p.obj].id] = p.current]
             /\ UNCHANGED obj
    BY <1>4, <2>2 DEF PollFails
  <2>5. /\ Steady
        /\ \A i \in Ids : jobs'[i] = jobs[i] \/ jobs'[i].status \notin Live
                          \/ jobs'[i].job # None
    <3>1. CASE CommitFailure(p.obj, p.current, retry)
      <4>1. PICK j : Wrote(obj[p.obj].id, "failed", j)
        BY <2>3, <3>1, CommitFailureWrites DEF GoodPoll, GoodView
      <4> QED
        BY <4>1, WritesAreSteady DEF Wrote, Live
    <3>2. CASE /\ jobs' = [jobs EXCEPT ![obj[p.obj].id] = p.current]
               /\ UNCHANGED obj
      <4>1. p.obj \in Objects /\ obj[p.obj] # None /\ p.current.job # None
        BY <2>3 DEF GoodPoll, HasRow
      <4> QED
        BY <3>2, <4>1 DEF Steady, IInv, TypeOK
    <3> QED
      BY <2>4, <3>1, <3>2
  <2>6. RowsTracked' /\ IdsStay
    BY <2>1, <2>5, TrackedKeeps DEF TInv, Steady, IdsStay
  <2> QED
    BY <2>1, <2>5, <2>6, PollWriteTends
<1> QED
  BY <1>1, <1>2, <1>3, <1>4 DEF Polling

\* A request to cancel ends the job, and the row that has none.
LEMMA SendCancelTends ==
  ASSUME IInv, TInv, NEW rows \in SUBSET LiveRows, NEW clear \in BOOLEAN,
         SendCancel(rows, clear)
  PROVE  /\ Steady
         /\ \A i \in Ids : jobs'[i] = jobs[i] \/ jobs'[i].status = "failed"
         /\ \A c \in cancels' : c.seen.status \in Terminal
<1> DEFINE known(i) == KnownJob(queue[i], RowState(queue[i]))
           sent == {i \in rows : known(i) # None}
           Killed(j) == IF server[j].status \in Live
                        THEN [server[j] EXCEPT !.status = "failed",
                                               !.retry = FALSE]
                        ELSE server[j]
           message(i) == [obj |-> queue[i], current |-> RowState(queue[i]),
                          job |-> known(i),
                          seen |-> [status |-> Killed(known(i)).status,
                                    retry |-> Killed(known(i)).retry],
                          clear |-> clear]
           stopped == {queue[i] : i \in rows \ sent}
<1>1. /\ cancels' = cancels \cup {message(i) : i \in sent}
      /\ obj' = [o \in Objects |->
           IF o \in stopped
           THEN [obj[o] EXCEPT !.status = "failed", !.retry = FALSE]
           ELSE obj[o]]
      /\ jobs' = [i \in Ids |->
           IF i \in rows \ sent
           THEN [status |-> "failed", job |-> None, retry |-> FALSE]
           ELSE jobs[i]]
  BY DEF SendCancel
<1>2. \A i \in rows : /\ i \in Ids /\ HasRow(queue[i])
                      /\ obj[queue[i]].id = i
  BY DEF LiveRows, Queued, IInv, QueueGood
<1>3. \A o \in stopped : HasRow(o)
  BY <1>2
<1>4. ASSUME NEW i \in sent
      PROVE  message(i).seen.status \in Terminal
  <2>1. PICK j : j = known(i)
    OBVIOUS
  <2>2. JobOf(j, i)
    <3>1. HasRow(queue[i]) /\ obj[queue[i]].id = i
      BY <1>2
    <3>2. GoodView(RowState(queue[i]), i)
      BY <3>1, RowStateGood
    <3>3. GoodView(ViewOf(obj[queue[i]]), i)
      BY <3>1 DEF IInv, RowsGood, HasRow
    <3> QED
      BY <2>1, <3>2, <3>3 DEF GoodView, ViewOf, KnownJob
  <2>3. server[j] \in ServerJob
    BY <2>2 DEF JobOf, IInv, TypeOK
  <2>4. Killed(j).status \in Terminal
    BY <2>3 DEF ServerJob, Live, Terminal
  <2>5. message(i).seen.status = Killed(j).status
    BY <2>1
  <2> QED
    BY <2>4, <2>5
<1> HIDE DEF stopped, sent, message
<1>5. ASSUME NEW o \in Objects
      PROVE  IF obj[o] = None THEN obj'[o] = None
             ELSE obj'[o] # None /\ obj'[o].id = obj[o].id
  <2>1. CASE o \in stopped
    <3>1. obj[o] \in Row /\ obj[o] # None
      BY <1>3, <2>1 DEF HasRow, IInv, TypeOK
    <3>2. obj'[o] \in Row /\ obj'[o].id = obj[o].id
      BY <1>1, <2>1, <3>1 DEF Row, RowStatuses, Terminal
    <3> QED
      BY <3>1, <3>2, NoneAssumption
  <2>2. CASE o \notin stopped
    BY <1>1, <2>2
  <2> QED
    BY <2>1, <2>2
<1>6. \A i \in Ids : jobs'[i] = jobs[i]
                     \/ (i \in rows /\ jobs'[i].status = "failed")
  BY <1>1
<1>7. Steady
  BY <1>2, <1>5, <1>6 DEF Steady, HasRow
<1>8. \A c \in cancels' : c.seen.status \in Terminal
  BY <1>1, <1>4 DEF TInv
<1> QED
  BY <1>6, <1>7, <1>8

LEMMA CancelAnsweredTends ==
  ASSUME IInv, TInv, NEW c \in cancels, CancelAnswered(c)
  PROVE  TInv'
<1>1. /\ cancels' = cancels \ {c}
      /\ UNCHANGED <<queue, worker, runner, runnerToken, poller, cleaning,
                     clearing>>
  BY DEF CancelAnswered, runs
<1>2. Over => Over'
  BY <1>1 DEF Over
<1>3. Steady /\ \A i \in Ids : jobs'[i] = jobs[i] \/ jobs'[i].status \notin Live
  <2>1. CASE UNCHANGED <<obj, jobs>>
    BY <2>1, WritesAreSteady DEF IInv
  <2>2. CASE ApplyJob(c.obj, c.current, c.seen)
    <3>1. HasRow(c.obj) /\ c.seen \in Answer /\ c.current \in View
      BY DEF IInv, CancelsGood, GoodCancel, GoodAnswer, GoodView
    <3>2. PICK j : Wrote(obj[c.obj].id, c.seen.status, j)
      BY <2>2, <3>1, ApplyJobWrites
    <3>3. c.seen.status \notin Live
      BY DEF TInv, Terminal, Live
    <3> QED
      BY <3>2, <3>3, WritesAreSteady DEF Wrote
  <2> QED
    BY <2>1, <2>2 DEF CancelAnswered
<1>4. Calm
  BY <1>1, <1>3 DEF Calm
<1> QED
  BY <1>1, <1>2, <1>3, <1>4, CalmTends DEF TInv

LEMMA RemovalTends ==
  ASSUME IInv, TInv, NEW ids \in SUBSET Ids, RemoveRows(ids),
         "remove" \in UserDoes \/ "clear" \in UserDoes, RowsDoNotReturn,
         \/ clearing' = clearing
         \/ clearing' = FALSE /\ ids = Ids,
         cleaning' \in {cleaning, {}},
         UNCHANGED <<obj, worker, runner, runnerToken, poller, cancels>>
  PROVE  TInv'
<1>1. "add" \notin UserDoes
  BY DEF RowsDoNotReturn
<1>2. \A i \in Ids : /\ jobs'[i] \in {jobs[i], None}
                     /\ queue'[i] \in {queue[i], None}
  BY DEF RemoveRows
<1>3. Steady /\ Calm
  BY <1>2 DEF Steady, Calm
<1>4. Over => Over'
  BY <1>1, <1>2 DEF Over, RemoveRows
<1> QED
  BY <1>1, <1>3, <1>4, CalmTends DEF TInv

LEMMA AddToQueueTends ==
  ASSUME IInv, TInv, NEW i \in Ids, NEW o \in Objects, AddToQueue(i, o),
         RowsDoNotReturn
  PROVE  TInv'
<1>1. /\ "add" \in UserDoes /\ obj[o] = None
      /\ queue' = [queue EXCEPT ![i] = o]
      /\ UNCHANGED <<jobs, worker, runner, runnerToken, poller, cancels,
                     cleaning, clearing>>
  BY DEF AddToQueue, runs, handlers
<1>2. PICK row : obj' = [obj EXCEPT ![o] = row]
                 /\ row = IF queue[i] # None
                          THEN [obj[queue[i]] EXCEPT !.auth = HasAuth(i)]
                          ELSE [id |-> i, status |-> "idle", job |-> None,
                                retry |-> FALSE, auth |-> HasAuth(i)]
  BY DEF AddToQueue
<1>3. row.id = i
  BY <1>2 DEF IInv, QueueGood, TypeOK, HasRow, Row
<1>4. obj'[o] = row /\ \A p \in Objects \ {o} : obj'[p] = obj[p]
  BY <1>2 DEF IInv, TypeOK
<1>5. o # None
  BY RunnerAssumption
<1>6. queue'[i] = o /\ \A k \in Ids \ {i} : queue'[k] = queue[k]
  BY <1>1 DEF IInv, TypeOK
<1>7. \A p \in Objects : obj[p] # None => obj[p].id \in Ids
  BY DEF IInv, TypeOK, Row
<1>8. RowsTracked'
  BY <1>1, <1>3, <1>4, <1>5, <1>6, <1>7 DEF TInv, RowsTracked
<1>9. IdsStay
  BY <1>1, <1>4 DEF IdsStay
<1>10. StartsHaveWorker'
  BY <1>1, <1>9, StartsStay DEF TInv
<1>11. ~Over
  BY <1>1 DEF Over, TInv, RowsDoNotReturn
<1>12. Tended'
  <2>1. \A k \in Ids : jobs[k] # None => queue[k] # None
    BY <1>1 DEF TInv, RowsTracked
  <2> QED
    BY <1>1, <1>11, <2>1 DEF TInv, Tended, PollInFlight, Left
<1> QED
  BY <1>1, <1>8, <1>10, <1>12 DEF TInv

LEMMA NextTends ==
  ASSUME RowsDoNotReturn, IInv, IInv', EInv, TInv, Next
  PROVE  TInv'
<1>1. CASE \E w \in Workers : Act(w)
  BY <1>1, ActTends
<1>2. CASE RunQueuedRows
  BY <1>2, RunQueuedRowsTends
<1>3. CASE Polling
  BY <1>3, PollingTends
<1>4. CASE \E c \in cancels : CancelAnswered(c)
  BY <1>4, CancelAnsweredTends
<1>5. CASE FailedRowsCleaned
  <2>1. /\ RemoveRows(cleaning) /\ cleaning' = {} /\ cleaning # {}
        /\ UNCHANGED <<obj, worker, runner, runnerToken, poller, cancels,
                       clearing>>
    BY <1>5 DEF FailedRowsCleaned, runs
  <2>2. cleaning \in SUBSET Ids /\ "remove" \in UserDoes
    BY <2>1 DEF TInv, IInv, TypeOK
  <2> QED
    BY <2>1, <2>2, RemovalTends
<1>6. CASE QueueCleared
  <2>1. /\ RemoveRows(Ids) /\ clearing /\ clearing' = FALSE
        /\ UNCHANGED <<obj, worker, runner, runnerToken, poller, cancels,
                       cleaning>>
    BY <1>6 DEF QueueCleared, runs
  <2> QED
    BY <2>1, RemovalTends DEF TInv
<1>7. CASE \E j \in Jobs : JobMoves(j)
  BY <1>7, UnwrittenTends DEF JobMoves, runs, handlers, TInv
<1>8. CASE \E rows \in SUBSET Queued \ {{}} : StartRows(rows)
  BY <1>8, StartRowsTends
<1>9. CASE \E rows \in SUBSET Queued \ {{}} : CleanFailedRows(rows)
  BY <1>9, UnwrittenTends DEF CleanFailedRows, runs, TInv
<1>10. CASE \E rows \in SUBSET Queued \ {{}} : RemoveSelectedSources(rows)
  <2>1. PICK rows \in SUBSET Queued : RemoveSelectedSources(rows)
    BY <1>10
  <2>2. rows \in SUBSET Ids
    BY DEF Queued
  <2> QED
    BY <2>1, <2>2, RemovalTends DEF RemoveSelectedSources, runs, handlers
<1>11. CASE \E i \in Ids : CancelLoginJob(i)
  <2>1. PICK i \in LiveRows :
          /\ SendCancel({i}, FALSE)
          /\ UNCHANGED <<queue, worker, runner, runnerToken, poller, cleaning,
                         clearing>>
    BY <1>11 DEF CancelLoginJob, runs
  <2>2. /\ Steady
        /\ \A k \in Ids : jobs'[k] = jobs[k] \/ jobs'[k].status = "failed"
        /\ \A c \in cancels' : c.seen.status \in Terminal
    BY <2>1, SendCancelTends
  <2>3. Calm /\ (Over => Over')
    BY <2>1, <2>2 DEF Calm, Over, Live
  <2> QED
    BY <2>1, <2>2, <2>3, CalmTends DEF TInv
<1>12. CASE \E i \in Ids, o \in Objects : AddToQueue(i, o)
  BY <1>12, AddToQueueTends
<1>13. CASE ClearQueue
  <2>1. /\ "clear" \in UserDoes /\ clearing' = TRUE
        /\ SendCancel(LiveRows, TRUE)
        /\ UNCHANGED <<queue, worker, cleaning>>
    BY <1>13 DEF ClearQueue
  <2>2. /\ Steady
        /\ \A k \in Ids : jobs'[k] = jobs[k] \/ jobs'[k].status = "failed"
        /\ \A c \in cancels' : c.seen.status \in Terminal
    BY <2>1, SendCancelTends
  <2>3. StartsHaveWorker' /\ RowsTracked'
    <3>1. IdsStay /\ \A k \in Ids : Starting(jobs'[k]) => jobs'[k] = jobs[k]
      BY <2>2 DEF Steady, IdsStay, Starting
    <3> QED
      BY <2>1, <2>2, <3>1, StartsStay, TrackedKeeps DEF TInv
  <2>4. Over'
    BY <2>1 DEF Over
  <2> QED
    BY <2>1, <2>2, <2>3, <2>4 DEF TInv
<1> QED
  BY <1>1, <1>2, <1>3, <1>4, <1>5, <1>6, <1>7, <1>8, <1>9, <1>10, <1>11,
     <1>12, <1>13 DEF Next, Answered, User

LEMMA InitTends ==
  ASSUME Init
  PROVE  TInv
<1>1. /\ \A i \in Ids : jobs[i] = None
      /\ runner = 0 /\ runnerToken = 0
      /\ poller =
           [on |-> ShouldUseRecoveryPolling, pending |-> {}, at |-> None]
      /\ cancels = {} /\ cleaning = {} /\ clearing = FALSE
      /\ \A w \in Workers : worker[w].pc = "off"
  BY DEF Init, Off
<1>2. IInv
  BY InitHolds
<1>3. RowsTracked
  <2>1. \A o \in Objects : obj[o] # None => queue[obj[o].id] = o
    BY InitHolds
  <2> QED
    BY <1>1, <2>1, RunnerAssumption DEF RowsTracked
<1>4. Tended
  BY <1>1 DEF Tended, PollInFlight, Left
<1> QED
  BY <1>1, <1>3, <1>4 DEF TInv, StartsHaveWorker, Starting

LEMMA TendingSteps ==
  ASSUME RowsDoNotReturn
  PROVE  IInv /\ IInv' /\ EInv /\ TInv /\ [Next]_vars => TInv'
<1>1. CASE Next
  BY <1>1, NextTends
<1>2. CASE UNCHANGED vars
  BY <1>2 DEF vars, TInv, RowsTracked, StartsHaveWorker, StartsRow, Over,
              Tended, PollInFlight, Left
<1> QED
  BY <1>1, <1>2

(***************************************************************************)
(* A row that shows as waiting or running is never nobody's business, as   *)
(* long as rows that leave the queue do not come back to it: a run that    *)
(* ends has no queued rows, and leaves the running ones to the poller,     *)
(* which stops only when there are none.                                   *)
(***************************************************************************)
THEOREM RowsAreTended == RowsDoNotReturn => (Spec => []NoRowIsForgotten)
<1> SUFFICES ASSUME RowsDoNotReturn
             PROVE  Spec => []NoRowIsForgotten
  OBVIOUS
<1>1. Init => TInv
  BY InitTends
<1>2. IInv /\ IInv' /\ EInv /\ TInv /\ [Next]_vars => TInv'
  BY TendingSteps
<1>3. IInv /\ EInv /\ TInv => NoRowIsForgotten
  BY TInvShows
<1> QED
  BY <1>1, <1>2, <1>3, Invariance, ExitsInvariance, PTL DEF Spec

-----------------------------------------------------------------------------
(***************************************************************************)
(* A cancel holds.  The recovery poller must have nothing to do: when a    *)
(* poll fails it puts back the row it read, cancelled meanwhile or not.    *)
(* It has nothing when no earlier page has left a live row, for the jobs   *)
(* that this page starts have a worker who waits for them.                 *)
(***************************************************************************)
NothingToRecover == Loaded \cap Live = {}

LiveJob(view) == view # None /\ view.status \in Live /\ view.job # None

Waits(k, i, j) ==
  k.pc \in {"wait", "poll"} /\ k.job = j /\ obj[k.obj].id = i

JobsAwaited ==
  \A i \in Ids : queue[i] # None /\ LiveJob(jobs[i])
    => \E w \in Workers : Waits(worker[w], i, jobs[i].job)

\* A row without a view is as it was loaded, or added.
Unseen ==
  \A i \in Ids : queue[i] # None /\ jobs[i] = None
    => obj[queue[i]].status \notin Live

LiveView(view) == view # None /\ view.status \in Live

AskedFor ==
  \A i \in Ids : queue[i] # None /\ (LiveView(jobs[i]) \/ Working(i))
    => asked[i]

CInv ==
  /\ ~poller.on /\ ~PollInFlight
  /\ \A w \in Workers :
       worker[w].pc = "poll" => worker[w].current.job = worker[w].job
  /\ JobsAwaited /\ Unseen /\ AskedFor

LEMMA NobodyElse ==
  ASSUME IInv, NEW w \in Workers, worker[w].pc \in Login, NEW i, NEW j,
         obj[worker[w].obj].id = i,
         NEW v \in Workers, Waits(worker[v], i, j)
  PROVE  v = w
BY DEF IInv, OneWorkerPerRow, Waits, Login, At

LEMMA TakesAsked ==
  ASSUME IInv, CInv, NEW w \in Workers, TakeRow(w), worker'[w].pc = "check"
  PROVE  asked[obj[worker'[w].obj].id]
<1>1. CASE \E x : MovesOn(w, x) /\ x.pc \in {"off", "pause"}
  BY <1>1 DEF MovesOn, IInv, TypeOK
<1>2. CASE ~\E x : MovesOn(w, x) /\ x.pc \in {"off", "pause"}
  <2>1. ~LoginReturns(w)
    BY <1>2, MovingOn DEF Retries
  <2>2. ~Leave(w)
    <3>1. Off.pc = "off"
      BY DEF Off
    <3> QED
      BY <3>1 DEF Leave, IInv, TypeOK
  <2>3. PICK i \in QueuedRows : Goto(w, Checking(queue[i], 1))
    BY <2>1, <2>2 DEF TakeRow
  <2>4. worker'[w].obj = queue[i]
    BY <2>3 DEF Goto, Checking, Off, IInv, TypeOK
  <2>5. i \in Ids /\ queue[i] # None /\ RowState(queue[i]).status = "queued"
    BY DEF QueuedRows, Queued
  <2>6. obj[queue[i]].id = i
    BY <2>5 DEF IInv, QueueGood
  <2>7. LiveView(jobs[i])
    BY <2>5, <2>6 DEF RowState, CInv, Unseen, LiveView, Live
  <2> QED
    BY <2>4, <2>5, <2>6, <2>7 DEF CInv, AskedFor
<1> QED
  BY <1>1, <1>2

-----------------------------------------------------------------------------
\* What a step of a worker writes, and for whom.
LEMMA WorkerHolds ==
  ASSUME IInv, IInv', EInv, TInv, TInv', CInv,
         NEW w \in Workers, worker[w].pc # "off",
         NEW x, MovesOn(w, x), x.pc = "poll" => x.current.job = x.job,
         IdsStay,
         \A o \in Objects : obj[o] # None /\ obj'[o] # obj[o]
                              => jobs'[obj[o].id] # None,
         \A i \in Ids : jobs'[i] = None => jobs[i] = None,
         \A i \in Ids : queue[i] # None =>
           /\ LiveJob(jobs'[i]) =>
                \/ /\ jobs'[i] = jobs[i]
                   /\ ~Waits(worker[w], i, jobs[i].job)
                \/ HasRow(x.obj) /\ Waits(x, i, jobs'[i].job)
           /\ LiveView(jobs'[i]) => jobs'[i] = jobs[i] \/ asked[i]
           /\ x.pc \in Login /\ obj[x.obj].id = i => asked[i],
         x.pc \in Login => HasRow(x.obj),
         UNCHANGED <<queue, runnerToken, handlers, asked>>
  PROVE  CInv'
<1>1. worker' = [worker EXCEPT ![w] = x]
  BY DEF MovesOn
<1>2. worker'[w] = x /\ \A v \in Workers \ {w} : worker'[v] = worker[v]
  BY <1>1 DEF IInv, TypeOK
<1>3. JobsAwaited'
  <2> SUFFICES ASSUME NEW i \in Ids, queue[i] # None, LiveJob(jobs'[i])
               PROVE  \E v \in Workers :
                        /\ worker'[v].pc \in {"wait", "poll"}
                        /\ worker'[v].job = jobs'[i].job
                        /\ obj'[worker'[v].obj].id = i
    BY DEF JobsAwaited, Waits, LiveJob
  <2>1. CASE jobs'[i] = jobs[i] /\ ~Waits(worker[w], i, jobs[i].job)
    <3>1. PICK v \in Workers : Waits(worker[v], i, jobs[i].job)
      BY <2>1 DEF CInv, JobsAwaited
    <3>2. HasRow(worker[v].obj)
      BY <3>1 DEF IInv, WorkersGood, GoodWorker, Waits, Login, At
    <3> QED
      BY <1>2, <2>1, <3>1, <3>2 DEF Waits, IdsStay, HasRow
  <2>2. CASE HasRow(x.obj) /\ Waits(x, i, jobs'[i].job)
    BY <1>2, <2>2 DEF Waits, IdsStay, HasRow
  <2> QED
    BY <2>1, <2>2
<1>4. Unseen'
  <2> SUFFICES ASSUME NEW i \in Ids, queue[i] # None, jobs'[i] = None
               PROVE  obj'[queue[i]].status \notin Live
    BY DEF Unseen
  <2>1. jobs[i] = None /\ HasRow(queue[i]) /\ obj[queue[i]].id = i
    BY DEF IInv, QueueGood
  <2>2. obj'[queue[i]] = obj[queue[i]]
    BY <2>1 DEF HasRow
  <2> QED
    BY <2>1, <2>2 DEF CInv, Unseen
<1>5. AskedFor'
  <2> SUFFICES ASSUME NEW i \in Ids, queue[i] # None,
                      LiveView(jobs'[i]) \/ Working(i)'
               PROVE  asked[i]
    BY DEF AskedFor, LiveView
  <2>1. CASE LiveView(jobs'[i])
    BY <2>1 DEF CInv, AskedFor
  <2>2. CASE Working(i)'
    <3>1. PICK v \in Workers : /\ worker'[v].pc \in Login
                               /\ obj'[worker'[v].obj].id = i
      BY <2>2 DEF Working, ActiveRows
    <3>2. CASE v = w
      BY <1>2, <3>1, <3>2 DEF IdsStay, HasRow
    <3>3. CASE v # w
      <4>1. worker'[v] = worker[v] /\ HasRow(worker[v].obj)
        BY <1>2, <3>1, <3>3 DEF IInv, WorkersGood, GoodWorker
      <4>2. obj[worker[v].obj].id = i
        BY <3>1, <4>1 DEF IdsStay, HasRow
      <4> QED
        BY <3>1, <4>1, <4>2 DEF CInv, AskedFor, Working, ActiveRows
    <3> QED
      BY <3>2, <3>3
  <2> QED
    BY <2>1, <2>2
<1>6. ~poller'.on /\ ~PollInFlight'
  <2>1. CASE UNCHANGED <<run, runner, poller>>
    BY <2>1 DEF CInv, PollInFlight
  <2>2. CASE ~UNCHANGED <<run, runner, poller>>
    <3>1. /\ EndRun /\ x = Off
          /\ \A v \in Workers \ {w} : worker[v].pc = "off"
          /\ runner # runnerToken \/ QueuedRows' = {}
      BY <2>2 DEF MovesOn
    <3>2. \A v \in Workers : worker'[v].pc = "off"
      BY <1>2, <3>1 DEF Off
    <3>3. /\ poller'.at = poller.at /\ poller'.pending = poller.pending
          /\ poller'.on = (poller.on \/ (runner' = 0
                                         /\ ShouldUseRecoveryPolling'))
      BY <3>1 DEF EndRun, StartPolling, IInv, TypeOK
    <3>4. runner # 0
      BY DEF EInv, TokensGood
    <3>5. QueuedRows' = {} => ~ShouldUseRecoveryPolling'
      <4> SUFFICES ASSUME QueuedRows' = {}, NEW i \in LiveRows'
                   PROVE  FALSE
        BY DEF ShouldUseRecoveryPolling
      <4>1. /\ i \in Ids /\ queue'[i] # None
            /\ RowState(queue[i])'.status \in Live
        BY DEF LiveRows, Queued
      <4>2. obj'[queue'[i]].id = i
        BY <4>1 DEF IInv, QueueGood
      <4>3. jobs'[i] # None /\ RowState(queue[i])' = jobs'[i]
        BY <1>4, <4>1, <4>2 DEF RowState, Unseen
      <4>4. jobs'[i].status = "running"
        BY <4>1, <4>3 DEF QueuedRows, Queued, Live
      <4>5. jobs'[i].job # None
        BY <3>2, <4>1, <4>3, <4>4
           DEF TInv, StartsHaveWorker, StartsRow, Starting
      <4>6. LiveJob(jobs'[i])
        BY <4>4, <4>5, <4>3 DEF LiveJob, Live
      <4> QED
        BY <1>3, <3>2, <4>1, <4>6 DEF JobsAwaited, Waits, LiveJob
    <3>6. runner' = 0 => QueuedRows' = {}
      BY <3>1, <3>4 DEF EndRun
    <3> QED
      BY <3>3, <3>5, <3>6 DEF CInv, PollInFlight
  <2> QED
    BY <2>1, <2>2
<1>7. \A v \in Workers :
        worker'[v].pc = "poll" => worker'[v].current.job = worker'[v].job
  BY <1>2 DEF CInv
<1> QED
  BY <1>3, <1>4, <1>5, <1>6, <1>7 DEF CInv

\* A worker writes to its row and stays with it, or leaves it.
LEMMA WritingHolds ==
  ASSUME IInv, IInv', EInv, TInv, TInv', CInv,
         NEW w \in Workers, worker[w].pc \in Login,
         NEW x, MovesOn(w, x), x.pc # "poll",
         x.pc \in Login => x.obj = worker[w].obj,
         NEW s, NEW j, Wrote(obj[worker[w].obj].id, s, j),
         s \in Live /\ j # None => x.pc = "wait" /\ x.job = j,
         UNCHANGED <<queue, runnerToken, handlers, asked>>
  PROVE  CInv'
<1>1. HasRow(worker[w].obj) /\ worker[w].pc # "off"
  BY AtWork DEF Login
<1>2. /\ IdsStay
      /\ \A o \in Objects : obj[o] # None /\ obj'[o] # obj[o]
                              => jobs'[obj[o].id] # None
      /\ \A i \in Ids : jobs'[i] = None => jobs[i] = None
  BY DEF Wrote, IdsStay
<1>3. ASSUME NEW i \in Ids, queue[i] # None, obj[worker[w].obj].id = i
      PROVE  asked[i]
  BY <1>3 DEF CInv, AskedFor, Working, ActiveRows
<1>4. ASSUME NEW i \in Ids, queue[i] # None
      PROVE  /\ LiveJob(jobs'[i]) =>
                  \/ /\ jobs'[i] = jobs[i]
                     /\ ~Waits(worker[w], i, jobs[i].job)
                  \/ HasRow(x.obj) /\ Waits(x, i, jobs'[i].job)
             /\ LiveView(jobs'[i]) => jobs'[i] = jobs[i] \/ asked[i]
             /\ x.pc \in Login /\ obj[x.obj].id = i => asked[i]
  <2>1. CASE i = obj[worker[w].obj].id
    <3>1. jobs'[i].status = s /\ jobs'[i].job = j
      BY <2>1 DEF Wrote
    <3>2. LiveJob(jobs'[i]) => x.pc = "wait" /\ x.job = j
                               /\ x.obj = worker[w].obj
      BY <3>1 DEF LiveJob, Login, At
    <3> QED
      BY <1>1, <1>3, <1>4, <2>1, <3>1, <3>2 DEF Waits
  <2>2. CASE i # obj[worker[w].obj].id
    BY <2>2 DEF Wrote, Waits
  <2> QED
    BY <2>1, <2>2
<1> QED
  BY <1>1, <1>2, <1>4, WorkerHolds

\* A worker moves on and writes nothing.
LEMMA LookingHolds ==
  ASSUME IInv, IInv', EInv, TInv, TInv', CInv,
         NEW w \in Workers, worker[w].pc # "off",
         NEW x, MovesOn(w, x), x.pc = "poll" => x.current.job = x.job,
         x.pc \in Login => worker[w].pc \in Login /\ x.obj = worker[w].obj,
         \A i \in Ids : /\ queue[i] # None /\ LiveJob(jobs[i])
                        /\ Waits(worker[w], i, jobs[i].job)
                        => x.pc \in {"wait", "poll"} /\ x.job = worker[w].job,
         UNCHANGED <<obj, jobs, queue, runnerToken, handlers, asked>>
  PROVE  CInv'
<1>1. x.pc \in Login => HasRow(x.obj)
  BY AtWork
<1>2. IdsStay
  BY DEF IdsStay
<1>3. ASSUME NEW i \in Ids, queue[i] # None
      PROVE  /\ LiveJob(jobs'[i]) =>
                  \/ /\ jobs'[i] = jobs[i]
                     /\ ~Waits(worker[w], i, jobs[i].job)
                  \/ HasRow(x.obj) /\ Waits(x, i, jobs'[i].job)
             /\ LiveView(jobs'[i]) => jobs'[i] = jobs[i] \/ asked[i]
             /\ x.pc \in Login /\ obj[x.obj].id = i => asked[i]
  <2>1. x.pc \in Login /\ obj[x.obj].id = i => asked[i]
    BY <1>3 DEF CInv, AskedFor, Working, ActiveRows
  <2>2. x.pc \in {"wait", "poll"} => x.pc \in Login
    BY DEF Login, At
  <2> QED
    BY <1>1, <1>3, <2>1, <2>2 DEF Waits
<1> QED
  BY <1>1, <1>2, <1>3, WorkerHolds

LEMMA FailsHolds ==
  ASSUME IInv, IInv', EInv, TInv, TInv', CInv, NEW w \in Workers,
         worker[w].pc \in Login, Fails(w),
         UNCHANGED <<queue, runnerToken, handlers, asked>>
  PROVE  CInv'
<1>1. PICK x : MovesOn(w, x) /\ Retries(x, worker[w].obj)
  BY FailsMovesOn
<1>2. PICK j : Wrote(obj[worker[w].obj].id, "failed", j)
  BY FailsMovesOn
<1>3. x.pc # "poll" /\ (x.pc \in Login => x.obj = worker[w].obj)
  BY <1>1 DEF Retries, Login
<1>4. "failed" \notin Live
  BY DEF Live
<1> QED
  BY <1>1, <1>2, <1>3, <1>4, WritingHolds

LEMMA TakeRowHolds ==
  ASSUME IInv, IInv', EInv, TInv, TInv', CInv, NEW w \in Workers, TakeRow(w)
  PROVE  CInv'
<1>1. /\ worker[w].pc = "pause"
      /\ UNCHANGED <<queue, runnerToken, handlers, asked>>
  BY DEF TakeRow, history
<1>2. CASE runner # runnerToken \/ QueuedRows \subseteq ActiveRows
  <2>1. UNCHANGED <<obj, jobs>> /\ Leave(w)
    BY <1>2 DEF TakeRow
  <2>2. (\A v \in Workers \ {w} : worker[v].pc = "off")
          => runner # runnerToken \/ QueuedRows' = {}
    <3> SUFFICES ASSUME \A v \in Workers \ {w} : worker[v].pc = "off",
                        runner = runnerToken
                 PROVE  QueuedRows' = {}
      OBVIOUS
    <3>1. ActiveRows = {}
      BY <1>1 DEF ActiveRows, Login
    <3>2. QueuedRows' = QueuedRows
      BY <1>1, <2>1 DEF QueuedRows, Queued, RowState
    <3> QED
      BY <1>2, <3>1, <3>2
  <2>3. MovesOn(w, Off)
    BY <2>1, <2>2 DEF Leave, MovesOn
  <2>4. Off.pc = "off" /\ Off.pc \notin Login
    BY DEF Off, Login
  <2>5. \A i, j : ~Waits(worker[w], i, j)
    BY <1>1 DEF Waits
  <2> QED
    BY <1>1, <2>1, <2>3, <2>4, <2>5, LookingHolds
<1>3. CASE ~(runner # runnerToken \/ QueuedRows \subseteq ActiveRows)
  <2>1. PICK i \in QueuedRows :
          \/ SetRow(queue[i], "queued", None) /\ Goto(w, Checking(queue[i], 1))
          \/ FailRow(queue[i], FALSE) /\ LoginReturns(w)
    BY <1>3 DEF TakeRow
  <2>2. /\ i \in Ids /\ queue[i] # None
        /\ HasRow(queue[i]) /\ obj[queue[i]].id = i
        /\ RowState(queue[i]).status = "queued"
    BY DEF QueuedRows, Queued, IInv, QueueGood
  <2>3. asked[i]
    <3>1. LiveView(jobs[i])
      BY <2>2 DEF RowState, CInv, Unseen, LiveView, Live
    <3> QED
      BY <2>2, <3>1 DEF CInv, AskedFor
  <2>4. PICK x : /\ MovesOn(w, x) /\ x.pc # "poll"
                 /\ x.pc \in Login => x.obj = queue[i]
    <3>1. Checking(queue[i], 1).pc = "check"
          /\ Checking(queue[i], 1).obj = queue[i]
      BY DEF Checking, Off
    <3>2. CASE Goto(w, Checking(queue[i], 1))
      BY <3>1, <3>2, MovingOn
    <3>3. CASE LoginReturns(w)
      BY <3>3, MovingOn DEF Login
    <3> QED
      BY <2>1, <3>2, <3>3
  <2>5. PICK s, j : Wrote(i, s, j) /\ ~(s \in Live /\ j # None)
    <3>1. CASE SetRow(queue[i], "queued", None)
      BY <2>2, <3>1, SetRowWrites DEF RowStatuses, Live
    <3>2. CASE FailRow(queue[i], FALSE)
      <4>1. PICK j : Wrote(i, "failed", j)
        BY <2>2, <3>2, RowStateGood, CommitFailureWrites DEF FailRow, GoodView
      <4> QED
        BY <4>1 DEF Live
    <3> QED
      BY <2>1, <3>1, <3>2
  <2>6. /\ IdsStay
        /\ \A o \in Objects : obj[o] # None /\ obj'[o] # obj[o]
                                => jobs'[obj[o].id] # None
        /\ \A k \in Ids : jobs'[k] = None => jobs[k] = None
    BY <2>5 DEF Wrote, IdsStay
  <2>7. ASSUME NEW k \in Ids, queue[k] # None
        PROVE  /\ LiveJob(jobs'[k]) =>
                    \/ /\ jobs'[k] = jobs[k]
                       /\ ~Waits(worker[w], k, jobs[k].job)
                    \/ HasRow(x.obj) /\ Waits(x, k, jobs'[k].job)
               /\ LiveView(jobs'[k]) => jobs'[k] = jobs[k] \/ asked[k]
               /\ x.pc \in Login /\ obj[x.obj].id = k => asked[k]
    BY <1>1, <2>2, <2>3, <2>4, <2>5 DEF Wrote, Waits, LiveJob
  <2> QED
    BY <1>1, <2>2, <2>4, <2>6, <2>7, WorkerHolds
<1> QED
  BY <1>2, <1>3

LEMMA ConfirmExitHolds ==
  ASSUME IInv, IInv', EInv, TInv, TInv', CInv, NEW w \in Workers,
         ConfirmExit(w)
  PROVE  CInv'
<1>1. /\ worker[w].pc = "confirm" /\ worker[w].pc \in Login
      /\ UNCHANGED <<queue, runnerToken, handlers, asked>>
  BY DEF ConfirmExit, Login, At, history
<1>2. CASE Fails(w)
  BY <1>1, <1>2, FailsHolds
<1>3. CASE ~Fails(w)
  <2>1. /\ SetRow(worker[w].obj, "running", None)
        /\ Goto(w, [worker[w] EXCEPT !.pc = "start"])
    BY <1>3 DEF ConfirmExit
  <2>2. HasRow(worker[w].obj) /\ worker[w] \in Worker
    BY <1>1, AtWork
  <2>3. Wrote(obj[worker[w].obj].id, "running", None)
    BY <2>1, <2>2, SetRowWrites DEF RowStatuses, Live
  <2>4. PICK x : x = [worker[w] EXCEPT !.pc = "start"]
    OBVIOUS
  <2>5. x.pc = "start" /\ x.obj = worker[w].obj /\ MovesOn(w, x)
    BY <2>1, <2>2, <2>4, MovingOn DEF Worker
  <2> QED
    BY <1>1, <2>3, <2>5, WritingHolds
<1> QED
  BY <1>2, <1>3

LEMMA WaitPollsHolds ==
  ASSUME IInv, IInv', EInv, TInv, TInv', CInv, NEW w \in Workers, WaitPolls(w)
  PROVE  CInv'
<1> DEFINE o == worker[w].obj
           current == RowState(o)
           known == IF current.job # None THEN current.job ELSE obj[o].job
<1>1. /\ worker[w].pc = "wait" /\ worker[w].pc \in Login
      /\ UNCHANGED <<obj, jobs, queue, runnerToken, handlers, asked>>
  BY DEF WaitPolls, Login, At, history
<1>2. HasRow(o) /\ worker[w] \in Worker
  BY <1>1, AtWork
<1>3. CASE ~IsTracked(o) \/ known # worker[w].job \/ current.job = None
  <2>1. WaitReturns(w, current)
    BY <1>3 DEF WaitPolls
  <2>2. PICK x : MovesOn(w, x) /\ Retries(x, worker[w].obj)
    BY <2>1, MovingOn
  <2>3. x.pc # "poll" /\ (x.pc \in Login => x.obj = worker[w].obj)
    BY <2>2 DEF Retries, Login
  <2>4. ASSUME NEW i \in Ids, queue[i] # None, LiveJob(jobs[i]),
               Waits(worker[w], i, jobs[i].job)
        PROVE  FALSE
    BY <1>3, <2>4 DEF IsTracked, RowState, LiveJob, Waits
  <2> QED
    BY <1>1, <2>2, <2>3, <2>4, LookingHolds
<1>4. CASE ~(~IsTracked(o) \/ known # worker[w].job \/ current.job = None)
  <2>1. PICK c : c = current
    OBVIOUS
  <2>2. /\ c.job = worker[w].job
        /\ Goto(w, [worker[w] EXCEPT !.pc = "poll", !.current = c,
                      !.seen = AnswerOf(worker[w].job)])
    BY <1>4, <2>1 DEF WaitPolls
  <2>3. PICK x : x = [worker[w] EXCEPT !.pc = "poll", !.current = c,
                                       !.seen = AnswerOf(worker[w].job)]
    OBVIOUS
  <2>4. /\ x.pc = "poll" /\ x.current.job = x.job /\ x.job = worker[w].job
        /\ x.obj = worker[w].obj /\ MovesOn(w, x)
    BY <1>2, <2>2, <2>3, MovingOn DEF Worker
  <2> QED
    BY <1>1, <2>4, LookingHolds
<1> QED
  BY <1>3, <1>4

LEMMA WaitAnsweredHolds ==
  ASSUME IInv, IInv', EInv, TInv, TInv', CInv, NEW w \in Workers,
         WaitAnswered(w)
  PROVE  CInv'
<1>1. /\ worker[w].pc = "poll" /\ worker[w].pc \in Login
      /\ UNCHANGED <<queue, runnerToken, handlers, asked>>
  BY DEF WaitAnswered, Login, At, history
<1>2. HasRow(worker[w].obj) /\ worker[w] \in Worker /\ GoodWorker(worker[w])
  BY <1>1, AtWork
<1>3. CASE ~IsTracked(worker[w].obj)
  <2>1. PICK x : MovesOn(w, x) /\ Retries(x, worker[w].obj)
    BY <1>3, MovingOn DEF WaitAnswered
  <2>2. UNCHANGED <<obj, jobs>>
    BY <1>3 DEF WaitAnswered
  <2>3. x.pc # "poll" /\ (x.pc \in Login => x.obj = worker[w].obj)
    BY <2>1 DEF Retries, Login
  <2>4. \A i \in Ids : queue[i] # None
          => ~Waits(worker[w], i, jobs[i].job)
    BY <1>3 DEF IsTracked, Waits
  <2> QED
    BY <1>1, <2>1, <2>2, <2>3, <2>4, LookingHolds
<1>4. CASE IsTracked(worker[w].obj)
  <2>1. PICK answer \in {worker[w].seen, AnswerOf(worker[w].job)} :
          /\ ApplyJob(worker[w].obj, worker[w].current, answer)
          /\ IF answer.status \in Live
             THEN Goto(w, [worker[w] EXCEPT !.pc = "wait",
                             !.current = None, !.seen = None])
             ELSE WaitReturns(w, answer)
    BY <1>4 DEF WaitAnswered
  <2>2. answer \in Answer
    <3>1. GoodAnswer(AnswerOf(worker[w].job), worker[w].job)
      BY <1>1, <1>2, KnownAnswer DEF GoodWorker
    <3> QED
      BY <1>1, <1>2, <2>1, <3>1 DEF GoodWorker, GoodAnswer
  <2>3. PICK j : /\ Wrote(obj[worker[w].obj].id, answer.status, j)
                 /\ worker[w].current.job # None
                      => j = worker[w].current.job
    BY <1>1, <1>2, <2>1, <2>2, ApplyJobWrites DEF GoodWorker, GoodView
  <2>4. j = worker[w].job
    BY <1>1, <2>3 DEF TInv, CInv
  <2>5. PICK x : /\ MovesOn(w, x) /\ x.pc # "poll"
                 /\ x.pc \in Login => x.obj = worker[w].obj
                 /\ answer.status \in Live
                      => x.pc = "wait" /\ x.job = worker[w].job
    <3>1. CASE answer.status \in Live
      <4>1. PICK x : x = [worker[w] EXCEPT !.pc = "wait", !.current = None,
                                           !.seen = None]
        OBVIOUS
      <4>2. x.pc = "wait" /\ x.job = worker[w].job /\ x.obj = worker[w].obj
        BY <1>2, <4>1 DEF Worker
      <4>3. MovesOn(w, x)
        BY <2>1, <3>1, <4>1, MovingOn
      <4> QED
        BY <4>2, <4>3
    <3>2. CASE answer.status \notin Live
      BY <2>1, <3>2, MovingOn DEF Retries, Login
    <3> QED
      BY <3>1, <3>2
  <2> QED
    BY <1>1, <2>3, <2>4, <2>5, WritingHolds
<1> QED
  BY <1>3, <1>4

LEMMA ActHolds ==
  ASSUME IInv, IInv', EInv, TInv, TInv', CInv, NEW w \in Workers, Act(w)
  PROVE  CInv'
<1>1. CASE ProbeExit(w)
  <2>1. /\ worker[w].pc = "check" /\ worker[w].pc \in Login
        /\ UNCHANGED <<queue, runnerToken, handlers, asked>>
    BY <1>1 DEF ProbeExit, Login, At, history
  <2>2. CASE Fails(w)
    BY <2>1, <2>2, FailsHolds
  <2>3. CASE ~Fails(w)
    <3>1. PICK ip \in Ips :
            Goto(w, [worker[w] EXCEPT !.pc = "confirm", !.ip = ip])
      BY <1>1, <2>3 DEF ProbeExit
    <3>2. PICK x : x = [worker[w] EXCEPT !.pc = "confirm", !.ip = ip]
      OBVIOUS
    <3>3. x.pc = "confirm" /\ x.obj = worker[w].obj /\ MovesOn(w, x)
      BY <2>1, <3>1, <3>2, AtWork, MovingOn DEF Worker
    <3>4. UNCHANGED <<obj, jobs>>
      BY <1>1, <2>3 DEF ProbeExit
    <3>5. \A i, j : ~Waits(worker[w], i, j)
      BY <2>1 DEF Waits
    <3> QED
      BY <2>1, <3>3, <3>4, <3>5, LookingHolds DEF Login
  <2> QED
    BY <2>2, <2>3
<1>2. CASE StartFails(w) \/ WaitFails(w)
  <2>1. /\ worker[w].pc \in Login /\ Fails(w)
        /\ UNCHANGED <<queue, runnerToken, handlers, asked>>
    BY <1>2 DEF StartFails, WaitFails, Login, At, history
  <2> QED
    BY <2>1, FailsHolds
<1>3. CASE CreateJob(w)
  <2>1. /\ worker[w].pc = "start" /\ worker[w].pc \in Login
        /\ UNCHANGED <<obj, jobs, queue, runnerToken, handlers, asked>>
    BY <1>3 DEF CreateJob, Login, At, history
  <2>2. PICK j \in Jobs :
          Goto(w, [worker[w] EXCEPT !.pc = "created", !.job = j])
    BY <1>3 DEF CreateJob
  <2>3. PICK x : x = [worker[w] EXCEPT !.pc = "created", !.job = j]
    OBVIOUS
  <2>4. x.pc = "created" /\ x.obj = worker[w].obj /\ MovesOn(w, x)
    BY <2>1, <2>2, <2>3, AtWork, MovingOn DEF Worker
  <2>5. \A i, k : ~Waits(worker[w], i, k)
    BY <2>1 DEF Waits
  <2> QED
    BY <2>1, <2>4, <2>5, LookingHolds DEF Login
<1>4. CASE StartAnswered(w)
  <2>1. /\ worker[w].pc = "created" /\ worker[w].pc \in Login
        /\ SetRow(worker[w].obj, "queued", worker[w].job)
        /\ Goto(w, [worker[w] EXCEPT !.pc = "wait", !.ip = None])
        /\ UNCHANGED <<queue, runnerToken, handlers, asked>>
    BY <1>4 DEF StartAnswered, Login, At, history
  <2>2. HasRow(worker[w].obj) /\ worker[w] \in Worker
    BY <2>1, AtWork
  <2>3. worker[w].job \in Jobs \cup {None}
    BY <2>2 DEF Worker
  <2>4. Wrote(obj[worker[w].obj].id, "queued", worker[w].job)
    BY <2>1, <2>2, <2>3, SetRowWrites DEF RowStatuses, Live
  <2>5. PICK x : x = [worker[w] EXCEPT !.pc = "wait", !.ip = None]
    OBVIOUS
  <2>6. /\ x.pc = "wait" /\ x.obj = worker[w].obj /\ x.job = worker[w].job
        /\ MovesOn(w, x)
    BY <2>1, <2>2, <2>5, MovingOn DEF Worker
  <2> QED
    BY <2>1, <2>4, <2>6, WritingHolds
<1>5. CASE Cooldown(w)
  <2>1. /\ worker[w].pc = "cooldown" /\ worker[w].pc \in Login
        /\ UNCHANGED <<queue, runnerToken, handlers, asked>>
        /\ SetRow(worker[w].obj, "queued", None)
        /\ Goto(w, Checking(worker[w].obj, worker[w].attempt + 1))
    BY <1>5 DEF Cooldown, Login, At, history
  <2>2. Wrote(obj[worker[w].obj].id, "queued", None)
    BY <2>1, AtWork, SetRowWrites DEF RowStatuses, Live
  <2>3. \A o, n : Checking(o, n).pc = "check" /\ Checking(o, n).obj = o
    BY DEF Checking, Off
  <2>4. PICK x : MovesOn(w, x) /\ x.pc = "check" /\ x.obj = worker[w].obj
    BY <2>1, <2>3, MovingOn
  <2> QED
    BY <2>1, <2>2, <2>4, WritingHolds
<1> QED
  BY <1>1, <1>2, <1>3, <1>4, <1>5, TakeRowHolds, ConfirmExitHolds,
     WaitPollsHolds, WaitAnsweredHolds DEF Act

-----------------------------------------------------------------------------
(***************************************************************************)
(* The steps in which no worker moves.                                     *)
(***************************************************************************)
LEMMA OthersHold ==
  ASSUME IInv, CInv, IdsStay, worker' = worker,
         ~poller'.on, ~PollInFlight',
         \A i \in Ids : queue'[i] # None =>
           /\ LiveView(jobs'[i]) =>
                \/ /\ queue[i] # None /\ jobs'[i] = jobs[i]
                   /\ asked[i] => asked'[i]
                \/ jobs'[i].job = None /\ asked'[i]
           /\ Working(i) => asked'[i]
           /\ jobs'[i] = None => obj'[queue'[i]].status \notin Live
  PROVE  CInv'
<1>1. \A w \in Workers : worker[w].pc \in Login =>
        HasRow(worker[w].obj)
        /\ obj'[worker[w].obj].id = obj[worker[w].obj].id
  BY DEF IInv, WorkersGood, GoodWorker, IdsStay, HasRow
<1>2. JobsAwaited'
  <2> SUFFICES ASSUME NEW i \in Ids, queue'[i] # None, LiveJob(jobs'[i])
               PROVE  \E w \in Workers :
                        /\ worker[w].pc \in {"wait", "poll"}
                        /\ worker[w].job = jobs'[i].job
                        /\ obj'[worker[w].obj].id = i
    BY DEF JobsAwaited, Waits, LiveJob
  <2>1. queue[i] # None /\ jobs'[i] = jobs[i]
    BY DEF LiveJob, LiveView
  <2>2. PICK w \in Workers : Waits(worker[w], i, jobs[i].job)
    BY <2>1 DEF CInv, JobsAwaited
  <2> QED
    BY <1>1, <2>1, <2>2 DEF Waits, Login, At
<1>3. Unseen'
  BY DEF Unseen
<1>4. AskedFor'
  <2> SUFFICES ASSUME NEW i \in Ids, queue'[i] # None,
                      LiveView(jobs'[i]) \/ Working(i)'
               PROVE  asked'[i]
    BY DEF AskedFor, LiveView
  <2>1. Working(i)' => Working(i)
    BY <1>1 DEF Working, ActiveRows
  <2> QED
    BY <2>1 DEF CInv, AskedFor
<1> QED
  BY <1>2, <1>3, <1>4 DEF CInv

\* Steps that write nothing to the rows there are.
LEMMA UntouchedHolds ==
  ASSUME IInv, CInv,
         UNCHANGED <<obj, worker, poller>>,
         \A i \in Ids : queue'[i] # None =>
           queue'[i] = queue[i] /\ jobs'[i] = jobs[i] /\ asked'[i] = asked[i]
  PROVE  CInv'
<1>1. IdsStay /\ ~poller'.on /\ ~PollInFlight'
  BY DEF IdsStay, CInv, PollInFlight
<1>2. ASSUME NEW i \in Ids, queue'[i] # None
      PROVE  /\ LiveView(jobs'[i]) => queue[i] # None /\ jobs'[i] = jobs[i]
                                       /\ (asked[i] => asked'[i])
             /\ Working(i) => asked'[i]
             /\ jobs'[i] = None => obj'[queue'[i]].status \notin Live
  BY <1>2 DEF CInv, AskedFor, Unseen
<1> QED
  BY <1>1, <1>2, OthersHold

LEMMA StartRowsHolds ==
  ASSUME IInv, CInv, NEW rows \in SUBSET Queued, StartRows(rows)
  PROVE  CInv'
<1> DEFINE marked == {i \in rows : RowState(queue[i]).status \notin Live}
           mine == {queue[i] : i \in marked}
<1>1. /\ obj' = [o \in Objects |->
                  IF o \in mine
                  THEN [obj[o] EXCEPT !.status = "queued", !.job = None,
                                      !.retry = FALSE]
                  ELSE obj[o]]
      /\ jobs' = [i \in Ids |->
                   IF i \in marked
                   THEN [status |-> "queued", job |-> None, retry |-> FALSE]
                   ELSE jobs[i]]
      /\ asked' = [i \in Ids |-> i \in rows \/ asked[i]]
      /\ UNCHANGED <<queue, worker, poller>>
  BY DEF StartRows, MarkRowsQueued
<1>2. \A i \in marked : /\ i \in Ids /\ i \in rows /\ HasRow(queue[i])
                        /\ obj[queue[i]].id = i
  BY DEF IInv, QueueGood, Queued
<1>3. \A i \in Ids : queue[i] # None /\ queue[i] \in mine => i \in marked
  <2> SUFFICES ASSUME NEW i \in Ids, queue[i] # None,
                      NEW k \in marked, queue[i] = queue[k]
               PROVE  i = k
    OBVIOUS
  <2> QED
    BY <1>2 DEF IInv, QueueGood
<1>4. \A o \in mine : HasRow(o)
  BY <1>2
<1> HIDE DEF mine, marked
<1>5. IdsStay
  <2> SUFFICES ASSUME NEW o \in Objects, obj[o] # None
               PROVE  obj'[o] # None /\ obj'[o].id = obj[o].id
    BY DEF IdsStay
  <2>1. obj[o] \in Row
    BY DEF IInv, TypeOK
  <2>2. obj'[o] \in Row /\ obj'[o].id = obj[o].id
    BY <1>1, <2>1 DEF Row, RowStatuses, Live
  <2> QED
    BY <2>2, NoneAssumption
<1>6. ASSUME NEW i \in Ids, queue'[i] # None
      PROVE  /\ LiveView(jobs'[i]) =>
                  \/ /\ queue[i] # None /\ jobs'[i] = jobs[i]
                     /\ asked[i] => asked'[i]
                  \/ jobs'[i].job = None /\ asked'[i]
             /\ Working(i) => asked'[i]
             /\ jobs'[i] = None => obj'[queue'[i]].status \notin Live
  <2>1. queue[i] = queue'[i] /\ HasRow(queue[i])
    BY <1>1, <1>6 DEF IInv, QueueGood
  <2>2. Working(i) => asked'[i]
    BY <1>1, <2>1, <1>6 DEF CInv, AskedFor
  <2>3. CASE i \in marked
    <3>1. jobs'[i] = [status |-> "queued", job |-> None, retry |-> FALSE]
          /\ asked'[i]
      BY <1>1, <1>2, <2>3
    <3>2. jobs'[i] \in View
      BY <3>1 DEF View, RowStatuses, Live
    <3>3. jobs'[i] # None
      BY <3>2, NoneAssumption
    <3>4. jobs'[i].job = None
      BY <3>1
    <3>5. asked'[i]
      BY <3>1
    <3> QED
      BY <2>2, <3>3, <3>4, <3>5
  <2>4. CASE i \notin marked
    <3>1. jobs'[i] = jobs[i] /\ (asked[i] => asked'[i])
      BY <1>1, <2>4
    <3>2. obj'[queue[i]] = obj[queue[i]]
      BY <1>1, <1>3, <1>6, <2>1, <2>4 DEF HasRow
    <3> QED
      BY <1>6, <2>1, <2>2, <3>1, <3>2 DEF CInv, Unseen
  <2> QED
    BY <2>3, <2>4
<1>7. ~poller'.on /\ ~PollInFlight'
  BY <1>1 DEF CInv, PollInFlight
<1> QED
  BY <1>1, <1>5, <1>6, <1>7, OthersHold

LEMMA RunQueuedRowsHolds ==
  ASSUME IInv, IInv', EInv, TInv, CInv, RunQueuedRows
  PROVE  CInv'
<1>1. /\ run = "syncing"
      /\ UNCHANGED <<queue, obj, jobs, asked>>
  BY DEF RunQueuedRows, history
<1>2. \A w \in Workers : worker[w].pc = "off"
  BY <1>1 DEF EInv, TokensGood
<1>3. \A i \in Ids : queue[i] # None => ~LiveJob(jobs[i])
  BY <1>2 DEF CInv, JobsAwaited, Waits
<1>4. \A w \in Workers : worker'[w].pc \in {"off", "pause"}
  <2>1. CASE QueuedRows = {}
    BY <1>2, <2>1 DEF RunQueuedRows
  <2>2. CASE QueuedRows # {}
    <3>1. PICK team \in SUBSET Workers :
            worker' = [w \in Workers |->
              IF w \in team THEN [Off EXCEPT !.pc = "pause"] ELSE Off]
      BY <2>2 DEF RunQueuedRows
    <3> QED
      BY <3>1 DEF Off
  <2> QED
    BY <2>1, <2>2
<1>5. ~poller'.on /\ ~PollInFlight'
  <2>1. CASE QueuedRows # {}
    BY <2>1 DEF RunQueuedRows, CInv, PollInFlight
  <2>2. CASE QueuedRows = {}
    <3>1. /\ poller'.at = poller.at /\ poller'.pending = poller.pending
          /\ poller'.on = (poller.on \/ (runner' = 0
                                         /\ ShouldUseRecoveryPolling'))
      BY <2>2 DEF RunQueuedRows, EndRun, StartPolling, IInv, TypeOK
    <3>2. ~ShouldUseRecoveryPolling'
      <4> SUFFICES ASSUME NEW i \in LiveRows'
                   PROVE  FALSE
        BY DEF ShouldUseRecoveryPolling
      <4>1. i \in Ids /\ queue[i] # None /\ RowState(queue[i]).status \in Live
        BY <1>1 DEF LiveRows, Queued, RowState
      <4>2. obj[queue[i]].id = i
        BY <4>1 DEF IInv, QueueGood
      <4>3. jobs[i] # None /\ RowState(queue[i]) = jobs[i]
        BY <4>1, <4>2 DEF RowState, CInv, Unseen
      <4>4. jobs[i].status = "running"
        BY <2>2, <4>1, <4>3 DEF QueuedRows, Queued, Live
      <4>5. jobs[i].job = None
        BY <1>3, <4>1, <4>3 DEF LiveJob
      <4> QED
        BY <1>2, <4>1, <4>3, <4>4, <4>5
           DEF TInv, StartsHaveWorker, StartsRow, Starting
    <3> QED
      BY <3>1, <3>2 DEF CInv, PollInFlight
  <2> QED
    BY <2>1, <2>2
<1>6. JobsAwaited' /\ Unseen'
  BY <1>1, <1>3 DEF JobsAwaited, LiveJob, CInv, Unseen
<1>7. AskedFor'
  BY <1>1, <1>4 DEF AskedFor, LiveView, Working, ActiveRows, Login, CInv
<1> QED
  BY <1>4, <1>5, <1>6, <1>7 DEF CInv

\* Who is cancelled before there is a job is failed, and not asked for.
LEMMA SendCancelHolds ==
  ASSUME IInv, CInv, NEW rows \in SUBSET LiveRows, NEW clear \in BOOLEAN,
         SendCancel(rows, clear), UNCHANGED <<queue, worker>>,
         ~poller'.on, ~PollInFlight'
  PROVE  CInv'
<1> DEFINE known(i) == KnownJob(queue[i], RowState(queue[i]))
           sent == {i \in rows : known(i) # None}
           stopped == {queue[i] : i \in rows \ sent}
<1>1. /\ obj' = [o \in Objects |->
           IF o \in stopped
           THEN [obj[o] EXCEPT !.status = "failed", !.retry = FALSE]
           ELSE obj[o]]
      /\ jobs' = [i \in Ids |->
           IF i \in rows \ sent
           THEN [status |-> "failed", job |-> None, retry |-> FALSE]
           ELSE jobs[i]]
      /\ asked' = [i \in Ids |->
           asked[i] /\ (i \notin rows \ sent \/ Working(i))]
  BY DEF SendCancel
<1>2. \A i \in rows : i \in Ids /\ HasRow(queue[i]) /\ obj[queue[i]].id = i
  BY DEF LiveRows, Queued, IInv, QueueGood
<1>3. \A o \in stopped : HasRow(o)
  BY <1>2
<1> HIDE DEF stopped, sent
<1>4. IdsStay
  <2> SUFFICES ASSUME NEW o \in Objects, obj[o] # None
               PROVE  obj'[o] # None /\ obj'[o].id = obj[o].id
    BY DEF IdsStay
  <2>1. obj[o] \in Row
    BY DEF IInv, TypeOK
  <2>2. obj'[o] \in Row /\ obj'[o].id = obj[o].id
    BY <1>1, <2>1 DEF Row, RowStatuses, Terminal
  <2> QED
    BY <2>2, NoneAssumption
<1>5. ASSUME NEW i \in Ids, queue'[i] # None
      PROVE  /\ LiveView(jobs'[i]) =>
                  \/ /\ queue[i] # None /\ jobs'[i] = jobs[i]
                     /\ asked[i] => asked'[i]
                  \/ jobs'[i].job = None /\ asked'[i]
             /\ Working(i) => asked'[i]
             /\ jobs'[i] = None => obj'[queue'[i]].status \notin Live
  <2>1. queue[i] = queue'[i] /\ queue[i] # None /\ HasRow(queue[i])
    BY <1>5 DEF IInv, QueueGood
  <2>2. Working(i) => asked'[i]
    BY <1>1, <2>1 DEF CInv, AskedFor
  <2>3. CASE i \in rows \ sent
    <3>1. jobs'[i] = [status |-> "failed", job |-> None, retry |-> FALSE]
      BY <1>1, <2>3
    <3>2. jobs'[i] \in View /\ jobs'[i].status = "failed"
      BY <3>1 DEF View, RowStatuses, Terminal
    <3> QED
      BY <2>2, <3>2, NoneAssumption DEF LiveView, Live
  <2>4. CASE i \notin rows \ sent
    <3>1. jobs'[i] = jobs[i] /\ (asked[i] => asked'[i])
      BY <1>1, <2>4
    <3>2. obj'[queue[i]].status \in {obj[queue[i]].status, "failed"}
      <4>1. obj[queue[i]] \in Row
        BY <2>1 DEF HasRow, IInv, TypeOK
      <4> QED
        BY <1>1, <2>1, <4>1 DEF HasRow, Row
    <3> QED
      BY <2>1, <2>2, <3>1, <3>2 DEF CInv, Unseen, Live
  <2> QED
    BY <2>3, <2>4
<1> QED
  BY <1>4, <1>5, OthersHold

LEMMA CancelAnsweredHolds ==
  ASSUME IInv, TInv, CInv, NEW c \in cancels, CancelAnswered(c)
  PROVE  CInv'
<1>1. UNCHANGED <<queue, worker, poller>>
  BY DEF CancelAnswered
<1>2. ~poller'.on /\ ~PollInFlight'
  BY <1>1 DEF CInv, PollInFlight
<1>3. CASE UNCHANGED <<obj, jobs, asked>>
  BY <1>1, <1>3, UntouchedHolds
<1>4. CASE /\ ApplyJob(c.obj, c.current, c.seen)
           /\ asked' = [asked EXCEPT ![obj[c.obj].id] =
                                        @ /\ Working(obj[c.obj].id)]
  <2>1. HasRow(c.obj) /\ c.seen \in Answer /\ c.current \in View
    BY DEF IInv, CancelsGood, GoodCancel, GoodAnswer, GoodView
  <2>2. PICK j : Wrote(obj[c.obj].id, c.seen.status, j)
    BY <1>4, <2>1, ApplyJobWrites
  <2>3. c.seen.status \notin Live
    BY DEF TInv, Terminal, Live
  <2>4. IdsStay
    BY <2>2 DEF Wrote, IdsStay
  <2>5. ASSUME NEW i \in Ids, queue'[i] # None
        PROVE  /\ LiveView(jobs'[i]) =>
                    \/ /\ queue[i] # None /\ jobs'[i] = jobs[i]
                       /\ asked[i] => asked'[i]
                    \/ jobs'[i].job = None /\ asked'[i]
               /\ Working(i) => asked'[i]
               /\ jobs'[i] = None => obj'[queue'[i]].status \notin Live
    <3>1. queue'[i] = queue[i] /\ HasRow(queue[i]) /\ obj[queue[i]].id = i
      BY <1>1, <2>5 DEF IInv, QueueGood
    <3>2. Working(i) => asked[i]
      BY <1>1, <2>5 DEF CInv, AskedFor
    <3>3. asked \in [Ids -> BOOLEAN]
      BY DEF IInv, TypeOK
    <3>4. CASE i = obj[c.obj].id
      <4>1. jobs'[i] # None /\ ~LiveView(jobs'[i])
        BY <2>2, <2>3, <3>4 DEF Wrote, LiveView
      <4>2. asked'[i] = (asked[i] /\ Working(i))
        BY <1>4, <3>3, <3>4
      <4> QED
        BY <3>2, <4>1, <4>2
    <3>5. CASE i # obj[c.obj].id
      <4>1. jobs'[i] = jobs[i] /\ obj'[queue[i]] = obj[queue[i]]
        BY <2>2, <3>1, <3>5 DEF Wrote, HasRow
      <4>2. asked'[i] = asked[i]
        BY <1>4, <3>3, <3>5
      <4> QED
        BY <1>1, <2>5, <3>1, <3>2, <4>1, <4>2 DEF CInv, Unseen
    <3> QED
      BY <3>4, <3>5
  <2> QED
    BY <1>1, <1>2, <2>4, <2>5, OthersHold
<1> QED
  BY <1>3, <1>4 DEF CancelAnswered

LEMMA AddToQueueHolds ==
  ASSUME IInv, TInv, CInv, NEW i \in Ids, NEW o \in Objects, AddToQueue(i, o)
  PROVE  CInv'
<1>1. /\ "add" \in UserDoes /\ obj[o] = None
      /\ queue' = [queue EXCEPT ![i] = o]
      /\ UNCHANGED <<jobs, worker, poller, asked>>
  BY DEF AddToQueue, history
<1>2. PICK row : obj' = [obj EXCEPT ![o] = row]
                 /\ row = IF queue[i] # None
                          THEN [obj[queue[i]] EXCEPT !.auth = HasAuth(i)]
                          ELSE [id |-> i, status |-> "idle", job |-> None,
                                retry |-> FALSE, auth |-> HasAuth(i)]
  BY DEF AddToQueue
<1>3. obj'[o] = row /\ \A p \in Objects \ {o} : obj'[p] = obj[p]
  BY <1>2 DEF IInv, TypeOK
<1>4. queue'[i] = o /\ \A k \in Ids \ {i} : queue'[k] = queue[k]
  BY <1>1 DEF IInv, TypeOK
<1>5. IdsStay
  BY <1>1, <1>3 DEF IdsStay
<1>6. ~poller'.on /\ ~PollInFlight'
  BY <1>1 DEF CInv, PollInFlight
<1>7. /\ queue[i] # None => row.status = obj[queue[i]].status
      /\ queue[i] = None => row.status = "idle"
  BY <1>2 DEF IInv, QueueGood, HasRow, TypeOK, Row
<1>8. queue[i] = None => jobs[i] = None /\ ~Working(i)
  BY <1>1 DEF TInv, RowsTracked, Working, ActiveRows, IInv, WorkersGood,
              GoodWorker, HasRow
<1>9. ASSUME NEW k \in Ids, queue'[k] # None
      PROVE  /\ LiveView(jobs'[k]) =>
                  \/ /\ queue[k] # None /\ jobs'[k] = jobs[k]
                     /\ asked[k] => asked'[k]
                  \/ jobs'[k].job = None /\ asked'[k]
             /\ Working(k) => asked'[k]
             /\ jobs'[k] = None => obj'[queue'[k]].status \notin Live
  <2>1. CASE k = i
    BY <1>1, <1>3, <1>4, <1>7, <1>8, <2>1
       DEF LiveView, CInv, AskedFor, Unseen, Live
  <2>2. CASE k # i
    <3>1. queue'[k] = queue[k] /\ HasRow(queue[k])
      BY <1>4, <1>9, <2>2 DEF IInv, QueueGood
    <3>2. obj'[queue[k]] = obj[queue[k]]
      BY <1>1, <1>3, <3>1 DEF HasRow
    <3> QED
      BY <1>1, <1>9, <3>1, <3>2 DEF CInv, AskedFor, Unseen
  <2> QED
    BY <2>1, <2>2
<1> QED
  BY <1>1, <1>5, <1>6, <1>9, OthersHold

LEMMA NextHolds ==
  ASSUME IInv, IInv', EInv, TInv, TInv', CInv, Next
  PROVE  CInv'
<1>1. CASE \E w \in Workers : Act(w)
  BY <1>1, ActHolds
<1>2. CASE RunQueuedRows
  BY <1>2, RunQueuedRowsHolds
<1>3. CASE Polling
  BY <1>3 DEF Polling, PollBegins, PollSends, PollAnswered, PollFails, CInv,
              PollInFlight
<1>4. CASE \E c \in cancels : CancelAnswered(c)
  BY <1>4, CancelAnsweredHolds
<1>5. CASE \/ FailedRowsCleaned \/ QueueCleared
           \/ \E rows \in SUBSET Queued \ {{}} : RemoveSelectedSources(rows)
  <2>1. PICK ids : RemoveRows(ids) /\ UNCHANGED <<obj, worker, poller>>
    BY <1>5 DEF FailedRowsCleaned, QueueCleared, RemoveSelectedSources
  <2>2. \A i \in Ids : queue'[i] # None =>
          queue'[i] = queue[i] /\ jobs'[i] = jobs[i] /\ asked'[i] = asked[i]
    BY <2>1 DEF RemoveRows, IInv, TypeOK
  <2> QED
    BY <2>1, <2>2, UntouchedHolds
<1>6. CASE \/ \E j \in Jobs : JobMoves(j)
           \/ \E rows \in SUBSET Queued \ {{}} : CleanFailedRows(rows)
  <2>1. UNCHANGED <<queue, obj, jobs, asked, worker, poller>>
    BY <1>6 DEF JobMoves, CleanFailedRows, history
  <2> QED
    BY <2>1, UntouchedHolds
<1>7. CASE \E rows \in SUBSET Queued \ {{}} : StartRows(rows)
  BY <1>7, StartRowsHolds
<1>8. CASE \E i \in Ids : CancelLoginJob(i)
  <2>1. PICK i \in LiveRows :
          SendCancel({i}, FALSE) /\ UNCHANGED <<queue, worker, poller>>
    BY <1>8 DEF CancelLoginJob
  <2>2. ~poller'.on /\ ~PollInFlight'
    BY <2>1 DEF CInv, PollInFlight
  <2> QED
    BY <2>1, <2>2, SendCancelHolds
<1>9. CASE \E i \in Ids, o \in Objects : AddToQueue(i, o)
  BY <1>9, AddToQueueHolds
<1>10. CASE ClearQueue
  <2>1. /\ SendCancel(LiveRows, TRUE) /\ UNCHANGED <<queue, worker>>
        /\ poller' = [poller EXCEPT !.on = FALSE]
    BY <1>10 DEF ClearQueue
  <2>2. ~poller'.on /\ ~PollInFlight'
    BY <2>1 DEF CInv, PollInFlight, IInv, TypeOK
  <2> QED
    BY <2>1, <2>2, SendCancelHolds
<1> QED
  BY <1>1, <1>2, <1>3, <1>4, <1>5, <1>6, <1>7, <1>8, <1>9, <1>10
     DEF Next, Answered, User

LEMMA InitCancels ==
  ASSUME Init, NothingToRecover
  PROVE  CInv
<1>1. /\ \A i \in Ids : jobs[i] = None
      /\ poller =
           [on |-> ShouldUseRecoveryPolling, pending |-> {}, at |-> None]
      /\ \A w \in Workers : worker[w].pc = "off"
  BY DEF Init, Off
<1>2. IInv
  BY InitHolds
<1>3. \A o \in Objects : obj[o] # None => obj[o].status \notin Live
  <2>1. \A o \in Objects : obj[o] # None => obj[o].status \in Loaded
    BY InitHolds
  <2> QED
    BY <2>1 DEF NothingToRecover
<1>4. \A i \in Ids : queue[i] # None => obj[queue[i]].status \notin Live
  BY <1>2, <1>3 DEF IInv, QueueGood, HasRow
<1>5. LiveRows = {}
  BY <1>1, <1>2, <1>4 DEF LiveRows, Queued, RowState, IInv, QueueGood
<1>6. ~poller.on /\ ~PollInFlight
  BY <1>1, <1>5 DEF ShouldUseRecoveryPolling, PollInFlight
<1>7. JobsAwaited /\ Unseen /\ AskedFor
  BY <1>1, <1>4 DEF JobsAwaited, LiveJob, Unseen, AskedFor, LiveView, Working,
                    ActiveRows, Login
<1> QED
  BY <1>1, <1>6, <1>7 DEF CInv

(***************************************************************************)
(* A row that was cancelled or removed while it waited for its turn is not *)
(* logged in until the user asks for it again: workers take queued rows    *)
(* only, and a row is put back to "queued" by its own worker or by a start *)
(* alone.  It takes pages that recover no jobs, and rows that do not       *)
(* return to the queue.                                                    *)
(***************************************************************************)
THEOREM CancelledRowsWait ==
  RowsDoNotReturn /\ NothingToRecover => (Spec => CancelHolds)
<1> SUFFICES ASSUME RowsDoNotReturn, NothingToRecover
             PROVE  Spec => CancelHolds
  OBVIOUS
<1> DEFINE Holds == \A w \in Workers : TakeRow(w) /\ worker'[w].pc = "check"
                      => asked[obj[worker'[w].obj].id]
<1>1. Init => TInv /\ CInv
  BY InitTends, InitCancels
<1>2. IInv /\ IInv' /\ EInv /\ TInv /\ [Next]_vars => TInv'
  BY TendingSteps
<1>3. IInv /\ IInv' /\ EInv /\ TInv /\ TInv' /\ CInv /\ [Next]_vars => CInv'
  <2>1. CASE Next
    BY <2>1, NextHolds
  <2>2. CASE UNCHANGED vars
    BY <2>2, UntouchedHolds DEF vars, history
  <2> QED
    BY <2>1, <2>2
<1>4. IInv /\ CInv /\ [Next]_vars => [Holds]_vars
  BY TakesAsked
<1> QED
  BY <1>1, <1>2, <1>3, <1>4, Invariance, ExitsInvariance, PTL
     DEF Spec, CancelHolds
-----------------------------------------------------------------------------
(***************************************************************************)
(* The rows that mailboxes give.                                           *)
(***************************************************************************)
LEMMA ItemIs ==
  ASSUME NEW a \in Mailbox
  PROVE  ItemOf(a) =
    [kind |-> "local", source |-> a.source, email |-> a.email, cpa |-> Null,
     id |-> a.id, status |-> "idle", error |-> Null, job |-> Null,
     log |-> {}, auth |-> a.auth]
<1>1. OrElse(a.auth, a.auth) = a.auth /\ a.source # Null
  BY NullAssumption DEF OrElse, Mailbox, MailSources
<1> QED
  BY <1>1 DEF ItemOf, BuildQueueItem, PageInput, OrElse

\* Whichever page adds a mailbox, its row is the same.
THEOREM SameRow == PagesAgree(Mailbox)
<1> SUFFICES ASSUME NEW a \in Mailbox, NEW page \in Pages
             PROVE  BuildQueueItem(PageInput(page, a)) = ItemOf(a)
  BY DEF PagesAgree, ItemOf
<1>1. a.source # Null
  BY NullAssumption DEF Mailbox, MailSources
<1> QED
  BY <1>1 DEF ItemOf, BuildQueueItem, PageInput, OrElse

-----------------------------------------------------------------------------
(***************************************************************************)
(* Where a row is put.                                                     *)
(***************************************************************************)
LEMMA KeyOfItem ==
  ASSUME NEW a \in Mailbox
  PROVE  QueueKey(ItemOf(a)) = <<"local", a.email, Null>>
BY ItemIs, NullAssumption DEF QueueKey, OrElse

LEMMA KeyOfMerged ==
  ASSUME NEW a \in Mailbox, NEW row \in QueueRow,
         QueueKey(row) = QueueKey(ItemOf(a))
  PROVE  QueueKey(MergeRow(row, ItemOf(a))) = QueueKey(ItemOf(a))
BY ItemIs, KeyOfItem, NullAssumption DEF QueueKey, OrElse, MergeRow

\* The first row of a mailbox, or the row that takes the place of another.
LEMMA Enqueued ==
  ASSUME NEW rows \in Seq(QueueRow), NEW a \in Mailbox, Distinct(rows)
  PROVE  LET key == QueueKey(ItemOf(a))
             after == Enqueue(rows, ItemOf(a))
         IN \/ /\ key \notin Keys(rows)
               /\ after = Append(rows, ItemOf(a))
            \/ \E k \in DOMAIN rows :
                 /\ QueueKey(rows[k]) = key
                 /\ after = [i \in DOMAIN rows |->
                      IF i = k THEN MergeRow(rows[k], ItemOf(a))
                      ELSE rows[i]]
<1> DEFINE key == QueueKey(ItemOf(a))
           places == Places(rows, key)
<1>1. CASE places = {}
  <2>1. key \notin Keys(rows)
    BY <1>1 DEF Places, Keys
  <2> QED
    BY <1>1, <2>1 DEF Enqueue, Put
<1>2. CASE places # {}
  <2>1. PICK k \in DOMAIN rows : QueueKey(rows[k]) = key
    BY <1>2 DEF Places
  <2>2. places = {k}
    BY <2>1 DEF Places, Distinct
  <2>3. (CHOOSE i \in places : TRUE) = k
    BY <2>2
  <2>4. Enqueue(rows, ItemOf(a)) =
          [i \in DOMAIN rows |->
            IF i \in places THEN MergeRow(rows[k], ItemOf(a)) ELSE rows[i]]
    BY <2>2, <2>3 DEF Enqueue, Put
  <2>5. [i \in DOMAIN rows |->
          IF i \in places THEN MergeRow(rows[k], ItemOf(a)) ELSE rows[i]]
        = [i \in DOMAIN rows |->
            IF i = k THEN MergeRow(rows[k], ItemOf(a)) ELSE rows[i]]
    BY <2>2
  <2> QED
    BY <2>1, <2>4, <2>5
<1> QED
  BY <1>1, <1>2

(***************************************************************************)
(* A queue holds a mailbox once, also after it was added again.            *)
(***************************************************************************)
THEOREM RowsAreDistinct == RowsStayDistinct(Seq(QueueRow), Mailbox)
<1> SUFFICES ASSUME NEW rows \in Seq(QueueRow), NEW a \in Mailbox,
                    Distinct(rows)
             PROVE  LET after == Enqueue(rows, ItemOf(a))
                    IN /\ Distinct(after)
                       /\ Keys(after) = Keys(rows) \cup {QueueKey(ItemOf(a))}
  BY DEF RowsStayDistinct
<1> DEFINE key == QueueKey(ItemOf(a))
           after == Enqueue(rows, ItemOf(a))
<1>1. CASE key \notin Keys(rows) /\ after = Append(rows, ItemOf(a))
  <2>1. DOMAIN rows = 1 .. Len(rows) /\ Len(rows) \in Nat
    OBVIOUS
  <2>2. DOMAIN after = 1 .. (Len(rows) + 1)
    BY <1>1, <2>1
  <2>3. \A i \in DOMAIN rows : after[i] = rows[i]
    BY <1>1, <2>1
  <2>4. after[Len(rows) + 1] = ItemOf(a)
    BY <1>1, <2>1
  <2>5. \A i \in DOMAIN after : i \in DOMAIN rows \/ i = Len(rows) + 1
    BY <2>1, <2>2
  <2>6. Distinct(after)
    BY <1>1, <2>3, <2>4, <2>5 DEF Distinct, Keys
  <2>7. DOMAIN after = DOMAIN rows \cup {Len(rows) + 1}
    BY <2>1, <2>2
  <2>8. Keys(after) = Keys(rows) \cup {key}
    BY <2>3, <2>4, <2>7 DEF Keys
  <2> QED
    BY <2>6, <2>8
<1>2. ASSUME NEW k \in DOMAIN rows, QueueKey(rows[k]) = key,
             after = [i \in DOMAIN rows |->
                       IF i = k THEN MergeRow(rows[k], ItemOf(a))
                       ELSE rows[i]]
      PROVE  Distinct(after) /\ Keys(after) = Keys(rows) \cup {key}
  <2>1. rows[k] \in QueueRow
    OBVIOUS
  <2>2. DOMAIN after = DOMAIN rows
    BY <1>2
  <2>3. \A i \in DOMAIN rows : QueueKey(after[i]) = QueueKey(rows[i])
    BY <1>2, <2>1, KeyOfMerged
  <2>4. Distinct(after)
    BY <2>2, <2>3 DEF Distinct
  <2>5. Keys(after) = Keys(rows)
    BY <2>2, <2>3 DEF Keys
  <2> QED
    BY <1>2, <2>4, <2>5 DEF Keys
<1> QED
  BY <1>1, <1>2, Enqueued

(***************************************************************************)
(* Adding a mailbox moves no row and loses no progress of one.             *)
(***************************************************************************)
LEMMA MergedProgress ==
  ASSUME NEW row \in QueueRow, NEW a \in Mailbox
  PROVE  LET merged == MergeRow(row, ItemOf(a))
         IN /\ row.status # Null => Progress(merged) = Progress(row)
            /\ row.auth # Null => merged.auth # Null
            /\ merged.auth = IF a.auth # Null THEN a.auth ELSE row.auth
            /\ merged.email = a.email /\ merged.error = row.error
            /\ merged.status = IF row.status # Null THEN row.status ELSE "idle"
BY ItemIs DEF MergeRow, Progress, OrElse

THEOREM ProgressStays == ProgressIsKept(Seq(QueueRow), Mailbox)
<1> SUFFICES ASSUME NEW rows \in Seq(QueueRow), NEW a \in Mailbox,
                    Distinct(rows), NEW i \in DOMAIN rows
             PROVE  LET after == Enqueue(rows, ItemOf(a))
                    IN /\ i \in DOMAIN after
                       /\ QueueKey(after[i]) = QueueKey(rows[i])
                       /\ rows[i].status # Null
                            => Progress(after[i]) = Progress(rows[i])
                       /\ rows[i].auth # Null => after[i].auth # Null
  BY DEF ProgressIsKept
<1> DEFINE after == Enqueue(rows, ItemOf(a))
<1>1. rows[i] \in QueueRow
  OBVIOUS
<1>2. CASE after = Append(rows, ItemOf(a))
  <2>1. i \in DOMAIN after /\ after[i] = rows[i]
    BY <1>2
  <2> QED
    BY <2>1
<1>3. ASSUME NEW k \in DOMAIN rows, QueueKey(rows[k]) = QueueKey(ItemOf(a)),
             after = [j \in DOMAIN rows |->
                       IF j = k THEN MergeRow(rows[k], ItemOf(a))
                       ELSE rows[j]]
      PROVE  /\ i \in DOMAIN after
             /\ QueueKey(after[i]) = QueueKey(rows[i])
             /\ rows[i].status # Null
                  => Progress(after[i]) = Progress(rows[i])
             /\ rows[i].auth # Null => after[i].auth # Null
  BY <1>1, <1>3, KeyOfMerged, MergedProgress
<1> QED
  BY <1>2, <1>3, Enqueued

-----------------------------------------------------------------------------
(***************************************************************************)
(* Loading.                                                                *)
(***************************************************************************)
\* Loading a queue a second time changes nothing.
THEOREM LoadedRow == NormalizedRowStays(QueueRow)
<1> SUFFICES ASSUME NEW row \in QueueRow
             PROVE  LET loaded == NormalizeQueueRow(row)
                    IN /\ NormalizeQueueRow(loaded) = loaded
                       /\ loaded.error \notin Outdated
                       /\ row.kind # Null => QueueKey(loaded) = QueueKey(row)
                       /\ row.job # Null /\ loaded.job = Null
                            => loaded.status = "idle"
  BY DEF NormalizedRowStays
<1> DEFINE filled == [row EXCEPT !.kind = OrElse(@, "local"),
                        !.source = OrElse(@, IF row.kind = "cpa" THEN "cpa"
                                             ELSE "local"),
                        !.status = OrElse(@, "idle")]
           loaded == NormalizeQueueRow(row)
<1> DEFINE kind == OrElse(row.kind, "local")
           source == OrElse(row.source,
                            IF row.kind = "cpa" THEN "cpa" ELSE "local")
           status == OrElse(row.status, "idle")
<1>1. /\ kind \in {"local", "cpa"} /\ kind # Null
      /\ row.kind # Null => kind = row.kind
  BY NullAssumption DEF QueueRow, OrElse
<1>2. source \in MailSources \cup {"local", "cpa"} /\ source # Null
  BY NullAssumption DEF QueueRow, OrElse, MailSources
<1>3. status \in Statuses /\ status # Null
  BY NullAssumption DEF QueueRow, OrElse, Statuses
<1>4. /\ filled \in QueueRow
      /\ filled.kind = kind /\ filled.source = source
      /\ filled.status = status /\ filled.email = row.email
      /\ filled.cpa = row.cpa /\ filled.job = row.job
  <2> HIDE DEF kind, source, status
  <2>1. filled = [row EXCEPT !.kind = kind, !.source = source,
                             !.status = status]
    BY DEF kind, source, status
  <2> QED
    BY <1>1, <1>2, <1>3, <2>1 DEF QueueRow
<1>5. loaded = SanitizeLegacyRefreshRow(filled)
  BY DEF NormalizeQueueRow
<1> HIDE DEF filled, kind, source, status
<1>6. /\ loaded \in QueueRow
      /\ loaded.kind = filled.kind /\ loaded.source = filled.source
      /\ loaded.email = row.email /\ loaded.cpa = row.cpa
      /\ loaded.status # Null
      /\ loaded.error \notin Outdated /\ loaded.log \cap Outdated = {}
      /\ loaded.job # row.job => loaded.status = "idle"
  <2>1. Null \notin Outdated /\ "idle" # Null
    BY NullAssumption
  <2>2. CASE filled.error \in Outdated \/ filled.log \cap Outdated # {}
    <3>1. loaded = [filled EXCEPT !.status = "idle", !.error = Null,
                      !.job = Null, !.log = filled.log \ Outdated]
      BY <1>5, <2>2 DEF SanitizeLegacyRefreshRow
    <3>2. /\ loaded.status = "idle" /\ loaded.error = Null
          /\ loaded.log = filled.log \ Outdated
          /\ loaded.kind = filled.kind /\ loaded.source = filled.source
          /\ loaded.email = row.email /\ loaded.cpa = row.cpa
      BY <1>4, <3>1 DEF QueueRow
    <3>3. loaded \in QueueRow
      BY <1>4, <3>1 DEF QueueRow, Statuses
    <3> QED
      BY <2>1, <3>2, <3>3
  <2>3. CASE ~(filled.error \in Outdated \/ filled.log \cap Outdated # {})
    <3>1. loaded = filled
      BY <1>5, <2>3 DEF SanitizeLegacyRefreshRow
    <3> QED
      BY <1>3, <1>4, <2>3, <3>1
  <2> QED
    BY <2>2, <2>3
<1> HIDE DEF loaded
<1>7. NormalizeQueueRow(loaded) = loaded
  <2>1. /\ OrElse(loaded.kind, "local") = loaded.kind
        /\ OrElse(loaded.source, IF loaded.kind = "cpa" THEN "cpa"
                                 ELSE "local") = loaded.source
        /\ OrElse(loaded.status, "idle") = loaded.status
    BY <1>1, <1>2, <1>4, <1>6 DEF OrElse
  <2>2. [loaded EXCEPT !.kind = loaded.kind, !.source = loaded.source,
                       !.status = loaded.status] = loaded
    BY <1>6 DEF QueueRow
  <2>3. [loaded EXCEPT !.kind = OrElse(@, "local"),
           !.source = OrElse(@, IF loaded.kind = "cpa" THEN "cpa"
                                ELSE "local"),
           !.status = OrElse(@, "idle")] = loaded
    BY <2>1, <2>2
  <2> QED
    BY <1>6, <2>3 DEF NormalizeQueueRow, SanitizeLegacyRefreshRow
<1>8. row.kind # Null => QueueKey(loaded) = QueueKey(row)
  BY <1>1, <1>4, <1>6 DEF QueueKey, OrElse
<1> QED
  BY <1>6, <1>7, <1>8 DEF loaded

\* A row that a page has built is loaded as it was built.
THEOREM BuiltRow == BuiltRowStays(Mailbox)
<1> SUFFICES ASSUME NEW a \in Mailbox
             PROVE  NormalizeQueueRow(ItemOf(a)) = ItemOf(a)
  BY SameRow DEF BuiltRowStays, PagesAgree, ItemOf
<1> DEFINE item == ItemOf(a)
<1>1. a.source # Null
  BY NullAssumption DEF Mailbox, MailSources
<1>2. /\ item.kind = "local" /\ item.source = a.source /\ item.status = "idle"
      /\ item.error = Null /\ item.log = {}
  BY ItemIs
<1>3. [item EXCEPT !.kind = item.kind, !.source = item.source,
                   !.status = item.status] = item
  BY ItemIs
<1> HIDE DEF item
<1>4. /\ OrElse(item.kind, "local") = item.kind
      /\ OrElse(item.source, IF item.kind = "cpa" THEN "cpa" ELSE "local")
           = item.source
      /\ OrElse(item.status, "idle") = item.status
  BY <1>1, <1>2, NullAssumption DEF OrElse
<1>5. [item EXCEPT !.kind = OrElse(@, "local"),
         !.source = OrElse(@, IF item.kind = "cpa" THEN "cpa" ELSE "local"),
         !.status = OrElse(@, "idle")] = item
  BY <1>3, <1>4
<1>6. NormalizeQueueRow(item) = item
  BY <1>2, <1>5, NullAssumption DEF NormalizeQueueRow, SanitizeLegacyRefreshRow
<1> QED
  BY <1>6 DEF item

-----------------------------------------------------------------------------
(***************************************************************************)
(* The lists.                                                              *)
(***************************************************************************)
\* A verification decides whether a mailbox may be queued.
THEOREM CheckDecides == GateFollowsCheck(Mailbox, Result)
<1> SUFFICES ASSUME NEW a \in Mailbox, NEW r \in Result, NEW later \in Result,
                    NEW status \in Checks \cup {Null},
                    NEW fault \in Faults \cup {Null},
                    NEW text \in Faults \cup {Null},
                    NEW b \in {ApplyMailboxVerifyResult(a, r),
                      ApplyFetchDiagnostics(ApplyMailboxVerifyResult(a, r),
                                            later),
                      MergeServerStatus(ApplyMailboxVerifyResult(a, r),
                                        status, fault, text)}
             PROVE  AccountMailVerified(b) = r.ok
                    /\ AccountMailFailed(b) = ~r.ok
  BY DEF GateFollowsCheck
<1> DEFINE check == IF ~r.ok THEN "error" ELSE IF r.code THEN "ok" ELSE "no_code"
<1>1. b.verify = check
  BY DEF ApplyMailboxVerifyResult, ApplyFetchDiagnostics, MergeServerStatus,
         Mailbox
<1>2. Check(b) = check
  BY <1>1, NullAssumption DEF Check, OrElse
<1>3. r.ok \in BOOLEAN
  BY DEF Result
<1> QED
  BY <1>2, <1>3 DEF AccountMailVerified, AccountMailFailed

(***************************************************************************)
(* What the source list looks at in the queue, for an email.               *)
(***************************************************************************)
Done(q, e) == \E i \in DOMAIN q : /\ q[i].email = e
                                  /\ q[i].auth # Null \/ q[i].status = "success"
Busy(q, e) == \E i \in DOMAIN q : /\ q[i].email = e
                                  /\ q[i].status \in {"queued", "running"}
Failures(q, e) == {q[i].error : i \in {j \in DOMAIN q :
                                        q[j].email = e /\ q[j].status = "failed"}}

LEMMA StateLooksAt ==
  ASSUME NEW a, NEW q, NEW r, NEW saved,
         Done(q, a.email) = Done(r, a.email),
         Busy(q, a.email) = Busy(r, a.email),
         Failures(q, a.email) = Failures(r, a.email)
  PROVE  SourceRefreshState(a, q, saved) = SourceRefreshState(a, r, saved)
<1> DEFINE Rows(s) == {s[i] : i \in {j \in DOMAIN s : s[j].email = a.email}}
           Failed(s) == {row.error : row \in {x \in Rows(s) :
                                               x.status = "failed"}}
<1>1. (\E row \in Rows(q) : row.auth # Null \/ row.status = "success")
        = (\E row \in Rows(r) : row.auth # Null \/ row.status = "success")
  BY DEF Done
<1>2. (\E row \in Rows(q) : row.status \in {"queued", "running"})
        = (\E row \in Rows(r) : row.status \in {"queued", "running"})
  BY DEF Busy
<1>3. Failed(q) = Failed(r)
  BY DEF Failures
<1> HIDE DEF Rows, Failed
<1>4. SourceRefreshState(a, q, saved) =
        IF a.email \in saved
           \/ \E row \in Rows(q) : row.auth # Null \/ row.status = "success"
        THEN "success"
        ELSE IF \E row \in Rows(q) : row.status \in {"queued", "running"}
        THEN "running"
        ELSE IF Failed(q) \cap PhoneFaults # {} THEN "failed"
        ELSE IF Failed(q) \cap CodeFaults # {} THEN "needs_code"
        ELSE IF Failed(q) # {} \/ AccountMailFailed(a) THEN "failed"
        ELSE IF Check(a) = "no_code" THEN "needs_code"
        ELSE "idle"
  BY DEF SourceRefreshState, Rows, Failed
<1>5. SourceRefreshState(a, r, saved) =
        IF a.email \in saved
           \/ \E row \in Rows(r) : row.auth # Null \/ row.status = "success"
        THEN "success"
        ELSE IF \E row \in Rows(r) : row.status \in {"queued", "running"}
        THEN "running"
        ELSE IF Failed(r) \cap PhoneFaults # {} THEN "failed"
        ELSE IF Failed(r) \cap CodeFaults # {} THEN "needs_code"
        ELSE IF Failed(r) # {} \/ AccountMailFailed(a) THEN "failed"
        ELSE IF Check(a) = "no_code" THEN "needs_code"
        ELSE "idle"
  BY DEF SourceRefreshState, Rows, Failed
<1> QED
  BY <1>1, <1>2, <1>3, <1>4, <1>5

(***************************************************************************)
(* Adding a mailbox changes what the list says of no other one, and of     *)
(* itself only if it has credentials.                                      *)
(***************************************************************************)
THEOREM AddingIsQuiet ==
  AddingShowsNothingElse(Mailbox, Seq(QueueRow), SUBSET Emails)
<1> SUFFICES ASSUME NEW a \in Mailbox, NEW b \in Mailbox,
                    NEW rows \in Seq(QueueRow), NEW saved \in SUBSET Emails,
                    Distinct(rows), a.email = b.email => b.auth = Null
             PROVE  SourceRefreshState(a, Enqueue(rows, ItemOf(b)), saved)
                      = SourceRefreshState(a, rows, saved)
  BY DEF AddingShowsNothingElse
<1> DEFINE after == Enqueue(rows, ItemOf(b))
           Quiet(row) == row.email = a.email
                           => row.auth = Null /\ row.status = "idle"
<1>1. Quiet(ItemOf(b))
  BY ItemIs
<1>2. CASE after = Append(rows, ItemOf(b))
  <2>1. /\ DOMAIN after = DOMAIN rows \cup {Len(rows) + 1}
        /\ \A i \in DOMAIN rows : after[i] = rows[i]
        /\ after[Len(rows) + 1] = ItemOf(b)
    BY <1>2
  <2>2. Done(after, a.email) = Done(rows, a.email)
    BY <1>1, <2>1 DEF Done
  <2>3. Busy(after, a.email) = Busy(rows, a.email)
    BY <1>1, <2>1 DEF Busy
  <2>4. Failures(after, a.email) = Failures(rows, a.email)
    BY <1>1, <2>1 DEF Failures
  <2> QED
    BY <2>2, <2>3, <2>4, StateLooksAt
<1>3. ASSUME NEW k \in DOMAIN rows, QueueKey(rows[k]) = QueueKey(ItemOf(b)),
             after = [j \in DOMAIN rows |->
                       IF j = k THEN MergeRow(rows[k], ItemOf(b))
                       ELSE rows[j]]
      PROVE  SourceRefreshState(a, after, saved)
               = SourceRefreshState(a, rows, saved)
  <2>1. rows[k] \in QueueRow /\ rows[k].email = b.email
    BY <1>3, KeyOfItem DEF QueueKey
  <2>2. /\ after[k].email = rows[k].email
        /\ after[k].error = rows[k].error
        /\ after[k].status = IF rows[k].status # Null THEN rows[k].status
                             ELSE "idle"
        /\ rows[k].email = a.email => after[k].auth = rows[k].auth
    BY <1>3, <2>1, MergedProgress
  <2>3. /\ DOMAIN after = DOMAIN rows
        /\ \A j \in DOMAIN rows : j # k => after[j] = rows[j]
    BY <1>3
  <2>4. Null \notin {"success", "queued", "running", "failed"}
    BY NullAssumption
  <2>5. \A j \in DOMAIN rows :
          /\ after[j].email = rows[j].email
          /\ after[j].error = rows[j].error
          /\ \A s \in {"success", "queued", "running", "failed"} :
               after[j].status = s <=> rows[j].status = s
          /\ rows[j].email = a.email => after[j].auth = rows[j].auth
    BY <2>2, <2>3, <2>4
  <2>6. Done(after, a.email) = Done(rows, a.email)
    BY <2>3, <2>5 DEF Done
  <2>7. Busy(after, a.email) = Busy(rows, a.email)
    BY <2>3, <2>5 DEF Busy
  <2>8. Failures(after, a.email) = Failures(rows, a.email)
    BY <2>3, <2>5 DEF Failures
  <2> QED
    BY <2>6, <2>7, <2>8, StateLooksAt
<1> QED
  BY <1>2, <1>3, Enqueued

-----------------------------------------------------------------------------
(***************************************************************************)
(* The caches.                                                             *)
(***************************************************************************)
Filters == [source : MailSources \cup {"all", "error", "banned"},
            state : {"all", "success", "failed", "needs_code"},
            category : Categories \cup {"all"},
            activity : {"all", "active", "idle", "unused", "pending"},
            matches : SUBSET Emails]

\* The source list's key and the errors of the rows settle what is shown.
THEOREM SourceCache ==
  SourceKeyIsEnough(Seq(Mailbox), Filters, Seq(QueueRow), SUBSET Emails)
<1> SUFFICES ASSUME NEW accounts \in Seq(Mailbox), NEW f \in Filters,
                    NEW g \in Filters, NEW q \in Seq(QueueRow),
                    NEW r \in Seq(QueueRow), NEW s \in SUBSET Emails,
                    NEW t \in SUBSET Emails,
                    SourceAccountsCacheKey(accounts, f, q, s)
                      = SourceAccountsCacheKey(accounts, g, r, t),
                    \A i \in DOMAIN q \cap DOMAIN r : q[i].error = r[i].error
             PROVE  FilteredSources(accounts, f, q, s)
                      = FilteredSources(accounts, g, r, t)
  BY DEF SourceKeyIsEnough
<1> DEFINE Shown(x) == [i \in DOMAIN x |->
             [email |-> x[i].email, status |-> x[i].status,
              auth |-> x[i].auth # Null]]
<1>1. f = g /\ s = t /\ Shown(q) = Shown(r)
  BY DEF SourceAccountsCacheKey
<1>2. DOMAIN q = DOMAIN r
  BY <1>1
<1>3. \A i \in DOMAIN q : Shown(q)[i] = Shown(r)[i]
  BY <1>1
<1>4. \A i \in DOMAIN q :
        /\ q[i].email = r[i].email /\ q[i].status = r[i].status
        /\ (q[i].auth # Null) = (r[i].auth # Null)
        /\ q[i].error = r[i].error
  BY <1>2, <1>3
<1>5. ASSUME NEW a \in Mailbox
      PROVE  SourceRefreshState(a, q, s) = SourceRefreshState(a, r, s)
  <2>1. Done(q, a.email) = Done(r, a.email)
    BY <1>2, <1>4 DEF Done
  <2>2. Busy(q, a.email) = Busy(r, a.email)
    BY <1>2, <1>4 DEF Busy
  <2>3. Failures(q, a.email) = Failures(r, a.email)
    BY <1>2, <1>4 DEF Failures
  <2> QED
    BY <2>1, <2>2, <2>3, StateLooksAt
<1>6. \A i \in DOMAIN accounts : accounts[i] \in Mailbox
  OBVIOUS
<1> QED
  BY <1>1, <1>5, <1>6 DEF FilteredSources, IsSourceShown

\* The signature settles what the other two pages show.
THEOREM SignatureCache ==
  SignatureIsEnough(Seq(Mailbox), Filters,
                    [Emails -> {"active", "idle", "unused", "pending"}])
<1> SUFFICES ASSUME NEW before \in Seq(Mailbox), NEW after \in Seq(Mailbox),
                    NEW filter \in Filters,
                    NEW activity \in
                      [Emails -> {"active", "idle", "unused", "pending"}],
                    AccountsSignature(before) = AccountsSignature(after),
                    \A i \in DOMAIN before : before[i].text = after[i].text
             PROVE  /\ DOMAIN before = DOMAIN after
                    /\ \A i \in DOMAIN before :
                         /\ IsManaged(before[i], filter)
                              = IsManaged(after[i], filter)
                         /\ IsListed(before[i], filter, activity)
                              = IsListed(after[i], filter, activity)
  BY DEF SignatureIsEnough
<1>1. DOMAIN before = DOMAIN after
  BY DEF AccountsSignature
<1>2. ASSUME NEW i \in DOMAIN before
      PROVE  /\ IsManaged(before[i], filter) = IsManaged(after[i], filter)
             /\ IsListed(before[i], filter, activity)
                  = IsListed(after[i], filter, activity)
  <2>1. AccountSignature(before[i]) = AccountSignature(after[i])
    <3>1. AccountsSignature(before)[i] = AccountsSignature(after)[i]
      OBVIOUS
    <3> QED
      BY <1>1, <1>2, <3>1 DEF AccountsSignature
  <2>2. /\ before[i].email = after[i].email
        /\ before[i].source = after[i].source
        /\ before[i].category = after[i].category
        /\ before[i].last = after[i].last
        /\ before[i].fault = after[i].fault
        /\ before[i].text = after[i].text
    BY <2>1 DEF AccountSignature
  <2>3. AccountHasError(before[i]) = AccountHasError(after[i])
    BY <2>2 DEF AccountHasError
  <2>4. AccountIsBanned(before[i]) = AccountIsBanned(after[i])
    BY <2>2 DEF AccountIsBanned
  <2> QED
    BY <2>2, <2>3, <2>4 DEF IsManaged, IsListed
<1> QED
  BY <1>1, <1>2

-----------------------------------------------------------------------------
(***************************************************************************)
(* The selection.  Lists of the same signature have the same mailboxes.    *)
(***************************************************************************)
LEMMA SameSignature ==
  ASSUME NEW before \in Seq(Mailbox), NEW after \in Seq(Mailbox),
         AccountsSignature(before) = AccountsSignature(after)
  PROVE  /\ \A a \in Records(before) : \E b \in Records(after) :
              b.id = a.id /\ b.email = a.email
         /\ \A b \in Records(after) : \E a \in Records(before) :
              a.id = b.id /\ a.email = b.email
<1>1. DOMAIN before = DOMAIN after
  BY DEF AccountsSignature
<1>2. ASSUME NEW i \in DOMAIN before
      PROVE  before[i].id = after[i].id /\ before[i].email = after[i].email
  <2>1. AccountsSignature(before)[i] = AccountsSignature(after)[i]
    OBVIOUS
  <2>2. AccountSignature(before[i]) = AccountSignature(after[i])
    BY <1>1, <2>1 DEF AccountsSignature
  <2> QED
    BY <2>2 DEF AccountSignature
<1> QED
  BY <1>1, <1>2 DEF Records

(***************************************************************************)
(* What was selected and what was opened stay so when the records of a     *)
(* mailbox become one.                                                     *)
(***************************************************************************)
THEOREM SelectionStays == SelectionFollows(Seq(Mailbox))
<1> SUFFICES ASSUME NEW before \in Seq(Mailbox), NEW after \in Seq(Mailbox),
                    OneEach(before, after)
             PROVE  /\ \A ids \in SUBSET MailboxIds :
                         Selected(after, SelectionAfter(before, after, ids))
                           = Selected(before, ids)
                    /\ \A a \in Records(before) :
                         LET active == ActiveAfter(before, after,
                                         [id |-> a.id, email |-> a.email])
                         IN /\ active.email = a.email
                            /\ \E b \in Records(after) :
                                 b.id = active.id /\ b.email = a.email
  BY DEF SelectionFollows
<1> DEFINE same == AccountsSignature(before) = AccountsSignature(after)
<1>0. ASSUME same
      PROVE  /\ \A a \in Records(before) : \E b \in Records(after) :
                  b.id = a.id /\ b.email = a.email
             /\ \A b \in Records(after) : \E a \in Records(before) :
                  a.id = b.id /\ a.email = b.email
  BY <1>0, SameSignature
<1> HIDE DEF same
<1>1. /\ \A a, b \in Records(before) : a.id = b.id => a = b
      /\ \A a, b \in Records(after) : a.email = b.email => a = b
      /\ \A a \in Records(before) : \E b \in Records(after) :
           a.email = b.email
      /\ \A b \in Records(after) : \E a \in Records(before) :
           a.id = b.id /\ a.email = b.email
  BY DEF OneEach
<1>2. \A b, c \in Records(after) : b.id = c.id => b.email = c.email
  BY <1>1
<1>3. ASSUME NEW ids \in SUBSET MailboxIds
      PROVE  Selected(after, SelectionAfter(before, after, ids))
               = Selected(before, ids)
  <2>1. CASE same
    <3>1. SelectionAfter(before, after, ids) = ids
      BY <2>1 DEF SelectionAfter, same
    <3>2. Selected(after, ids) = Selected(before, ids)
      BY <1>0, <2>1 DEF Selected
    <3> QED
      BY <3>1, <3>2
  <2>2. CASE ~same
    <3> DEFINE left == SelectionAfter(before, after, ids)
    <3>1. left = {b.id : b \in {c \in Records(after) :
                                 c.email \in Selected(before, ids)
                                   \/ c.id \in ids}}
      BY <2>2 DEF SelectionAfter, Selected, same
    <3>2. ASSUME NEW e \in Selected(before, ids)
          PROVE  e \in Selected(after, left)
      <4>1. PICK a \in Records(before) : a.id \in ids /\ a.email = e
        BY <3>2 DEF Selected
      <4>2. PICK b \in Records(after) : b.email = e
        BY <1>1, <4>1
      <4>3. b.id \in left
        BY <3>1, <3>2, <4>2
      <4> QED
        BY <4>2, <4>3 DEF Selected
    <3>3. ASSUME NEW e \in Selected(after, left)
          PROVE  e \in Selected(before, ids)
      <4>1. PICK b \in Records(after) : b.id \in left /\ b.email = e
        BY <3>3 DEF Selected
      <4>2. PICK c \in Records(after) :
              /\ c.id = b.id
              /\ c.email \in Selected(before, ids) \/ c.id \in ids
        BY <3>1, <4>1
      <4>3. c.email = e
        BY <1>2, <4>1, <4>2
      <4>4. CASE c.id \in ids
        <5>1. PICK a \in Records(before) : a.id = c.id /\ a.email = c.email
          BY <1>1
        <5> QED
          BY <4>3, <4>4, <5>1 DEF Selected
      <4> QED
        BY <4>2, <4>3, <4>4
    <3> QED
      BY <3>2, <3>3
  <2> QED
    BY <2>1, <2>2
<1>4. ASSUME NEW a \in Records(before)
      PROVE  LET active == ActiveAfter(before, after,
                                       [id |-> a.id, email |-> a.email])
             IN /\ active.email = a.email
                /\ \E b \in Records(after) :
                     b.id = active.id /\ b.email = a.email
  <2> DEFINE now == [id |-> a.id, email |-> a.email]
             opened == {x.email : x \in {b \in Records(before) :
                                          b.id = now.id}}
             found == {b \in Records(after) : b.email = a.email}
  <2>1. CASE same
    <3>1. ActiveAfter(before, after, now) = now
      BY <2>1 DEF ActiveAfter, same
    <3> QED
      BY <1>0, <2>1, <3>1
  <2>2. CASE ~same
    <3>1. opened = {a.email}
      BY <1>1
    <3>2. found # {}
      BY <1>1
    <3> DEFINE kept == CHOOSE b \in found : TRUE
    <3>3. kept \in Records(after) /\ kept.email = a.email
      BY <3>2
    <3>4. (CHOOSE e \in opened : TRUE) = a.email /\ opened # {}
      BY <3>1
    <3>5. ActiveAfter(before, after, now)
            = [id |-> kept.id, email |-> kept.email]
      BY <2>2, <3>2, <3>4 DEF ActiveAfter, same
    <3> QED
      BY <3>3, <3>5
  <2> QED
    BY <2>1, <2>2
<1> QED
  BY <1>3, <1>4
=============================================================================
