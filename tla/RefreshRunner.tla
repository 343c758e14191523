---------------------------- MODULE RefreshRunner ----------------------------
(***************************************************************************)
(* The queue of the credential refresh page (static/refresh.js), during    *)
(* the life of one page: the runner and its workers, the recovery poller,  *)
(* and what the user does to the rows meanwhile.                           *)
(*                                                                         *)
(* JavaScript is single threaded: an action is what runs between two       *)
(* awaits.  What was read before an await and is used after it is kept in  *)
(* the actor's record: the row object, the job's view (current), the       *)
(* status the server had when the request left (seen).  An answer carries  *)
(* the status of then or of now.                                           *)
(*                                                                         *)
(* A row is an object with an id.  Adding an account again puts a new      *)
(* object with the same id into the queue, while those who hold the old    *)
(* one keep writing to it, and state.jobs is keyed by the id.              *)
(*                                                                         *)
(* Of an error only shouldAutoRetry is kept.                               *)
(***************************************************************************)
EXTENDS Integers, FiniteSets

CONSTANTS
  Ids,          \* row ids
  Objects,      \* row objects
  Workers,      \* the concurrency chosen, 1 to 3
  Jobs,         \* login jobs the server may create
  Ips,          \* exits of the proxy
  MaxAttempts,  \* MAX_LOGIN_ATTEMPTS (3)
  MaxAsks,      \* bound on starts asked for by the user
  MaxToken,     \* bound on the token the clear button raises
  Loaded,       \* statuses of the rows an earlier page has left in the queue
  UserDoes,     \* what the user does to rows besides starting them
  None

ASSUME RunnerAssumption ==
  /\ MaxAttempts \in Nat \ {0}
  /\ MaxAsks \in Nat /\ MaxToken \in Nat
  /\ Loaded \subseteq {"idle", "queued", "running", "success", "failed"}
  /\ UserDoes \subseteq {"cancel", "remove", "add", "clear"}
  /\ None \notin Ids \cup Objects \cup Jobs \cup Ips

VARIABLES
  queue,       \* state.queue: the object of each row
  obj,         \* the row objects
  jobs,        \* state.jobs
  errors,      \* state.jobPollErrors: the count of each row
  runner,      \* the token of the run in state.runner, 0 for null
  runnerToken, \* state.runnerToken
  run,         \* where runQueuedRows is
  usedIps,     \* state.runProxyIps
  worker,      \* the workers of the run
  poller,      \* state.poller and pollJobs
  cancels,     \* cancel requests on their way
  cleaning,    \* the rows cleanFailedRows is going to remove
  clearing,    \* the clear button's handler waits for its cancels
  server,      \* the login jobs, as the job API shows them
  asked,       \* history: the user's last word on a row was to start it
  asks

vars == <<queue, obj, jobs, errors, runner, runnerToken, run, usedIps, worker,
          poller, cancels, cleaning, clearing, server, asked, asks>>
runs == <<runner, runnerToken, run, usedIps>>
handlers == <<cancels, cleaning, clearing>>
history == <<asked, asks>>

Live == {"queued", "running"}
Terminal == {"success", "failed"}
RowStatuses == {"idle"} \cup Live \cup Terminal

View == [status : RowStatuses, job : Jobs \cup {None}, retry : BOOLEAN]
Row == [id : Ids, status : RowStatuses, job : Jobs \cup {None},
        retry : BOOLEAN, auth : BOOLEAN]
ServerJob == [id : Ids, status : Live \cup Terminal, retry : BOOLEAN,
              ip : Ips \cup {None}, run : Nat]
Answer == [status : Live \cup Terminal, retry : BOOLEAN]

At == {"off", "pause", "check", "confirm", "start", "created", "wait",
       "poll", "cooldown"}
Login == At \ {"off", "pause"}
Worker == [pc : At, obj : Objects \cup {None}, attempt : 0 .. MaxAttempts,
           job : Jobs \cup {None}, current : View \cup {None},
           seen : Answer \cup {None}, ip : Ips \cup {None}]
Cancel == [obj : Objects, current : View, job : Jobs, seen : Answer,
           clear : BOOLEAN]
Poll == [obj : Objects, current : View, seen : Answer]

ASSUME NoneAssumption == None \notin Row \cup View \cup ServerJob \cup Poll

Off == [pc |-> "off", obj |-> None, attempt |-> 0, job |-> None,
        current |-> None, seen |-> None, ip |-> None]

-----------------------------------------------------------------------------
(***************************************************************************)
(* What the page reads.                                                    *)
(***************************************************************************)
Queued == {i \in Ids : queue[i] # None}
IsTracked(o) == queue[obj[o].id] # None

RowState(o) ==
  IF jobs[obj[o].id] # None
  THEN jobs[obj[o].id]
  ELSE [status |-> obj[o].status, job |-> obj[o].job, retry |-> obj[o].retry]

LiveRows == {i \in Queued : RowState(queue[i]).status \in Live}
QueuedRows == {i \in Queued : RowState(queue[i]).status = "queued"}
KnownJob(o, current) == IF obj[o].job # None THEN obj[o].job ELSE current.job

ShouldUseRecoveryPolling ==
  \E i \in LiveRows : KnownJob(queue[i], RowState(queue[i])) # None

AnswerOf(j) == [status |-> server[j].status, retry |-> server[j].retry]
PollInFlight == poller.at # None \/ poller.pending # {}

(***************************************************************************)
(* What it writes to a row: the object and the entry of state.jobs.        *)
(***************************************************************************)
WriteRow(o, row, view) ==
  /\ obj' = [obj EXCEPT ![o] = row]
  /\ jobs' = [jobs EXCEPT ![obj[o].id] = view]

SetRow(o, status, job) ==
  WriteRow(o, [obj[o] EXCEPT !.status = status, !.job = job, !.retry = FALSE],
           [status |-> status, job |-> job, retry |-> FALSE])

CommitFailure(o, current, retry) ==
  WriteRow(o, [obj[o] EXCEPT !.status = "failed", !.retry = retry],
           [status |-> "failed", job |-> KnownJob(o, current),
            retry |-> retry])

FailRow(o, retry) == CommitFailure(o, RowState(o), retry)

\* The job id shown is the one read before the request.
ApplyJob(o, current, answer) ==
  WriteRow(o, [obj[o] EXCEPT !.status = answer.status, !.retry = answer.retry,
                             !.auth = @ \/ answer.status = "success"],
           [status |-> answer.status, retry |-> answer.retry,
            job |-> IF current.job # None THEN current.job ELSE obj[o].job])

StartPolling ==
  poller' = [poller EXCEPT !.on = @ \/ (runner' = 0
                                        /\ ShouldUseRecoveryPolling')]

-----------------------------------------------------------------------------
(***************************************************************************)
(* startRows, from the buttons above the queue and from a row's own        *)
(* button, and the start of runQueuedRows.                                 *)
(***************************************************************************)
MarkRowsQueued(rows) ==
  LET marked == {i \in rows : RowState(queue[i]).status \notin Live}
      mine == {queue[i] : i \in marked}
  IN /\ obj' = [o \in Objects |->
                 IF o \in mine
                 THEN [obj[o] EXCEPT !.status = "queued", !.job = None,
                                     !.retry = FALSE]
                 ELSE obj[o]]
     /\ jobs' = [i \in Ids |->
                  IF i \in marked
                  THEN [status |-> "queued", job |-> None, retry |-> FALSE]
                  ELSE jobs[i]]
     /\ asked' = [i \in Ids |-> i \in rows \/ asked[i]]

StartRows(rows) ==
  /\ asks < MaxAsks
  /\ asks' = asks + 1
  /\ MarkRowsQueued(rows)
  /\ IF runner # 0
     THEN UNCHANGED <<runner, runnerToken, run>>
     ELSE /\ runnerToken' = runnerToken + 1
          /\ runner' = runnerToken + 1
          /\ run' = "syncing"
  /\ UNCHANGED <<queue, errors, usedIps, worker, poller, handlers, server>>

EndRun ==
  /\ run' = "off"
  /\ runner' = IF runner = runnerToken THEN 0 ELSE runner
  /\ StartPolling

LeastOf(m, n) == IF m < n THEN m ELSE n

RunQueuedRows_OneFewer ==
  /\ run = "syncing"
  /\ UNCHANGED <<queue, obj, jobs, errors, runnerToken, handlers, server,
                 history>>
  /\ usedIps' = {}
  /\ IF QueuedRows = {}
     THEN EndRun /\ UNCHANGED worker
     ELSE /\ \E team \in SUBSET Workers :
               /\ Cardinality(team) = LeastOf(Cardinality(Workers),
                                             Cardinality(QueuedRows) - 1)
               /\ worker' = [w \in Workers |->
                    IF w \in team THEN [Off EXCEPT !.pc = "pause"] ELSE Off]
          /\ run' = "working"
          /\ UNCHANGED <<runner, poller>>

\* After syncAccountsFromServer: as many workers as there is work for.
RunQueuedRows ==
  /\ run = "syncing"
  /\ UNCHANGED <<queue, obj, jobs, errors, runnerToken, handlers, server,
                 history>>
  /\ usedIps' = {}
  /\ IF QueuedRows = {}
     THEN EndRun /\ UNCHANGED worker
     ELSE /\ \E team \in SUBSET Workers :
               /\ Cardinality(team) = LeastOf(Cardinality(Workers),
                                             Cardinality(QueuedRows))
               /\ worker' = [w \in Workers |->
                    IF w \in team THEN [Off EXCEPT !.pc = "pause"] ELSE Off]
          /\ run' = "working"
          /\ UNCHANGED <<runner, poller>>

-----------------------------------------------------------------------------
(***************************************************************************)
(* A worker of the run.  The last one to leave ends the run in the same    *)
(* turn of the event loop.                                                 *)
(***************************************************************************)
Leave(w) ==
  /\ worker' = [worker EXCEPT ![w] = Off]
  /\ IF \A v \in Workers \ {w} : worker[v].pc = "off"
     THEN EndRun
     ELSE UNCHANGED <<run, runner, poller>>

\* startLogin has returned: sleep if there is more to do.
LoginReturns(w) ==
  IF runner = runnerToken /\ QueuedRows' # {}
  THEN /\ worker' = [worker EXCEPT ![w] = [Off EXCEPT !.pc = "pause"]]
       /\ UNCHANGED <<run, runner, poller>>
  ELSE Leave(w)

Goto(w, record) ==
  /\ worker' = [worker EXCEPT ![w] = record]
  /\ UNCHANGED <<run, runner, poller>>

ActiveRows == {obj[worker[w].obj].id : w \in {v \in Workers :
                                              worker[v].pc \in Login}}

Checking(o, attempt) ==
  [Off EXCEPT !.pc = "check", !.obj = o, !.attempt = attempt]

TakeRow_AnyRow(w) ==
  /\ worker[w].pc = "pause"
  /\ UNCHANGED <<queue, errors, runnerToken, usedIps, handlers, server,
                 history>>
  /\ IF runner # runnerToken \/ QueuedRows = {}
     THEN UNCHANGED <<obj, jobs>> /\ Leave(w)
     ELSE \E i \in QueuedRows :
            \/ SetRow(queue[i], "queued", None)
               /\ Goto(w, Checking(queue[i], 1))
            \/ FailRow(queue[i], FALSE) /\ LoginReturns(w)

(***************************************************************************)
(* The head of the loop.  A row without a proxy or a mailbox fails before  *)
(* anything is awaited.                                                    *)
(***************************************************************************)
TakeRow(w) ==
  /\ worker[w].pc = "pause"
  /\ UNCHANGED <<queue, errors, runnerToken, usedIps, handlers, server,
                 history>>
  /\ IF runner # runnerToken \/ QueuedRows \subseteq ActiveRows
     THEN UNCHANGED <<obj, jobs>> /\ Leave(w)
     ELSE \E i \in QueuedRows \ ActiveRows :
            \/ SetRow(queue[i], "queued", None)
               /\ Goto(w, Checking(queue[i], 1))
            \/ FailRow(queue[i], FALSE) /\ LoginReturns(w)

AfterFailure_OffByOne(w, retry) ==
  IF retry /\ worker[w].attempt <= MaxAttempts
  THEN Goto(w, [Off EXCEPT !.pc = "cooldown", !.obj = worker[w].obj,
                           !.attempt = worker[w].attempt])
  ELSE LoginReturns(w)

\* The attempt failed with an error of this kind, shown or not.
AfterFailure(w, retry) ==
  IF retry /\ worker[w].attempt < MaxAttempts
  THEN Goto(w, [Off EXCEPT !.pc = "cooldown", !.obj = worker[w].obj,
                           !.attempt = worker[w].attempt])
  ELSE LoginReturns(w)

Fails(w) ==
  \E retry \in BOOLEAN :
    FailRow(worker[w].obj, retry) /\ AfterFailure(w, retry)

\* preflightMailPickup, then the first answer of checkUniqueProxy.
ProbeExit(w) ==
  /\ worker[w].pc = "check"
  /\ UNCHANGED <<queue, errors, runnerToken, usedIps, handlers, server,
                 history>>
  /\ \/ Fails(w)
     \/ /\ \E ip \in Ips : Goto(w, [worker[w] EXCEPT !.pc = "confirm",
                                                     !.ip = ip])
        /\ UNCHANGED <<obj, jobs>>

ConfirmExit_AnyExit(w) ==
  /\ worker[w].pc = "confirm"
  /\ UNCHANGED <<queue, errors, runnerToken, handlers, server, history>>
  /\ \/ Fails(w) /\ UNCHANGED usedIps
     \/ /\ usedIps' = usedIps \cup {worker[w].ip}
        /\ SetRow(worker[w].obj, "running", None)
        /\ Goto(w, [worker[w] EXCEPT !.pc = "start"])

(***************************************************************************)
(* The second answer.  A changed or used exit is probed again, five times  *)
(* in all: those rounds are one here.  The login is then started.          *)
(***************************************************************************)
ConfirmExit(w) ==
  /\ worker[w].pc = "confirm"
  /\ UNCHANGED <<queue, errors, runnerToken, handlers, server, history>>
  /\ \/ Fails(w) /\ UNCHANGED usedIps
     \/ /\ worker[w].ip \notin usedIps
        /\ usedIps' = usedIps \cup {worker[w].ip}
        /\ SetRow(worker[w].obj, "running", None)
        /\ Goto(w, [worker[w] EXCEPT !.pc = "start"])

\* The server creates the job; its answer is still to come.
CreateJob(w) ==
  /\ worker[w].pc = "start"
  /\ UNCHANGED <<queue, obj, jobs, errors, runnerToken, usedIps, handlers,
                 history>>
  /\ \E j \in Jobs :
       /\ server[j] = None
       /\ server' = [server EXCEPT ![j] =
            [id |-> obj[worker[w].obj].id, status |-> "queued",
             retry |-> FALSE, ip |-> worker[w].ip, run |-> runner]]
       /\ Goto(w, [worker[w] EXCEPT !.pc = "created", !.job = j])

\* It refuses, or its answer is lost, whether it has created the job or not.
StartFails(w) ==
  /\ worker[w].pc \in {"start", "created"}
  /\ UNCHANGED <<queue, errors, runnerToken, usedIps, handlers, server,
                 history>>
  /\ Fails(w)

StartAnswered_Success(w) ==
  LET o == worker[w].obj
  IN /\ worker[w].pc = "created"
     /\ SetRow(o, "success", worker[w].job)
     /\ errors' = [errors EXCEPT ![obj[o].id] = 0]
     /\ Goto(w, [worker[w] EXCEPT !.pc = "wait", !.ip = None])
     /\ UNCHANGED <<queue, runnerToken, usedIps, handlers, server, history>>

StartAnswered(w) ==
  LET o == worker[w].obj
  IN /\ worker[w].pc = "created"
     /\ SetRow(o, "queued", worker[w].job)
     /\ errors' = [errors EXCEPT ![obj[o].id] = 0]
     /\ Goto(w, [worker[w] EXCEPT !.pc = "wait", !.ip = None])
     /\ UNCHANGED <<queue, runnerToken, usedIps, handlers, server, history>>

\* waitForJob has returned and startLogin looks at what the row shows.
WaitReturns(w, shown) ==
  IF shown.status = "failed"
  THEN AfterFailure(w, shown.retry)
  ELSE LoginReturns(w)

(***************************************************************************)
(* A round of waitForJob: the row may have been removed or have got        *)
(* another job while it slept.                                             *)
(***************************************************************************)
WaitPolls(w) ==
  LET o == worker[w].obj
      current == RowState(o)
      known == IF current.job # None THEN current.job ELSE obj[o].job
  IN /\ worker[w].pc = "wait"
     /\ UNCHANGED <<queue, obj, jobs, errors, runnerToken, usedIps, handlers,
                     server, history>>
     /\ IF ~IsTracked(o) \/ known # worker[w].job \/ current.job = None
        THEN WaitReturns(w, current)
        ELSE Goto(w, [worker[w] EXCEPT !.pc = "poll", !.current = current,
                                       !.seen = AnswerOf(worker[w].job)])

WaitAnswered(w) ==
  LET o == worker[w].obj
  IN /\ worker[w].pc = "poll"
     /\ UNCHANGED <<queue, runnerToken, usedIps, handlers, server, history>>
     /\ IF ~IsTracked(o)
        THEN /\ UNCHANGED <<obj, jobs, errors>>
             /\ WaitReturns(w, RowState(o))
        ELSE \E answer \in {worker[w].seen, AnswerOf(worker[w].job)} :
               /\ ApplyJob(o, worker[w].current, answer)
               /\ errors' = [errors EXCEPT ![obj[o].id] = 0]
               /\ IF answer.status \in Live
                  THEN Goto(w, [worker[w] EXCEPT !.pc = "wait",
                                  !.current = None, !.seen = None])
                  ELSE WaitReturns(w, answer)

\* The poll itself fails: an error of the attempt, whatever the job does.
WaitFails(w) ==
  /\ worker[w].pc = "poll"
  /\ UNCHANGED <<queue, errors, runnerToken, usedIps, handlers, server,
                 history>>
  /\ Fails(w)

\* cooldownBeforeRetry, and the next attempt.
Cooldown(w) ==
  /\ worker[w].pc = "cooldown"
  /\ UNCHANGED <<queue, errors, runnerToken, usedIps, handlers, server,
                 history>>
  /\ SetRow(worker[w].obj, "queued", None)
  /\ Goto(w, Checking(worker[w].obj, worker[w].attempt + 1))

-----------------------------------------------------------------------------
(***************************************************************************)
(* The recovery poller: pollJobs goes through the rows that were live when *)
(* it began.                                                               *)
(***************************************************************************)
PollBegins_RunningOnly ==
  LET running == {i \in LiveRows : RowState(queue[i]).status = "running"}
  IN /\ poller.on
     /\ ~PollInFlight
     /\ poller' = IF running = {}
                  THEN [poller EXCEPT !.on = FALSE]
                  ELSE [poller EXCEPT !.pending = {queue[i] : i \in running}]
     /\ UNCHANGED <<queue, obj, jobs, errors, runs, worker, handlers, server,
                    history>>

PollBegins ==
  /\ poller.on
  /\ ~PollInFlight
  /\ poller' = IF LiveRows = {}
               THEN [poller EXCEPT !.on = FALSE]
               ELSE [poller EXCEPT !.pending = {queue[i] : i \in LiveRows}]
  /\ UNCHANGED <<queue, obj, jobs, errors, runs, worker, handlers, server,
                 history>>

PollSends ==
  /\ poller.at = None
  /\ \E o \in poller.pending :
       LET current == RowState(o)
       IN poller' = [poller EXCEPT !.pending = @ \ {o},
            !.at = IF current.job = None THEN None
                   ELSE [obj |-> o, current |-> current,
                         seen |-> AnswerOf(current.job)]]
  /\ UNCHANGED <<queue, obj, jobs, errors, runs, worker, handlers, server,
                 history>>

PollAnswered ==
  /\ poller.at # None
  /\ poller' = [poller EXCEPT !.at = None]
  /\ LET o == poller.at.obj
         current == poller.at.current
     IN IF IsTracked(o)
        THEN \E answer \in {poller.at.seen, AnswerOf(current.job)} :
               /\ ApplyJob(o, current, answer)
               /\ errors' = [errors EXCEPT ![obj[o].id] = 0]
        ELSE UNCHANGED <<obj, jobs, errors>>
  /\ UNCHANGED <<queue, runs, worker, handlers, server, history>>

(***************************************************************************)
(* rememberJobPollError puts back what was read before the request; the    *)
(* third error in a row, or one that is not worth a retry, fails the row.  *)
(* The count stays when the row has failed.                                *)
(***************************************************************************)
PollFails ==
  /\ poller.at # None
  /\ poller' = [poller EXCEPT !.at = None]
  /\ LET o == poller.at.obj
         current == poller.at.current
         count == IF errors[obj[o].id] < 3 THEN errors[obj[o].id] + 1 ELSE 3
     IN /\ errors' = [errors EXCEPT ![obj[o].id] = count]
        /\ \E retry \in BOOLEAN :
             IF ~retry \/ count = 3
             THEN CommitFailure(o, current, retry)
             ELSE /\ jobs' = [jobs EXCEPT ![obj[o].id] = current]
                  /\ UNCHANGED obj
  /\ UNCHANGED <<queue, runs, worker, handlers, server, history>>

-----------------------------------------------------------------------------
(***************************************************************************)
(* What the user does to the rows.                                         *)
(***************************************************************************)
Working(i) == i \in ActiveRows

SendCancel_ForgetsRow(rows, clear) ==
  LET known(i) == KnownJob(queue[i], RowState(queue[i]))
      sent == {i \in rows : known(i) # None}
      killed == {known(i) : i \in sent}
      Killed(j) == IF server[j].status \in Live
                   THEN [server[j] EXCEPT !.status = "failed", !.retry = FALSE]
                   ELSE server[j]
  IN /\ server' = [j \in Jobs |-> IF j \in killed THEN Killed(j)
                                   ELSE server[j]]
     /\ cancels' = cancels \cup
          {[obj |-> queue[i], current |-> RowState(queue[i]), job |-> known(i),
            seen |-> [status |-> Killed(known(i)).status,
                      retry |-> Killed(known(i)).retry],
            clear |-> clear] : i \in sent}
     /\ jobs' = [i \in Ids |-> IF i \in rows \ sent THEN None ELSE jobs[i]]
     /\ UNCHANGED obj
     /\ asked' = [i \in Ids |->
          asked[i] /\ (i \notin rows \ sent \/ Working(i))]

\* The server handles the request at once; its answer is on the way.
SendCancel(rows, clear) ==
  LET known(i) == KnownJob(queue[i], RowState(queue[i]))
      sent == {i \in rows : known(i) # None}
      killed == {known(i) : i \in sent}
      Killed(j) == IF server[j].status \in Live
                   THEN [server[j] EXCEPT !.status = "failed", !.retry = FALSE]
                   ELSE server[j]
  IN /\ server' = [j \in Jobs |-> IF j \in killed THEN Killed(j)
                                   ELSE server[j]]
     /\ cancels' = cancels \cup
          {[obj |-> queue[i], current |-> RowState(queue[i]), job |-> known(i),
            seen |-> [status |-> Killed(known(i)).status,
                      retry |-> Killed(known(i)).retry],
            clear |-> clear] : i \in sent}
     /\ obj' = [o \in Objects |->
          IF o \in {queue[i] : i \in rows \ sent}
          THEN [obj[o] EXCEPT !.status = "failed", !.retry = FALSE]
          ELSE obj[o]]
     /\ jobs' = [i \in Ids |->
          IF i \in rows \ sent
          THEN [status |-> "failed", job |-> None, retry |-> FALSE]
          ELSE jobs[i]]
     /\ asked' = [i \in Ids |->
          asked[i] /\ (i \notin rows \ sent \/ Working(i))]

CancelLoginJob(i) ==
  /\ "cancel" \in UserDoes
  /\ i \in LiveRows
  /\ \A c \in cancels : c.obj # queue[i]
  /\ SendCancel({i}, FALSE)
  /\ UNCHANGED <<queue, errors, runs, worker, poller, cleaning, clearing,
                 asks>>

CancelAnswered(c) ==
  /\ cancels' = cancels \ {c}
  /\ \/ /\ IsTracked(c.obj)
        /\ ApplyJob(c.obj, c.current, c.seen)
        /\ errors' = [errors EXCEPT ![obj[c.obj].id] = 0]
        /\ asked' = [asked EXCEPT ![obj[c.obj].id] =
                                       @ /\ Working(obj[c.obj].id)]
     \/ UNCHANGED <<obj, jobs, errors, asked>>
  /\ UNCHANGED <<queue, runs, worker, poller, cleaning, clearing, server, asks>>

RemoveRows(ids) ==
  /\ queue' = [i \in Ids |-> IF i \in ids THEN None ELSE queue[i]]
  /\ jobs' = [i \in Ids |-> IF i \in ids THEN None ELSE jobs[i]]
  /\ asked' = [i \in Ids |-> i \notin ids /\ asked[i]]

RemoveSelectedSources(rows) ==
  /\ "remove" \in UserDoes
  /\ RemoveRows(rows)
  /\ UNCHANGED <<obj, errors, runs, worker, poller, handlers, server, asks>>

\* The failed rows selected are removed once the CPA has answered.
CleanFailedRows(rows) ==
  /\ "remove" \in UserDoes
  /\ cleaning = {}
  /\ cleaning' = rows
  /\ \A i \in rows : RowState(queue[i]).status = "failed"
  /\ UNCHANGED <<queue, obj, jobs, errors, runs, worker, poller, cancels,
                 clearing, server, history>>

FailedRowsCleaned ==
  /\ cleaning # {}
  /\ RemoveRows(cleaning)
  /\ cleaning' = {}
  /\ UNCHANGED <<obj, errors, runs, worker, poller, cancels, clearing, server,
                 asks>>

\* The clear button: the token is spent, state.runner is left as it is.
ClearQueue ==
  /\ "clear" \in UserDoes /\ ~clearing /\ runnerToken < MaxToken
  /\ clearing' = TRUE
  /\ runnerToken' = runnerToken + 1
  /\ poller' = [poller EXCEPT !.on = FALSE]
  /\ SendCancel(LiveRows, TRUE)
  /\ UNCHANGED <<queue, errors, runner, run, usedIps, worker, cleaning, asks>>

QueueCleared ==
  /\ clearing /\ \A c \in cancels : ~c.clear
  /\ clearing' = FALSE
  /\ RemoveRows(Ids)
  /\ UNCHANGED <<obj, errors, runs, worker, poller, cancels, cleaning, server,
                 asks>>

\* The account of the row keeps the auth file too.
HasAuth(i) == \E o \in Objects : obj[o] # None /\ obj[o].id = i /\ obj[o].auth

\* mergeSelectedAccountsIntoQueue: a new object takes the id's place.
AddToQueue(i, o) ==
  /\ "add" \in UserDoes
  /\ obj[o] = None
  /\ obj' = [obj EXCEPT ![o] =
       IF queue[i] # None THEN [obj[queue[i]] EXCEPT !.auth = HasAuth(i)]
       ELSE [id |-> i, status |-> "idle", job |-> None, retry |-> FALSE,
             auth |-> HasAuth(i)]]
  /\ queue' = [queue EXCEPT ![i] = o]
  /\ UNCHANGED <<jobs, errors, runs, worker, poller, handlers, server,
                 history>>

-----------------------------------------------------------------------------
\* The job API: a job moves and ends (EveryJobEnds of LoginJobs).
JobMoves(j) ==
  /\ server[j] # None
  /\ \/ /\ server[j].status = "queued"
        /\ server' = [server EXCEPT ![j].status = "running"]
     \/ /\ server[j].status = "running"
        /\ \/ server' = [server EXCEPT ![j].status = "success"]
           \/ \E retry \in BOOLEAN :
                server' = [server EXCEPT ![j].status = "failed",
                                         ![j].retry = retry]
  /\ UNCHANGED <<queue, obj, jobs, errors, runs, worker, poller, handlers,
                 history>>

-----------------------------------------------------------------------------
(***************************************************************************)
(* The page is loaded: the stored queue as an earlier page left it, the    *)
(* jobs of its rows wherever they are by now, startPolling().              *)
(***************************************************************************)
Stored == [status : Loaded, job : BOOLEAN]

StoredRow(i, j, stored) ==
  [id |-> i, status |-> stored.status, job |-> IF stored.job THEN j ELSE None,
   retry |-> FALSE, auth |-> stored.status = "success"]

Init ==
  /\ \E ids \in SUBSET Ids :
       \E object \in [ids -> Objects], job \in [ids -> Jobs],
          stored \in [ids -> Stored], now \in [ids -> Live \cup Terminal] :
         /\ \A i, k \in ids : i # k => object[i] # object[k] /\ job[i] # job[k]
         /\ \A i \in ids : stored[i].job => stored[i].status # "idle"
         /\ \A i \in ids : stored[i].status = "success"
                             => stored[i].job /\ now[i] = "success"
         /\ queue = [i \in Ids |-> IF i \in ids THEN object[i] ELSE None]
         /\ obj = [o \in Objects |->
              IF \E i \in ids : object[i] = o
              THEN LET i == CHOOSE i \in ids : object[i] = o
                   IN StoredRow(i, job[i], stored[i])
              ELSE None]
         /\ server = [j \in Jobs |->
              IF \E i \in ids : job[i] = j /\ stored[i].job
              THEN LET i == CHOOSE i \in ids : job[i] = j
                   IN [id |-> i, status |-> now[i], retry |-> FALSE,
                       ip |-> None, run |-> 0]
              ELSE None]
  /\ jobs = [i \in Ids |-> None]
  /\ errors = [i \in Ids |-> 0]
  /\ runner = 0 /\ runnerToken = 0 /\ run = "off" /\ usedIps = {}
  /\ worker = [w \in Workers |-> Off]
  /\ poller = [on |-> ShouldUseRecoveryPolling, pending |-> {}, at |-> None]
  /\ cancels = {} /\ cleaning = {} /\ clearing = FALSE
  /\ asked = [i \in Ids |-> i \in LiveRows]
  /\ asks = 0

Act(w) ==
  \/ TakeRow(w) \/ ProbeExit(w) \/ ConfirmExit(w) \/ CreateJob(w)
  \/ StartFails(w) \/ StartAnswered(w) \/ WaitPolls(w) \/ WaitAnswered(w)
  \/ WaitFails(w) \/ Cooldown(w)

Polling == PollBegins \/ PollSends \/ PollAnswered \/ PollFails

Answered ==
  \/ \E c \in cancels : CancelAnswered(c)
  \/ FailedRowsCleaned
  \/ QueueCleared

User ==
  \/ \E rows \in SUBSET Queued \ {{}} :
       \/ StartRows(rows)
       \/ CleanFailedRows(rows)
       \/ RemoveSelectedSources(rows)
  \/ \E i \in Ids : CancelLoginJob(i)
  \/ \E i \in Ids, o \in Objects : AddToQueue(i, o)
  \/ ClearQueue

Next ==
  \/ RunQueuedRows
  \/ \E w \in Workers : Act(w)
  \/ Polling
  \/ Answered
  \/ \E j \in Jobs : JobMoves(j)
  \/ User

Spec == Init /\ [][Next]_vars

(***************************************************************************)
(* Timers fire and requests come back or fail: the browser ends each of    *)
(* them sooner or later.                                                   *)
(***************************************************************************)
Fairness ==
  /\ WF_vars(RunQueuedRows)
  /\ \A w \in Workers : WF_vars(Act(w))
  /\ WF_vars(Polling)
  /\ WF_vars(Answered)
  /\ \A j \in Jobs : WF_vars(JobMoves(j))

FairSpec == Spec /\ Fairness

-----------------------------------------------------------------------------
\* The types of what the page keeps.
TypeOK ==
  /\ queue \in [Ids -> Objects \cup {None}]
  /\ obj \in [Objects -> Row \cup {None}]
  /\ jobs \in [Ids -> View \cup {None}]
  /\ errors \in [Ids -> 0 .. 3]
  /\ runner \in Nat /\ runnerToken \in Nat
  /\ run \in {"off", "syncing", "working"}
  /\ usedIps \subseteq Ips
  /\ worker \in [Workers -> Worker]
  /\ poller \in [on : BOOLEAN, pending : SUBSET Objects,
                 at : Poll \cup {None}]
  /\ cancels \subseteq Cancel
  /\ cleaning \subseteq Ids
  /\ clearing \in BOOLEAN
  /\ server \in [Jobs -> ServerJob \cup {None}]
  /\ asked \in [Ids -> BOOLEAN]
  /\ asks \in 0 .. MaxAsks

(***************************************************************************)
(* No two workers log in for the same row (activeRows): a row stays        *)
(* "queued" through its checks and its cooldowns, so its status does not   *)
(* say that somebody is on it.                                             *)
(***************************************************************************)
OneWorkerPerRow ==
  \A v, w \in Workers :
    v # w /\ worker[v].pc \in Login /\ worker[w].pc \in Login
    => obj[worker[v].obj].id # obj[worker[w].obj].id

(***************************************************************************)
(* Every login of a run leaves by an exit of its own (checkUniqueProxy),   *)
(* although workers probe side by side and wait between the probe and      *)
(* the moment they reserve what it found.                                  *)
(***************************************************************************)
DistinctExits ==
  \A j, k \in Jobs :
    j # k /\ server[j] # None /\ server[k] # None
    /\ server[j].ip # None /\ server[j].run = server[k].run
    => server[j].ip # server[k].ip

(***************************************************************************)
(* A row that this page has queued or started, and that is shown as        *)
(* queued or running, is somebody's business: a worker's, the current      *)
(* run's, or the poller's.  Otherwise it would stay so until a reload.     *)
(***************************************************************************)
NoRowIsForgotten ==
  \A i \in LiveRows :
    \/ jobs[i] = None \/ clearing
    \/ i \in ActiveRows
    \/ /\ runner # 0 /\ runner = runnerToken
       /\ jobs[i].status = "queued" \/ jobs[i].job # None
    \/ poller.on /\ jobs[i].job # None

\* A success that is shown is one of a job that was started for the row.
SuccessIsEarned ==
  \A i \in Queued :
    jobs[i] # None /\ jobs[i].status = "success"
    => \E j \in Jobs : /\ server[j] # None /\ server[j].id = i
                       /\ server[j].status = "success"

(***************************************************************************)
(* A row that was cancelled while it only waited for its turn, or that     *)
(* was removed while it did, is not logged in until the user asks again.   *)
(***************************************************************************)
CancelHolds ==
  [][\A w \in Workers : TakeRow(w) /\ worker'[w].pc = "check"
       => asked[obj[worker'[w].obj].id]]_vars

(***************************************************************************)
(* A row that waits while the current run goes on is dealt with: it ends   *)
(* or is taken off the queue, unless the queue is being cleared.           *)
(***************************************************************************)
QueuedRowIsHandled ==
  \A i \in Ids :
    i \in QueuedRows /\ runner # 0 /\ runner = runnerToken
    ~> i \notin LiveRows \/ runner # runnerToken
=============================================================================
