------------------------------ MODULE LoginJobs ------------------------------
(***************************************************************************)
(* The credential refresh jobs of server.py.                               *)
(*                                                                         *)
(* A job is created by an HTTP thread, driven by a worker thread of its    *)
(* own and interrupted by further HTTP threads (cancel, manual e-mail      *)
(* code, manual phone code).  Every write is one critical section under    *)
(* LOGIN_JOBS_LOCK that changes the job in memory and copies it, followed, *)
(* outside the lock, by the copy's upsert into login_jobs.sqlite3: the two *)
(* are separate steps here.  A crash loses the threads and the memory;     *)
(* main() rebuilds the jobs from SQLite and the login history.             *)
(*                                                                         *)
(* Log lines are kept for the state they imply; consecutive lines that     *)
(* leave the state alone are one.  The number of jobs stays within         *)
(* LOGIN_JOB_LIMIT, so the upsert's trim removes nothing.                  *)
(***************************************************************************)
EXTENDS RefreshState, Naturals

CONSTANTS
  Jobs,          \* job ids (uuid4, never reused)
  Requests,      \* HTTP threads that cancel a job or bring it a code
  Polls,         \* attempts of a code-polling loop (12, 20 and 24 in the code)
  MaxRestarts,   \* bound on process crashes
  FailingStores, \* the stores whose writes may raise
  NoJob

ASSUME ConstantsAssumption ==
  /\ Polls \in Nat \ {0}
  /\ MaxRestarts \in Nat
  /\ FailingStores \subseteq {"rows", "history", "results"}
  /\ None \notin RefreshStates

VARIABLES
  mem,       \* LOGIN_JOBS
  rows,      \* login_jobs.sqlite3, one row per job
  history,   \* login_history.json: the outcome recorded for a job
  pc,        \* where the job's own thread (starter, then worker) is
  snap,      \* the copy that thread has yet to persist
  plan,      \* what the worker found in its payload
  left,      \* attempts left in the polling loop
  failure,   \* code of the exception the worker is handling
  saved,     \* refresh_results.json holds the job's credentials
  req,       \* the requests' threads
  restarts

vars == <<mem, rows, history, pc, snap, plan, left, failure, saved, req,
          restarts>>
worker == <<plan, left, failure, saved>>

Kinds == {"cancel", "manual_email_code", "manual_phone_code"}
Errors == {None, "login_cancelled", "login_interrupted", "login_failed"}

Record == [status : Statuses, state : RefreshStates, cancel : BOOLEAN,
           email_code : BOOLEAN, phone_code : BOOLEAN,
           error_code : Errors, result : BOOLEAN]
Outcome == [status : Statuses, state : RefreshStates]
Plan == [source : {"protocol", "session", "signup"}, cpa : BOOLEAN,
         callback : BOOLEAN, resent : BOOLEAN]
RequestThread == [pc : {"idle", "persist", "log", "persist_log", "done"},
                  kind : Kinds \cup {None}, job : Jobs \cup {None},
                  snap : Record \cup {NoJob}]

StarterAt == {"created", "spawn"}
WorkerAt == {"begin", "start", "choose", "probe", "login", "authorize",
             "page", "password", "kickoff", "waiting_code", "typed_code",
             "poll", "fetch", "found", "missed", "exhausted", "resend",
             "verify", "submitted", "channel", "phone", "phone_fetch",
             "phone_submit", "callback", "convert", "save", "saved",
             "unsaved", "deliver", "upload", "succeed", "raised", "fail"}
Alive == StarterAt \cup WorkerAt

NewJob == [status |-> "queued", state |-> "queued", cancel |-> FALSE,
           email_code |-> FALSE, phone_code |-> FALSE, error_code |-> None,
           result |-> FALSE]
Payloads == {p \in Plan : ~p.callback /\ ~p.resent}
NewPlan == [source |-> "protocol", cpa |-> FALSE, callback |-> FALSE,
            resent |-> FALSE]
ASSUME NoJobAssumption == NoJob \notin Record \cup Outcome

NewRequest == [pc |-> "idle", kind |-> None, job |-> None, snap |-> NoJob]

Init ==
  /\ mem = [j \in Jobs |-> NoJob]
  /\ rows = [j \in Jobs |-> NoJob]
  /\ history = [j \in Jobs |-> NoJob]
  /\ pc = [j \in Jobs |-> "absent"]
  /\ snap = [j \in Jobs |-> NoJob]
  /\ plan = [j \in Jobs |-> NewPlan]
  /\ left = [j \in Jobs |-> 0]
  /\ failure = [j \in Jobs |-> None]
  /\ saved = [j \in Jobs |-> FALSE]
  /\ req = [r \in Requests |-> NewRequest]
  /\ restarts = 0

-----------------------------------------------------------------------------
(***************************************************************************)
(* The two critical sections every writer goes through, as functions of    *)
(* the job they find.                                                      *)
(***************************************************************************)
Logged(job, step) == [job EXCEPT !.state = StateAfterStep(step, @)]

Cancelled_AnyStatus(job) ==
  [job EXCEPT !.cancel = TRUE, !.status = "failed", !.state = "cancelled",
              !.error_code = "login_cancelled"]

Cancelled(job) ==
  IF job.status \in {"queued", "running"}
  THEN [job EXCEPT !.cancel = TRUE, !.status = "failed",
                   !.state = "cancelled", !.error_code = "login_cancelled"]
  ELSE [job EXCEPT !.cancel = TRUE]

\* set_login_job_status: nothing looks at the state the job is leaving.
WithStatus(job, state) ==
  [job EXCEPT !.state = state, !.status = StatusOf(state)]

-----------------------------------------------------------------------------
(***************************************************************************)
(* The job's own thread.  It is sequential: it persists its last copy      *)
(* before it does anything else.                                           *)
(***************************************************************************)
At(j, here) == pc[j] = here /\ snap[j] = NoJob

Goto(j, there) == pc' = [pc EXCEPT ![j] = there]

Write(j, job) ==
  /\ mem' = [mem EXCEPT ![j] = job]
  /\ snap' = [snap EXCEPT ![j] = job]

Say(j, here, step, there) ==
  /\ At(j, here)
  /\ Write(j, Logged(mem[j], step))
  /\ Goto(j, there)
  /\ UNCHANGED <<rows, history, req, restarts>>

Step(j, here, there) ==
  /\ At(j, here)
  /\ Goto(j, there)
  /\ UNCHANGED <<mem, rows, history, snap, req, restarts>>

Persist(j) ==
  /\ snap[j] # NoJob
  /\ \/ rows' = [rows EXCEPT ![j] = snap[j]]
     \/ "rows" \in FailingStores /\ rows' = rows
  /\ snap' = [snap EXCEPT ![j] = NoJob]
  /\ UNCHANGED <<mem, history, pc, worker, req, restarts>>

(***************************************************************************)
(* set_login_job_status with a terminal state: the history entry is        *)
(* written inside the critical section, before the row.  The worker is     *)
(* done, and its locals are gone.                                          *)
(***************************************************************************)
Return(j) ==
  /\ Goto(j, "done")
  /\ plan' = [plan EXCEPT ![j] = NewPlan]
  /\ left' = [left EXCEPT ![j] = 0]
  /\ failure' = [failure EXCEPT ![j] = None]
  /\ UNCHANGED <<rows, saved, req, restarts>>

Finish_Unrecorded(j, here, job) ==
  /\ At(j, here)
  /\ Write(j, job)
  /\ UNCHANGED history
  /\ Return(j)

Finish(j, here, job) ==
  /\ At(j, here)
  /\ Write(j, job)
  /\ \/ history' = [history EXCEPT ![j] = [status |-> job.status,
                                           state |-> job.state]]
     \/ "history" \in FailingStores /\ history' = history
  /\ Return(j)

(***************************************************************************)
(* start_cpa_login_job, in the HTTP thread, and the thread it starts.      *)
(***************************************************************************)
Create(j) ==
  /\ pc[j] = "absent"
  /\ Write(j, NewJob)
  /\ Goto(j, "created")
  /\ \E payload \in Payloads : plan' = [plan EXCEPT ![j] = payload]
  /\ UNCHANGED <<rows, history, left, failure, saved, req, restarts>>

ReportCredentials(j) ==
  /\ Say(j, "created", "mail_credentials", "spawn")
  /\ UNCHANGED worker

Spawn(j) == Step(j, "spawn", "begin") /\ UNCHANGED worker

(***************************************************************************)
(* run_cpa_login_job.                                                      *)
(***************************************************************************)
Begin(j) ==
  /\ At(j, "begin")
  /\ Write(j, WithStatus(mem[j], "running"))
  /\ Goto(j, "start")
  /\ UNCHANGED <<rows, history, worker, req, restarts>>

Start(j) == Say(j, "start", "start", "choose") /\ UNCHANGED worker

Raise(j, here, code) ==
  /\ Step(j, here, "raised")
  /\ failure' = [failure EXCEPT ![j] = code]
  /\ UNCHANGED <<plan, left, saved>>

UseSession(j) ==
  /\ plan[j].source = "session"
  /\ Say(j, "choose", "session", "convert")
  /\ UNCHANGED worker

RefuseSignup(j) ==
  /\ plan[j].source = "signup"
  /\ Raise(j, "choose", "login_failed")

UseProtocol(j) ==
  /\ plan[j].source = "protocol"
  /\ Say(j, "choose", "strategy", "probe")
  /\ UNCHANGED worker

ProbeEgress(j) == Say(j, "probe", "egress", "login") /\ UNCHANGED worker

\* The external calls inside the try block: any of them may raise.
ExternalCallRaises(j) ==
  \E here \in {"choose", "probe", "login", "authorize", "password", "kickoff",
               "fetch", "submitted", "channel", "callback", "convert",
               "upload"} :
    /\ here = "choose" => plan[j].source = "protocol"
    /\ Raise(j, here, "login_failed")

(***************************************************************************)
(* ChatGPTProtocolLogin.login and complete_modern_login.                   *)
(***************************************************************************)
SubmitEmail(j) == Say(j, "login", "identifier", "authorize")
                  /\ UNCHANGED worker

ReadPage(j) == Say(j, "authorize", "identifier", "page") /\ UNCHANGED worker

PageAsksForNothing(j) == Step(j, "page", "callback") /\ UNCHANGED worker

SubmitPassword(j) == Say(j, "page", "password", "password")
                     /\ UNCHANGED worker

PasswordAccepted(j) ==
  /\ \/ Step(j, "password", "callback")
     \/ Step(j, "password", "waiting_code")
  /\ UNCHANGED worker

\* Without a password the page's other way in is taken: a code by e-mail.
PageAsksForPassword(j) == Say(j, "page", "send_code", "kickoff")
                          /\ UNCHANGED worker

\* A failed request for a code raises nothing and may log nothing.
KickoffOtp(j) ==
  /\ \E there \in {IF plan[j].resent THEN "poll" ELSE "waiting_code"} :
       Say(j, "kickoff", "send_code", there) \/ Step(j, "kickoff", there)
  /\ left' = [left EXCEPT ![j] = Polls]
  /\ UNCHANGED <<plan, failure, saved>>

PageAsksForCode(j) == Step(j, "page", "waiting_code") /\ UNCHANGED worker

WaitForCode(j) == Say(j, "waiting_code", "waiting_code", "typed_code")
                  /\ UNCHANGED worker

\* A code typed in already is used before any look at cancel_requested.
UseTypedCode(j) ==
  /\ At(j, "typed_code") /\ mem[j].email_code
  /\ Say(j, "typed_code", "waiting_code", "verify")
  /\ UNCHANGED worker

NoTypedCode(j) ==
  /\ At(j, "typed_code") /\ ~mem[j].email_code
  /\ Step(j, "typed_code", "poll")
  /\ left' = [left EXCEPT ![j] = Polls]
  /\ UNCHANGED <<plan, failure, saved>>

(***************************************************************************)
(* fetch_login_verification_code: one attempt is a look at the job, then a *)
(* fetch of the mailbox, with the lock released in between.                *)
(***************************************************************************)
PollSeesCancel(j) ==
  /\ At(j, "poll") /\ mem[j].cancel
  /\ Raise(j, "poll", "login_cancelled")

PollSeesCode_BeforeCancel(j) ==
  /\ At(j, "poll") /\ mem[j].email_code
  /\ Say(j, "poll", "manual_email_code", "verify")
  /\ UNCHANGED worker

PollSeesCode(j) ==
  /\ At(j, "poll") /\ ~mem[j].cancel /\ mem[j].email_code
  /\ Say(j, "poll", "manual_email_code", "verify")
  /\ UNCHANGED worker

PollMailbox(j) ==
  /\ At(j, "poll") /\ ~mem[j].cancel /\ ~mem[j].email_code
  /\ Step(j, "poll", "fetch")
  /\ UNCHANGED worker

\* The attempt is logged when it is the first, the last, a fourth or failed.
FetchMailbox(j) ==
  /\ \E there \in {"found", "missed"} :
       \/ Say(j, "fetch", "mail_code_poll", there)
       \/ Step(j, "fetch", there) /\ left[j] \in 2 .. Polls - 1
  /\ UNCHANGED worker

CodeFound(j) == Say(j, "found", "mail_code_poll", "verify")
                /\ UNCHANGED worker

CodeMissed_Uncapped(j) ==
  /\ Step(j, "missed", "poll")
  /\ left' = [left EXCEPT ![j] = @ - 1]
  /\ UNCHANGED <<plan, failure, saved>>

CodeMissed_Uncounted(j) ==
  /\ Step(j, "missed", "poll")
  /\ UNCHANGED worker

CodeMissed(j) ==
  /\ Step(j, "missed", IF left[j] > 1 THEN "poll" ELSE "exhausted")
  /\ left' = [left EXCEPT ![j] = @ - 1]
  /\ UNCHANGED <<plan, failure, saved>>

\* The first loop is followed by a resend and a second loop, that one by
\* "no verification code was found".
PollsExhausted(j) ==
  \/ /\ ~plan[j].resent
     /\ Say(j, "exhausted", "mail_code_missing", "resend")
     /\ UNCHANGED worker
  \/ /\ plan[j].resent
     /\ Say(j, "exhausted", "mail_code_missing", "raised")
     /\ failure' = [failure EXCEPT ![j] = "login_failed"]
     /\ UNCHANGED <<plan, left, saved>>

ResendCode(j) ==
  /\ Say(j, "resend", "send_code", "kickoff")
  /\ plan' = [plan EXCEPT ![j].resent = TRUE]
  /\ UNCHANGED <<left, failure, saved>>

SubmitCode(j) == Say(j, "verify", "verify_code", "submitted")
                 /\ UNCHANGED worker

CodeAccepted(j) == Step(j, "submitted", "callback") /\ UNCHANGED worker

(***************************************************************************)
(* complete_phone_verification and fetch_phone_verification_code.          *)
(***************************************************************************)
PhoneRequired(j) ==
  /\ Say(j, "submitted", "phone_code", "channel")
  /\ UNCHANGED worker

PhoneChannel(j) ==
  /\ \/ Say(j, "channel", "phone_code", "phone")
     \/ Step(j, "channel", "phone")
  /\ left' = [left EXCEPT ![j] = Polls]
  /\ UNCHANGED <<plan, failure, saved>>

PhoneSeesCancel(j) ==
  /\ At(j, "phone") /\ mem[j].cancel
  /\ Raise(j, "phone", "login_cancelled")

PhoneSeesCode(j) ==
  /\ At(j, "phone") /\ ~mem[j].cancel /\ mem[j].phone_code
  /\ Say(j, "phone", "manual_phone_code", "phone_submit")
  /\ UNCHANGED worker

PhonePoll(j) ==
  /\ At(j, "phone") /\ ~mem[j].cancel /\ ~mem[j].phone_code
  /\ Step(j, "phone", "phone_fetch")
  /\ UNCHANGED worker

PhoneCodeFound(j) == Say(j, "phone_fetch", "phone_code", "phone_submit")
                     /\ UNCHANGED worker

PhoneCodeMissed(j) ==
  LET there == IF left[j] > 1 THEN "phone" ELSE "raised" IN
  /\ \/ Say(j, "phone_fetch", "phone_code", there)
     \/ Step(j, "phone_fetch", there) /\ left[j] < Polls
  /\ left' = [left EXCEPT ![j] = @ - 1]
  /\ failure' = [failure EXCEPT ![j] =
                   IF left[j] > 1 THEN @ ELSE "login_failed"]
  /\ UNCHANGED <<plan, saved>>

SubmitPhoneCode(j) == Say(j, "phone_submit", "phone_code", "callback")
                      /\ UNCHANGED worker

(***************************************************************************)
(* The OAuth callback, handed to CPA or exchanged here, and the delivery   *)
(* of the credentials.  None of it looks at cancel_requested.              *)
(***************************************************************************)
CaptureCallback(j) ==
  /\ Say(j, "callback", "token", "convert")
  /\ \E byCpa \in {FALSE, plan[j].cpa} :
       plan' = [plan EXCEPT ![j].callback = byCpa]
  /\ UNCHANGED <<left, failure, saved>>

Convert_SkipsSave(j) ==
  Say(j, "convert", "convert", "deliver") /\ UNCHANGED worker

Convert(j) == Say(j, "convert", "convert", "save") /\ UNCHANGED worker

SaveCredentials(j) ==
  \/ /\ Step(j, "save", "saved")
     /\ saved' = [saved EXCEPT ![j] = TRUE]
     /\ UNCHANGED <<plan, left, failure>>
  \/ /\ "results" \in FailingStores
     /\ Step(j, "save", "unsaved")
     /\ UNCHANGED worker

ReportSaved(j) ==
  /\ \/ Say(j, "saved", "persist_success", "deliver")
     \/ Say(j, "unsaved", "persist_failed", "deliver")
  /\ UNCHANGED worker

Deliver(j) ==
  /\ IF plan[j].callback \/ ~plan[j].cpa
     THEN Say(j, "deliver", "done", "succeed")
     ELSE Say(j, "deliver", "uploading", "upload")
  /\ UNCHANGED worker

Upload(j) ==
  /\ \/ Say(j, "upload", "upload", "succeed")
     \/ Say(j, "upload", "done", "succeed")      \* login_only
  /\ UNCHANGED worker

Succeed(j) ==
  Finish(j, "succeed",
         [WithStatus(mem[j], "success") EXCEPT !.result = TRUE])

ReportFailure(j) == Say(j, "raised", failure[j], "fail") /\ UNCHANGED worker

Fail(j) ==
  Finish(j, "fail",
         [WithStatus(mem[j], IF failure[j] = "login_cancelled"
                             THEN "cancelled" ELSE "failed")
            EXCEPT !.error_code = failure[j]])

OwnThread(j) ==
  \/ Persist(j) \/ ReportCredentials(j) \/ Spawn(j)
  \/ Begin(j) \/ Start(j) \/ UseSession(j) \/ RefuseSignup(j)
  \/ UseProtocol(j) \/ ProbeEgress(j) \/ ExternalCallRaises(j)
  \/ SubmitEmail(j) \/ ReadPage(j) \/ SubmitPassword(j)
  \/ PasswordAccepted(j) \/ PageAsksForNothing(j) \/ PageAsksForPassword(j)
  \/ KickoffOtp(j) \/ PageAsksForCode(j) \/ WaitForCode(j)
  \/ UseTypedCode(j) \/ NoTypedCode(j) \/ PollSeesCancel(j) \/ PollSeesCode(j)
  \/ PollMailbox(j) \/ FetchMailbox(j) \/ CodeFound(j) \/ CodeMissed(j)
  \/ PollsExhausted(j) \/ ResendCode(j) \/ SubmitCode(j) \/ CodeAccepted(j)
  \/ PhoneRequired(j) \/ PhoneChannel(j) \/ PhoneSeesCancel(j)
  \/ PhoneSeesCode(j) \/ PhonePoll(j) \/ PhoneCodeFound(j) \/ PhoneCodeMissed(j)
  \/ SubmitPhoneCode(j) \/ CaptureCallback(j) \/ Convert(j)
  \/ SaveCredentials(j) \/ ReportSaved(j) \/ Deliver(j) \/ Upload(j)
  \/ Succeed(j) \/ ReportFailure(j) \/ Fail(j)

-----------------------------------------------------------------------------
(***************************************************************************)
(* Requests on a job.  The client learns the id from the reply to the      *)
(* start request, so the worker exists; the job may have ended long ago.   *)
(***************************************************************************)
Ask(r, j, kind, job) ==
  /\ req[r].pc = "idle"
  /\ mem[j] # NoJob /\ pc[j] \notin StarterAt
  /\ mem' = [mem EXCEPT ![j] = job]
  /\ req' = [req EXCEPT ![r] = [pc |-> "persist", kind |-> kind, job |-> j,
                                snap |-> job]]
  /\ UNCHANGED <<rows, history, pc, snap, worker, restarts>>

CancelJob(r, j) == Ask(r, j, "cancel", Cancelled(mem[j]))

TypeEmailCode(r, j) ==
  Ask(r, j, "manual_email_code",
           [mem[j] EXCEPT !.email_code = TRUE])

TypePhoneCode(r, j) ==
  Ask(r, j, "manual_phone_code",
           [mem[j] EXCEPT !.phone_code = TRUE])

RequestPersists(r) ==
  /\ req[r].pc \in {"persist", "persist_log"}
  /\ \/ rows' = [rows EXCEPT ![req[r].job] = req[r].snap]
     \/ "rows" \in FailingStores /\ rows' = rows
  /\ req' = [req EXCEPT ![r].pc = IF @ = "persist" THEN "log" ELSE "done",
                        ![r].snap = NoJob]
  /\ UNCHANGED <<mem, history, pc, snap, worker, restarts>>

RequestLogs(r) ==
  LET j == req[r].job
      job == Logged(mem[j], req[r].kind)
  IN /\ req[r].pc = "log"
     /\ mem' = [mem EXCEPT ![j] = job]
     /\ req' = [req EXCEPT ![r].pc = "persist_log", ![r].snap = job]
     /\ UNCHANGED <<rows, history, pc, snap, worker, restarts>>

-----------------------------------------------------------------------------
(***************************************************************************)
(* A crash at any moment, and main(): a row wins over the history, which   *)
(* only fills in the jobs SQLite does not have.                            *)
(***************************************************************************)
Restored_QueuedOnly(row) ==
  IF row.status = "queued"
  THEN [row EXCEPT !.status = "failed", !.state = "failed", !.cancel = FALSE,
                   !.error_code = IF @ = None THEN "login_interrupted"
                                  ELSE @]
  ELSE WithStatus(row, NormalizeState(row.state, "pending"))

Restored(row) ==
  LET state == NormalizeState(row.state, "pending") IN
  IF row.status \in {"queued", "running"} \/ state \notin TerminalStates
  THEN [row EXCEPT !.status = "failed", !.state = "failed", !.cancel = FALSE,
                   !.error_code = IF @ = None THEN "login_interrupted"
                                  ELSE @]
  ELSE WithStatus(row, state)

FromHistory(entry) ==
  LET state == NormalizeState(entry.state, "pending") IN
  [NewJob EXCEPT !.status = StatusOf(state), !.state = state,
                 !.result = entry.status = "success"]

Restart ==
  /\ restarts < MaxRestarts
  /\ restarts' = restarts + 1
  /\ mem' = [j \in Jobs |->
               IF rows[j] # NoJob THEN Restored(rows[j])
               ELSE IF history[j] # NoJob THEN FromHistory(history[j])
               ELSE NoJob]
  /\ pc' = [j \in Jobs |-> IF pc[j] = "absent" THEN "absent" ELSE "gone"]
  /\ snap' = [j \in Jobs |-> NoJob]
  /\ req' = [r \in Requests |->
               IF req[r].pc = "idle" THEN req[r]
               ELSE [NewRequest EXCEPT !.pc = "done"]]
  /\ plan' = [j \in Jobs |-> NewPlan]
  /\ left' = [j \in Jobs |-> 0]
  /\ failure' = [j \in Jobs |-> None]
  /\ UNCHANGED <<rows, history, saved>>

Next ==
  \/ \E j \in Jobs : Create(j) \/ OwnThread(j)
  \/ \E r \in Requests :
       \/ \E j \in Jobs : \/ CancelJob(r, j)
                          \/ TypeEmailCode(r, j)
                          \/ TypePhoneCode(r, j)
       \/ RequestPersists(r)
       \/ RequestLogs(r)
  \/ Restart

Spec == Init /\ [][Next]_vars

(***************************************************************************)
(* Fairness: a thread that has a step to take takes it.  Network calls     *)
(* carry timeouts, so each returns or raises.  Users owe nothing.          *)
(***************************************************************************)
FairSpec == Spec /\ \A j \in Jobs : WF_vars(OwnThread(j))
-----------------------------------------------------------------------------
TypeOK ==
  /\ mem \in [Jobs -> Record \cup {NoJob}]
  /\ rows \in [Jobs -> Record \cup {NoJob}]
  /\ history \in [Jobs -> Outcome \cup {NoJob}]
  /\ pc \in [Jobs -> Alive \cup {"absent", "done", "gone"}]
  /\ snap \in [Jobs -> Record \cup {NoJob}]
  /\ plan \in [Jobs -> Plan]
  /\ left \in [Jobs -> 0 .. Polls]
  /\ failure \in [Jobs -> Errors]
  /\ saved \in [Jobs -> BOOLEAN]
  /\ req \in [Requests -> RequestThread]
  /\ restarts \in 0 .. MaxRestarts

(***************************************************************************)
(* A job that shows as queued or running has a thread that will end it:    *)
(* nobody polls a job that a crash has left behind, however stale the row  *)
(* it was restored from.                                                   *)
(***************************************************************************)
NoOrphanJob ==
  \A j \in Jobs :
    mem[j] # NoJob /\ mem[j].status \in {"queued", "running"}
      => pc[j] \in Alive

(***************************************************************************)
(* A job shown as successful has its credentials in the refresh results    *)
(* and a result for the client, whether it was watched to its end,         *)
(* restored from a row or rebuilt from the history.                        *)
(***************************************************************************)
SuccessIsBacked ==
  \A j \in Jobs :
    mem[j] # NoJob /\ mem[j].status = "success"
      => mem[j].result /\ (saved[j] \/ "results" \in FailingStores)

(***************************************************************************)
(* What the history says of a job that ran to its end in this process is   *)
(* what the job shows, whatever cancels and codes arrive after the end.    *)
(***************************************************************************)
OutcomeIsRecorded ==
  \A j \in Jobs :
    pc[j] = "done" /\ history[j] # NoJob
      => history[j].status = mem[j].status

(***************************************************************************)
(* The history is written before the row: no crash leaves a row that ends  *)
(* in success without its history entry.                                   *)
(***************************************************************************)
HistoryBeforeRow ==
  "history" \notin FailingStores
    => \A j \in Jobs :
         rows[j] # NoJob /\ rows[j].status = "success"
           => history[j] # NoJob /\ history[j].status = "success"

(***************************************************************************)
(* A worker that looks for a code once its job is cancelled gives up: it   *)
(* neither takes the code nor waits for another, even when the code was    *)
(* typed in first, and the failure it ends with is the cancel.             *)
(***************************************************************************)
CancelStopsPolling ==
  [][\A j \in Jobs :
       /\ pc[j] \in {"poll", "phone"} /\ pc'[j] # pc[j]
       /\ mem[j].cancel
       => \/ pc'[j] = "raised" /\ failure'[j] = "login_cancelled"
          \/ pc'[j] = "gone"]_vars

(***************************************************************************)
(* Every job ends: its thread finishes and it shows a terminal status, or  *)
(* a crash takes both away.                                                *)
(***************************************************************************)
Ended(j) ==
  /\ pc[j] \notin Alive
  /\ mem[j] # NoJob => mem[j].status \in {"success", "failed"}

EveryJobEnds == \A j \in Jobs : mem[j] # NoJob ~> Ended(j)

=============================================================================
