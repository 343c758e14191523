--------------------------- MODULE LoginJobsProofs ---------------------------
(***************************************************************************)
(* Proofs about LoginJobs, for any number of jobs, requests, polling       *)
(* attempts and crashes, and whether or not the stores' writes may raise.  *)
(***************************************************************************)
EXTENDS LoginJobs, TLAPS

(***************************************************************************)
(* The inductive invariant.  NoOrphanJob alone is not inductive: a restart *)
(* shows what the rows and the history hold, so those must be typed and    *)
(* the history terminal; a request in flight writes to a job that is       *)
(* there, and so does a thread that is alive.                              *)
(***************************************************************************)
AliveHasJob == \A j \in Jobs : pc[j] \in Alive => mem[j] # NoJob

Busy == {"persist", "log", "persist_log"}

RequestHasJob ==
  \A r \in Requests :
    req[r].pc \in Busy => req[r].job \in Jobs /\ mem[req[r].job] # NoJob

HistoryIsTerminal ==
  \A j \in Jobs : history[j] # NoJob => history[j].state \in TerminalStates

\* A polling loop is entered with attempts left and left with none.
Polling == {"poll", "fetch", "missed", "phone", "phone_fetch"}

AttemptsLeft == \A j \in Jobs : pc[j] \in Polling => left[j] > 0

IInv == /\ TypeOK
        /\ AttemptsLeft
        /\ AliveHasJob
        /\ RequestHasJob
        /\ HistoryIsTerminal
        /\ NoOrphanJob

-----------------------------------------------------------------------------
(***************************************************************************)
(* The vocabulary.                                                         *)
(***************************************************************************)
LEMMA StepKeepsStates ==
  \A step, state : state \in RefreshStates
                     => StateAfterStep(step, state) \in RefreshStates
BY DEF StateAfterStep, RefreshStates

LEMMA StatusIsTyped == \A state : StatusOf(state) \in Statuses
BY DEF StatusOf, Statuses

LEMMA TerminalStatus ==
  \A state \in TerminalStates : StatusOf(state) \in {"success", "failed"}
BY DEF StatusOf, TerminalStates, ActiveStates

\* No state is another state's alias, so normalisation keeps every state.
LEMMA StatesAreCanonical ==
  \A state \in RefreshStates : NormalizeState(state, "pending") = state
<1>1. ASSUME NEW state \in RefreshStates, NEW s \in RefreshStates
      PROVE  state \notin AliasesOf[s]
  BY DEF AliasesOf, RefreshStates, ActiveStates, TerminalStates
<1>2. \A state \in RefreshStates : Canonical(state) = state
  BY <1>1 DEF Canonical
<1>3. \A state \in RefreshStates : state # None
  BY ConstantsAssumption
<1> QED
  BY <1>2, <1>3 DEF NormalizeState
-----------------------------------------------------------------------------
(***************************************************************************)
(* The records the critical sections make of a record.                     *)
(***************************************************************************)
LEMMA LoggedRecord ==
  ASSUME NEW job \in Record, NEW step
  PROVE  /\ Logged(job, step) \in Record
         /\ Logged(job, step).status = job.status
<1>1. StateAfterStep(step, job.state) \in RefreshStates
  BY StepKeepsStates DEF Record
<1> QED
  BY <1>1 DEF Logged, Record

LEMMA WithStatusRecord ==
  ASSUME NEW job \in Record, NEW state \in RefreshStates
  PROVE  /\ WithStatus(job, state) \in Record
         /\ WithStatus(job, state).status = StatusOf(state)
         /\ WithStatus(job, state).state = state
BY StatusIsTyped DEF WithStatus, Record

LEMMA RestoredRecord ==
  ASSUME NEW row \in Record
  PROVE  /\ Restored(row) \in Record
         /\ Restored(row).status \in {"success", "failed"}
<1>1. NormalizeState(row.state, "pending") = row.state
  BY StatesAreCanonical DEF Record
<1>2. CASE row.status \in {"queued", "running"}
            \/ row.state \notin TerminalStates
  BY <1>1, <1>2 DEF Restored, Record, Statuses, RefreshStates, TerminalStates,
                    Errors
<1>3. CASE ~(row.status \in {"queued", "running"}
             \/ row.state \notin TerminalStates)
  <2>1. Restored(row) = WithStatus(row, row.state)
    BY <1>1, <1>3 DEF Restored
  <2>2. row.state \in RefreshStates
    BY DEF Record
  <2> QED
    BY <1>3, <2>1, <2>2, WithStatusRecord, TerminalStatus
<1> QED
  BY <1>2, <1>3

LEMMA FromHistoryRecord ==
  ASSUME NEW entry \in Outcome, entry.state \in TerminalStates
  PROVE  /\ FromHistory(entry) \in Record
         /\ FromHistory(entry).status \in {"success", "failed"}
<1>1. entry.state \in RefreshStates
  BY DEF Outcome
<1>2. NormalizeState(entry.state, "pending") = entry.state
  BY <1>1, StatesAreCanonical
<1>3. StatusOf(entry.state) \in {"success", "failed"}
  BY TerminalStatus
<1>4. /\ FromHistory(entry).status = StatusOf(entry.state)
      /\ FromHistory(entry) \in Record
  BY <1>1, <1>2, <1>3 DEF FromHistory, NewJob, Record, Statuses, Errors
<1> QED
  BY <1>3, <1>4

-----------------------------------------------------------------------------
(***************************************************************************)
(* Each kind of step, once: what an action adds to its kind only touches   *)
(* the worker's own notes.                                                 *)
(***************************************************************************)
NotesOK ==
  /\ plan \in [Jobs -> Plan]
  /\ left \in [Jobs -> 0 .. Polls]
  /\ failure \in [Jobs -> Errors]
  /\ saved \in [Jobs -> BOOLEAN]
  /\ AttemptsLeft

LEMMA NotesKept ==
  ASSUME IInv, NEW j \in Jobs, NEW there, Goto(j, there), UNCHANGED worker,
         there \in Polling => pc[j] \in Polling
  PROVE  NotesOK'
BY DEF IInv, TypeOK, NotesOK, AttemptsLeft, Goto, worker

LEMMA WriteKeepsIInv ==
  ASSUME IInv, NotesOK',
         NEW j \in Jobs, NEW job \in Record, NEW there \in Alive,
         Write(j, job), Goto(j, there),
         UNCHANGED <<rows, history, req, restarts>>
  PROVE  IInv'
<1>1. job # NoJob
  BY NoJobAssumption
<1>2. TypeOK'
  BY DEF IInv, TypeOK, NotesOK, Write, Goto
<1>3. AliveHasJob'
  BY <1>1 DEF IInv, TypeOK, AliveHasJob, Write, Goto
<1>4. RequestHasJob'
  BY <1>1 DEF IInv, TypeOK, RequestHasJob, Write
<1>5. HistoryIsTerminal'
  BY DEF IInv, HistoryIsTerminal
<1>6. NoOrphanJob'
  BY DEF IInv, TypeOK, NoOrphanJob, Write, Goto
<1> QED
  BY <1>2, <1>3, <1>4, <1>5, <1>6 DEF IInv, NotesOK

LEMMA SayKeepsIInv ==
  ASSUME IInv, NotesOK',
         NEW j \in Jobs, NEW here \in Alive, NEW step, NEW there \in Alive,
         Say(j, here, step, there)
  PROVE  IInv'
<1>1. mem[j] \in Record
  BY DEF IInv, TypeOK, AliveHasJob, Say, At
<1>2. Logged(mem[j], step) \in Record
  BY <1>1, LoggedRecord
<1> QED
  BY <1>2, WriteKeepsIInv DEF Say

LEMMA StepKeepsIInv ==
  ASSUME IInv, NotesOK',
         NEW j \in Jobs, NEW here \in Alive, NEW there \in Alive,
         Step(j, here, there)
  PROVE  IInv'
<1>1. TypeOK'
  BY DEF IInv, TypeOK, NotesOK, Step, Goto
<1>2. AliveHasJob' /\ RequestHasJob'
  BY DEF IInv, TypeOK, AliveHasJob, RequestHasJob, Step, At, Goto
<1>3. HistoryIsTerminal' /\ NoOrphanJob'
  BY DEF IInv, TypeOK, HistoryIsTerminal, NoOrphanJob, Step, Goto
<1> QED
  BY <1>1, <1>2, <1>3 DEF IInv, NotesOK

LEMMA FinishKeepsIInv ==
  ASSUME IInv, NEW j \in Jobs, NEW here \in Alive, NEW job \in Record,
         job.state \in TerminalStates, job.status \in {"success", "failed"},
         Finish(j, here, job)
  PROVE  IInv'
<1>1. job # NoJob
  BY NoJobAssumption
<1>2. [status |-> job.status, state |-> job.state] \in Outcome
  BY DEF Record, Outcome
<1>3. NewPlan \in Plan /\ 0 \in 0 .. Polls /\ None \in Errors
  BY ConstantsAssumption DEF NewPlan, Plan, Errors
<1>4. TypeOK'
  BY <1>2, <1>3 DEF IInv, TypeOK, Finish, Write, Return, Goto
<1>5. AliveHasJob' /\ RequestHasJob'
  BY <1>1 DEF IInv, TypeOK, AliveHasJob, RequestHasJob, Finish, Write,
              Return, Goto
<1>6. HistoryIsTerminal'
  BY DEF IInv, TypeOK, HistoryIsTerminal, Finish, Return
<1>7. NoOrphanJob'
  BY DEF IInv, TypeOK, NoOrphanJob, Finish, Write, Return, Goto
<1>8. AttemptsLeft'
  BY DEF IInv, TypeOK, AttemptsLeft, Polling, Finish, Return, Goto
<1> QED
  BY <1>4, <1>5, <1>6, <1>7, <1>8 DEF IInv

\* Most actions leave the worker's notes alone.
LEMMA PlainSayKeepsIInv ==
  ASSUME IInv, NEW j \in Jobs, NEW here \in Alive, NEW step,
         NEW there \in Alive, there \in Polling => here \in Polling,
         Say(j, here, step, there), UNCHANGED worker
  PROVE  IInv'
<1>1. NotesOK'
  BY NotesKept DEF Say, At
<1> QED
  BY <1>1, SayKeepsIInv

LEMMA PlainStepKeepsIInv ==
  ASSUME IInv, NEW j \in Jobs, NEW here \in Alive, NEW there \in Alive,
         there \in Polling => here \in Polling,
         Step(j, here, there), UNCHANGED worker
  PROVE  IInv'
<1>1. NotesOK'
  BY NotesKept DEF Step, At
<1> QED
  BY <1>1, StepKeepsIInv

LEMMA RaiseKeepsIInv ==
  ASSUME IInv, NEW j \in Jobs, NEW here \in Alive, NEW code \in Errors,
         Raise(j, here, code)
  PROVE  IInv'
<1>1. NotesOK'
  BY DEF IInv, TypeOK, NotesOK, AttemptsLeft, Polling, Raise, Step, Goto
<1> QED
  BY <1>1, StepKeepsIInv DEF Raise, Alive, WorkerAt

-----------------------------------------------------------------------------
LEMMA InitIInv == Init => IInv
BY ConstantsAssumption
   DEF Init, IInv, TypeOK, AliveHasJob, RequestHasJob, HistoryIsTerminal,
       NoOrphanJob, AttemptsLeft, Polling, Busy, Alive, StarterAt, WorkerAt,
       NewPlan, Plan, NewRequest, RequestThread, Errors

LEMMA PersistKeepsIInv ==
  ASSUME IInv, NEW j \in Jobs, Persist(j)
  PROVE  IInv'
<1>1. TypeOK'
  BY DEF IInv, TypeOK, Persist, worker
<1>2. /\ AliveHasJob' /\ RequestHasJob' /\ HistoryIsTerminal'
      /\ NoOrphanJob' /\ AttemptsLeft'
  BY DEF IInv, AliveHasJob, RequestHasJob, HistoryIsTerminal, NoOrphanJob,
         AttemptsLeft, Persist, worker
<1> QED
  BY <1>1, <1>2 DEF IInv

LEMMA CreateKeepsIInv ==
  ASSUME IInv, NEW j \in Jobs, Create(j)
  PROVE  IInv'
<1>1. NewJob \in Record
  BY DEF NewJob, Record, Statuses, RefreshStates, Errors
<1>2. NotesOK'
  BY DEF IInv, TypeOK, NotesOK, AttemptsLeft, Polling, Create, Goto, Payloads
<1>3. "created" \in Alive
  BY DEF Alive, StarterAt
<1> QED
  BY <1>1, <1>2, <1>3, WriteKeepsIInv DEF Create

LEMMA BeginKeepsIInv ==
  ASSUME IInv, NEW j \in Jobs, Begin(j)
  PROVE  IInv'
<1>1. mem[j] \in Record
  BY DEF IInv, TypeOK, AliveHasJob, Begin, At, Alive, WorkerAt
<1>2. WithStatus(mem[j], "running") \in Record
  BY <1>1, WithStatusRecord DEF RefreshStates, ActiveStates
<1>3. NotesOK'
  BY NotesKept DEF Begin, Polling
<1> QED
  BY <1>2, <1>3, WriteKeepsIInv DEF Begin, Alive, WorkerAt

(***************************************************************************)
(* The job's thread up to the e-mail address.                              *)
(***************************************************************************)
LEMMA DispatchKeepsIInv ==
  ASSUME IInv, NEW j \in Jobs,
         \/ ReportCredentials(j) \/ Spawn(j) \/ Start(j) \/ UseSession(j)
         \/ UseProtocol(j) \/ ProbeEgress(j) \/ SubmitEmail(j)
         \/ ReadPage(j) \/ RefuseSignup(j) \/ ExternalCallRaises(j)
  PROVE  IInv'
<1> USE DEF Alive, StarterAt, WorkerAt, Polling
<1>1. CASE ReportCredentials(j)
  BY <1>1, PlainSayKeepsIInv DEF ReportCredentials
<1>2. CASE Spawn(j)
  BY <1>2, PlainStepKeepsIInv DEF Spawn
<1>3. CASE Start(j)
  BY <1>3, PlainSayKeepsIInv DEF Start
<1>4. CASE UseSession(j)
  BY <1>4, PlainSayKeepsIInv DEF UseSession
<1>5. CASE UseProtocol(j)
  BY <1>5, PlainSayKeepsIInv DEF UseProtocol
<1>6. CASE ProbeEgress(j)
  BY <1>6, PlainSayKeepsIInv DEF ProbeEgress
<1>7. CASE SubmitEmail(j)
  BY <1>7, PlainSayKeepsIInv DEF SubmitEmail
<1>8. CASE RefuseSignup(j)
  BY <1>8, RaiseKeepsIInv DEF RefuseSignup, Errors
<1>9. CASE ExternalCallRaises(j)
  BY <1>9, RaiseKeepsIInv DEF ExternalCallRaises, Errors
<1>10. CASE ReadPage(j)
  BY <1>10, PlainSayKeepsIInv DEF ReadPage
<1> QED
  BY <1>1, <1>2, <1>3, <1>4, <1>5, <1>6, <1>7, <1>8, <1>9, <1>10

(***************************************************************************)
(* The e-mail code.                                                        *)
(***************************************************************************)
LEMMA PageKeepsIInv ==
  ASSUME IInv, NEW j \in Jobs,
         \/ SubmitPassword(j) \/ PasswordAccepted(j)
         \/ PageAsksForNothing(j) \/ PageAsksForPassword(j)
         \/ KickoffOtp(j) \/ PageAsksForCode(j) \/ WaitForCode(j)
         \/ UseTypedCode(j) \/ NoTypedCode(j)
  PROVE  IInv'
<1> USE DEF Alive, StarterAt, WorkerAt, Polling
<1>1. CASE PageAsksForNothing(j)
  BY <1>1, PlainStepKeepsIInv DEF PageAsksForNothing
<1>2. CASE PageAsksForPassword(j)
  BY <1>2, PlainSayKeepsIInv DEF PageAsksForPassword
<1>3. CASE KickoffOtp(j)
  <2>1. PICK there \in {"poll", "waiting_code"} :
          Say(j, "kickoff", "send_code", there) \/ Step(j, "kickoff", there)
    BY <1>3 DEF KickoffOtp
  <2>2. NotesOK'
    BY <1>3, <2>1, ConstantsAssumption
       DEF IInv, TypeOK, NotesOK, AttemptsLeft, KickoffOtp, Say, Step, Goto
  <2> QED
    BY <2>1, <2>2, SayKeepsIInv, StepKeepsIInv
<1>4. CASE PageAsksForCode(j)
  BY <1>4, PlainStepKeepsIInv DEF PageAsksForCode
<1>5. CASE WaitForCode(j)
  BY <1>5, PlainSayKeepsIInv DEF WaitForCode
<1>6. CASE UseTypedCode(j)
  BY <1>6, PlainSayKeepsIInv DEF UseTypedCode
<1>7. CASE NoTypedCode(j)
  <2>1. NotesOK'
    BY <1>7, ConstantsAssumption
       DEF IInv, TypeOK, NotesOK, AttemptsLeft, NoTypedCode, Step, Goto
  <2> QED
    BY <1>7, <2>1, StepKeepsIInv DEF NoTypedCode
<1>8. CASE SubmitPassword(j)
  BY <1>8, PlainSayKeepsIInv DEF SubmitPassword
<1>9. CASE PasswordAccepted(j)
  BY <1>9, PlainStepKeepsIInv DEF PasswordAccepted
<1> QED
  BY <1>1, <1>2, <1>3, <1>4, <1>5, <1>6, <1>7, <1>8, <1>9

LEMMA PollKeepsIInv ==
  ASSUME IInv, NEW j \in Jobs,
         \/ PollSeesCancel(j) \/ PollSeesCode(j) \/ PollMailbox(j)
         \/ FetchMailbox(j) \/ CodeFound(j) \/ CodeMissed(j)
         \/ PollsExhausted(j) \/ ResendCode(j) \/ SubmitCode(j)
         \/ CodeAccepted(j)
  PROVE  IInv'
<1> USE DEF Alive, StarterAt, WorkerAt, Polling
<1>1. CASE PollSeesCancel(j)
  BY <1>1, RaiseKeepsIInv DEF PollSeesCancel, Errors
<1>2. CASE PollSeesCode(j)
  BY <1>2, PlainSayKeepsIInv DEF PollSeesCode
<1>3. CASE PollMailbox(j)
  BY <1>3, PlainStepKeepsIInv DEF PollMailbox
<1>4. CASE FetchMailbox(j)
  BY <1>4, PlainSayKeepsIInv, PlainStepKeepsIInv DEF FetchMailbox
<1>5. CASE CodeFound(j)
  BY <1>5, PlainSayKeepsIInv DEF CodeFound
<1>6. CASE CodeMissed(j)
  <2>1. left[j] \in 1 .. Polls
    BY <1>6, ConstantsAssumption
       DEF IInv, TypeOK, AttemptsLeft, CodeMissed, Step, At
  <2>2. left[j] - 1 \in 0 .. Polls /\ (left[j] > 1 => left[j] - 1 > 0)
    BY <2>1, ConstantsAssumption
  <2>3. NotesOK'
    BY <1>6, <2>2
       DEF IInv, TypeOK, NotesOK, AttemptsLeft, CodeMissed, Step, Goto
  <2> QED
    BY <1>6, <2>3, StepKeepsIInv DEF CodeMissed
<1>7. CASE PollsExhausted(j)
  <2>1. CASE UNCHANGED worker
    BY <1>7, <2>1, PlainSayKeepsIInv DEF PollsExhausted
  <2>2. CASE ~UNCHANGED worker
    <3>1. NotesOK'
      BY <1>7, <2>2
         DEF IInv, TypeOK, NotesOK, AttemptsLeft, PollsExhausted, Say, Goto,
             Errors
    <3> QED
      BY <1>7, <2>2, <3>1, SayKeepsIInv DEF PollsExhausted
  <2> QED
    BY <2>1, <2>2
<1>8. CASE ResendCode(j)
  <2>1. [plan[j] EXCEPT !.resent = TRUE] \in Plan
    <3>1. plan[j] \in Plan
      BY DEF IInv, TypeOK
    <3> QED
      BY <3>1 DEF Plan
  <2>2. NotesOK'
    BY <1>8, <2>1
       DEF IInv, TypeOK, NotesOK, AttemptsLeft, ResendCode, Say, Goto
  <2> QED
    BY <1>8, <2>2, SayKeepsIInv DEF ResendCode
<1>9. CASE SubmitCode(j)
  BY <1>9, PlainSayKeepsIInv DEF SubmitCode
<1>10. CASE CodeAccepted(j)
  BY <1>10, PlainStepKeepsIInv DEF CodeAccepted
<1> QED
  BY <1>1, <1>2, <1>3, <1>4, <1>5, <1>6, <1>7, <1>8, <1>9, <1>10
(***************************************************************************)
(* The phone code.                                                         *)
(***************************************************************************)
LEMMA PhoneKeepsIInv ==
  ASSUME IInv, NEW j \in Jobs,
         \/ PhoneRequired(j) \/ PhoneChannel(j) \/ PhoneSeesCancel(j)
         \/ PhoneSeesCode(j) \/ PhonePoll(j) \/ PhoneCodeFound(j)
         \/ PhoneCodeMissed(j) \/ SubmitPhoneCode(j)
  PROVE  IInv'
<1> USE DEF Alive, StarterAt, WorkerAt, Polling
<1>1. CASE PhoneRequired(j)
  BY <1>1, PlainSayKeepsIInv DEF PhoneRequired
<1>2. CASE PhoneChannel(j)
  <2>1. Goto(j, "phone")
    BY <1>2 DEF PhoneChannel, Say, Step
  <2>2. NotesOK'
    BY <1>2, <2>1, ConstantsAssumption
       DEF IInv, TypeOK, NotesOK, AttemptsLeft, PhoneChannel, Goto
  <2> QED
    BY <1>2, <2>2, SayKeepsIInv, StepKeepsIInv DEF PhoneChannel
<1>3. CASE PhoneSeesCancel(j)
  BY <1>3, RaiseKeepsIInv DEF PhoneSeesCancel, Errors
<1>4. CASE PhoneSeesCode(j)
  BY <1>4, PlainSayKeepsIInv DEF PhoneSeesCode
<1>5. CASE PhonePoll(j)
  BY <1>5, PlainStepKeepsIInv DEF PhonePoll
<1>6. CASE PhoneCodeFound(j)
  BY <1>6, PlainSayKeepsIInv DEF PhoneCodeFound
<1>7. CASE PhoneCodeMissed(j)
  <2> DEFINE there == IF left[j] > 1 THEN "phone" ELSE "raised"
  <2>1. pc[j] = "phone_fetch" /\ Goto(j, there)
    BY <1>7 DEF PhoneCodeMissed, Say, Step, At
  <2>2. left[j] \in 1 .. Polls
    BY <2>1, ConstantsAssumption DEF IInv, TypeOK, AttemptsLeft
  <2>3. left[j] - 1 \in 0 .. Polls /\ (left[j] > 1 => left[j] - 1 > 0)
    BY <2>2, ConstantsAssumption
  <2>4. left' \in [Jobs -> 0 .. Polls] /\ failure' \in [Jobs -> Errors]
    BY <1>7, <2>3 DEF IInv, TypeOK, PhoneCodeMissed, Errors
  <2>5. AttemptsLeft'
    BY <1>7, <2>1, <2>3 DEF IInv, TypeOK, AttemptsLeft, PhoneCodeMissed, Goto
  <2>6. NotesOK'
    BY <1>7, <2>4, <2>5 DEF IInv, TypeOK, NotesOK, PhoneCodeMissed
  <2> QED
    BY <1>7, <2>6, SayKeepsIInv, StepKeepsIInv DEF PhoneCodeMissed
<1>8. CASE SubmitPhoneCode(j)
  BY <1>8, PlainSayKeepsIInv DEF SubmitPhoneCode
<1> QED
  BY <1>1, <1>2, <1>3, <1>4, <1>5, <1>6, <1>7, <1>8

(***************************************************************************)
(* The callback, the credentials and the end.                              *)
(***************************************************************************)
LEMMA DeliveryKeepsIInv ==
  ASSUME IInv, NEW j \in Jobs,
         \/ CaptureCallback(j) \/ Convert(j) \/ SaveCredentials(j)
         \/ ReportSaved(j) \/ Deliver(j) \/ Upload(j) \/ ReportFailure(j)
  PROVE  IInv'
<1> USE DEF Alive, StarterAt, WorkerAt, Polling
<1>1. CASE CaptureCallback(j)
  <2>1. plan[j] \in Plan
    BY DEF IInv, TypeOK
  <2>2. \A byCpa \in {FALSE, plan[j].cpa} :
          [plan[j] EXCEPT !.callback = byCpa] \in Plan
    BY <2>1 DEF Plan
  <2>3. plan' \in [Jobs -> Plan]
    BY <1>1, <2>2 DEF IInv, TypeOK, CaptureCallback
  <2>4. NotesOK'
    BY <1>1, <2>3
       DEF IInv, TypeOK, NotesOK, AttemptsLeft, CaptureCallback, Say, Goto
  <2> QED
    BY <1>1, <2>4, SayKeepsIInv DEF CaptureCallback
<1>2. CASE Convert(j)
  BY <1>2, PlainSayKeepsIInv DEF Convert
<1>3. CASE SaveCredentials(j)
  <2>1. NotesOK'
    BY <1>3
       DEF IInv, TypeOK, NotesOK, AttemptsLeft, SaveCredentials, Step, Goto,
           worker
  <2> QED
    BY <1>3, <2>1, StepKeepsIInv DEF SaveCredentials
<1>4. CASE ReportSaved(j)
  BY <1>4, PlainSayKeepsIInv DEF ReportSaved
<1>5. CASE Deliver(j)
  BY <1>5, PlainSayKeepsIInv DEF Deliver
<1>6. CASE Upload(j)
  BY <1>6, PlainSayKeepsIInv DEF Upload
<1>7. CASE ReportFailure(j)
  BY <1>7, PlainSayKeepsIInv DEF ReportFailure
<1> QED
  BY <1>1, <1>2, <1>3, <1>4, <1>5, <1>6, <1>7

LEMMA EndKeepsIInv ==
  ASSUME IInv, NEW j \in Jobs, Succeed(j) \/ Fail(j)
  PROVE  IInv'
<1>1. "succeed" \in Alive /\ "fail" \in Alive
  BY DEF Alive, WorkerAt
<1>2. mem[j] \in Record /\ failure[j] \in Errors
  BY <1>1 DEF IInv, TypeOK, AliveHasJob, Succeed, Fail, Finish, At
<1>3. CASE Succeed(j)
  <2> DEFINE job == [WithStatus(mem[j], "success") EXCEPT !.result = TRUE]
  <2>1. /\ job \in Record
        /\ job.state = "success"
        /\ job.status = "success"
    BY <1>2 DEF WithStatus, Record, StatusOf, ActiveStates, Statuses,
                RefreshStates, TerminalStates
  <2> QED
    BY <1>1, <1>3, <2>1, FinishKeepsIInv DEF Succeed, TerminalStates
<1>4. CASE Fail(j)
  <2> DEFINE end == IF failure[j] = "login_cancelled"
                    THEN "cancelled" ELSE "failed"
             job == [WithStatus(mem[j], end) EXCEPT !.error_code = failure[j]]
  <2>1. end \in {"cancelled", "failed"}
    OBVIOUS
  <2>2. StatusOf(end) = "failed"
    BY <2>1 DEF StatusOf, ActiveStates
  <2>3. /\ job \in Record
        /\ job.state = end
        /\ job.status = "failed"
    BY <1>2, <2>1, <2>2 DEF WithStatus, Record, Statuses, RefreshStates,
                            TerminalStates
  <2> QED
    BY <1>1, <1>4, <2>1, <2>3, FinishKeepsIInv DEF Fail, TerminalStates
<1> QED
  BY <1>3, <1>4
-----------------------------------------------------------------------------
(***************************************************************************)
(* Requests: none of them makes a job queued or running again.             *)
(***************************************************************************)
LEMMA AskKeepsIInv ==
  ASSUME IInv, NEW r \in Requests, NEW j \in Jobs, NEW kind \in Kinds,
         NEW job \in Record,
         job.status \in {"queued", "running"} => job.status = mem[j].status,
         Ask(r, j, kind, job)
  PROVE  IInv'
<1>1. job # NoJob
  BY NoJobAssumption
<1>2. [pc |-> "persist", kind |-> kind, job |-> j, snap |-> job]
        \in RequestThread
  BY DEF RequestThread
<1>3. TypeOK'
  BY <1>2 DEF IInv, TypeOK, Ask, worker
<1>4. AliveHasJob' /\ HistoryIsTerminal' /\ AttemptsLeft'
  BY <1>1 DEF IInv, TypeOK, AliveHasJob, HistoryIsTerminal, AttemptsLeft,
              Ask, worker
<1>5. RequestHasJob'
  BY <1>1 DEF IInv, TypeOK, RequestHasJob, Ask
<1>6. NoOrphanJob'
  BY DEF IInv, TypeOK, NoOrphanJob, Ask
<1> QED
  BY <1>3, <1>4, <1>5, <1>6 DEF IInv

LEMMA RequestKeepsIInv ==
  ASSUME IInv, NEW r \in Requests, NEW j \in Jobs,
         CancelJob(r, j) \/ TypeEmailCode(r, j) \/ TypePhoneCode(r, j)
  PROVE  IInv'
<1> USE DEF Kinds
<1>1. mem[j] \in Record
  BY DEF IInv, TypeOK, CancelJob, TypeEmailCode, TypePhoneCode, Ask
<1>2. CASE CancelJob(r, j)
  <2>1. Cancelled(mem[j]) \in Record
    BY <1>1 DEF Cancelled, Record, Statuses, RefreshStates, TerminalStates,
                Errors
  <2>2. Cancelled(mem[j]).status \notin {"queued", "running"}
    BY <1>1 DEF Cancelled, Record, Statuses
  <2> QED
    BY <1>2, <2>1, <2>2, AskKeepsIInv DEF CancelJob
<1>3. CASE TypeEmailCode(r, j)
  <2>1. /\ [mem[j] EXCEPT !.email_code = TRUE] \in Record
        /\ [mem[j] EXCEPT !.email_code = TRUE].status = mem[j].status
    BY <1>1 DEF Record
  <2> QED
    BY <1>3, <2>1, AskKeepsIInv DEF TypeEmailCode
<1>4. CASE TypePhoneCode(r, j)
  <2>1. /\ [mem[j] EXCEPT !.phone_code = TRUE] \in Record
        /\ [mem[j] EXCEPT !.phone_code = TRUE].status = mem[j].status
    BY <1>1 DEF Record
  <2> QED
    BY <1>4, <2>1, AskKeepsIInv DEF TypePhoneCode
<1> QED
  BY <1>2, <1>3, <1>4

LEMMA RequestPersistsKeepsIInv ==
  ASSUME IInv, NEW r \in Requests, RequestPersists(r)
  PROVE  IInv'
<1>1. req[r] \in RequestThread /\ req[r].job \in Jobs
  BY DEF IInv, TypeOK, RequestHasJob, RequestPersists, Busy
<1>2. rows' \in [Jobs -> Record \cup {NoJob}]
  BY <1>1 DEF IInv, TypeOK, RequestPersists, RequestThread
<1>3. req' \in [Requests -> RequestThread]
  BY <1>1 DEF IInv, TypeOK, RequestPersists, RequestThread
<1>4. TypeOK'
  BY <1>2, <1>3 DEF IInv, TypeOK, RequestPersists, worker
<1>5. AliveHasJob' /\ HistoryIsTerminal' /\ AttemptsLeft' /\ NoOrphanJob'
  BY DEF IInv, AliveHasJob, HistoryIsTerminal, AttemptsLeft, NoOrphanJob,
         RequestPersists, worker
<1>6. RequestHasJob'
  BY <1>1 DEF IInv, TypeOK, RequestHasJob, RequestPersists, Busy,
              RequestThread
<1> QED
  BY <1>4, <1>5, <1>6 DEF IInv

LEMMA RequestLogsKeepsIInv ==
  ASSUME IInv, NEW r \in Requests, RequestLogs(r)
  PROVE  IInv'
<1> DEFINE j == req[r].job
           job == Logged(mem[j], req[r].kind)
<1>1. req[r] \in RequestThread /\ j \in Jobs /\ mem[j] # NoJob
  BY DEF IInv, TypeOK, RequestHasJob, RequestLogs, Busy
<1>2. mem[j] \in Record
  BY <1>1 DEF IInv, TypeOK
<1>3. /\ job \in Record
      /\ job.status = mem[j].status
      /\ job # NoJob
  BY <1>2, LoggedRecord, NoJobAssumption
<1>4. /\ mem' = [mem EXCEPT ![j] = job]
      /\ req' = [req EXCEPT ![r].pc = "persist_log", ![r].snap = job]
      /\ UNCHANGED <<rows, history, pc, snap, plan, left, failure, saved,
                     restarts>>
  BY DEF RequestLogs, worker
<1> HIDE DEF job
<1>5. req' \in [Requests -> RequestThread]
  BY <1>1, <1>3, <1>4 DEF IInv, TypeOK, RequestThread
<1>6. TypeOK'
  BY <1>1, <1>3, <1>4, <1>5 DEF IInv, TypeOK
<1>7. AliveHasJob' /\ HistoryIsTerminal' /\ AttemptsLeft'
  BY <1>1, <1>3, <1>4
     DEF IInv, TypeOK, AliveHasJob, HistoryIsTerminal, AttemptsLeft
<1>8. RequestHasJob'
  BY <1>1, <1>3, <1>4
     DEF IInv, TypeOK, RequestHasJob, Busy, RequestThread
<1>9. NoOrphanJob'
  BY <1>1, <1>3, <1>4 DEF IInv, TypeOK, NoOrphanJob
<1> QED
  BY <1>6, <1>7, <1>8, <1>9 DEF IInv

(***************************************************************************)
(* A restart shows terminal jobs only.                                     *)
(***************************************************************************)
LEMMA RestartKeepsIInv ==
  ASSUME IInv, Restart
  PROVE  IInv'
<1>1. \A j \in Jobs :
        /\ mem'[j] \in Record \cup {NoJob}
        /\ mem'[j] # NoJob => mem'[j].status \in {"success", "failed"}
  <2> SUFFICES ASSUME NEW j \in Jobs
               PROVE  /\ mem'[j] \in Record \cup {NoJob}
                      /\ mem'[j] # NoJob
                           => mem'[j].status \in {"success", "failed"}
    OBVIOUS
  <2>1. CASE rows[j] # NoJob
    BY <2>1, RestoredRecord DEF IInv, TypeOK, Restart
  <2>2. CASE rows[j] = NoJob /\ history[j] # NoJob
    BY <2>2, FromHistoryRecord DEF IInv, TypeOK, HistoryIsTerminal, Restart
  <2>3. CASE rows[j] = NoJob /\ history[j] = NoJob
    BY <2>3 DEF Restart
  <2> QED
    BY <2>1, <2>2, <2>3
<1>2. mem' \in [Jobs -> Record \cup {NoJob}]
  <2>1. mem' = [j \in Jobs |-> mem'[j]]
    BY DEF Restart
  <2> QED
    BY <1>1, <2>1
<1>3. \A j \in Jobs : pc'[j] \in {"absent", "gone"}
  BY DEF Restart
<1>4. req' \in [Requests -> RequestThread]
  <2>1. [NewRequest EXCEPT !.pc = "done"] \in RequestThread
    BY DEF NewRequest, RequestThread
  <2> QED
    BY <2>1 DEF IInv, TypeOK, Restart
<1>5. \A r \in Requests : req'[r].pc \in {"idle", "done"}
  BY DEF Restart, NewRequest
<1>6. TypeOK'
  <2>1. pc' \in [Jobs -> Alive \cup {"absent", "done", "gone"}]
    BY DEF Restart
  <2>2. plan' \in [Jobs -> Plan]
    BY DEF Restart, NewPlan, Plan
  <2>3. left' \in [Jobs -> 0 .. Polls] /\ failure' \in [Jobs -> Errors]
    BY ConstantsAssumption DEF Restart, Errors
  <2>4. restarts' \in 0 .. MaxRestarts
    BY ConstantsAssumption DEF IInv, TypeOK, Restart
  <2>5. snap' \in [Jobs -> Record \cup {NoJob}]
    BY DEF Restart
  <2> QED
    BY <1>2, <1>4, <2>1, <2>2, <2>3, <2>4, <2>5 DEF IInv, TypeOK, Restart
<1>7. AliveHasJob' /\ AttemptsLeft'
  BY <1>3 DEF AliveHasJob, AttemptsLeft, Alive, StarterAt, WorkerAt, Polling
<1>8. RequestHasJob'
  BY <1>5 DEF RequestHasJob, Busy
<1>9. HistoryIsTerminal'
  BY DEF IInv, HistoryIsTerminal, Restart
<1>10. NoOrphanJob'
  BY <1>1 DEF NoOrphanJob
<1> QED
  BY <1>6, <1>7, <1>8, <1>9, <1>10 DEF IInv

-----------------------------------------------------------------------------
LEMMA NextKeepsIInv == IInv /\ [Next]_vars => IInv'
<1> SUFFICES ASSUME IInv, [Next]_vars  PROVE IInv'
  OBVIOUS
<1>1. CASE UNCHANGED vars
  BY <1>1 DEF IInv, TypeOK, AliveHasJob, RequestHasJob, HistoryIsTerminal,
              AttemptsLeft, NoOrphanJob, vars
<1>2. ASSUME NEW j \in Jobs, Create(j)  PROVE IInv'
  BY <1>2, CreateKeepsIInv
<1>3. ASSUME NEW j \in Jobs, OwnThread(j)  PROVE IInv'
  BY <1>3, PersistKeepsIInv, BeginKeepsIInv, DispatchKeepsIInv,
     PageKeepsIInv, PollKeepsIInv, PhoneKeepsIInv, DeliveryKeepsIInv,
     EndKeepsIInv
     DEF OwnThread
<1>4. ASSUME NEW r \in Requests, NEW j \in Jobs,
             CancelJob(r, j) \/ TypeEmailCode(r, j) \/ TypePhoneCode(r, j)
      PROVE  IInv'
  BY <1>4, RequestKeepsIInv
<1>5. ASSUME NEW r \in Requests, RequestPersists(r) \/ RequestLogs(r)
      PROVE  IInv'
  BY <1>5, RequestPersistsKeepsIInv, RequestLogsKeepsIInv
<1>6. CASE Restart
  BY <1>6, RestartKeepsIInv
<1> QED
  BY <1>1, <1>2, <1>3, <1>4, <1>5, <1>6 DEF Next

(***************************************************************************)
(* The variables hold what LOGIN_JOBS, the SQLite rows, the history and    *)
(* the threads of server.py hold, for any number of jobs and requests.     *)
(***************************************************************************)
THEOREM TypeCorrect == Spec => []TypeOK
<1>1. IInv => TypeOK
  BY DEF IInv
<1> QED
  BY <1>1, InitIInv, NextKeepsIInv, PTL DEF Spec

(***************************************************************************)
(* No job ever shows as queued or running without a thread to end it: not  *)
(* after a crash, whatever stale row or history it is restored from, not   *)
(* after a cancel or a code that came late.                                *)
(***************************************************************************)
THEOREM NoJobIsOrphaned == Spec => []NoOrphanJob
<1>1. IInv => NoOrphanJob
  BY DEF IInv
<1> QED
  BY <1>1, InitIInv, NextKeepsIInv, PTL DEF Spec

-----------------------------------------------------------------------------
(***************************************************************************)
(* Proofs about how the jobs of LoginJobs end: what a job shows, what its  *)
(* row and its history entry say and what was saved agree, for any number  *)
(* of jobs, requests and crashes, whichever stores fail.                   *)
(***************************************************************************)

(***************************************************************************)
(* A success is claimed by copies of a job that travel: the threads hold   *)
(* them, the rows keep them and a restart reads them back.  The invariant  *)
(* therefore speaks of every copy.                                         *)
(***************************************************************************)
Backed(j) == saved[j] \/ "results" \in FailingStores

Recorded(j) ==
  "history" \notin FailingStores
    => history[j] # NoJob /\ history[j].status = "success"

Sound(job, j) ==
  /\ job.status = "success" => job.result /\ Backed(j) /\ Recorded(j)
  /\ job.state = "success" => job.status = "success"

CopiesSound ==
  /\ \A j \in Jobs : /\ mem[j] # NoJob => Sound(mem[j], j)
                     /\ rows[j] # NoJob => Sound(rows[j], j)
                     /\ snap[j] # NoJob => Sound(snap[j], j)
  /\ \A r \in Requests :
       req[r].pc \in {"persist", "persist_log"}
         => req[r].snap # NoJob /\ Sound(req[r].snap, req[r].job)

HistorySound ==
  \A j \in Jobs :
    history[j] # NoJob
      => /\ history[j].status = StatusOf(history[j].state)
         /\ history[j].status = "success" => Backed(j)

\* The credentials are saved on the way to every success.
Past == {"saved", "unsaved", "deliver", "upload", "succeed"}

CredentialsFirst == \A j \in Jobs : pc[j] \in Past => Backed(j)

\* The history entry is the last thing a worker writes.
HistoryIsLast == \A j \in Jobs : pc[j] \in Alive => history[j] = NoJob

AbsentIsNew ==
  \A j \in Jobs : pc[j] = "absent" => history[j] = NoJob

DoneIsTerminal ==
  \A j \in Jobs :
    pc[j] = "done" => /\ mem[j] # NoJob
                      /\ mem[j].status \in {"success", "failed"}

OInv == /\ CopiesSound
        /\ HistorySound
        /\ CredentialsFirst
        /\ HistoryIsLast
        /\ AbsentIsNew
        /\ DoneIsTerminal
        /\ OutcomeIsRecorded

-----------------------------------------------------------------------------
(***************************************************************************)
(* What the two critical sections and the recovery make of a sound copy.   *)
(***************************************************************************)
LEMMA LogNeverSucceeds ==
  \A step, state : StateAfterStep(step, state) = "success" => state = "success"
BY DEF StateAfterStep, ActiveStates

LEMMA LoggedSound ==
  ASSUME NEW job \in Record, NEW step, NEW j \in Jobs, Sound(job, j)
  PROVE  Sound(Logged(job, step), j)
BY LogNeverSucceeds DEF Sound, Logged, Record

LEMMA NotASuccess ==
  ASSUME NEW job \in Record, NEW j \in Jobs,
         job.status # "success", job.state # "success"
  PROVE  Sound(job, j)
BY DEF Sound

LEMMA SuccessStatus ==
  \A state \in TerminalStates :
    StatusOf(state) = "success" <=> state = "success"
BY DEF StatusOf, TerminalStates, ActiveStates

LEMMA RestoredSound ==
  ASSUME NEW row \in Record, NEW j \in Jobs, Sound(row, j)
  PROVE  Sound(Restored(row), j)
<1>1. NormalizeState(row.state, "pending") = row.state
  BY StatesAreCanonical DEF Record
<1>2. CASE row.status \in {"queued", "running"}
            \/ row.state \notin TerminalStates
  BY <1>1, <1>2 DEF Restored, Record, Sound
<1>3. CASE ~(row.status \in {"queued", "running"}
             \/ row.state \notin TerminalStates)
  <2>1. Restored(row) = WithStatus(row, row.state)
    BY <1>1, <1>3 DEF Restored
  <2>2. row.state \in RefreshStates
    BY DEF Record
  <2>3. /\ Restored(row).state = row.state
        /\ Restored(row).status = StatusOf(row.state)
        /\ Restored(row).result = row.result
    BY <2>1, <2>2, WithStatusRecord DEF WithStatus, Record
  <2> QED
    BY <1>3, <2>3, SuccessStatus DEF Sound
<1> QED
  BY <1>2, <1>3

LEMMA FromHistorySound ==
  ASSUME NEW j \in Jobs, history[j] \in Outcome,
         history[j].state \in TerminalStates, HistorySound
  PROVE  Sound(FromHistory(history[j]), j)
<1> DEFINE entry == history[j]
<1>1. entry \in Outcome /\ entry # NoJob
  BY NoJobAssumption
<1>2. NormalizeState(entry.state, "pending") = entry.state
  BY <1>1, StatesAreCanonical DEF Outcome
<1>3. /\ FromHistory(entry).state = entry.state
      /\ FromHistory(entry).status = StatusOf(entry.state)
      /\ FromHistory(entry).result = (entry.status = "success")
  BY <1>2 DEF FromHistory, NewJob
<1>4. /\ entry.status = StatusOf(entry.state)
      /\ entry.status = "success" => Backed(j)
  BY <1>1 DEF HistorySound
<1> QED
  BY <1>1, <1>3, <1>4, SuccessStatus DEF Sound, Recorded

-----------------------------------------------------------------------------
(***************************************************************************)
(* Each kind of step of a job's own thread.                                *)
(***************************************************************************)
LEMMA WriteKeepsOInv ==
  ASSUME IInv, OInv,
         NEW j \in Jobs, NEW job \in Record, NEW there \in Alive,
         Sound(job, j), pc[j] \in Alive \cup {"absent"},
         there \in Past => Backed(j),
         Write(j, job), Goto(j, there),
         UNCHANGED <<rows, history, req, saved>>
  PROVE  OInv'
<1> USE DEF Backed, Recorded
<1>1. CopiesSound'
  BY DEF IInv, TypeOK, OInv, CopiesSound, Sound, Write
<1>2. HistorySound'
  BY DEF OInv, HistorySound
<1>3. CredentialsFirst'
  BY DEF IInv, TypeOK, OInv, CredentialsFirst, Goto
<1>4. there \notin {"absent", "done"}
  BY DEF Alive, StarterAt, WorkerAt
<1>5. HistoryIsLast' /\ AbsentIsNew'
  BY <1>4 DEF IInv, TypeOK, OInv, HistoryIsLast, AbsentIsNew, Goto
<1>6. DoneIsTerminal' /\ OutcomeIsRecorded'
  BY <1>4 DEF IInv, TypeOK, OInv, DoneIsTerminal, OutcomeIsRecorded, Write,
              Goto
<1> QED
  BY <1>1, <1>2, <1>3, <1>5, <1>6 DEF OInv

LEMMA SayKeepsOInv ==
  ASSUME IInv, OInv,
         NEW j \in Jobs, NEW here \in Alive, NEW step, NEW there \in Alive,
         there \in Past => here \in Past,
         Say(j, here, step, there), UNCHANGED saved
  PROVE  OInv'
<1>1. pc[j] = here /\ mem[j] # NoJob
  BY DEF IInv, AliveHasJob, Say, At
<1>2. mem[j] \in Record /\ Sound(mem[j], j)
  BY <1>1 DEF IInv, TypeOK, OInv, CopiesSound
<1>3. Logged(mem[j], step) \in Record /\ Sound(Logged(mem[j], step), j)
  BY <1>2, LoggedRecord, LoggedSound
<1>4. there \in Past => Backed(j)
  BY <1>1 DEF OInv, CredentialsFirst
<1> QED
  BY <1>1, <1>3, <1>4, WriteKeepsOInv DEF Say

LEMMA StepKeepsOInv ==
  ASSUME IInv, OInv,
         NEW j \in Jobs, NEW here \in Alive, NEW there \in Alive,
         \A k \in Jobs : saved[k] => saved'[k],
         there \in Past => Backed(j)',
         Step(j, here, there)
  PROVE  OInv'
<1> USE DEF Backed, Recorded
<1>1. pc[j] = here /\ UNCHANGED <<mem, rows, history, snap, req>>
  BY DEF Step, At
<1>2. CopiesSound'
  BY <1>1 DEF IInv, RequestHasJob, Busy, OInv, CopiesSound, Sound
<1>3. HistorySound'
  BY <1>1 DEF OInv, HistorySound
<1>4. CredentialsFirst'
  BY DEF IInv, TypeOK, OInv, CredentialsFirst, Step, Goto
<1>5. there \notin {"absent", "done"}
  BY DEF Alive, StarterAt, WorkerAt
<1>6. HistoryIsLast' /\ AbsentIsNew'
  BY <1>1, <1>5 DEF IInv, TypeOK, OInv, HistoryIsLast, AbsentIsNew, Step, Goto
<1>7. DoneIsTerminal' /\ OutcomeIsRecorded'
  BY <1>1, <1>5 DEF IInv, TypeOK, OInv, DoneIsTerminal, OutcomeIsRecorded,
                    Step, Goto
<1> QED
  BY <1>2, <1>3, <1>4, <1>6, <1>7 DEF OInv

LEMMA PlainStepKeepsOInv ==
  ASSUME IInv, OInv,
         NEW j \in Jobs, NEW here \in Alive, NEW there \in Alive,
         there \in Past => here \in Past,
         Step(j, here, there), UNCHANGED saved
  PROVE  OInv'
<1>1. there \in Past => Backed(j)'
  BY DEF OInv, CredentialsFirst, Backed, Step, At
<1> QED
  BY <1>1, StepKeepsOInv

LEMMA FinishKeepsOInv ==
  ASSUME IInv, OInv, NEW j \in Jobs, NEW here \in Alive, NEW job \in Record,
         job.state \in TerminalStates, job.status = StatusOf(job.state),
         job.status = "success" => job.result /\ Backed(j),
         Finish(j, here, job)
  PROVE  OInv'
<1> DEFINE entry == [status |-> job.status, state |-> job.state]
<1> USE DEF Backed, Recorded
<1>1. job # NoJob /\ entry # NoJob
  BY NoJobAssumption DEF Record, Outcome
<1>2. job.status \in {"success", "failed"}
  BY TerminalStatus
<1>3. pc[j] = here /\ here \in Alive /\ history[j] = NoJob
  BY DEF OInv, HistoryIsLast, Finish, At
<1>4. /\ mem' = [mem EXCEPT ![j] = job]
      /\ snap' = [snap EXCEPT ![j] = job]
      /\ pc' = [pc EXCEPT ![j] = "done"]
      /\ UNCHANGED <<rows, req, saved>>
  BY DEF Finish, Write, Return, Goto
<1>5. \/ history' = [history EXCEPT ![j] = entry]
      \/ "history" \in FailingStores /\ history' = history
  BY DEF Finish
<1>6. \A k \in Jobs : Recorded(k) => Recorded(k)'
  BY <1>1, <1>3, <1>5 DEF IInv, TypeOK
<1>7. job.status = "success" => Recorded(j)'
  BY <1>1, <1>5 DEF IInv, TypeOK
<1>8. job.state = "success" => job.status = "success"
  BY SuccessStatus
<1> HIDE DEF entry, Recorded
<1>9. CopiesSound'
  <2>1. \A k \in Jobs : \A copy : Sound(copy, k) => Sound(copy, k)'
    BY <1>4, <1>6 DEF Sound
  <2>2. Sound(job, j)'
    BY <1>4, <1>7, <1>8 DEF Sound
  <2>3. \A r \in Requests :
          req[r].pc \in {"persist", "persist_log"} => req[r].job \in Jobs
    BY DEF IInv, RequestHasJob, Busy
  <2> QED
    BY <1>1, <1>4, <2>1, <2>2, <2>3 DEF IInv, TypeOK, OInv, CopiesSound
<1> USE DEF entry
<1>10. HistorySound'
  BY <1>4, <1>5 DEF IInv, TypeOK, OInv, HistorySound
<1>11. CredentialsFirst' /\ HistoryIsLast' /\ AbsentIsNew'
  <2>1. "done" \notin Alive \cup Past \cup {"absent"}
    BY DEF Alive, StarterAt, WorkerAt, Past
  <2> QED
    BY <1>3, <1>4, <1>5, <2>1
       DEF IInv, TypeOK, OInv, CredentialsFirst, HistoryIsLast, AbsentIsNew
<1>12. DoneIsTerminal'
  BY <1>1, <1>2, <1>4 DEF IInv, TypeOK, OInv, DoneIsTerminal
<1>13. OutcomeIsRecorded'
  BY <1>1, <1>3, <1>4, <1>5 DEF IInv, TypeOK, OInv, OutcomeIsRecorded
<1> QED
  BY <1>9, <1>10, <1>11, <1>12, <1>13 DEF OInv

-----------------------------------------------------------------------------
LEMMA InitOInv == Init => OInv
BY DEF Init, OInv, CopiesSound, HistorySound, CredentialsFirst, HistoryIsLast,
       AbsentIsNew, DoneIsTerminal, OutcomeIsRecorded, Past, Alive, StarterAt,
       WorkerAt, NewRequest

LEMMA PersistKeepsOInv ==
  ASSUME IInv, OInv, NEW j \in Jobs, Persist(j)
  PROVE  OInv'
<1> USE DEF Backed, Recorded
<1>1. CopiesSound'
  BY DEF IInv, TypeOK, OInv, CopiesSound, Sound, Persist, worker
<1>2. HistorySound' /\ CredentialsFirst' /\ HistoryIsLast' /\ AbsentIsNew'
  BY DEF OInv, HistorySound, CredentialsFirst, HistoryIsLast, AbsentIsNew,
         Persist, worker
<1>3. DoneIsTerminal' /\ OutcomeIsRecorded'
  BY DEF OInv, DoneIsTerminal, OutcomeIsRecorded, Persist
<1> QED
  BY <1>1, <1>2, <1>3 DEF OInv

LEMMA BeginningKeepsOInv ==
  ASSUME IInv, OInv, NEW j \in Jobs, Create(j) \/ Begin(j)
  PROVE  OInv'
<1>1. CASE Create(j)
  <2>1. NewJob \in Record /\ Sound(NewJob, j)
    <3>1. NewJob \in Record
      BY DEF NewJob, Record, Statuses, RefreshStates, Errors
    <3>2. NewJob.status = "queued" /\ NewJob.state = "queued"
      BY DEF NewJob
    <3> QED
      BY <3>1, <3>2, NotASuccess
  <2>2. "created" \in Alive /\ "created" \notin Past /\ pc[j] = "absent"
    BY <1>1 DEF Create, Alive, StarterAt, Past
  <2>3. /\ Write(j, NewJob) /\ Goto(j, "created")
        /\ UNCHANGED <<rows, history, req, saved>>
    BY <1>1 DEF Create
  <2> QED
    BY <2>1, <2>2, <2>3, WriteKeepsOInv
<1>2. CASE Begin(j)
  <2>1. mem[j] \in Record /\ pc[j] \in Alive
    BY <1>2 DEF IInv, TypeOK, AliveHasJob, Begin, At, Alive, WorkerAt
  <2>2. /\ WithStatus(mem[j], "running") \in Record
        /\ WithStatus(mem[j], "running").status = "running"
        /\ WithStatus(mem[j], "running").state = "running"
    BY <2>1, WithStatusRecord DEF RefreshStates, ActiveStates, StatusOf
  <2>3. Sound(WithStatus(mem[j], "running"), j)
    BY <2>2, NotASuccess
  <2> QED
    BY <1>2, <2>1, <2>2, <2>3, WriteKeepsOInv
       DEF Begin, Alive, WorkerAt, Past, worker
<1> QED
  BY <1>1, <1>2

(***************************************************************************)
(* The steps that only log, move or raise, in the order of the worker.     *)
(***************************************************************************)
LEMMA LoginKeepsOInv ==
  ASSUME IInv, OInv, NEW j \in Jobs,
         \/ ReportCredentials(j) \/ Spawn(j) \/ Start(j) \/ UseSession(j)
         \/ UseProtocol(j) \/ ProbeEgress(j) \/ SubmitEmail(j) \/ ReadPage(j)
         \/ RefuseSignup(j) \/ ExternalCallRaises(j) \/ SubmitPassword(j)
         \/ PasswordAccepted(j) \/ PageAsksForNothing(j)
         \/ PageAsksForPassword(j) \/ PageAsksForCode(j)
  PROVE  OInv'
<1> USE DEF Alive, StarterAt, WorkerAt, Past
<1>1. CASE Spawn(j) \/ PasswordAccepted(j) \/ PageAsksForNothing(j)
           \/ PageAsksForCode(j)
  BY <1>1, PlainStepKeepsOInv
     DEF Spawn, PasswordAccepted, PageAsksForNothing, PageAsksForCode, worker
<1>2. CASE ReportCredentials(j) \/ Start(j) \/ UseSession(j)
           \/ UseProtocol(j) \/ ProbeEgress(j)
  BY <1>2, SayKeepsOInv
     DEF ReportCredentials, Start, UseSession, UseProtocol, ProbeEgress, worker
<1>3. CASE SubmitEmail(j) \/ ReadPage(j) \/ SubmitPassword(j)
           \/ PageAsksForPassword(j)
  BY <1>3, SayKeepsOInv
     DEF SubmitEmail, ReadPage, SubmitPassword, PageAsksForPassword, worker
<1>4. CASE RefuseSignup(j) \/ ExternalCallRaises(j)
  BY <1>4, PlainStepKeepsOInv DEF RefuseSignup, ExternalCallRaises, Raise
<1> QED
  BY <1>1, <1>2, <1>3, <1>4

LEMMA CodesKeepOInv ==
  ASSUME IInv, OInv, NEW j \in Jobs,
         \/ KickoffOtp(j) \/ WaitForCode(j) \/ UseTypedCode(j)
         \/ NoTypedCode(j) \/ PollSeesCancel(j) \/ PollSeesCode(j)
         \/ PollMailbox(j) \/ FetchMailbox(j) \/ CodeFound(j)
         \/ CodeMissed(j) \/ PollsExhausted(j) \/ ResendCode(j)
         \/ SubmitCode(j) \/ CodeAccepted(j) \/ PhoneRequired(j)
         \/ PhoneChannel(j) \/ PhoneSeesCancel(j) \/ PhoneSeesCode(j)
         \/ PhonePoll(j) \/ PhoneCodeFound(j) \/ PhoneCodeMissed(j)
         \/ SubmitPhoneCode(j)
  PROVE  OInv'
<1> USE DEF Alive, StarterAt, WorkerAt, Past
<1>1. CASE KickoffOtp(j)
  BY <1>1, SayKeepsOInv, PlainStepKeepsOInv DEF KickoffOtp
<1>2. CASE WaitForCode(j) \/ UseTypedCode(j) \/ PollSeesCode(j)
           \/ CodeFound(j)
  BY <1>2, SayKeepsOInv
     DEF WaitForCode, UseTypedCode, PollSeesCode, CodeFound, worker
<1>3. CASE NoTypedCode(j) \/ PollMailbox(j) \/ CodeMissed(j)
           \/ CodeAccepted(j) \/ PhonePoll(j)
  BY <1>3, PlainStepKeepsOInv
     DEF NoTypedCode, PollMailbox, CodeMissed, CodeAccepted, PhonePoll, worker
<1>4. CASE PollSeesCancel(j) \/ PhoneSeesCancel(j)
  BY <1>4, PlainStepKeepsOInv DEF PollSeesCancel, PhoneSeesCancel, Raise
<1>5. CASE FetchMailbox(j)
  BY <1>5, SayKeepsOInv, PlainStepKeepsOInv DEF FetchMailbox, worker
<1>6. CASE PollsExhausted(j) \/ ResendCode(j)
  BY <1>6, SayKeepsOInv DEF PollsExhausted, ResendCode, worker
<1>7. CASE SubmitCode(j) \/ PhoneRequired(j) \/ PhoneSeesCode(j)
           \/ PhoneCodeFound(j) \/ SubmitPhoneCode(j)
  BY <1>7, SayKeepsOInv
     DEF SubmitCode, PhoneRequired, PhoneSeesCode, PhoneCodeFound,
         SubmitPhoneCode, worker
<1>8. CASE PhoneChannel(j)
  BY <1>8, SayKeepsOInv, PlainStepKeepsOInv DEF PhoneChannel
<1>9. CASE PhoneCodeMissed(j)
  BY <1>9, SayKeepsOInv, PlainStepKeepsOInv DEF PhoneCodeMissed
<1> QED
  BY <1>1, <1>2, <1>3, <1>4, <1>5, <1>6, <1>7, <1>8, <1>9

(***************************************************************************)
(* The delivery: the credentials are saved before anything is claimed.     *)
(***************************************************************************)
LEMMA DeliveryKeepsOInv ==
  ASSUME IInv, OInv, NEW j \in Jobs,
         \/ CaptureCallback(j) \/ Convert(j) \/ SaveCredentials(j)
         \/ ReportSaved(j) \/ Deliver(j) \/ Upload(j) \/ ReportFailure(j)
  PROVE  OInv'
<1> USE DEF Alive, StarterAt, WorkerAt, Past
<1>1. CASE CaptureCallback(j) \/ Convert(j) \/ ReportFailure(j)
  BY <1>1, SayKeepsOInv DEF CaptureCallback, Convert, ReportFailure, worker
<1>2. CASE ReportSaved(j) \/ Deliver(j) \/ Upload(j)
  BY <1>2, SayKeepsOInv DEF ReportSaved, Deliver, Upload, worker
<1>3. CASE SaveCredentials(j)
  <2>1. \A k \in Jobs : saved[k] => saved'[k]
    BY <1>3 DEF IInv, TypeOK, SaveCredentials, worker
  <2>2. Backed(j)'
    BY <1>3 DEF IInv, TypeOK, Backed, SaveCredentials
  <2> QED
    BY <1>3, <2>1, <2>2, StepKeepsOInv DEF SaveCredentials
<1> QED
  BY <1>1, <1>2, <1>3

LEMMA EndKeepsOInv ==
  ASSUME IInv, OInv, NEW j \in Jobs, Succeed(j) \/ Fail(j)
  PROVE  OInv'
<1>1. "succeed" \in Alive /\ "fail" \in Alive
  BY DEF Alive, WorkerAt
<1>2. mem[j] \in Record /\ failure[j] \in Errors
  BY <1>1 DEF IInv, TypeOK, AliveHasJob, Succeed, Fail, Finish, At
<1>3. CASE Succeed(j)
  <2> DEFINE job == [WithStatus(mem[j], "success") EXCEPT !.result = TRUE]
  <2>1. /\ job \in Record
        /\ job.state = "success"
        /\ job.status = StatusOf("success")
        /\ job.result
    BY <1>2, StatusIsTyped DEF WithStatus, Record, RefreshStates,
                               TerminalStates
  <2>2. Backed(j)
    BY <1>3 DEF OInv, CredentialsFirst, Past, Succeed, Finish, At
  <2> HIDE DEF job
  <2>3. Finish(j, "succeed", job)
    BY <1>3 DEF Succeed, job
  <2> QED
    BY <1>1, <2>1, <2>2, <2>3, FinishKeepsOInv DEF TerminalStates
<1>4. CASE Fail(j)
  <2> DEFINE end == IF failure[j] = "login_cancelled"
                    THEN "cancelled" ELSE "failed"
             job == [WithStatus(mem[j], end) EXCEPT !.error_code = failure[j]]
  <2>1. end \in {"cancelled", "failed"}
    OBVIOUS
  <2>2. StatusOf(end) = "failed"
    BY <2>1 DEF StatusOf, ActiveStates
  <2>3. /\ job \in Record
        /\ job.state = end
        /\ job.status = "failed"
    BY <1>2, <2>1, <2>2 DEF WithStatus, Record, Statuses, RefreshStates,
                            TerminalStates
  <2>4. Finish(j, "fail", job)
    BY <1>4 DEF Fail
  <2> HIDE DEF end, job
  <2> QED
    BY <1>1, <2>1, <2>2, <2>3, <2>4, FinishKeepsOInv DEF TerminalStates
<1> QED
  BY <1>3, <1>4
-----------------------------------------------------------------------------
(***************************************************************************)
(* Requests: they copy a job with whatever it claims, and change what a    *)
(* finished job claims in no way.                                          *)
(***************************************************************************)
LEMMA CopyKeepsOInv ==
  ASSUME IInv, OInv, NEW r \in Requests, NEW j \in Jobs, NEW job \in Record,
         Sound(job, j), mem[j] # NoJob,
         mem[j].status \in {"success", "failed"} => job.status = mem[j].status,
         mem' = [mem EXCEPT ![j] = job],
         req'[r].snap = job, req'[r].job = j,
         \A o \in Requests \ {r} : req'[o] = req[o],
         UNCHANGED <<rows, history, pc, snap, saved>>
  PROVE  OInv'
<1> USE DEF Backed, Recorded
<1>1. job # NoJob
  BY NoJobAssumption
<1>2. \A k \in Jobs : \A copy : Sound(copy, k) => Sound(copy, k)'
  BY DEF Sound
<1>3. CopiesSound'
  <2>1. \A o \in Requests :
          req[o].pc \in {"persist", "persist_log"} => req[o].job \in Jobs
    BY DEF IInv, RequestHasJob, Busy
  <2>2. \A o \in Requests :
          req'[o].pc \in {"persist", "persist_log"}
            => req'[o].snap # NoJob /\ Sound(req[o].snap, req[o].job)'
    <3> SUFFICES ASSUME NEW o \in Requests,
                        req'[o].pc \in {"persist", "persist_log"}
                 PROVE  req'[o].snap # NoJob
                        /\ Sound(req[o].snap, req[o].job)'
      OBVIOUS
    <3>1. CASE o = r
      BY <1>1, <1>2, <3>1 DEF Sound
    <3>2. CASE o # r
      <4>1. req'[o] = req[o]
        BY <3>2
      <4>2. Sound(req[o].snap, req[o].job)
        BY <4>1 DEF OInv, CopiesSound
      <4> QED
        BY <2>1, <4>1, <4>2 DEF OInv, CopiesSound, Sound
    <3> QED
      BY <3>1, <3>2
  <2>3. \A k \in Jobs :
          /\ mem'[k] # NoJob => Sound(mem[k], k)'
          /\ rows'[k] # NoJob => Sound(rows[k], k)'
          /\ snap'[k] # NoJob => Sound(snap[k], k)'
    BY DEF IInv, TypeOK, OInv, CopiesSound, Sound
  <2> QED
    BY <2>2, <2>3 DEF CopiesSound
<1>4. HistorySound' /\ CredentialsFirst' /\ HistoryIsLast' /\ AbsentIsNew'
  BY DEF OInv, HistorySound, CredentialsFirst, HistoryIsLast, AbsentIsNew
<1>5. DoneIsTerminal' /\ OutcomeIsRecorded'
  BY <1>1 DEF IInv, TypeOK, OInv, DoneIsTerminal, OutcomeIsRecorded
<1> QED
  BY <1>3, <1>4, <1>5 DEF OInv

LEMMA AskKeepsOInv ==
  ASSUME IInv, OInv, NEW r \in Requests, NEW j \in Jobs, NEW kind,
         NEW job \in Record, Sound(job, j),
         mem[j].status \in {"success", "failed"} => job.status = mem[j].status,
         Ask(r, j, kind, job)
  PROVE  OInv'
<1>1. mem[j] # NoJob
  BY DEF Ask
<1>2. /\ mem' = [mem EXCEPT ![j] = job]
      /\ req'[r].snap = job /\ req'[r].job = j
      /\ \A o \in Requests \ {r} : req'[o] = req[o]
      /\ UNCHANGED <<rows, history, pc, snap, saved>>
  BY DEF IInv, TypeOK, Ask, worker
<1> QED
  BY <1>1, <1>2, CopyKeepsOInv

LEMMA RequestKeepsOInv ==
  ASSUME IInv, OInv, NEW r \in Requests, NEW j \in Jobs,
         CancelJob(r, j) \/ TypeEmailCode(r, j) \/ TypePhoneCode(r, j)
  PROVE  OInv'
<1>1. mem[j] \in Record /\ Sound(mem[j], j)
  BY DEF IInv, TypeOK, OInv, CopiesSound, CancelJob, TypeEmailCode,
         TypePhoneCode, Ask
<1>2. CASE CancelJob(r, j)
  <2>1. Cancelled(mem[j]) \in Record /\ Sound(Cancelled(mem[j]), j)
    BY <1>1 DEF Cancelled, Record, Sound, Statuses, RefreshStates,
                TerminalStates, Errors
  <2>2. mem[j].status \in {"success", "failed"}
          => Cancelled(mem[j]).status = mem[j].status
    BY <1>1 DEF Cancelled, Record
  <2> QED
    BY <1>2, <2>1, <2>2, AskKeepsOInv DEF CancelJob
<1>3. CASE TypeEmailCode(r, j)
  <2> DEFINE job == [mem[j] EXCEPT !.email_code = TRUE]
  <2>1. job \in Record /\ Sound(job, j) /\ job.status = mem[j].status
    BY <1>1 DEF Record, Sound
  <2>2. Ask(r, j, "manual_email_code", job)
    BY <1>3 DEF TypeEmailCode
  <2> QED
    BY <2>1, <2>2, AskKeepsOInv
<1>4. CASE TypePhoneCode(r, j)
  <2> DEFINE job == [mem[j] EXCEPT !.phone_code = TRUE]
  <2>1. job \in Record /\ Sound(job, j) /\ job.status = mem[j].status
    BY <1>1 DEF Record, Sound
  <2>2. Ask(r, j, "manual_phone_code", job)
    BY <1>4 DEF TypePhoneCode
  <2> QED
    BY <2>1, <2>2, AskKeepsOInv
<1> QED
  BY <1>2, <1>3, <1>4

LEMMA RequestLogsKeepsOInv ==
  ASSUME IInv, OInv, NEW r \in Requests, RequestLogs(r)
  PROVE  OInv'
<1> DEFINE j == req[r].job
           job == Logged(mem[j], req[r].kind)
<1>1. req[r] \in RequestThread /\ j \in Jobs /\ mem[j] # NoJob
  BY DEF IInv, TypeOK, RequestHasJob, RequestLogs, Busy
<1>2. mem[j] \in Record /\ Sound(mem[j], j)
  BY <1>1 DEF IInv, TypeOK, OInv, CopiesSound
<1>3. job \in Record /\ job.status = mem[j].status /\ Sound(job, j)
  BY <1>1, <1>2, LoggedRecord, LoggedSound
<1>4. /\ mem' = [mem EXCEPT ![j] = job]
      /\ req' = [req EXCEPT ![r].pc = "persist_log", ![r].snap = job]
      /\ UNCHANGED <<rows, history, pc, snap, saved>>
  BY DEF RequestLogs, worker
<1>5. /\ req'[r].snap = job /\ req'[r].job = j
      /\ \A o \in Requests \ {r} : req'[o] = req[o]
  BY <1>1, <1>4 DEF IInv, TypeOK, RequestThread
<1> HIDE DEF job
<1> QED
  BY <1>1, <1>3, <1>4, <1>5, CopyKeepsOInv

LEMMA RequestPersistsKeepsOInv ==
  ASSUME IInv, OInv, NEW r \in Requests, RequestPersists(r)
  PROVE  OInv'
<1> USE DEF Backed, Recorded
<1>1. /\ req[r] \in RequestThread /\ req[r].job \in Jobs
      /\ req[r].snap # NoJob /\ Sound(req[r].snap, req[r].job)
  BY DEF IInv, TypeOK, RequestHasJob, Busy, RequestPersists, OInv, CopiesSound
<1>2. /\ req'[r].pc \notin {"persist", "persist_log"}
      /\ \A o \in Requests \ {r} : req'[o] = req[o]
      /\ UNCHANGED <<mem, history, pc, snap, saved>>
  BY <1>1 DEF IInv, TypeOK, RequestPersists, RequestThread, worker
<1>3. \A k \in Jobs : rows'[k] # NoJob => Sound(rows'[k], k)
  BY <1>1 DEF IInv, TypeOK, RequestPersists, OInv, CopiesSound
<1>4. \A k \in Jobs : \A copy : Sound(copy, k) => Sound(copy, k)'
  BY <1>2 DEF Sound
<1>5. CopiesSound'
  <2>1. \A o \in Requests :
          req[o].pc \in {"persist", "persist_log"} => req[o].job \in Jobs
    BY DEF IInv, RequestHasJob, Busy
  <2> QED
    BY <1>2, <1>3, <1>4, <2>1 DEF OInv, CopiesSound
<1>6. HistorySound' /\ CredentialsFirst' /\ HistoryIsLast' /\ AbsentIsNew'
  BY <1>2 DEF OInv, HistorySound, CredentialsFirst, HistoryIsLast, AbsentIsNew
<1>7. DoneIsTerminal' /\ OutcomeIsRecorded'
  BY <1>2 DEF OInv, DoneIsTerminal, OutcomeIsRecorded
<1> QED
  BY <1>5, <1>6, <1>7 DEF OInv

(***************************************************************************)
(* A restart believes the rows and the history, which are sound.           *)
(***************************************************************************)
LEMMA RestartKeepsOInv ==
  ASSUME IInv, OInv, Restart
  PROVE  OInv'
<1> USE DEF Backed, Recorded
<1>1. UNCHANGED <<rows, history, saved>>
  BY DEF Restart
<1>2. \A k \in Jobs : \A copy : Sound(copy, k) => Sound(copy, k)'
  BY <1>1 DEF Sound
<1>3. \A j \in Jobs : mem'[j] # NoJob => Sound(mem'[j], j)
  <2> SUFFICES ASSUME NEW j \in Jobs, mem'[j] # NoJob
               PROVE  Sound(mem'[j], j)
    OBVIOUS
  <2>1. CASE rows[j] # NoJob
    <3>1. rows[j] \in Record /\ Sound(rows[j], j)
      BY <2>1 DEF IInv, TypeOK, OInv, CopiesSound
    <3>2. mem'[j] = Restored(rows[j])
      BY <2>1 DEF Restart
    <3> QED
      BY <3>1, <3>2, RestoredSound
  <2>2. CASE rows[j] = NoJob /\ history[j] # NoJob
    <3>1. history[j] \in Outcome /\ history[j].state \in TerminalStates
      BY <2>2 DEF IInv, TypeOK, HistoryIsTerminal
    <3>2. mem'[j] = FromHistory(history[j])
      BY <2>2 DEF Restart
    <3> QED
      BY <3>1, <3>2, FromHistorySound DEF OInv
  <2>3. CASE rows[j] = NoJob /\ history[j] = NoJob
    BY <2>3 DEF Restart
  <2> QED
    BY <2>1, <2>2, <2>3
<1>4. CopiesSound'
  <2>1. \A r \in Requests : req'[r].pc \in {"idle", "done"}
    BY DEF Restart, NewRequest
  <2>2. \A j \in Jobs : snap'[j] = NoJob
    BY DEF Restart
  <2> QED
    BY <1>1, <1>2, <1>3, <2>1, <2>2 DEF OInv, CopiesSound
<1>5. \A j \in Jobs : /\ pc'[j] \in {"absent", "gone"}
                      /\ pc'[j] = "absent" => pc[j] = "absent"
  BY DEF Restart
<1>6. HistorySound' /\ AbsentIsNew'
  BY <1>1, <1>5 DEF OInv, HistorySound, AbsentIsNew
<1>7. /\ CredentialsFirst' /\ HistoryIsLast' /\ DoneIsTerminal'
      /\ OutcomeIsRecorded'
  BY <1>5 DEF CredentialsFirst, HistoryIsLast, DoneIsTerminal,
              OutcomeIsRecorded, Past, Alive, StarterAt, WorkerAt
<1> QED
  BY <1>4, <1>6, <1>7 DEF OInv

-----------------------------------------------------------------------------
LEMMA NextKeepsOInv == IInv /\ OInv /\ [Next]_vars => OInv'
<1> SUFFICES ASSUME IInv, OInv, [Next]_vars  PROVE OInv'
  OBVIOUS
<1>1. CASE UNCHANGED vars
  BY <1>1 DEF OInv, CopiesSound, Sound, Backed, Recorded, HistorySound,
              CredentialsFirst, HistoryIsLast, AbsentIsNew, DoneIsTerminal,
              OutcomeIsRecorded, vars
<1>2. ASSUME NEW j \in Jobs, Create(j)  PROVE OInv'
  BY <1>2, BeginningKeepsOInv
<1>3. ASSUME NEW j \in Jobs, OwnThread(j)  PROVE OInv'
  BY <1>3, PersistKeepsOInv, BeginningKeepsOInv, LoginKeepsOInv,
     CodesKeepOInv, DeliveryKeepsOInv, EndKeepsOInv
     DEF OwnThread
<1>4. ASSUME NEW r \in Requests, NEW j \in Jobs,
             CancelJob(r, j) \/ TypeEmailCode(r, j) \/ TypePhoneCode(r, j)
      PROVE  OInv'
  BY <1>4, RequestKeepsOInv
<1>5. ASSUME NEW r \in Requests, RequestPersists(r) \/ RequestLogs(r)
      PROVE  OInv'
  BY <1>5, RequestPersistsKeepsOInv, RequestLogsKeepsOInv
<1>6. CASE Restart
  BY <1>6, RestartKeepsOInv
<1> QED
  BY <1>1, <1>2, <1>3, <1>4, <1>5, <1>6 DEF Next

(***************************************************************************)
(* A job that shows as successful has a result and, unless that very write *)
(* failed, its credentials are saved: also when the success was read back  *)
(* after a crash from a row or from the history (server.py:8509, 7049).    *)
(***************************************************************************)
THEOREM SuccessesAreBacked == Spec => []SuccessIsBacked
<1>1. OInv => SuccessIsBacked
  BY DEF OInv, CopiesSound, Sound, Backed, SuccessIsBacked
<1> QED
  BY <1>1, InitIInv, NextKeepsIInv, InitOInv, NextKeepsOInv, PTL DEF Spec

(***************************************************************************)
(* No row of success without its history entry (server.py:7115, 7123), as  *)
(* long as the history can be written: whichever copy reaches SQLite last. *)
(***************************************************************************)
THEOREM HistoryPrecedesRow == Spec => []HistoryBeforeRow
<1>1. OInv => HistoryBeforeRow
  BY DEF OInv, CopiesSound, Sound, Recorded, HistoryBeforeRow
<1> QED
  BY <1>1, InitIInv, NextKeepsIInv, InitOInv, NextKeepsOInv, PTL DEF Spec

(***************************************************************************)
(* What the history recorded of a job stays what the job shows, whatever   *)
(* cancels and codes arrive after its end (server.py:7146).                *)
(***************************************************************************)
THEOREM OutcomesAreRecorded == Spec => []OutcomeIsRecorded
<1>1. OInv => OutcomeIsRecorded
  BY DEF OInv
<1> QED
  BY <1>1, InitIInv, NextKeepsIInv, InitOInv, NextKeepsOInv, PTL DEF Spec

-----------------------------------------------------------------------------
(***************************************************************************)
(* A cancel at a code poll: a step that moves a job moves it from where it *)
(* was, so only the looks at the job leave a poll, and those look at       *)
(* cancel_requested first.                                                 *)
(***************************************************************************)
LEMMA SayMoves ==
  ASSUME TypeOK, NEW j \in Jobs, NEW k \in Jobs, pc'[j] # pc[j],
         NEW here, NEW step, NEW there, Say(k, here, step, there)
  PROVE  j = k /\ pc[j] = here
BY DEF TypeOK, Say, At, Goto

LEMMA StepMoves ==
  ASSUME TypeOK, NEW j \in Jobs, NEW k \in Jobs, pc'[j] # pc[j],
         NEW here, NEW there, Step(k, here, there)
  PROVE  j = k /\ pc[j] = here
BY DEF TypeOK, Step, At, Goto

LEMMA LooksLeavePolls ==
  ASSUME TypeOK, NEW j \in Jobs, NEW k \in Jobs, OwnThread(k),
         pc[j] \in {"poll", "phone"}, pc'[j] # pc[j], mem[j].cancel
  PROVE  pc'[j] = "raised" /\ failure'[j] = "login_cancelled"
<1>1. CASE \/ ReportCredentials(k) \/ Spawn(k) \/ Start(k) \/ UseSession(k)
           \/ RefuseSignup(k) \/ UseProtocol(k) \/ ProbeEgress(k)
  BY <1>1, SayMoves, StepMoves
     DEF ReportCredentials, Spawn, Start, UseSession, RefuseSignup,
         UseProtocol, ProbeEgress, Raise
<1>2. CASE \/ ExternalCallRaises(k) \/ SubmitEmail(k) \/ ReadPage(k)
           \/ SubmitPassword(k) \/ PasswordAccepted(k)
           \/ PageAsksForNothing(k) \/ PageAsksForPassword(k)
  BY <1>2, SayMoves, StepMoves
     DEF ExternalCallRaises, SubmitEmail, ReadPage, SubmitPassword,
         PasswordAccepted, PageAsksForNothing, PageAsksForPassword, Raise
<1>3. CASE \/ KickoffOtp(k) \/ PageAsksForCode(k) \/ WaitForCode(k)
           \/ UseTypedCode(k) \/ NoTypedCode(k) \/ FetchMailbox(k)
           \/ CodeFound(k) \/ CodeMissed(k)
  BY <1>3, SayMoves, StepMoves
     DEF KickoffOtp, PageAsksForCode, WaitForCode, UseTypedCode, NoTypedCode,
         FetchMailbox, CodeFound, CodeMissed
<1>4. CASE \/ PollsExhausted(k) \/ ResendCode(k) \/ SubmitCode(k)
           \/ CodeAccepted(k) \/ PhoneRequired(k) \/ PhoneChannel(k)
           \/ PhoneCodeFound(k) \/ SubmitPhoneCode(k)
  BY <1>4, SayMoves, StepMoves
     DEF PollsExhausted, ResendCode, SubmitCode, CodeAccepted, PhoneRequired,
         PhoneChannel, PhoneCodeFound, SubmitPhoneCode
<1>5. CASE PhoneCodeMissed(k)
  BY <1>5, SayMoves, StepMoves DEF PhoneCodeMissed
<1>6. CASE \/ CaptureCallback(k) \/ Convert(k) \/ SaveCredentials(k)
           \/ ReportSaved(k) \/ Deliver(k) \/ Upload(k) \/ ReportFailure(k)
  BY <1>6, SayMoves, StepMoves
     DEF CaptureCallback, Convert, SaveCredentials, ReportSaved, Deliver,
         Upload, ReportFailure
<1>7. CASE Persist(k) \/ Begin(k) \/ Succeed(k) \/ Fail(k)
  BY <1>7 DEF TypeOK, Persist, Begin, Succeed, Fail, Finish, Return, At, Goto
<1>8. CASE PollSeesCode(k) \/ PollMailbox(k) \/ PhoneSeesCode(k) \/ PhonePoll(k)
  BY <1>8, SayMoves, StepMoves
     DEF PollSeesCode, PollMailbox, PhoneSeesCode, PhonePoll
<1>9. CASE PollSeesCancel(k) \/ PhoneSeesCancel(k)
  <2>1. j = k
    BY <1>9, SayMoves, StepMoves DEF PollSeesCancel, PhoneSeesCancel, Raise
  <2> QED
    BY <1>9, <2>1 DEF TypeOK, PollSeesCancel, PhoneSeesCancel, Raise, Step,
                      Goto
<1> QED
  BY <1>1, <1>2, <1>3, <1>4, <1>5, <1>6, <1>7, <1>8, <1>9 DEF OwnThread

(***************************************************************************)
(* A worker that looks for a code after a cancel gives up with the cancel  *)
(* (server.py:7281, 7282), whichever request came first.                   *)
(***************************************************************************)
THEOREM CancelsStopPolling == Spec => CancelStopsPolling
<1> DEFINE GivesUp(j) ==
             /\ pc[j] \in {"poll", "phone"} /\ pc'[j] # pc[j]
             /\ mem[j].cancel
             => \/ pc'[j] = "raised" /\ failure'[j] = "login_cancelled"
                \/ pc'[j] = "gone"
<1>1. TypeOK /\ [Next]_vars => \A j \in Jobs : GivesUp(j)
  <2> SUFFICES ASSUME TypeOK, [Next]_vars, NEW j \in Jobs,
                      pc[j] \in {"poll", "phone"}, pc'[j] # pc[j],
                      mem[j].cancel
               PROVE  \/ pc'[j] = "raised" /\ failure'[j] = "login_cancelled"
                      \/ pc'[j] = "gone"
    OBVIOUS
  <2>1. CASE \E k \in Jobs : OwnThread(k)
    BY <2>1, LooksLeavePolls
  <2>2. CASE \E k \in Jobs : Create(k)
    BY <2>2 DEF TypeOK, Create, Goto
  <2>3. CASE Restart
    BY <2>3 DEF Restart
  <2>4. ASSUME NEW r \in Requests, NEW k \in Jobs,
               CancelJob(r, k) \/ TypeEmailCode(r, k) \/ TypePhoneCode(r, k)
        PROVE  FALSE
    BY <2>4 DEF CancelJob, TypeEmailCode, TypePhoneCode, Ask
  <2>5. ASSUME NEW r \in Requests, RequestPersists(r) \/ RequestLogs(r)
        PROVE  FALSE
    BY <2>5 DEF RequestPersists, RequestLogs
  <2>6. CASE UNCHANGED vars
    BY <2>6 DEF vars
  <2> QED
    BY <2>1, <2>2, <2>3, <2>4, <2>5, <2>6 DEF Next
<1> QED
  BY <1>1, TypeCorrect, PTL DEF Spec, CancelStopsPolling
=============================================================================
