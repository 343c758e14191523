---------------------------- MODULE RefreshState ----------------------------
(***************************************************************************)
(* The vocabulary of refresh_state_machine.py: the states a credential     *)
(* refresh goes through, the coarse status each one is shown as, the state *)
(* a log line's step implies, and the normalisation of foreign spellings.  *)
(* Pure definitions: the modules about login jobs are built on them.       *)
(***************************************************************************)

ActiveStates == {"running", "checking_mail", "checking_proxy",
                 "establishing_session", "waiting_code", "submitting_code",
                 "building_auth", "syncing_cpa", "persisting"}

TerminalStates == {"success", "failed", "cancelled"}

RefreshStates == {"pending", "queued"} \cup ActiveStates \cup TerminalStates

Statuses == {"queued", "running", "success", "failed"}

StatusOf(state) ==
  IF state \in ActiveStates THEN "running"
  ELSE IF state = "success" THEN "success"
  ELSE IF state \in {"failed", "cancelled"} THEN "failed"
  ELSE "queued"

(***************************************************************************)
(* STEP_STATE, inverted: the steps that stand for each state.              *)
(***************************************************************************)
StepsOf == [
  running              |-> {"start"},
  checking_mail        |-> {"mail_credentials"},
  checking_proxy       |-> {"proxy", "proxy_check", "egress"},
  establishing_session |-> {"browser_queue", "prepare", "auth_session",
                            "sentinel", "submit_email", "strategy",
                            "identifier", "password", "login_ready",
                            "login_loading", "security_check",
                            "signup_start", "email_input",
                            "password_input"},
  waiting_code         |-> {"send_code", "waiting_code", "waiting_email",
                            "mail_code_poll", "mail_code_missing",
                            "manual_email_code", "phone_otp",
                            "phone_code"},
  submitting_code      |-> {"submit_code", "verify_code",
                            "email_verified"},
  building_auth        |-> {"oauth_callback", "token_exchange", "oauth",
                            "session", "fetch_session", "convert"},
  syncing_cpa          |-> {"upload", "uploading"},
  persisting           |-> {"persist_success", "persist_failed"},
  success              |-> {"done", "success"},
  failed               |-> {"failed"},
  cancelled            |-> {"cancel"}]

(***************************************************************************)
(* A log line moves the job to the state of its step, unless the step is   *)
(* unknown or stands for a terminal state.                                 *)
(***************************************************************************)
StateAfterStep(step, state) ==
  IF \E s \in ActiveStates : step \in StepsOf[s]
  THEN CHOOSE s \in ActiveStates : step \in StepsOf[s]
  ELSE state
(***************************************************************************)
(* STATE_ALIASES, inverted, and normalize_refresh_state: an unknown text   *)
(* becomes the fallback's state, and "pending" when the fallback is no     *)
(* better.  None stands for the empty text.                                *)
(***************************************************************************)
CONSTANT None

AliasesOf == [
  pending              |-> {"idle", "wait", "waiting"},
  queued               |-> {"start"},
  running              |-> {"started", "in_progress"},
  checking_mail        |-> {"mail", "mail_check", "mail_credentials"},
  checking_proxy       |-> {"proxy", "proxy_check"},
  establishing_session |-> {"auth", "auth_session", "oauth"},
  waiting_code         |-> {"code", "wait_code", "email_code",
                            "phone_code"},
  submitting_code      |-> {"submit", "submit_code"},
  building_auth        |-> {"callback", "token", "convert"},
  syncing_cpa          |-> {"cpa", "upload"},
  persisting           |-> {"persist", "saved"},
  success              |-> {"done", "ok"},
  failed               |-> {"error"},
  cancelled            |-> {"cancel", "canceled", "login_cancelled"}]

Canonical(text) ==
  IF \E s \in RefreshStates : text \in AliasesOf[s]
  THEN CHOOSE s \in RefreshStates : text \in AliasesOf[s]
  ELSE text

NormalizeState(text, fallback) ==
  LET Known(t) == t # None /\ Canonical(t) \in RefreshStates IN
  IF Known(text) THEN Canonical(text)
  ELSE IF fallback # text /\ Known(fallback) THEN Canonical(fallback)
  ELSE "pending"
=============================================================================
