--------------------------- MODULE MailCredentials ---------------------------
(***************************************************************************)
(* The credentials that mail is read with: what a page takes over from the *)
(* server's list of mailboxes, what it sends when mail is fetched, when    *)
(* mailboxes are verified and when a login starts, and how the server      *)
(* fills it up with the credentials it has stored                          *)
(* (MailboxWorkspaceService.hydrate_payload_with_workspace_mail_           *)
(* credentials, MailFetchService.prepare_request).                         *)
(*                                                                         *)
(* A list of mailboxes is a set of records, one of each source and         *)
(* address; the workspace's other addresses have no part in what happens   *)
(* to one, so that the lists here are those of one address.                *)
(***************************************************************************)
EXTENDS MailboxRecords

CONSTANTS
  TempApi,         \* the inputs of the page for the temporary mailboxes'
  SitePassword,    \* worker: its address and its password
  TempDomains      \* isTempMailboxEmail

ASSUME InputsAssumption == {TempApi, SitePassword} \subseteq Fields

Holdings(accounts) ==
  {list \in SUBSET accounts :
     \A a, b \in list : a.email = b.email /\ (a.source = b.source => a = b)}

-----------------------------------------------------------------------------
(***************************************************************************)
(* A mailbox of the server's list, as the pages take it over: the manager  *)
(* normalises it, the refresh page does not.                               *)
(***************************************************************************)
GenericAccountPayload(a) ==
  [Blank("generic", a.email) EXCEPT !.password = a.password,
     !.username = a.username, !.mode = ModeOf[a.mode],
     !.imap_host = Or(a.imap_host, a.base_url),
     !.imap_port = Or(a.imap_port, "993"), !.pop3_host = a.pop3_host,
     !.pop3_port = Or(a.pop3_port, "995")]

ServerRow(item) ==
  IF item.source = "generic"
  THEN [GenericAccountPayload(item) EXCEPT !.category = item.category]
  ELSE IF item.source = "temp"
  THEN TempRow(item.email, item.jwt, item.base_url, item.site_password,
               item.category)
  ELSE MicrosoftRow(item.email, item.password, item.client_id,
                    item.refresh_token, item.category)

NormalizeServerMailbox(page, item) ==
  LET row == ServerRow(item)
  IN IF page = "mailboxes" \/ (page = "client" /\ row.source = "generic")
     THEN NormalizeStoredAccount(row)
     ELSE IF page = "client"
     THEN [row EXCEPT !.base_url = WorkerUrl[row.base_url]] ELSE row

(***************************************************************************)
(* It is merged into the record that the page has of the mailbox.  The     *)
(* manager takes the address of the worker as it comes.                    *)
(***************************************************************************)
MergeServerRow(page, row, existing) ==
  NormalizeStoredAccount(
    [row EXCEPT
      !.password = PreferReal(@, existing.password),
      !.client_id = PreferReal(@, existing.client_id),
      !.refresh_token = PreferReal(@, existing.refresh_token),
      !.jwt = PreferReal(@, existing.jwt),
      !.site_password = PreferReal(@, existing.site_password),
      !.username = Or(@, existing.username),
      !.imap_host = Or(@, existing.imap_host),
      !.pop3_host = Or(@, existing.pop3_host),
      !.base_url = IF page = "mailboxes" THEN @ ELSE Or(@, existing.base_url),
      !.category = Or(@, existing.category)])

-----------------------------------------------------------------------------
(***************************************************************************)
(* What a page sends of a mailbox; its category is of no use here.         *)
(***************************************************************************)
TempSitePassword(a) == Or(a.site_password, SitePassword)

Sent(page, a) ==
  IF a.source = "generic" THEN GenericAccountPayload(a)
  ELSE IF a.source = "temp"
  THEN TempRow(a.email, a.jwt,
         IF page = "client" THEN WorkerUrl[Or(a.base_url, TempApi)]
         ELSE a.base_url, TempSitePassword(a), "")
  ELSE MicrosoftRow(a.email, a.password, a.client_id, a.refresh_token, "")

\* usable_secret, for what a mailbox of each source cannot be read without
HasSecrets(a) ==
  CASE a.source = "microsoft" -> IsReal(a.client_id) /\ IsReal(a.refresh_token)
    [] a.source = "temp" -> IsReal(a.jwt)
    [] OTHER -> IsReal(a.password)

IsUsable(a) ==
  HasSecrets(a) /\ (a.source = "temp" => a.site_password \notin Masked)

\* Fetching from the mail page leaves out what is not usable.
ClientPayloadForSync(list, source) ==
  {i \in {Sent("client", a) :
             a \in {b \in list : source \in {"all", b.source}}} :
     IsUsable(i)}

\* The manager and the refresh page verify one mailbox at a time.
MailboxFetchPayload(page, a) == {Sent(page, a)}

\* A login sends whatever the page has of the address.
LoginPayload(list) == {Sent("refresh", a) : a \in list}

-----------------------------------------------------------------------------
(***************************************************************************)
(* The server: what it has stored replaces or completes what was sent      *)
(* without the secrets, of every source; then the mailboxes of the source  *)
(* asked for that have their secrets are read.                             *)
(***************************************************************************)
Hydrated(items, stored) ==
  LET taken == {s \in stored :
                  HasSecrets(s)
                    /\ \A i \in items : i.source = s.source => ~HasSecrets(i)}
  IN {i \in items : \A s \in taken : s.source # i.source} \cup taken

Jobs(items, source) ==
  {i \in items : HasSecrets(i) /\ source \in {"all", i.source}}

SyncJobs(list, stored, source) ==
  Jobs(Hydrated(ClientPayloadForSync(list, source), stored), source)

VerifyJobs(page, a, stored) ==
  Jobs(Hydrated(MailboxFetchPayload(page, a), stored), a.source)

LoginMailboxes(list, stored) ==
  Jobs(Hydrated(LoginPayload(list), stored), "all")

-----------------------------------------------------------------------------
(***************************************************************************)
(* The refresh page asks the worker for the JWTs of the queue's addresses  *)
(* that have no mailbox.                                                   *)
(***************************************************************************)
CredentialSourceForRow(email, list) ==
  LET kinds == {a.source : a \in {b \in list : b.email = email}}
  IN IF "microsoft" \in kinds THEN "microsoft"
     ELSE IF "temp" \in kinds THEN "temp"
     ELSE IF "generic" \in kinds THEN "generic" ELSE ""

TempEmailsNeedingCredentials(emails, list) ==
  {e \in emails \cap TempDomains : CredentialSourceForRow(e, list) = ""}

\* jwts: of the addresses that the worker knows
MergeTempJwtResults(jwts, list) ==
  LET New(e) == TempRow(e, jwts[e], TempApi, SitePassword, "")
      Row(e) == NormalizeServerMailbox("refresh", New(e))
      Known(e) == {a \in list : a.source = "temp" /\ a.email = e}
  IN {NormalizeStoredAccount(a) :
        a \in {b \in list : b.source # "temp" \/ b.email \notin DOMAIN jwts}}
     \cup UNION {IF Known(e) = {} THEN {NormalizeStoredAccount(Row(e))}
                 ELSE {MergeServerRow("refresh", Row(e), a) : a \in Known(e)} :
                   e \in DOMAIN jwts}

-----------------------------------------------------------------------------
(***************************************************************************)
(* Merging the server's list, whose secrets are masked, into the list of a *)
(* page takes no real secret of a mailbox away, nor the hosts of its mail  *)
(* (a temporary mailbox with the category of an old Microsoft line aside). *)
(***************************************************************************)
ServerRowsKeepSecrets(accounts) ==
  \A page \in Readers, a, s \in accounts :
    LET m == MergeServerRow(page, NormalizeServerMailbox(page, s), a)
    IN /\ NormalizeStoredAccount(a) = a
       /\ s.source = a.source /\ {s.category, a.category} \cap ClientIds = {}
       => /\ m.source = a.source
          /\ a.source = "microsoft" =>
               /\ IsReal(a.client_id) => IsReal(m.client_id)
               /\ IsReal(a.refresh_token) => IsReal(m.refresh_token)
          /\ a.source = "temp" =>
               /\ IsReal(a.jwt) => IsReal(m.jwt)
               /\ IsReal(a.site_password) => IsReal(m.site_password)
          /\ a.source = "generic" =>
               /\ IsReal(a.password) => IsReal(m.password)
               /\ a.imap_host # "" => m.imap_host # ""
               /\ a.pop3_host # "" => m.pop3_host # ""

(***************************************************************************)
(* Whatever of a mailbox was sent and is stored, mail is read once for     *)
(* each source, with what was sent if it has its secrets, otherwise with   *)
(* what is stored, and never with a part of each.                          *)
(***************************************************************************)
Whole(items, stored, source, jobs) ==
  /\ jobs \subseteq items \cup stored
  /\ \A i, j \in jobs : i.source = j.source => i = j
  /\ \A i \in items \cup stored :
       HasSecrets(i) /\ source \in {"all", i.source}
         => \E j \in jobs : j.source = i.source /\ (i \in items => j = i)

CredentialsAreWhole(accounts) ==
  \A list, stored \in Holdings(accounts), source \in Sources \cup {"all"} :
    /\ Whole(ClientPayloadForSync(list, source), stored, source,
             SyncJobs(list, stored, source))
    /\ Whole(LoginPayload(list), stored, "all", LoginMailboxes(list, stored))
    /\ \A page \in Readers, a \in list :
         Whole(MailboxFetchPayload(page, a), stored, a.source,
               VerifyJobs(page, a, stored))

(***************************************************************************)
(* No masked secret is sent to a provider: the mail page and the server    *)
(* hold it back; of the site password only the mail page does, so that     *)
(* verifying needs one of the page that is not masked.                     *)
(***************************************************************************)
MaskedIsHeldBack(accounts) ==
  \A list, stored \in Holdings(accounts), source \in Sources \cup {"all"} :
    (\A s \in stored : HasSecrets(s) => IsUsable(s)) =>
      /\ \A j \in SyncJobs(list, stored, source) : IsUsable(j)
      /\ \A page \in Readers, a \in list :
           TempSitePassword(a) \notin Masked =>
             \A j \in VerifyJobs(page, a, stored) : IsUsable(j)

(***************************************************************************)
(* An address of the queue whose JWT the worker has sent needs no other,   *)
(* and the other mailboxes of the list stay as they are.                   *)
(***************************************************************************)
JwtsAreGiven(lists, emails) ==
  \A list \in lists, known \in SUBSET emails :
    \A jwts \in [known \cap TempEmailsNeedingCredentials(emails, list)
                 -> Fields \ {""}] :
      (\A a \in list : NormalizeStoredAccount(a) = a) =>
        /\ TempEmailsNeedingCredentials(emails, MergeTempJwtResults(jwts, list))
             = TempEmailsNeedingCredentials(emails, list) \ known
        /\ list \subseteq MergeTempJwtResults(jwts, list)

=============================================================================
