---------------------------- MODULE MCRefreshQueue ----------------------------
(***************************************************************************)
(* A small instance of RefreshRunner, and the statements of RefreshQueue   *)
(* and MailboxLists: for two emails, one of them with two mailboxes of     *)
(* different kinds, and for queues and lists of up to two entries.         *)
(***************************************************************************)
EXTENDS MCRefreshRunner, MailboxLists

MCMailboxes ==
  {[id |-> id, email |-> IF id = "c" THEN "y" ELSE "x",
    source |-> IF id = "a" THEN "microsoft" ELSE "temp", category |-> Null,
    text |-> Null,
    verify |-> check, last |-> "idle", fault |-> Null, auth |-> auth] :
   id \in MailboxIds, check \in {"ok", "error", Null}, auth \in {Null, "file"}}

MCPlain == {a \in MCMailboxes : a.auth = Null}

\* Rows of an earlier version lack the kind and perhaps the status.
MCRow(kind, email, status, error, job, auth) ==
  [kind |-> kind, source |-> IF kind = "cpa" THEN "cpa" ELSE "temp",
   email |-> email, cpa |-> IF kind = "cpa" THEN "n" ELSE Null,
   id |-> IF email = "x" THEN "a" ELSE "c", status |-> status,
   error |-> error, job |-> job, log |-> {error} \ {Null}, auth |-> auth]

MCRows ==
  {MCRow(kind, email, s[1], s[2], s[3], auth) :
    kind \in {"local", "cpa", Null}, email \in Emails, auth \in {Null, "file"},
    s \in {<<Null, Null, Null>>, <<"running", Null, "j">>,
           <<"failed", "old", Null>>, <<"failed", "phone", "j">>,
           <<"failed", "code", "j">>, <<"success", Null, "j">>}}

MCLocal == {r \in MCRows : r.kind = "local" /\ r.auth = Null}
MCShort == {<<>>} \cup {<<r>> : r \in MCRows}
MCQueues == MCShort \cup {<<r, s>> : r, s \in MCLocal}
MCLists ==
  {<<>>} \cup {<<a>> : a \in MCMailboxes} \cup {<<a, b>> : a, b \in MCPlain}
MCResults ==
  {[email |-> e, ok |-> ok, code |-> ok, fault |-> "phone",
    text |-> "phone"] :
    e \in Emails, ok \in BOOLEAN}
MCAnswers == [MailboxIds -> {<<>>} \cup {<<r>> : r \in MCResults}]

MCFilters ==
  {[source |-> s, state |-> t, category |-> "all", activity |-> c,
    matches |-> m] :
   s \in {"all", "temp", "error"}, t \in {"all", "needs_code"},
   c \in {"all", "active"}, m \in {{"x"}, {"x", "y"}}}
MCSourceFilters ==
  {f \in MCFilters : f.activity = "all" /\ f.source # "error"}
MCPairs ==
  {<<a, b>> : a, b \in {m \in MCPlain : m.id # "b" /\ m.verify # "ok"}}

ASSUME RowsAreMerged ==
  /\ PagesAgree(MCMailboxes)
  /\ RowsStayDistinct(MCQueues, MCMailboxes)
  /\ ProgressIsKept(MCQueues, MCMailboxes)
  /\ SelectionsAreMerged(MCShort, MCLists)
ASSUME RowsAreLoaded == NormalizedRowStays(MCRows) /\ BuiltRowStays(MCMailboxes)
ASSUME ChecksDecide ==
  /\ GateFollowsCheck(MCMailboxes, MCResults)
  /\ VerificationIsOwn(MCLists, {{"a", "b"}, {"a", "c"}, {"a"}}, MCAnswers)
  /\ OnlyVerifiedAreAdded({<<>>} \cup {<<r>> : r \in MCLocal}, MCLists,
                          {{"a", "b"}, {"a", "c"}, {"a"}})
ASSUME ListsAreShown ==
  /\ AddingShowsNothingElse(MCMailboxes, MCQueues, {{}, {"x"}})
  /\ SourceKeyIsEnough(MCPairs, MCSourceFilters, {<<r>> : r \in MCLocal},
                       {{}, {"x"}})
  /\ SignatureIsEnough(MCLists, MCFilters, [Emails -> {"active", "idle"}])
ASSUME SelectionsAreKept == SelectionFollows(MCLists)
=============================================================================
