--------------------------- MODULE MCMailboxRecords ---------------------------
(***************************************************************************)
(* A small instance of MailboxPages, and the statements of MailboxRecords  *)
(* for a field of each class: text, a secret and its mask, a worker        *)
(* address, a JWT, a client id, a refresh token, one that ends with -.     *)
(***************************************************************************)
EXTENDS MCMailboxPages, MailCredentials

MCAddresses == {"a@b"}
MCUrls == {"host", "https://host"}
MCJwts == {"jwt", "***.jwt"}
MCClientIds == {"client"}
MCTokens == {"token", "token-"}
MCLong == {"token", "token-"}
MCDigits == {"993", "995"}
MCMasked == {"***.jwt"}
MCDashed == {"token-"}
MCLegacy == {"text"}
MCFields ==
  Names \cup MCAddresses \cup MCUrls \cup MCJwts \cup MCClientIds
    \cup MCTokens \cup MCLegacy
MCCut == [f \in MCFields |-> "text"]
MCDash == [f \in MCFields |-> "text"]
MCModeOf == [f \in MCFields |-> IF f \in Modes THEN f ELSE "auto"]
MCWorkerUrl ==
  [f \in MCFields |-> IF f = "host" THEN "https://host" ELSE f]

\* Records of each kind, with what tells the cases apart.
MCRecords ==
  {[Blank(source, "a@b") EXCEPT !.password = p, !.client_id = c,
      !.refresh_token = r, !.jwt = j, !.site_password = s, !.category = k] :
    source \in Sources, p \in {"", "jwt"}, c \in {"", "client"},
    r \in {"", "token"}, j \in {"", "jwt", "***.jwt"}, s \in {"", "token"},
    k \in {"", "client", "text"}}

MCTempApi == "host"
MCSitePassword == "text"
MCTempDomains == {"a@b"}

\* Of each source one with its secrets, one whose secrets are masked, one
\* without; and a temporary one of which only the site password is masked.
MCMailboxes ==
  UNION {{[MicrosoftRow("a@b", "text", f, f, "") EXCEPT !.client_id = id],
          TempRow("a@b", jwt, "host", site, ""),
          GenericRow("a@b", f, "", "auto", "host", "", "")} :
    f \in {"token", "***.jwt", ""}, id \in {"client"},
    jwt \in {"jwt", "***.jwt", ""}, site \in {"", "***.jwt"}}

MCNormalized == {NormalizeStoredAccount(a) : a \in MCMailboxes}

ASSUME RecordsAreKept ==
  NormalizedStays(MCRecords) /\ MergeKeepsSecrets(MCRecords)
ASSUME LinesAreRead ==
  /\ MicrosoftLineIsRead(MCFields) /\ TempLineIsRead(MCFields)
  /\ PickupLineIsRead({"", "text", "host", "token", "imap"})
  /\ CopiedLineIsRead({"", "text", "host", "token", "imap"})
ASSUME CredentialsAreSent ==
  /\ ServerRowsKeepSecrets(MCRecords)
  /\ CredentialsAreWhole(MCMailboxes) /\ MaskedIsHeldBack(MCMailboxes)
  /\ JwtsAreGiven(Holdings(MCNormalized), MCAddresses)
ASSUME ObjectsAreRead == ObjectIsRead({"", "text", "host", "jwt", "token"})
=============================================================================
