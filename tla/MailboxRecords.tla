---------------------------- MODULE MailboxRecords ----------------------------
(***************************************************************************)
(* The record of a mailbox on the pages: how a page normalises it, merges  *)
(* two of them, copies one as a line of text and reads a line or an object *)
(* that is imported (static/shared/mailbox-account-model.js, the copy      *)
(* functions of the pages, static/shared/mailbox-import.js).               *)
(*                                                                         *)
(* A field is a value of which one knows the classes that the regular      *)
(* expressions of the code tell apart.                                     *)
(***************************************************************************)
EXTENDS Naturals, Sequences

CONSTANTS
  Fields,        \* the values of a field, "" and the names of the modes too
  Addresses,     \* those with an @
  Urls,          \* looksLikeUrl
  Jwts,          \* looksLikeJwt
  ClientIds,     \* looksLikeMicrosoftClientId
  Tokens,        \* looksLikeMicrosoftRefreshToken
  Long,          \* more than 20 characters
  Digits,        \* digits only
  Masked,        \* isMaskedSecret
  Dashed,        \* those that end with -
  Cut, Dash,     \* a field without its last -, with a - before it
  ModeOf,        \* normalizeGenericMode
  WorkerUrl,     \* normalizeTempWorkerUrl
  Legacy,        \* names that are no category any more
  NoRow

Api == {"cloudmail", "luckmail", "inbucket"}
Modes == Api \cup {"auto", "imap", "pop3"}
Names == Modes \cup {"", "993", "995"}

ASSUME FieldsAssumption ==
  /\ Names \subseteq Fields
  /\ \A c \in {Addresses, Jwts, ClientIds, Tokens, Digits} : c \subseteq Fields
  /\ {"993", "995"} \subseteq Digits
  /\ \A c \in {Urls, Jwts, ClientIds, Tokens, Long, Masked, Dashed} :
       c \cap Names = {}
  /\ Digits \cap (Modes \cup {""}) = {}

ASSUME ModesAssumption ==
  /\ ModeOf \in [Fields -> Modes]
  /\ \A m \in Modes : ModeOf[m] = m
  /\ \A f \in {"", "993", "995"} : ModeOf[f] = "auto"

ASSUME UrlsAssumption ==
  /\ WorkerUrl \in [Fields -> Fields]
  /\ WorkerUrl[""] = ""
  /\ \A f \in Fields : WorkerUrl[WorkerUrl[f]] = WorkerUrl[f]

Sources == {"microsoft", "temp", "generic"}
Readers == {"mailboxes", "client", "refresh"}

Account ==
  [source : Sources, email : Addresses, password : Fields, client_id : Fields,
   refresh_token : Fields, jwt : Fields, base_url : Fields,
   site_password : Fields, username : Fields, mode : Modes,
   imap_host : Fields, imap_port : Fields, pop3_host : Fields,
   pop3_port : Fields, category : Fields, time : Nat]

Or(f, g) == IF f # "" THEN f ELSE g

-----------------------------------------------------------------------------
(***************************************************************************)
(* The three kinds of record.                                              *)
(***************************************************************************)
Blank(source, email) ==
  [source |-> source, email |-> email, password |-> "", client_id |-> "",
   refresh_token |-> "", jwt |-> "", base_url |-> "", site_password |-> "",
   username |-> "", mode |-> "auto", imap_host |-> "", imap_port |-> "993",
   pop3_host |-> "", pop3_port |-> "995", category |-> "", time |-> 0]

MicrosoftRow(email, password, id, token, category) ==
  [Blank("microsoft", email) EXCEPT !.password = password, !.client_id = id,
     !.refresh_token = token, !.category = category]

TempRow(email, jwt, url, site, category) ==
  [Blank("temp", email) EXCEPT !.jwt = jwt, !.base_url = url,
     !.site_password = site, !.category = category]

\* port: "" where the line has none
GenericRow(email, password, username, mode, host, port, category) ==
  [Blank("generic", email) EXCEPT !.password = password,
     !.username = username, !.mode = mode,
     !.imap_host = IF mode = "pop3" THEN "" ELSE host,
     !.imap_port = Or(port, "993"),
     !.pop3_host = IF mode = "pop3" THEN host ELSE "",
     !.pop3_port = Or(port, "995"), !.category = category]

HostOf(a) == IF a.mode = "pop3" THEN a.pop3_host ELSE a.imap_host
PortOf(a) == IF a.mode = "pop3" THEN a.pop3_port ELSE a.imap_port

-----------------------------------------------------------------------------
(***************************************************************************)
(* normalizeStoredAccount.  A temporary mailbox whose category and site    *)
(* password are a client id and a refresh token was a Microsoft line once. *)
(***************************************************************************)
CategoryOf(f) == IF f \in Legacy THEN "" ELSE f

IsLegacyMicrosoft(a) ==
  a.source = "temp" /\ a.category \in ClientIds /\ a.site_password \in Tokens

HasOAuth(a) == a.client_id # "" /\ a.refresh_token # ""

NormalizeStoredAccount(a) ==
  IF a.source = "generic"
  THEN [a EXCEPT !.client_id = "", !.refresh_token = "", !.jwt = "",
          !.site_password = "", !.mode = ModeOf[a.mode],
          !.imap_host = Or(a.imap_host, a.base_url),
          !.imap_port = Or(a.imap_port, "993"),
          !.pop3_port = Or(a.pop3_port, "995")]
  ELSE IF IsLegacyMicrosoft(a)
  THEN [a EXCEPT !.source = "microsoft",
          !.password = Or(a.password, a.jwt),
          !.client_id = Or(a.client_id, a.category),
          !.refresh_token = Or(a.refresh_token, a.site_password),
          !.jwt = "", !.site_password = "", !.category = ""]
  ELSE IF a.source = "microsoft" \/ HasOAuth(a)
  THEN [a EXCEPT !.source = "microsoft", !.category = CategoryOf(a.category)]
  ELSE [a EXCEPT !.password = "", !.client_id = "", !.refresh_token = "",
          !.jwt = IF a.jwt # "" THEN a.jwt
                  ELSE IF a.password \in Jwts THEN a.password ELSE "",
          !.base_url = WorkerUrl[a.base_url],
          !.category = CategoryOf(a.category)]

(***************************************************************************)
(* mergeAccountRecords: the more complete record, and of two alike the one *)
(* of the better source or the newer one, filled up with the other.        *)
(***************************************************************************)
PreferReal(next, current) ==
  IF next = "" THEN current
  ELSE IF next \in Masked /\ current # "" /\ current \notin Masked
  THEN current ELSE next

Score(a) ==
  LET Has(f) == IF f # "" THEN 1 ELSE 0
  IN Has(a.password) + Has(a.client_id) + Has(a.refresh_token) + Has(a.jwt)
     + Has(a.site_password) + Has(a.imap_host) + Has(a.pop3_host)
     + Has(a.base_url) + Has(a.username)

Priority(a) ==
  IF a.source = "microsoft" THEN 3 ELSE IF a.source = "temp" THEN 2 ELSE 1

IsBetter(incoming, current) ==
  \/ Score(incoming) > Score(current)
  \/ /\ Score(incoming) = Score(current)
     /\ \/ Priority(incoming) > Priority(current)
        \/ incoming.time >= current.time

FillUp(base, other) ==
  [base EXCEPT
    !.password = PreferReal(@, other.password),
    !.client_id = PreferReal(@, other.client_id),
    !.refresh_token = PreferReal(@, other.refresh_token),
    !.jwt = PreferReal(@, other.jwt),
    !.site_password = PreferReal(@, other.site_password),
    !.username = Or(@, other.username),
    !.imap_host = Or(@, other.imap_host),
    !.imap_port = Or(@, other.imap_port),
    !.pop3_host = Or(@, other.pop3_host),
    !.pop3_port = Or(@, other.pop3_port),
    !.base_url = Or(@, other.base_url),
    !.category = Or(@, other.category)]

MergeAccountRecords(current, incoming) ==
  IF IsBetter(incoming, current) THEN FillUp(incoming, current)
  ELSE FillUp(current, incoming)

-----------------------------------------------------------------------------
(***************************************************************************)
(* Lines.  The parts are joined with ---- and split at the first ---- that *)
(* is found: a part that ends with - loses it to the part after it.        *)
(***************************************************************************)
Split(parts) ==
  [i \in 1..Len(parts) |->
    LET part == IF i > 1 /\ parts[i - 1] \in Dashed THEN Dash[parts[i]]
                ELSE parts[i]
    IN IF i < Len(parts) /\ part \in Dashed THEN Cut[part] ELSE part]

Part(parts, i) == IF i <= Len(parts) THEN parts[i] ELSE ""

MailboxCopyLine(a) ==
  IF a.source = "temp"
  THEN <<a.email, a.jwt, a.base_url, a.site_password, a.category>>
  ELSE IF a.source = "generic"
  THEN <<a.email, a.password, HostOf(a), PortOf(a), a.mode, a.category>>
  ELSE <<a.email, a.password, a.client_id, a.refresh_token, a.category>>

PickupGenericLine(a) ==
  IF a.mode \in Api
  THEN IF a.mode = "luckmail" /\ a.username # ""
       THEN <<a.email, a.password, a.mode, "", a.username, a.category>>
       ELSE <<a.email, a.password, a.mode, "", a.category>>
  ELSE IF HostOf(a) # ""
  THEN <<a.email, a.password, HostOf(a),
         IF a.mode # "auto" THEN a.mode ELSE PortOf(a), a.category>>
  ELSE IF a.category # "" THEN <<a.email, a.password, "", "", a.category>>
  ELSE <<a.email, a.password>>

PickupMailboxCopyLine(a) ==
  IF a.source = "generic" THEN PickupGenericLine(a) ELSE MailboxCopyLine(a)

(***************************************************************************)
(* The kind of a line: the one selected, or a guess.                       *)
(***************************************************************************)
LooksMicrosoft(parts) ==
  /\ Len(parts) >= 4
  /\ Part(parts, 3) \notin Urls /\ Part(parts, 2) \notin Jwts

Guess(microsoft, jwt) ==
  IF microsoft THEN "microsoft" ELSE IF jwt \in Jwts THEN "temp" ELSE "generic"

DetectLineService(parts) ==
  Guess(LooksMicrosoft(parts) /\ Part(parts, 4) \in Long, Part(parts, 2))

ServiceForParsedParts(parts) ==
  Guess(/\ LooksMicrosoft(parts)
        /\ Part(parts, 3) \in ClientIds /\ Part(parts, 4) \in Tokens,
        Part(parts, 2))

SourceOf(page, parts, selected) ==
  IF selected # "auto" THEN selected
  ELSE IF page = "client" THEN ServiceForParsedParts(parts)
  ELSE DetectLineService(parts)

(***************************************************************************)
(* The rows.  In a short line of a temporary mailbox a part is the address *)
(* of its worker or its category, by its looks (not on the manager).       *)
(***************************************************************************)
ParseTempParts(page, parts) ==
  LET n == Len(parts)
      byLooks == page # "mailboxes" /\ n \in {3, 4}
                   /\ Part(parts, 3) \notin Urls
  IN TempRow(parts[1], Part(parts, 2),
       IF byLooks THEN "" ELSE WorkerUrl[Part(parts, 3)],
       Part(parts, 4),
       IF byLooks THEN Part(parts, 3) ELSE Part(parts, 5))

ParseGenericParts(parts) ==
  LET third == Part(parts, 3)
      fourth == Part(parts, 4)
      fifth == Part(parts, 5)
      sixth == Part(parts, 6)
      port == fourth \in Digits
      named == ModeOf[IF fourth # "" /\ ~port THEN fourth ELSE fifth]
      api == named = "auto" /\ ModeOf[third] \in Api
      mode == IF api THEN ModeOf[third] ELSE named
      host == IF api \/ third \in Digits THEN "" ELSE third
      shifted == IF port THEN ModeOf[fifth] \in Api ELSE mode = "luckmail"
  IN GenericRow(parts[1], Part(parts, 2),
       IF ~port /\ mode = "luckmail" THEN fifth ELSE "", mode, host,
       IF port THEN fourth ELSE "", IF shifted THEN sixth ELSE fifth)

\* The refresh page keeps the row as it is read.
Kept(page, row) == IF page = "refresh" THEN row ELSE NormalizeStoredAccount(row)

ParseLine(page, line, selected) ==
  LET parts == Split(line)
      source == SourceOf(page, parts, selected)
  IN IF parts[1] \notin Addresses THEN NoRow
     ELSE Kept(page,
       IF source = "temp" THEN ParseTempParts(page, parts)
       ELSE IF source = "generic" THEN ParseGenericParts(parts)
       ELSE MicrosoftRow(parts[1], Part(parts, 2), Part(parts, 3),
                         Part(parts, 4), Part(parts, 5)))

(***************************************************************************)
(* Objects: the fields of a record, and a token that may be the password   *)
(* or the JWT.                                                             *)
(***************************************************************************)
DetectStructuredRowSource(item, token, selected) ==
  IF selected # "auto" THEN selected
  ELSE Guess(item.client_id # "" \/ item.refresh_token # "",
             Or(item.jwt, token))

StructuredRow(page, item, token, selected) ==
  LET source == DetectStructuredRowSource(item, token, selected)
  IN Kept(page,
       IF source = "temp"
       THEN TempRow(item.email, Or(item.jwt, token), WorkerUrl[item.base_url],
                    item.site_password, item.category)
       ELSE IF source = "generic"
       THEN [item EXCEPT !.source = "generic", !.jwt = "", !.client_id = "",
               !.refresh_token = "", !.site_password = "", !.base_url = "",
               !.password = Or(item.password, token),
               !.imap_host = Or(item.imap_host, item.base_url), !.time = 0]
       ELSE MicrosoftRow(item.email, item.password, item.client_id,
                         item.refresh_token, item.category))

-----------------------------------------------------------------------------
(***************************************************************************)
(* A record that is normalised stays as it is: a list is normalised every  *)
(* time it is loaded, merged or imported into.                             *)
(***************************************************************************)
NormalizedStays(accounts) ==
  \A a \in accounts :
    NormalizeStoredAccount(NormalizeStoredAccount(a))
      = NormalizeStoredAccount(a)

(***************************************************************************)
(* Whichever of two records of a mailbox is the better one, a real secret  *)
(* of one of them survives the other's empty or masked one.                *)
(***************************************************************************)
IsReal(f) == f # "" /\ f \notin Masked

MergeKeepsSecrets(accounts) ==
  \A a, b \in accounts :
    LET m == MergeAccountRecords(a, b)
    IN /\ IsReal(a.jwt) \/ IsReal(b.jwt) => IsReal(m.jwt)
       /\ IsReal(a.password) \/ IsReal(b.password) => IsReal(m.password)
       /\ IsReal(a.client_id) \/ IsReal(b.client_id) => IsReal(m.client_id)
       /\ IsReal(a.refresh_token) \/ IsReal(b.refresh_token)
            => IsReal(m.refresh_token)
       /\ IsReal(a.site_password) \/ IsReal(b.site_password)
            => IsReal(m.site_password)

(***************************************************************************)
(* The line that a page copies of a Microsoft mailbox is read back as that *)
(* mailbox by every page, its kind guessed, unless a part ends with - or   *)
(* the password and the client id look like something else.                *)
(***************************************************************************)
MicrosoftLineIsRead(fields) ==
  \A page \in Readers, selected \in {"auto", "microsoft"}, email \in Addresses,
     password \in fields \ Jwts, id \in ClientIds \ Urls,
     token \in Tokens \cap Long, category \in fields :
    LET row == MicrosoftRow(email, password, id, token, category)
    IN {email, password, id, token} \cap Dashed = {}
       => ParseLine(page, MailboxCopyLine(row), selected) = Kept(page, row)

\* A temporary mailbox with a JWT and a normalised worker address.
TempLineIsRead(fields) ==
  \A page \in Readers, selected \in {"auto", "temp"}, email \in Addresses,
     jwt \in Jwts, url \in {WorkerUrl[f] : f \in fields},
     site \in fields, category \in fields :
    LET row == TempRow(email, jwt, url, site, category)
    IN {email, jwt, url, site} \cap Dashed = {}
       => ParseLine(page, MailboxCopyLine(row), selected) = Kept(page, row)

(***************************************************************************)
(* The line of another mailbox that the refresh page copies brings back    *)
(* what fetches its mail, except the port of a named protocol and the      *)
(* protocol of a mailbox without a host, when its names look like names.   *)
(***************************************************************************)
Ports == Digits \ (Long \cup Tokens \cup Dashed)

PickupLineIsRead(fields) ==
  \A page \in Readers, selected \in {"auto", "generic"}, email \in Addresses,
     password \in fields \ Jwts, mode \in Modes, username \in fields,
     host \in fields \ Digits, port \in Ports \cup {""}, category \in fields :
    /\ {email, password, username, host} \cap Dashed = {}
    /\ {ModeOf[f] : f \in {username, host, category}} = {"auto"}
    /\ mode = "luckmail" => username # "" \/ category = ""
    /\ host = "" => mode \notin {"imap", "pop3"}
    => ParseLine(page, PickupMailboxCopyLine(
         GenericRow(email, password, username, mode, host, port, category)),
                 selected)
       = Kept(page, GenericRow(email, password,
           IF mode = "luckmail" THEN username ELSE "", mode,
           IF mode \in Api THEN "" ELSE host,
           IF mode = "auto" /\ host # "" THEN Or(port, "993") ELSE "",
           category))

(***************************************************************************)
(* The line that the mailbox manager copies brings back protocol, host and *)
(* port, but the name of the protocol for the category, and no username.   *)
(***************************************************************************)
CopiedLineIsRead(fields) ==
  \A page \in Readers, selected \in {"auto", "generic"}, email \in Addresses,
     password \in fields \ Jwts, mode \in Modes, username \in fields,
     host \in fields \ Digits, port \in Ports, category \in fields :
    /\ {email, password, host} \cap Dashed = {}
    /\ ModeOf[host] = "auto"
    => ParseLine(page, MailboxCopyLine(
         GenericRow(email, password, username, mode, host, port, category)),
                 selected)
       = Kept(page, GenericRow(email, password, "", mode, host, port,
                               IF mode \in Api THEN category ELSE mode))

\* An object with the fields of a record is read as the record.
ObjectIsRead(fields) ==
  \A page \in Readers, email \in Addresses, f, g, h, k \in fields :
    LET Read(row) == StructuredRow(page, row, "", "auto") = Kept(page, row)
    IN /\ g # "" \/ h # "" => Read(MicrosoftRow(email, f, g, h, k))
       /\ f \in Jwts => Read(TempRow(email, f, WorkerUrl[g], h, k))
       /\ \A mode \in Modes : Read(GenericRow(email, f, g, mode, h, "", k))

=============================================================================
