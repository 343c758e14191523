SPECIFICATION Spec
CONSTANTS
  Mails <- MCMails
  Stored <- MCStored
  Matches <- MCMatches
  Ticked <- MCTicked
  PageSize = 1
  MaxPage = 2
  MaxChanges = 2
  MaxDeletes = 1
  Clicks = {"filter", "type", "turn", "select", "category", "clear", "delete", "sync", "reload"}
  None = None
INVARIANTS TypeOK  FetchedIsShown WaitsForLoad
CHECK_DEADLOCK FALSE
