SPECIFICATION Spec
CONSTANTS
  None = None
  Ids = {a, b}
  Objects = {o1, o2}
  Workers = {w1, w2}
  Jobs = {j1, j2}
  Ips = {p1, p2}
  MaxAttempts = 2
  MaxAsks = 1
  MaxToken = 2
  Loaded = {"idle"}
  UserDoes = {"add", "cancel"}
  MailboxIds = {"a", "b", "c"}
  Emails = {"x", "y"}
  AuthFiles = {"file"}
  Categories = {"cat"}
  CpaNames = {"n"}
  Logins = {"j"}
  Faults = {"old", "phone", "code", "none"}
  Outdated = {"old"}
  Null = Null
  CodeFaults = {"code"}
  PhoneFaults = {"phone"}
  BannedFaults = {"phone"}
  NoResult = "none"
SYMMETRY Symmetry
CHECK_DEADLOCK FALSE
INVARIANTS TypeOK OneWorkerPerRow DistinctExits
PROPERTY CancelHolds

