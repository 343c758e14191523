SPECIFICATION FairSpec
CONSTANTS
  None = None
  Ids = {a}
  Objects = {o1}
  Workers = {w1}
  Jobs = {j1}
  Ips = {p1}
  MaxAttempts = 2
  MaxAsks = 1
  MaxToken = 2
  Loaded = {"running"}
  UserDoes = {"cancel", "remove", "clear"}

CHECK_DEADLOCK FALSE
INVARIANT NoRowIsForgotten SuccessIsEarned
 
