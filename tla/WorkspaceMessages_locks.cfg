SPECIFICATION FairSpec
CONSTANTS
  None = None
  Messages = {1}
  Requests = {r1, r2, r3}
  Kinds = {"receive", "delete"}
  Files = 1
  Cap = 1
  IgnoredCap = 9
  MaxRestarts = 0
  Races = TRUE
  StoreFails = FALSE
\* Finitely many requests: the system comes to rest.
CHECK_DEADLOCK FALSE
PROPERTY EveryRequestReturns
