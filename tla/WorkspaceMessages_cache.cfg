SPECIFICATION Spec
CONSTANTS
  None = None
  Messages = {1, 2}
  Requests = {r1, r2, r3}
  Kinds = {"receive", "delete", "delete_matching"}
  Files = 2
  Cap = 1
  IgnoredCap = 9
  MaxRestarts = 1
  Races = FALSE
  StoreFails = TRUE
\* Finitely many requests: the system comes to rest.
CHECK_DEADLOCK FALSE
SYMMETRY Symmetry
INVARIANTS TypeOK DeletedStaysDeleted
PROPERTY KeepsThePromises
