SPECIFICATION FairSpec
CONSTANTS
  None = None
  NoJob = NoJob
  Jobs = {j1}
  Requests = {r1}
  Polls = 2
  MaxRestarts = 2
  FailingStores = {"rows"}
\* Finitely many job ids and requests: the system comes to rest.
CHECK_DEADLOCK FALSE
INVARIANTS
  TypeOK
  NoOrphanJob
  SuccessIsBacked
  HistoryBeforeRow
PROPERTY EveryJobEnds
