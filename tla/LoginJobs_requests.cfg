SPECIFICATION Spec
CONSTANTS
  None = None
  NoJob = NoJob
  Jobs = {j1}
  Requests = {r1, r2}
  Polls = 1
  MaxRestarts = 0
  FailingStores = {"history", "results"}
SYMMETRY Symmetry
\* Finitely many job ids and requests: the system comes to rest.
CHECK_DEADLOCK FALSE
INVARIANT OutcomeIsRecorded
 
