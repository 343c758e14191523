SPECIFICATION Spec
CONSTANTS
  None = None
  Emails = {e1, e2}
  Requests = {r1, r2}
  Kinds = {"fetch", "fetch_saved", "import", "import_new", "delete"}
  Files = 2
  MaxToken = 2
  MaxRestarts = 1
  Overlap = FALSE
\* Finitely many requests: the system comes to rest.
CHECK_DEADLOCK FALSE
SYMMETRY Symmetry
INVARIANTS
  TypeOK
  SameMailboxes
PROPERTY UnselectedUntouched
