SPECIFICATION Spec
CONSTANTS
  Rows = {r1, r2}
  Phones = {p1, p2}
  Orders = {p1}
  Manual = Manual
  None = None
SYMMETRY Symmetry
CONSTRAINT Few
INVARIANTS TypeOK  CodeOfItsPhone OnePollPerEntry
