SPECIFICATION Spec
CONSTANTS
  u1 = u1
  Post = {p1}
  Pen = {a}
  Software = {s1}
  User = {u1}
  Owner <- MCOwner
  Thread = {t1}
  MaxForm = 2
INVARIANTS
  DraftShowsItsForm
CHECK_DEADLOCK FALSE
