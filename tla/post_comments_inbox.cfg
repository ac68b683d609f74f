SPECIFICATION Spec
CONSTANTS
  u1 = u1
  User = {u1, u2}
  Post = {p1}
  Thread = {t1, t2}
  MaxComment = 2
  Leaver = {}
  Owner <- MCOwner
INVARIANTS
  InboxRenders
CHECK_DEADLOCK FALSE
