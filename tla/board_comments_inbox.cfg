SPECIFICATION Spec
CONSTANTS
  u1 = u1
  User = {u1, u2}
  Board = {b1}
  Thread = {t1}
  MaxComment = 2
  Leaver = {}
  Owner <- MCOwner
PROPERTIES
  BoardTakesItsNotices
CHECK_DEADLOCK FALSE
