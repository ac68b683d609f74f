SPECIFICATION Spec
CONSTANTS
  u1 = u1
  User = {u1, u2}
  Post = {p1}
  Owner <- MCOwner
  Thread = {t1, t2}
  MaxFavorite = 2
  Leaver = {}
INVARIANTS
  ToldAtMostOnce
CHECK_DEADLOCK FALSE
