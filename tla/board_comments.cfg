SPECIFICATION Spec
CONSTANTS
  u1 = u1
  User = {u1, u2, u3}
  Board = {b1}
  Thread = {t1, t2}
  MaxComment = 2
  Leaver = {u1, u2, u3}
  Owner <- MCOwner
SYMMETRY MCSymmetry
INVARIANTS
  TypeOK
  OneNotificationPerComment
  FanOutReachesAll
  OnlyKnownLeaks
PROPERTIES
  ImplementsAnnouncements
CHECK_DEADLOCK FALSE
