SPECIFICATION FairSpec
CONSTANTS
  u1 = u1
  User = {u1, u2, u3}
  Post = {p1}
  Thread = {t1, t2}
  MaxComment = 2
  Leaver = {u1, u2}
  Owner <- MCOwner
INVARIANTS
  TypeOK
  OneNotificationPerComment
  FanOutReachesAll
  OnlyRacesLeak
PROPERTIES
  ImplementsAnnouncements
  OwnerHearsOfEveryComment
CHECK_DEADLOCK FALSE
