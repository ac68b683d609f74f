SPECIFICATION Spec
CONSTANTS
  u1 = u1
  User = {u1, u2}
  Post = {p1}
  Owner <- MCOwner
  Thread = {t1, t2}
  MaxFavorite = 3
  Leaver = {u1, u2}
SYMMETRY MCSymmetry
INVARIANTS
  TypeOK
  LikesAreAnnounced
  LikesNameWhatExists
  OnlyRacesLeak
  DuplicatesBounded
CHECK_DEADLOCK FALSE
