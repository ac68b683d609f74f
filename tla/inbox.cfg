SPECIFICATION Spec
CONSTANTS
  Thread = {t1, t2}
  PerPage = 2
  MaxPage = 2
  MaxNotice = 4
INVARIANTS
  TypeOK
  FirstPageIsRead
PROPERTIES
  BadgeGoesOut
  VisitsWearTheBadgeOff
CHECK_DEADLOCK FALSE
