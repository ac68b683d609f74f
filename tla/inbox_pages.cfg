SPECIFICATION Spec
CONSTANTS
  Thread = {t1}
  PerPage = 2
  MaxPage = 2
  MaxNotice = 3
INVARIANTS
  EveryPageIsRead
CHECK_DEADLOCK FALSE
