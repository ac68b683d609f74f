SPECIFICATION Spec
CONSTANTS
  Uid = {x}
  Email = {e}
  Thread = {t1, t2}
  MaxUser = 2
  MaxTie = 2
  MaxSecond = 1
SYMMETRY MCSymmetry
VIEW MCView
INVARIANTS
  TypeOK
  EmailsUnique
  OneAccountPerPerson
  TiesEndAtAccounts
CHECK_DEADLOCK FALSE
