SPECIFICATION Spec
CONSTANTS
  u1 = u1
  Post = {p1}
  Pen = {a}
  Software = {s1}
  User = {u1}
  Owner <- MCOwner
  Thread = {t1, t2}
  MaxForm = 3
SYMMETRY MCSymmetry
VIEW MCView
INVARIANTS
  TypeOK
  NoLeftoverPens
  PublishedNamesWhatExists
  PublishedShowsItsForm
PROPERTIES
  FormsWriteWhatTheyAsk
CHECK_DEADLOCK FALSE
