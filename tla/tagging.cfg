SPECIFICATION Spec
CONSTANTS
  Post = {p1, p2}
  Name = {a}
  Thread = {t1, t2}
  MaxSave = 2
  MaxWord = 2
VIEW MCView
SYMMETRY MCSymmetry
INVARIANTS
  TypeOK
  TagsAreTheForms
  TagmapsBelong
PROPERTIES
  TagsOnlyTowardsTheForm
  AuthorLeavesNoOrphan
CHECK_DEADLOCK FALSE
