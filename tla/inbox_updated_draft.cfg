\* A draft updated after it was filed.
SPECIFICATION Spec
CONSTANTS
  d1 = d1
  d2 = d2
  t1 = t1
  t2 = t2
  Drafts <- MCDrafts
  Tabs <- MCTabs
  Patient <- MCPatient
  MaxVersion = 2
SYMMETRY MCSymmetry
INVARIANTS
  SentAsReviewed
CHECK_DEADLOCK FALSE
