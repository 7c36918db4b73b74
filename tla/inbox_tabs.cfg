\* Two drafts reviewed in two tabs, two versions each.
SPECIFICATION Spec
CONSTANTS
  d1 = d1
  d2 = d2
  t1 = t1
  t2 = t2
  Drafts <- MCDrafts
  Tabs <- MCTabs
  Patient <- MCPatient
  MaxVersion = 2
SYMMETRY MCSymmetry
INVARIANTS
  TypeOK
  ScreenSettles
CHECK_DEADLOCK FALSE
