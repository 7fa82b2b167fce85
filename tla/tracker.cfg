SPECIFICATION Spec
CONSTANTS
  Tabs = {t1, t2}
  Pages = {1, 2}
  Tag <- MCTag
  Hushed = {TRUE, FALSE}
  MaxOps = 8
INVARIANTS TypeOK OneViewPerNavigation UserPropsCurrent
SYMMETRY MCTabs
CHECK_DEADLOCK FALSE
