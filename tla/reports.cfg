SPECIFICATION Spec
CONSTANTS
  Answers <- MCAnswers
  Known = {1}
  Palette = 3
  TopN = 3
  MaxOps = 7
INVARIANTS TreeAccounted OpenAsClicked SortedAsAsked CentreIsSum SlicesListed
CHECK_DEADLOCK FALSE
