SPECIFICATION Spec
CONSTANTS
  Answers <- MCAnswers
  Known = {1}
  Palette = 3
  TopN = 3
  MaxOps = 7
INVARIANT KeysNeverCollide
CHECK_DEADLOCK FALSE
