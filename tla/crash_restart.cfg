SPECIFICATION Spec
CONSTANTS
  Events = {e1, e2, e3}
  CapEntries = 2
  CapChunk = 1
  BatchMax = 2
  InCap = 2
  OutCap = 1
  BatchRows = 2
  MaxTries = 2
  ReplayRows = 2
  FaultKinds = {"insert"}
  MaxFaults = 2
  MaxStops = 1
SYMMETRY Perms
INVARIANTS
  AckedAccounted
  NothingStranded
  PipeInOrder
  AtMostOncePerStart
  NoStrandedBatch
