SPECIFICATION Spec
CONSTANTS
  Events = {e1, e2}
  CapEntries = 9
  CapChunk = 1
  BatchMax = 1
  InCap = 1
  OutCap = 1
  BatchRows = 1
  MaxTries = 1
  ReplayRows = 1
  FaultKinds = {"insert"}
  MaxFaults = 2
  MaxStops = 0
INVARIANTS
  OutageLosesNothing
