SPECIFICATION FairSpec
CONSTANTS
  Events = {e1, e2}
  CapEntries = 1
  CapChunk = 1
  BatchMax = 2
  InCap = 1
  OutCap = 1
  BatchRows = 2
  MaxTries = 1
  ReplayRows = 1
  FaultKinds = {"append", "fsync", "insert", "power", "start"}
  MaxFaults = 1
  MaxStops = 1
INVARIANTS
  TypeOK
  AckedDurable
PROPERTIES
  ImplementsContract
  TruncatesOnlySettled
  AckedSettles
  CallersAnswered
  ShutdownCompletes
