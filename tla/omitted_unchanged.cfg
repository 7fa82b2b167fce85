SPECIFICATION Spec
CONSTANTS
  NoRows = NoRows
  NoModal = NoModal
  BootSites = 2
  NewSites <- MCNewSites
  MaxOrigins = 1
  MaxEvents = 5
  EventCap = 3
  Edits <- MCEdits
  Moves = {"DE"}
  OtherPatches <- MCOtherPatches
  Entries = {1, 2}
  BootEntries <- MCBootEntries
  BootActive = {1}
  Sittings <- MCSittings
PROPERTIES OmittedUnchanged
CHECK_DEADLOCK FALSE
