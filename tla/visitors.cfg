SPECIFICATION Spec
CONSTANTS
  Sites = {1}
  Visitors = {"v", "bot"}
  Cap = 1
  Window = 2
  Ttl = 1
  DayLen = 2
  MaxTime = 3
  Reqs = {r1, r2}
  Inputs <- Singles
  Hosts <- AllHosts
  Alt <- Toggle
  Registry <- BotSite
  Updates = {}
  Bots = {"bot"}
  Cookies = {}
  ConsentRequired = FALSE
  LegacyCutoff = 0
  MaxFaults = 1
  MaxStops = 1
  MaxUpdates = 0
  MaxFills = 1
SYMMETRY Perms
INVARIANTS
  NewOncePerDate
  ReturningNotNew
  NewnessAccounted
  AdmittedRecently
