SPECIFICATION Spec
CONSTANTS
  Sites = {1, 2}
  Visitors = {"v"}
  Cap = 2
  Window = 2
  Ttl = 1
  DayLen = 3
  MaxTime = 2
  Reqs = {r1}
  Inputs <- MixedBatches
  Hosts <- AllHosts
  Alt <- Toggle
  Registry <- TwoSites
  Updates <- Modes
  Bots = {"bot"}
  Cookies = {"c"}
  ConsentRequired = FALSE
  LegacyCutoff = 0
  MaxFaults = 1
  MaxStops = 0
  MaxUpdates = 1
  MaxFills = 0
SYMMETRY Perms
INVARIANTS
  IdentifierHasBasis
  OptOutHonoured
  AnswerIsTrue
  BurstBound
