SPECIFICATION Spec
CONSTANTS
  Tabs = {"pages", "overview"}
  Links <- MCLinks
  Channels = {"Email"}
  Paths = {"/a"}
  Columns = {"visitors"}
  Metrics = {"visitors", "revenue"}
  PropScopes = {"hitProps"}
  PropNames <- MCPropNames
  PropValues <- MCPropValues
  Chips = {"today", "7d"}
  Picks = {98, 99}
  FirstDay = 100
  MaxDay = 101
  MaxHistory = 3
  MaxActions = 4
INVARIANTS UrlDeterminesFilters AskedIsShown RangeFollowsUrl
CHECK_DEADLOCK FALSE
