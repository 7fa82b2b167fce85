SPECIFICATION FairSpec
CONSTANTS
  NoData = NoData
  Tabs = {"overview", "geo", "compare", "realtime"}
  BootTabs = {"overview"}
  Edits <- MCEdits
  Windows <- MCWindows
  Sites = {1, 2}
  Disabled = {}
  Bearer = {FALSE}
  BootSites = {0}
  BootGrants = {{1, 2}, {2}}
  Picks = {0, 1}
  Failures = {"error", "disabled", "chunk", "sites"}
  MaxEdits = 2
  MaxTicks = 1
  MaxFaults = 1
INVARIANTS SettledData TabIsShown ReloadKeepsSite
PROPERTIES PanelSettles
CHECK_DEADLOCK FALSE
