SPECIFICATION FairSpec
CONSTANTS
  r1 = r1
  r2 = r2
  d1 = d1
  None = None
  Requests = {r1, r2}
  Demos = {d1}
  Disconnects = TRUE
  Expiry = TRUE
  SavedConfigs <- MCSavedConfigs
  MaxCalls = 1
INVARIANTS TypeOK NoRawLeak AlwaysRestored 
 
CHECK_DEADLOCK FALSE
