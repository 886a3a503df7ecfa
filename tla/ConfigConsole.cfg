SPECIFICATION Spec
CONSTANTS
  t1 = t1
  t2 = t2
  None = None
  Threads = {t1, t2}
  Puts <- MCPuts
  Patchable = {"panel_token"}
  EmptyToken = TRUE
  MaxOps = 3
  MaxCrashes = 1
INVARIANTS TypeOK PatchesSurvive MirrorsFollow  
PROPERTY SavesAtomic
CHECK_DEADLOCK FALSE
