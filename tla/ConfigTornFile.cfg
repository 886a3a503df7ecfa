SPECIFICATION Spec
CONSTANTS
  t1 = t1
  t2 = t2
  None = None
  Threads = {t1, t2}
  Puts <- MCPuts
  Patchable = {"paused"}
  EmptyToken = FALSE
  MaxOps = 2
  MaxCrashes = 0
INVARIANT FileReadable
CHECK_DEADLOCK FALSE
