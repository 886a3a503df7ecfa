SPECIFICATION Spec
CONSTANTS
  Bodies <- MCBodies
  Modes = {"off", "data_uri", "auto"}
  MaskMaxDepth = 2
  RestoreMaxDepth = 2
INVARIANTS SecretsMasked  BlobsIntact 
CHECK_DEADLOCK FALSE
