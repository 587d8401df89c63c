\* A reply arriving after its caller timed out.
CONSTANTS
  c1 = c1
  c2 = c2
  Callers <- MCCallers
  MaxBlocks = 2
  WsCap = 2
  None = None
  CanTimeout = TRUE
  CanDropClient = FALSE
  CanServerClose = FALSE
  CanPing = TRUE
  Workers = 3
SPECIFICATION Spec
SYMMETRY CallerSymmetry
INVARIANT ReaderAlive
CHECK_DEADLOCK FALSE
