\* A writer channel that fills while a ResultSet is between fetch and
\* fetch_block.
CONSTANTS
  c1 = c1
  c2 = c2
  Callers <- MCCallers
  MaxBlocks = 2
  WsCap = 2
  CanTimeout = TRUE
  CanDropClient = TRUE
  CanServerClose = TRUE
  CanPing = TRUE
  Workers = 3
  None = None
SPECIFICATION Spec
SYMMETRY CallerSymmetry
INVARIANT ResultSetIntegrity
CHECK_DEADLOCK FALSE
