\* Two result sets fetching at once on a runtime with two worker threads,
\* the server never closing and no timeouts: the fetch replies must still
\* reach both.
CONSTANTS
  c1 = c1
  c2 = c2
  Callers <- MCCallers
  MaxBlocks = 1
  WsCap = 8
  None = None
  CanTimeout = FALSE
  CanDropClient = FALSE
  CanServerClose = FALSE
  CanPing = TRUE
  Workers = 2
SPECIFICATION Spec
PROPERTY FetchesReturn
CHECK_DEADLOCK FALSE
