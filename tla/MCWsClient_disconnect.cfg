\* The reader stops while callers or result sets wait on it: the server
\* closes the connection, or the client is dropped while its result sets
\* are still fetching.
CONSTANTS
  c1 = c1
  c2 = c2
  Callers <- MCCallers
  MaxBlocks = 2
  WsCap = 8
  None = None
  CanTimeout = TRUE
  CanDropClient = TRUE
  CanServerClose = TRUE
  CanPing = TRUE
  Workers = 3
SPECIFICATION Spec
PROPERTY WaitersReturn
CHECK_DEADLOCK FALSE
