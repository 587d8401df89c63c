\* Replies arrive within the timeout, the client outlives its result sets and
\* the server keeps the connection open.  The program ends once every call
\* has returned and every result set is dropped.
CONSTANTS
  c1 = c1
  c2 = c2
  Callers <- MCCallers
  MaxBlocks = 1
  WsCap = 8
  None = None
  CanTimeout = FALSE
  CanDropClient = FALSE
  CanServerClose = FALSE
  CanPing = TRUE
  Workers = 3
SPECIFICATION Spec
PROPERTIES CallsReturn FetchesReturn ResultsFreed ClientRefinement
CHECK_DEADLOCK FALSE
