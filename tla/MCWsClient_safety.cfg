\* All failure paths on: reply and send timeouts, client drop and server
\* close, a writer channel of 2 and results of two blocks.  Pings are off
\* here (ws_live has them): a pong only adds to the writer channel, which
\* the callers' traffic fills already.  The code can hang on these paths (see the liveness runs),
\* so a state with no enabled step is an outcome of the program, not a
\* modelling error.
CONSTANTS
  c1 = c1
  c2 = c2
  Callers <- MCCallers
  MaxBlocks = 2
  WsCap = 2
  CanTimeout = TRUE
  CanDropClient = TRUE
  CanServerClose = TRUE
  CanPing = FALSE
  Workers = 3
  None = None
SPECIFICATION Spec
SYMMETRY CallerSymmetry
INVARIANTS TypeOK FetchChannelClean BlocksOwnAndOrdered
CHECK_DEADLOCK FALSE
