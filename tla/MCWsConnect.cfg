\* Two calls racing on one Taos whose cell is empty.  Every server
\* behaviour is on: the probe answered, refused, answered in another shape,
\* answered after the 2 s timeout or never; the login accepted, refused,
\* closed or dropped.  The program stops once every call has returned.
CONSTANTS
  Callers = {c1, c2}
  None = None
SPECIFICATION Spec
PROPERTY ConnectReturns
CHECK_DEADLOCK FALSE
