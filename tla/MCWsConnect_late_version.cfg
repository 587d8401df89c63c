\* One call connecting: the server's probe answer may come after the 2 s
\* timeout, and the login may fail in every way.
CONSTANTS
  Callers = {c1}
  None = None
SPECIFICATION Spec
INVARIANT HandshakeSound
CHECK_DEADLOCK FALSE
