\* A driver that follows the protocol and one from_dsn refuses, a protocol of each
\* scheme and one it refuses; DSNs of up to two addresses and two params,
\* which covers a repeated key, the key order and the token parameter.
CONSTANTS
  None = None
  Drivers = {"taos", "sqlite"}
  Protocols = {"wss", "tcp"}
  Users = {"u"}
  Passwords = {"p"}
  Hosts = {"h"}
  Databases = {"d"}
  Frags <- MCFrags
  Vals = {"v"}
  KeyOrder <- MCKeyOrder
  PortNum <- MCPortNum
  Encode <- MCEncode
  MaxAddrs = 2
  MaxParams = 2
  GenFrags = {"./f"}
  GenPortTexts = {"6030"}
  GenPaths = {"/s"}
  GenKeys = {"k", "token"}
SPECIFICATION Spec
INVARIANTS TypeOK DsnRoundTrip QueryUrl CodeTestsAgree
CHECK_DEADLOCK FALSE
