SPECIFICATION StartSpec
CONSTANTS
  Hooks = {h1, h2}
  Daemons = {d1, d2}
  MaxTries = 1
  NoSocket = NoSocket
INVARIANTS
  OneDaemon
CHECK_DEADLOCK FALSE
