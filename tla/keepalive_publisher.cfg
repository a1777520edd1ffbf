SPECIFICATION Spec
CONSTANTS
  PingAfter = 2
  DropAfter = 6
  Reconnect = 1
  AckWait = 2
  MaxPublishes = 4
  SocketCap = 2
  MaxFaults = 0
INVARIANTS
  KeepAliveSparesLiveLinks
