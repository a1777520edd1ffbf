SPECIFICATION FairSpec
CONSTANTS
  PingAfter = 2
  DropAfter = 6
  Reconnect = 1
  AckWait = 2
  MaxPublishes = 1
  SocketCap = 2
  MaxFaults = 2
INVARIANTS
  MqttLinkTypeOK
  ConnectedMeansGreeted
  KeepAliveSparesLiveLinks
PROPERTIES
  ClientComesBack
