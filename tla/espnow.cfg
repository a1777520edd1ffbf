SPECIFICATION FairSpec
CONSTANTS
  Boards = {b1, b2}
  Senders = {b1}
  Receivers = {b2}
  MaxRetries = 1
  EventCap = 1
  AirCap = 1
  MaxCommands = 1
  MaxBeacons = 1
  MaxFaults = 1
  NoBoard = NoBoard
CHECK_DEADLOCK FALSE
INVARIANTS
  LinkTypeOK
  AcksAreHonest
  DuplicatesAreBounded
PROPERTIES
  PendingEnds
