SPECIFICATION MCSpec
CONSTANTS
  Cells = {c1}
  LongKeyCell = c1
  Plus = Plus
  F11 = F11
  KeyIds = {Plus, F11, None}
  NoKey = None
  ShortKey <- MCShortKey
  LongKey <- MCLongKey
  ScanMs = 1
  DebounceMs = 2
  LongPressMs = 3
  PauseMs = 2
  Motions <- MCMotions
  DeltaMax = 1
  PendingMax = 2
  Events <- MCEvents
  Capacity = 3
  NoEvent = NoEvent
  ActiveLevel = LOW
  ButtonLevels = {LOW, HIGH}
  ButtonDebounce = 2
  Pressed = Pressed
  Released = Released
INVARIANTS
  InputsTypeOK
  LastSentIsCurrent
  MotionIsConserved
  EventsAlternate
PROPERTIES
  HostFollows
  QueueSpec
  PinIsFollowed
