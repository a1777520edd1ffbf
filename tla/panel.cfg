SPECIFICATION PanelSpec
CONSTANTS
  AgentCount = 1
  Keys = {k1}
  NoKey = NoKey
  Names = {n1}
  NoName = NoName
  Texts = {}
  NoText = NoText
  States = {Idle, Off}
  Idle = Idle
  LeaseMs = 1
  ClockMod = 3
  NumSubscribers = 2
  PollGap = 1
  OffState = Off
INVARIANTS
  NoGhostLed
PROPERTIES
  DisplaySpec
