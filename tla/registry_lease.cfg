SPECIFICATION FairSpec
CONSTANTS
  AgentCount = 2
  Keys = {k1}
  NoKey = NoKey
  Names = {n1}
  NoName = NoName
  Texts = {t1}
  NoText = NoText
  States = {Idle}
  Idle = Idle
  LeaseMs = 3
  ClockMod = 6
  NumSubscribers = 2
  PollGap = 2
PROPERTIES
  LeaseHonoured
