SPECIFICATION FairSpec
CONSTANTS
  AgentCount = 2
  Keys = {k1, k2, k3}
  NoKey = NoKey
  Names = {n1}
  NoName = NoName
  Texts = {t1}
  NoText = NoText
  States = {Idle}
  Idle = Idle
  LeaseMs = 2
  ClockMod = 4
  NumSubscribers = 1
  PollGap = 1
PROPERTIES
  LeaseCutOnlyByStalePoll
  RosterSpec
  LeaseEnds
INVARIANTS
  TypeOK
  OneSlotPerKey
  NothingLeftBehind
  NewsIsCurrent
