SPECIFICATION FairSpec
CONSTANTS
  AgentCount = 2
  Sessions = {s1, s2, s3}
  Keys = {s1, s2, s3}
  KeyOf <- MCKeyOf
  NoKey = NoKey
  Names = {n1}
  NoName = NoName
  Texts = {TIdle, TWorking, Interrupted}
  TIdle = TIdle
  TWorking = TWorking
  DisplayText <- MCDisplayText
  Remove = Remove
  NoSlot = NoSlot
  None = None
  Working = Working
  NoText = NoText
  States = {Idle, Working}
  Idle = Idle
  Interrupted = Interrupted
  LeaseMs = 1
  ClockMod = 2
  QueueCap = 2
  MaxEvents = 3
  MaxFaults = 1
CHECK_DEADLOCK FALSE
INVARIANTS
  DaemonTypeOK
  SlotsAreOurs
  CleanMeansShown
PROPERTIES
  CommandsHitTheirOwner
  PanelSettles
