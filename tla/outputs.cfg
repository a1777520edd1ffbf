SPECIFICATION MCSpec
CONSTANTS
  AgentCount = 2
  Callers = {ble, app}
  Rows = {Empty, A}
  EmptyRow = Empty
  Garbled = Garbled
  LedCount = 2
  States = {Off, Idle}
  OffState = Off
  Idle = Idle
INVARIANTS
  OutputsTypeOK
  StaleRowsAreScheduled
  NoLostWakeUp
  StalePixelsAreScheduled
PROPERTIES
  ScreenSettles
  RegisteringBlinks
