CONSTANTS
  Keys = 1
  Movements = 1
  Run = "power"
  Timeouts = FALSE
  QueueSize = 4
  Data <- MCData
  Programs <- MCPrograms
SPECIFICATION Spec
CHECK_DEADLOCK FALSE
PROPERTY CommandByteAtomic
