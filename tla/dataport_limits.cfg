CONSTANTS
  Keys = 3
  Movements = 2
  Run = "leds"
  Timeouts = TRUE
  QueueSize = 2
  Data <- MCData
  Programs <- MCPrograms
SPECIFICATION FairSpec
CHECK_DEADLOCK FALSE
INVARIANTS TypeOK KeysInOrder
PROPERTY NeverLocksUp
