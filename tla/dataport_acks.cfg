CONSTANTS
  Keys = 1
  Movements = 1
  Run = "acks"
  Timeouts = FALSE
  QueueSize = 4
  Data <- MCData
  Programs <- MCPrograms
SPECIFICATION FairSpec
CHECK_DEADLOCK FALSE
INVARIANTS DeliveredInOrder NoStuckInput AcknowledgeFound
PROPERTY Delivered
