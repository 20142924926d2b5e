CONSTANTS
  NumTxDesc = 3
  NumRxDesc = 3
  MaxWork = 2
  Loads <- MCLoads
  MaxEnables = 2
SPECIFICATION FairSpec
CHECK_DEADLOCK FALSE
INVARIANTS FreedOnce ReceivedOnce WatchdogResynchronises
PROPERTY StalledQueueRestarts
