CONSTANTS
  Pointer = "alps"
  Threads = {"sync"}
  Request <- MCRequest
  Commands <- MCCommands
  ThreadAsync <- MCThreadAsync
  ThreadSync <- MCThreadSync
  IntrRoutines <- MCIntrRoutines
  Callout = {t1, t2}
  MaxPowerCalls = 2
  MouseDisable <- MCMouseDisable
  KeyboardDisable <- MCKeyboardDisable
  MouseEnable <- MCMouseEnable
  KeyboardEnable <- MCKeyboardEnable
SPECIFICATION FairSpec
CHECK_DEADLOCK FALSE
INVARIANTS TypeOK OfflineQuiesced SleepDrained RequestsAtomic
PROPERTIES EveryRequestCompletes PowerChangeAcknowledged 
