CONSTANTS
  Pointer = "mouse"
  Threads = {}
  Request <- MCRequest
  Commands <- MCCommands
  ThreadAsync <- MCThreadAsync
  ThreadSync <- MCThreadSync
  IntrRoutines <- MCIntrRoutines
  Callout = {t1}
  MaxPowerCalls = 1
  MouseDisable <- MCMouseDisable
  KeyboardDisable <- MCKeyboardDisable
  MouseEnable <- MCMouseEnable
  KeyboardEnable <- MCKeyboardEnable
SPECIFICATION FairSpec
CHECK_DEADLOCK FALSE
PROPERTY PowerChangeAcknowledged
