CONSTANTS
  Pointer = "synaptics"
  Threads = {"async", "sync"}
  Request <- MCRequest
  Commands <- MCCommands
  ThreadAsync <- MCThreadAsync
  ThreadSync <- MCThreadSync
  IntrRoutines <- MCIntrRoutines
  Callout = {t1}
  MaxPowerCalls = 1
  MouseDisable <- MCMouseDisable
  KeyboardDisable <- MCKeyboardDisable
  MouseEnable <- MCMouseEnable
  KeyboardEnable <- MCKeyboardEnable
SPECIFICATION Spec
CHECK_DEADLOCK FALSE
INVARIANTS BlockedThreadsHaveRequests NoLostWakeup PendingOnce
PROPERTY ImplementsService
