CONSTANTS
  Keys = {"A", "ctrlLeft", "altLeft", "altRight", "delete", "printScreen", "pause", "windowsRight", "menu", "eject"}
  MaxStrokes = 3
  QueueSize = 32
  debuggingEnabled = TRUE
  macintoshMode = FALSE
  emacsMode = FALSE
  saveSS = FALSE
  Prefs <- MCPrefs
  Capability = "multifinger"
  MaxTouches = 2
SPECIFICATION inputSpec
CHECK_DEADLOCK FALSE
INVARIANTS TypeOK NoStuckKeys ModifiersFollowed HeldKeysReported NoButtonLeftDown DragIsTimed
