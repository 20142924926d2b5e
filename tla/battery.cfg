CONSTANTS
  MaxChanges = 2
  MaxFailures = 1
SPECIFICATION Spec
CHECK_DEADLOCK FALSE
INVARIANT ToldConsistent
PROPERTY BatteryFollowed
