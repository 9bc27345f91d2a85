SPECIFICATION Spec
CONSTANTS
  MaxEvents = 3
  MaxCrashes = 2
  WritesMayFail = FALSE
  PowerMayFail = FALSE
INVARIANT AckedReplayable
CHECK_DEADLOCK FALSE
