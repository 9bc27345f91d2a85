SPECIFICATION StorageSpec
CONSTANTS
  MaxEvents = 3
  MaxCrashes = 2
  MaxPassFaults = 1
  WritesMayFail = TRUE
  PowerMayFail = TRUE
  Uid = {u1, u2, u3}
  MAX_UIDS = 2
  MaxTime = 2
  MaxFaults = 1
INVARIANT AckedKept
INVARIANT CopyIsPrefix
INVARIANT LatestKept
PROPERTY ImplementsDurableLog
PROPERTY AckedAreCopied

CHECK_DEADLOCK FALSE
