SPECIFICATION FairSpec
CONSTANTS
  d1 = d1
  d2 = d2
  c1 = c1
  c2 = c2
  c3 = c3
  Device <- OneDevice
  Conn <- TwoConns
  DeviceOf <- Together
  Capacity = 1
  MaxSent = 2
  MaxSignals = 2
CHECK_DEADLOCK FALSE

INVARIANT NoPositionLost
PROPERTY SignalledSessionsEnd
