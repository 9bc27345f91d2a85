SPECIFICATION IntakeSpec
CONSTANTS
  Conn = {k1, k2, k3}
  a1 = a1
  a2 = a2
  a3 = a3
  Addr = {a1, a2, a3}
  IpOf <- MCIp
  Name = {n1}
  NoName = NoName
  NoConn = NoConn
  HubCapacity = 2
  Modes <- MCModes
  Task = {t1, t2}
  SeenName = {n1, n2}
  Partial = Partial
  MaxMarks = 4
  MaxCrashes = 1
  Request = {t1, t2}
  Client = {c1, c2}
  Proxy = {p1}
  User = {u1}
  max_failures = 2
  window = 2
  max_tracked_keys = 2
  concurrent_password_checks = 1
  MaxTime = 3
  max_buffered = 8
  MaxItems = 3
SYMMETRY Symmetry
INVARIANT SlotsAreHeld
INVARIANT TableTrue
INVARIANT LatestSaKnown
 
INVARIANT LoginsLimited
INVARIANT HeaderRead
INVARIANT StreamDecoded
INVARIANT EventArrives
INVARIANT ChangeOverClean
PROPERTY BlockedStays
CHECK_DEADLOCK FALSE
