SPECIFICATION AdminSpec
CONSTANTS
  Admin = n1
  n1 = n1
  n2 = n2
  c1 = c1
  c2 = c2
  c3 = c3
  u1 = u1
  NoCert = NoCert
  Name <- MCName
  Cert <- MCCert
  Uid <- MCUid
  AppendMayFail = TRUE
  MaxLog = 4
  MaxSignals = 3
SYMMETRY Symmetry

INVARIANT MemoryIsLogView
INVARIANT RevokedForGood
INVARIANT BlockHolds
 
 
