SPECIFICATION Spec
CONSTANTS
  n1 = n1
  n2 = n2
  c1 = c1
  c2 = c2
  c3 = c3
  t1 = t1
  t2 = t2
  g1 = g1
  u1 = u1
  Admin = Admin
  NoName = NoName
  NoCert = NoCert
  Anon = Anon
  Bootstrap = Bootstrap
  Password = Password
  NoSecret = NoSecret
  Uid <- OneUid
  Name <- Three
  Cert <- TwoCerts
  Token <- TwoTokens
  Group <- OneGroup
  Scenarios <- LockedAndOpen
  MaxBitpos = 1
SYMMETRY Symmetry

INVARIANT IssuedByRight
 
INVARIANT GrantsApplied
INVARIANT RevokedAccountsKeepNoAccess
