SPECIFICATION Spec
CONSTANTS
  d1 = d1
  d2 = d2
  u1 = u1
  Device = {d1, d2}
  User = {u1}
  NoDevice = NoDevice
  NoUser = NoUser
  NoRole = NoRole
  DefaultRole = "MISSION_SUBSCRIBER"
  Slot = {r1, r2}
  Mission = {m1, m2}
  Entry = {e1}
  Keyword = {k1}
  Modes <- RecordModes
SYMMETRY Symmetry
INVARIANT MembersKept
INVARIANT RecordsSeen
 
