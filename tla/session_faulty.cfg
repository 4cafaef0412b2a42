SPECIFICATION FairSpec
CONSTANTS
  Calls = {c1, c2}
  u1 = u1
  u2 = u2
  Users = {u1, u2}
  Requests <- FaultyRequests
  Offline = Offline
  Nobody = Nobody
  NoRequest = NoRequest
  QRLife = 1
  MaxFaults = 1
  MaxCancels = 1
  MaxLate = 1
  MaxOthers = 1
INVARIANTS
  AuthenticatesWhenOffline
PROPERTIES
  CallsReturn
