SPECIFICATION Spec
CONSTANTS
  Calls = {c1, c2, c3}
  u1 = u1
  u2 = u2
  Users = {u1, u2}
  Requests <- SerialRequests
  Offline = Offline
  Nobody = Nobody
  NoRequest = NoRequest
  QRLife = 2
  MaxFaults = 2
  MaxCancels = 2
  MaxLate = 0
  MaxOthers = 0
SYMMETRY Symmetry
INVARIANTS
  TypeOK
  TokenAccounted
  HonestResult
PROPERTIES
  AtomicSessionSpec
