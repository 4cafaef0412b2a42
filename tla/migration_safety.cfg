SPECIFICATION Spec
CONSTANTS
  Procs = {p1, p2}
  Edits = {e1}
  KeyProfiles = {k1, k2}
  Sources = {s1}
  Versions = {v1, v2}
  TxnIds = {t1, t2}
  None = None
  NoTxn = NoTxn
  NoVersion = NoVersion
  MaxCrashes = 1
  MaxFaults = 1
SYMMETRY Symmetry
INVARIANTS
  NoDanglingCredential
  SideEffectsOwned
  MarkerVouches
  RollbackPossible
  IInv
PROPERTIES
  HonestOutcome
  AtomicMigrationSpec
