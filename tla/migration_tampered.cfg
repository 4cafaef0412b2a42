SPECIFICATION TSpec
CONSTANTS
  Procs = {p1}
  Edits = {e1, e2}
  KeyProfiles = {k1}
  Sources = {s1}
  Versions = {v1}
  TxnIds = {t1}
  None = None
  NoTxn = NoTxn
  NoVersion = NoVersion
  MaxCrashes = 2
  MaxFaults = 1
  MaxHandEdits = 2
INVARIANTS
  MaterialsKept
PROPERTIES
  ForeignConfigUntouched
