SPECIFICATION Spec
CONSTANTS
  Procs = {p1}
  Edits = {e1}
  KeyProfiles = {k1}
  Sources = {s1}
  Versions = {v1, v2}
  TxnIds = {t1}
  None = None
  NoTxn = NoTxn
  NoVersion = NoVersion
  MaxCrashes = 0
  MaxFaults = 0
INVARIANTS
  ChangedSourcesReprocessed
