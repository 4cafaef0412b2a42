SPECIFICATION FairSpec
CONSTANTS
  Procs = {p1, p2}
  Edits = {e1}
  KeyProfiles = {k1}
  Sources = {s1}
  Versions = {v1}
  TxnIds = {t1}
  None = None
  NoTxn = NoTxn
  NoVersion = NoVersion
  MaxCrashes = 1
  MaxFaults = 1
PROPERTIES
  RecoveryTerminates
