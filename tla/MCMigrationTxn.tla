--------------------------- MODULE MCMigrationTxn ---------------------------
(* Small instances of MigrationTxn for TLC. *)
EXTENDS MigrationInvariant, TLC

\* Processes and transaction identities are interchangeable: no definition tells them apart.
Symmetry == Permutations(Procs) \cup Permutations(TxnIds)
=============================================================================
