--------------------------- MODULE AtomicMigration ---------------------------
(***************************************************************************)
(* What a profile migration promises its user: the several artifacts it    *)
(* touches (Config, marker, keyring) behave as ONE variable that changes   *)
(* from "not migrated" to "migrated by transaction t" in one step, and     *)
(* profile edits made by other processes are neither lost nor invented.    *)
(* Nothing here knows of journals, phases, snapshots, locks or crashes.    *)
(***************************************************************************)
CONSTANTS Edits,      \* the profile edits a user may make
          TxnIds,     \* identities of migration transactions
          NoTxn       \* "no migration has been committed"

VARIABLES profiles,   \* the edits in force, as a reader after recovery sees them
          migratedBy  \* NoTxn, or the transaction that migrated the profiles

avars == <<profiles, migratedBy>>

AInit == profiles = {} /\ migratedBy = NoTxn

\* An edit adds one profile or removes it again; it leaves the migration alone.
Edit == /\ \E e \in Edits : \/ profiles' = profiles \cup {e}
                            \/ profiles' = profiles \ {e}
        /\ UNCHANGED migratedBy

\* At most one transaction ever commits, and it keeps every edit.
Commit == /\ migratedBy = NoTxn
          /\ \E t \in TxnIds : migratedBy' = t
          /\ UNCHANGED profiles

ANext == Edit \/ Commit

ASpec == AInit /\ [][ANext]_avars
=============================================================================
