-------------------------- MODULE MigrationTampered --------------------------
(***************************************************************************)
(* MigrationTxn beside a person with a text editor: the Config file may be *)
(* rewritten or deleted by hand while a crashed transaction waits for its  *)
(* recovery.  The program cannot lock such an editor out; it must notice.  *)
(* The person keeps a copy of the Config that the first of these edits     *)
(* replaced and may put it back.                                           *)
(***************************************************************************)
EXTENDS MigrationTxn

CONSTANT MaxHandEdits   \* bound: hand edits of the Config file
ASSUME TamperAssumption == MaxHandEdits \in Nat

VARIABLES handEdits,
          image   \* history: the last Config before it became foreign

tvars == <<vars, handEdits, image>>

\* The Config is not what the recovery of the journal asks for.
Foreign == Valid(journal) /\ ~KnownImage(config)

\* No process of the program is at work on the files meanwhile.
HandEdit ==
  /\ lock = None /\ Valid(journal)
  /\ handEdits < MaxHandEdits
  /\ handEdits' = handEdits + 1
  /\ \/ config' = Absent
     \/ \E e \in Edits : config' = Edited(config, e)
     \/ Foreign /\ config' = image
  /\ image' = IF Foreign THEN image ELSE config
  /\ UNCHANGED <<lkg, marker, journal, snapshot, backups, keyring, version, lock, pc,
                 locals, outcome, bounds>>

TInit == Init /\ handEdits = 0 /\ image = config
TNext == (Next /\ UNCHANGED <<handEdits, image>>) \/ HandEdit
TSpec == TInit /\ [][TNext]_tvars
-----------------------------------------------------------------------------
(***************************************************************************)
(* "Unknown concurrent artifact state is never overwritten and keeps the   *)
(* journal for recovery" (migration.go, RecoverPendingMigration): while    *)
(* the Config is foreign, no step of the program touches an artifact, the  *)
(* journal, the recovery snapshot, a backup or a secret, and no update     *)
(* gets past.                                                              *)
(***************************************************************************)
ForeignConfigUntouched == [][Foreign => HandEdit \/ UNCHANGED disk]_tvars

(***************************************************************************)
(* A recovery that a foreign Config stops (inspectMigrationRollback-       *)
(* Artifacts, completeMigrationJournal) can be taken up again: as long as  *)
(* the Config is foreign, everything that goes with the image it replaced  *)
(* is there.  With that image put back the journal accepts Config and      *)
(* marker, and if it was published already its secrets, its backups and,   *)
(* as long as it can be rolled back, the snapshot of its predecessor       *)
(* exist.                                                                  *)
(***************************************************************************)
MaterialsKept ==
  Foreign =>
    /\ KnownImage(image)
    /\ marker.txn \in {NoTxn, journal.txn}
    /\ journal.phase = "marker_verified" => marker.txn = journal.txn
    /\ image.mig # NoTxn => /\ Refs(image.mig) \subseteq keyring
                            /\ BackupsOf(image.mig) \subseteq backups
                            /\ Pending => Restorable
=============================================================================
