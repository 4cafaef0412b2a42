------------------------- MODULE MigrationInvariant -------------------------
(***************************************************************************)
(* What every step of MigrationTxn preserves: the types, and an invariant  *)
(* of the files, the keyring and the process that holds the lock.  TLC     *)
(* checks it on the instance of migration_safety, MigrationProofs proves   *)
(* it for every value of the constants.                                    *)
(***************************************************************************)
EXTENDS MigrationTxn
-----------------------------------------------------------------------------
\* A transaction under way has an identity.
TxnInv  == \A p \in Procs : pc[p] \in ApplyPCs \ {"a_check"} => txn[p] \in TxnIds
TypeInv == TypeOK /\ TxnInv

(***************************************************************************)
(* The invariant.  LockInv: the lock is held exactly by the process inside *)
(* a locked section.  DiskInv: what the files and the keyring say of each  *)
(* other, whatever the processes do, with one part per kind of journal; it *)
(* does not ask that the Config be an image the journal knows, so that it  *)
(* outlives a Config that is rewritten by hand beside a valid journal.     *)
(* HolderInv: what the holder of the lock knows at each of its steps.      *)
(* PlanInv: what it knows of the Config and sources it has looked at.      *)
(***************************************************************************)
LockInv == \A p \in Procs : pc[p] \in LockedPCs <=> lock = p

OwnedBy(t) == \A x \in keyring \cup backups : x[1] = t

FileInv == /\ config.exists \/ config = Absent
           /\ journal.phase = "none" => journal = NoJournal
           /\ journal.phase = "torn" => journal = Torn

\* No journal, or one that cannot be read: nothing is under way.
QuietInv == ~Valid(journal) => /\ snapshot.state = "absent"
                               /\ marker.txn = config.mig
                               /\ OwnedBy(marker.txn)
                               /\ Refs(marker.txn) \subseteq keyring \/ marker.txn = NoTxn
                               /\ BackupsOf(marker.txn) \subseteq backups \/ marker.txn = NoTxn

JournalInv == Valid(journal) => /\ journal.txn \in TxnIds
                                /\ journal.before.mig = NoTxn
                                /\ journal.before.exists \/ journal.before = Absent
                                /\ journal.after = Migrated(journal.before, journal.txn)
                                /\ journal.before.exists \/ snapshot.state = "absent"
                                /\ OwnedBy(journal.txn)

\* Only the transaction of the journal can have written into Config and marker.
NamesInv == Valid(journal) => /\ config.mig \in {NoTxn, journal.txn}
                              /\ marker.txn \in {NoTxn, journal.txn}

\* A Config that holds the profiles of a pending transaction, whatever else it holds,
\* was published after the snapshot and the secrets, and is rolled back before them.
PendingInv ==
  Pending => /\ config.mig # NoTxn => /\ Restorable
                                      /\ journal.phase \in {"keyring", "config"}
                                      /\ Refs(journal.txn) \subseteq keyring
                                      /\ BackupsOf(journal.txn) \subseteq backups
             /\ marker.txn # NoTxn => /\ journal.phase = "config"
                                      /\ BackupsOf(journal.txn) \subseteq backups
             /\ journal.phase = "prepared" => keyring = {}

CommittedInv ==
  journal.phase = "marker_verified" => /\ marker.txn = journal.txn
                                       /\ Refs(journal.txn) \subseteq keyring
                                       /\ BackupsOf(journal.txn) \subseteq backups

DiskInv == FileInv /\ QuietInv /\ JournalInv /\ NamesInv /\ PendingInv /\ CommittedInv

AtBefore == IsBefore(config, journal) /\ marker.txn = NoTxn
HolderInv(p) ==
  /\ pc[p] = "e_publish" => /\ journal.phase = "none" /\ edit[p].exists
                            /\ edit[p].mig = config.mig
                            /\ \E e \in Edits : edit[p].edits \in {config.edits \cup {e},
                                                                  config.edits \ {e}}
  /\ pc[p] \in {"a_check", "a_begin"} => journal.phase = "none"
  /\ pc[p] = "a_begin" => marker.txn = NoTxn
  /\ pc[p] \in {"a_snapshot", "a_backups"} => journal.phase = "prepared" /\ AtBefore
  /\ pc[p] = "a_snapshot" => snapshot.state = "absent"
  /\ pc[p] \in {"a_backups", "a_keys", "a_config"} => Restorable
  /\ pc[p] \in {"a_keys", "a_config"} => AtBefore
  /\ pc[p] = "a_keys" => journal.phase = "backups"
  /\ pc[p] \in {"a_config", "a_adv_config"} => /\ journal.phase = "keyring"
                                               /\ Refs(journal.txn) \subseteq keyring
  /\ pc[p] = "a_adv_config" => IsAfter(config, journal) /\ marker.txn = NoTxn
  /\ pc[p] \in {"a_marker", "a_adv_marker"} => journal.phase = "config"
                                               /\ IsAfter(config, journal)
  /\ pc[p] = "a_adv_marker" => marker.txn = journal.txn
  /\ pc[p] \in {"a_snapshot", "a_backups", "a_keys", "a_config", "a_adv_config",
                "a_marker", "a_adv_marker"} => journal.txn = txn[p]
  /\ pc[p] \in {"a_keys", "a_config", "a_adv_config", "a_marker", "a_adv_marker"}
                => BackupsOf(journal.txn) \subseteq backups
  /\ pc[p] \in {"r_marker", "r_config", "r_keyring", "r_backups", "r_snapshot", "r_journal"}
                => Pending
  /\ pc[p] \in {"r_marker", "r_config"} => IsBefore(config, journal) \/ IsAfter(config, journal)
  /\ pc[p] = "r_config" => marker.txn = NoTxn
  /\ pc[p] \in {"r_keyring", "r_backups", "r_snapshot", "r_journal"} => AtBefore
  /\ pc[p] \in {"r_backups", "r_snapshot", "r_journal"} => keyring = {}
  /\ pc[p] \in {"r_snapshot", "r_journal"} => backups = {}
  /\ pc[p] \in {"r_journal", "c_journal"} => snapshot.state = "absent"
  /\ pc[p] \in {"c_verify", "c_snapshot", "c_journal"} => journal.phase = "marker_verified"
  /\ pc[p] \in {"c_snapshot", "c_journal"} => IsAfter(config, journal)

Safe    == LockInv /\ DiskInv /\ \A p \in Procs : HolderInv(p)

\* What the holder of the lock has seen is what it acts on: the Config it edits and the
\* preview it applies.  Once the journal is there the preview is compared with its before
\* image, and a committed transaction with the sources of the preview.
Applying  == {"a_snapshot", "a_backups", "a_keys", "a_config", "a_adv_config", "a_marker",
              "a_adv_marker"}
Inside(p) == pc[p] \in RecoverPCs \ {"r_entry"} /\ caller[p] \notin {"explicit", "apply"}
PlanInv(p) ==
  /\ pc[p] = "e_publish" => edit[p].edits # config.edits
  /\ pc[p] = "r_entry" => caller[p] \in {"explicit", "apply"}
  /\ pc[p] = "a_begin" => plan[p].cfg = ContentOf(config)
  /\ pc[p] \in Applying => plan[p].cfg = ContentOf(journal.before)
  /\ pc[p] = "a_adv_marker" => marker.src = plan[p].src
  /\ Inside(p) => /\ Valid(journal) => plan[p].cfg = ContentOf(journal.before)
                  /\ journal.phase = "marker_verified" => marker.src = plan[p].src

SafeInv == TypeInv /\ Safe /\ \A p \in Procs : PlanInv(p)

\* Where nobody edits the Config by hand it is one of the images the journal knows, and
\* the before image only when no marker of the transaction is left.
Undisturbed == /\ KnownImage(config)
               /\ Pending /\ ~IsAfter(config, journal) => marker.txn = NoTxn

\* What the steps of MigrationTxn preserve; a hand edit preserves SafeInv alone.
IInv == SafeInv /\ Undisturbed
=============================================================================
