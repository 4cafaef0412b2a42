---------------------------- MODULE MigrationTxn ----------------------------
(***************************************************************************)
(* The configuration migration transaction of internal/config              *)
(* (migration.go, migration_journal.go, store.go): several processes that  *)
(* run `profile migrate` or an ordinary profile update against one base    *)
(* directory.  A process may crash between any two file operations, and    *)
(* any file or keyring operation may fail, with or without its effect.     *)
(*                                                                         *)
(* Abstractions.  A Config is [exists, edits, mig]: is the file there, the *)
(* user's profile edits it holds, the transaction whose profiles it holds. *)
(* Equal digests are equal values.  The legacy sources have one of a few   *)
(* Versions.  The random keyring references and backup paths of            *)
(* transaction t are the pairs <<t, k>> and <<t, s>>; a random identity is *)
(* one that nothing on disk or in the keyring carries.  The marker is      *)
(* absent when a transaction begins (a present one ends the apply          *)
(* earlier), so its recovery snapshot never exists and is left out.        *)
(***************************************************************************)
EXTENDS Naturals

CONSTANTS Procs,         \* processes of the command line tool
          Edits,         \* profiles a user may add and remove
          KeyProfiles,   \* migrated profiles whose secret goes to the keyring
          Sources,       \* legacy source files
          Versions,      \* contents the legacy sources can have
          TxnIds,        \* transaction identities
          None,          \* "nobody holds the lock"
          NoTxn,         \* "not migrated"
          NoVersion,     \* "no sources recorded"
          MaxCrashes,    \* bound: process crashes
          MaxFaults      \* bound: failing file or keyring operations

ASSUME MigrationAssumption ==
  /\ None \notin Procs /\ NoTxn \notin TxnIds /\ NoVersion \notin Versions
  /\ MaxCrashes \in Nat /\ MaxFaults \in Nat

VARIABLES config,    \* the Config file
          lkg,       \* its last-known-good copy, <config>.lkg
          marker,    \* the migration marker
          journal,   \* migration-v1.pending.yaml
          snapshot,  \* migration-v1.config.before
          backups,   \* backup files present
          keyring,   \* migration references present in the keyring
          version,   \* current content of the legacy sources
          lock,      \* holder of the mutation lock
          pc,        \* what each process does next
          plan,      \* preview: destination content and source version it saw
          txn,       \* transaction a process is applying
          edit,      \* Config an update is about to write
          caller,    \* who called recoverPendingMigration
          outcome,   \* how the last command of a process ended
          crashes, faults

disk   == <<config, lkg, marker, journal, snapshot, backups, keyring>>
locals == <<plan, txn, edit, caller>>
bounds == <<crashes, faults>>
vars   == <<config, lkg, marker, journal, snapshot, backups, keyring, version, lock,
            pc, plan, txn, edit, caller, outcome, crashes, faults>>
-----------------------------------------------------------------------------
Content == [edits : SUBSET Edits, mig : TxnIds \cup {NoTxn}]
Config  == [exists : BOOLEAN, edits : SUBSET Edits, mig : TxnIds \cup {NoTxn}]
Absent  == [exists |-> FALSE, edits |-> {}, mig |-> NoTxn]
Plans   == [cfg : Content, src : Versions \cup {NoVersion}]

\* encodeConfig of a loaded Config: an absent file loads as the default Config.
ContentOf(c) == [edits |-> c.edits, mig |-> c.mig]
NoContent    == ContentOf(Absent)
FileOf(c)    == [exists |-> TRUE, edits |-> c.edits, mig |-> c.mig]
Migrated(c, t) == [edits |-> c.edits, mig |-> t]
NoPlan       == [cfg |-> NoContent, src |-> NoVersion]

Refs(t)       == {t} \X KeyProfiles
BackupsOf(t)  == {t} \X Sources
Ours(t, S)    == {x \in S : x[1] = t}

Phases == {"prepared", "backups", "keyring", "config", "marker_verified"}
\* migrationJournalPhase.next: the phase an advance must come from.
Before == [backups |-> "prepared", keyring |-> "backups",
           config |-> "keyring", marker_verified |-> "config"]

Journals == [phase : Phases \cup {"none", "torn"}, txn : TxnIds \cup {NoTxn},
             before : Config, after : Content]
Markers  == [txn : TxnIds \cup {NoTxn}, cfg : Content, src : Versions \cup {NoVersion}]
Snapshots == [state : {"absent", "torn", "full"}, data : Config]

NoJournal == [phase |-> "none", txn |-> NoTxn, before |-> Absent, after |-> NoContent]
Torn      == [NoJournal EXCEPT !.phase = "torn"]
NoMarker  == [txn |-> NoTxn, cfg |-> NoContent, src |-> NoVersion]
NoFile    == [state |-> "absent", data |-> Absent]
TornFile  == [state |-> "torn", data |-> Absent]
Saved(c)  == [state |-> "full", data |-> c]

Valid(j)   == j.phase \in Phases
Pending    == Valid(journal) /\ journal.phase # "marker_verified"
\* digest(config) = AfterDigest.
IsAfter(c, j)  == c.exists /\ ContentOf(c) = j.after
IsBefore(c, j) == c = j.before
\* What recovery asks of the Config: to roll back it must be one of the two images, to
\* complete it must be the after image (inspectMigrationRollbackArtifact,
\* completeMigrationJournal).
KnownImage(c) == /\ Pending => IsBefore(c, journal) \/ IsAfter(c, journal)
                 /\ journal.phase = "marker_verified" => IsAfter(c, journal)

ApplyPCs   == {"a_check", "a_begin", "a_snapshot", "a_backups", "a_keys",
               "a_config", "a_adv_config", "a_marker", "a_adv_marker"}
RecoverPCs == {"r_entry", "r_load", "r_marker", "r_config", "r_keyring",
               "r_backups", "r_snapshot", "r_journal",
               "c_verify", "c_snapshot", "c_journal"}
\* Where a process holds the mutation lock.
LockedPCs  == {"e_load", "e_publish", "m_runlock", "unlock"} \cup ApplyPCs \cup RecoverPCs
PCs        == {"idle", "e_lock", "m_journal", "m_orphan", "m_rlock", "m_load",
               "m_precheck", "m_lock"} \cup LockedPCs
Callers    == {"none", "explicit", "apply", "complete", "fail"}
Outcomes   == {"none", "saved", "published_unconfirmed", "update_failed", "update_refused",
               "orphan", "sources_changed", "marker_config_mismatch",
               "marker_sources_mismatch", "destination_changed", "keyring_unavailable",
               "begin_failed", "already_migrated", "migrated", "rolled_back",
               "recovery_required", "crashed"}
-----------------------------------------------------------------------------
(***************************************************************************)
(* A mutating operation ends in one of three ways: done ("ok"), refused    *)
(* with no effect ("clean"), or done and yet reported as failed ("kept":   *)
(* the directory sync after a rename, create or remove failed, or a        *)
(* keyring backend stored the value and returned an error).                *)
(***************************************************************************)
Fates == {"ok", "clean", "kept"}

Suffer(f) == /\ f # "ok" => faults < MaxFaults
             /\ faults' = IF f = "ok" THEN faults ELSE faults + 1

Effect(f, old, new) == IF f = "clean" THEN old ELSE new

Goto(p, l)   == pc' = [pc EXCEPT ![p] = l]
Report(p, o) == outcome' = [outcome EXCEPT ![p] = o]
Call(p, c)   == caller' = [caller EXCEPT ![p] = c]
Return(p, o) == Goto(p, "unlock") /\ Report(p, o)

\* A process that has returned or crashed remembers nothing.
Forget(p) == /\ plan' = [plan EXCEPT ![p] = NoPlan]
             /\ txn' = [txn EXCEPT ![p] = NoTxn]
             /\ edit' = [edit EXCEPT ![p] = Absent]
             /\ caller' = [caller EXCEPT ![p] = "none"]

\* Mutation: the lock is taken although somebody holds it.
Acquire_Shared(p) == lock' = p
Acquire(p) == lock = None /\ lock' = p
-----------------------------------------------------------------------------
(***************************************************************************)
(* Store.Update: an ordinary profile edit.                                 *)
(***************************************************************************)
StartUpdate(p) == /\ pc[p] = "idle"
                  /\ Goto(p, "e_lock")
                  /\ Report(p, "none")
                  /\ UNCHANGED <<disk, version, lock, locals, bounds>>

LockUpdate(p) == /\ pc[p] = "e_lock"
                 /\ Acquire(p)
                 /\ Goto(p, "e_load")
                 /\ UNCHANGED <<disk, version, locals, outcome, bounds>>

\* A profile that is there is removed, one that is not is added.
Toggle(S, e) == IF e \in S THEN S \ {e} ELSE S \cup {e}
Edited(c, e) == FileOf([edits |-> Toggle(c.edits, e), mig |-> c.mig])

\* rejectPendingMigration looks only at the existence of the journal file.
LoadForUpdate(p) ==
  /\ pc[p] = "e_load"
  /\ \/ /\ journal.phase # "none"
        /\ Return(p, "update_refused")
        /\ UNCHANGED edit
     \/ /\ journal.phase = "none"
        /\ \E e \in Edits :
             edit' = [edit EXCEPT ![p] = Edited(config, e)]
        /\ Goto(p, "e_publish")
        /\ UNCHANGED outcome
  /\ UNCHANGED <<disk, version, lock, plan, txn, caller, bounds>>

\* atomicWriteFile with preserveExisting: first <config>.lkg, then the rename.  A
\* failure at the first ("clean"), between the two ("lkg") or after the rename ("kept").
PublishUpdate(p) ==
  /\ pc[p] = "e_publish"
  /\ \E f \in Fates \cup {"lkg"} :
       /\ Suffer(f)
       /\ lkg' = IF f = "clean" \/ ~config.exists THEN lkg ELSE config
       /\ config' = IF f \in {"clean", "lkg"} THEN config ELSE edit[p]
       /\ Return(p, CASE f = "ok"   -> "saved"
                      [] f = "kept" -> "published_unconfirmed"
                      [] OTHER      -> "update_failed")
  /\ UNCHANGED <<marker, journal, snapshot, backups, keyring, version, lock,
                 locals, crashes>>

Unlock(p) == /\ pc[p] = "unlock"
             /\ lock' = None
             /\ Goto(p, "idle")
             /\ Forget(p)
             /\ UNCHANGED <<disk, version, outcome, bounds>>
-----------------------------------------------------------------------------
(***************************************************************************)
(* runMigrate up to ApplyMigrationWithOptions: recovery first, then the    *)
(* preview, all of it outside the lock except the recovery itself.         *)
(***************************************************************************)
StartMigrate(p) == /\ pc[p] = "idle"
                   /\ Goto(p, "m_journal")
                   /\ Report(p, "none")
                   /\ UNCHANGED <<disk, version, lock, locals, bounds>>

\* RecoverPendingMigration: the journal is looked up without the lock.
InspectJournal(p) ==
  /\ pc[p] = "m_journal"
  /\ Goto(p, IF journal.phase = "none" THEN "m_orphan" ELSE "m_rlock")
  /\ UNCHANGED <<disk, version, lock, locals, outcome, bounds>>

\* inspectOrphanMigrationRecovery, still without the lock.
InspectOrphan(p) ==
  /\ pc[p] = "m_orphan"
  /\ IF snapshot.state = "absent"
     THEN Goto(p, "m_load") /\ UNCHANGED outcome
     ELSE Goto(p, "idle") /\ Report(p, "orphan")
  /\ UNCHANGED <<disk, version, lock, locals, bounds>>

LockRecover(p) == /\ pc[p] = "m_rlock"
                  /\ Acquire(p)
                  /\ Call(p, "explicit")
                  /\ Goto(p, "r_entry")
                  /\ UNCHANGED <<disk, version, plan, txn, edit, outcome, bounds>>

UnlockRecover(p) == /\ pc[p] = "m_runlock"
                    /\ lock' = None
                    /\ Call(p, "none")
                    /\ Goto(p, "m_load")
                    /\ UNCHANGED <<disk, version, plan, txn, edit, outcome, bounds>>

\* BuildMigrationPlan over a Config loaded without the lock.
BuildPlan(p) ==
  /\ pc[p] = "m_load"
  /\ plan' = [plan EXCEPT ![p] = [cfg |-> ContentOf(config), src |-> version]]
  /\ Goto(p, "m_precheck")
  /\ UNCHANGED <<disk, version, lock, txn, edit, caller, outcome, bounds>>

\* The source check applyMigration makes before it creates the lock file.
Precheck(p) ==
  /\ pc[p] = "m_precheck"
  /\ IF marker.txn # NoTxn \/ plan[p].src = version
     THEN Goto(p, "m_lock") /\ UNCHANGED <<plan, outcome>>
     ELSE /\ Goto(p, "idle")
          /\ Report(p, "sources_changed")
          /\ plan' = [plan EXCEPT ![p] = NoPlan]
  /\ UNCHANGED <<disk, version, lock, txn, edit, caller, bounds>>

LockApply(p) == /\ pc[p] = "m_lock"
                /\ Acquire(p)
                /\ Call(p, "apply")
                /\ Goto(p, "r_entry")
                /\ UNCHANGED <<disk, version, plan, txn, edit, outcome, bounds>>
-----------------------------------------------------------------------------
(***************************************************************************)
(* applyMigrationLocked.                                                   *)
(***************************************************************************)
ApplyVerdict(p) ==
  CASE marker.txn # NoTxn /\ ~(config.exists /\ ContentOf(config) = marker.cfg)
                                         -> "marker_config_mismatch"
    [] marker.txn # NoTxn /\ config.exists /\ ContentOf(config) = marker.cfg
         /\ marker.src # plan[p].src     -> "marker_sources_mismatch"
    [] marker.txn # NoTxn /\ config.exists /\ ContentOf(config) = marker.cfg
         /\ marker.src = plan[p].src     -> "already_migrated"
    [] marker.txn = NoTxn /\ ContentOf(config) # plan[p].cfg
                                         -> "destination_changed"
    [] marker.txn = NoTxn /\ ContentOf(config) = plan[p].cfg /\ version # plan[p].src
                                         -> "sources_changed"
    [] OTHER                             -> "go"

\* newMigrationTransactionID and NewOpaqueKeyringReference: 128 random bits.
FreshTxns == {t \in TxnIds : /\ t \notin {config.mig, marker.txn, journal.txn}
                             /\ Ours(t, keyring) = {} /\ Ours(t, backups) = {}}

\* Everything applyMigrationLocked verifies before its first side effect.
CheckApply(p) ==
  /\ pc[p] = "a_check"
  /\ \/ /\ ApplyVerdict(p) # "go"
        /\ Return(p, ApplyVerdict(p))
        /\ UNCHANGED <<txn, caller, faults>>
     \/ /\ ApplyVerdict(p) = "go"          \* the keyring preflight fails
        /\ KeyProfiles # {}
        /\ Suffer("clean")
        /\ Return(p, "keyring_unavailable")
        /\ UNCHANGED <<txn, caller>>
     \/ /\ ApplyVerdict(p) = "go"
        /\ \E t \in FreshTxns : txn' = [txn EXCEPT ![p] = t]
        /\ Call(p, "complete")
        /\ Goto(p, "a_begin")
        /\ UNCHANGED <<outcome, faults>>
  /\ UNCHANGED <<disk, version, lock, plan, edit, crashes>>

\* A failing step of the apply calls fail(), which recovers under the same lock.
ApplyStep(p, f, l) == IF f = "ok" THEN Goto(p, l) /\ UNCHANGED caller
                                  ELSE Goto(p, "r_load") /\ Call(p, "fail")

NewJournal(p) == [phase |-> "prepared", txn |-> txn[p], before |-> config,
                  after |-> Migrated(config, txn[p])]

\* beginMigrationJournal: a failure here returns without fail(), even when the
\* exclusive file has been created.
BeginJournal(p) ==
  /\ pc[p] = "a_begin"
  /\ \E f \in Fates :
       /\ Suffer(f)
       /\ journal' = Effect(f, journal, NewJournal(p))
       /\ IF f = "ok" THEN Goto(p, "a_snapshot") /\ UNCHANGED outcome
                      ELSE Return(p, "begin_failed")
  /\ UNCHANGED <<config, lkg, marker, snapshot, backups, keyring, version, lock,
                 locals, crashes>>

\* Mutation: the before image is never saved.
WriteSnapshot_Skipped(p) == /\ pc[p] = "a_snapshot"
                            /\ Goto(p, "a_backups")
                            /\ UNCHANGED <<disk, version, lock, locals, outcome, bounds>>
WriteSnapshot(p) ==
  /\ pc[p] = "a_snapshot"
  /\ IF journal.before.exists
     THEN \E f \in Fates :
            /\ Suffer(f)
            /\ snapshot' = Effect(f, snapshot, Saved(journal.before))
            /\ ApplyStep(p, f, "a_backups")
     ELSE Goto(p, "a_backups") /\ UNCHANGED <<snapshot, caller, faults>>
  /\ UNCHANGED <<config, lkg, marker, journal, backups, keyring, version, lock,
                 plan, txn, edit, outcome, crashes>>

WriteBackup(p) ==
  /\ pc[p] = "a_backups"
  /\ \E x \in BackupsOf(txn[p]) \ backups, f \in Fates :
       /\ Suffer(f)
       /\ backups' = Effect(f, backups, backups \cup {x})
       /\ ApplyStep(p, f, "a_backups")
  /\ UNCHANGED <<config, lkg, marker, journal, snapshot, keyring, version, lock,
                 plan, txn, edit, outcome, crashes>>

AtPhase(j, phase) == [j EXCEPT !.phase = phase]
\* advanceMigrationJournal: one phase forward, by atomic replacement.
Advance(p, phase, l) ==
  /\ journal.txn = txn[p] /\ journal.phase = Before[phase]
  /\ \E f \in Fates :
       /\ Suffer(f)
       /\ journal' = Effect(f, journal, AtPhase(journal, phase))
       /\ ApplyStep(p, f, l)
  /\ UNCHANGED <<config, lkg, marker, snapshot, backups, keyring, version, lock,
                 plan, txn, edit, outcome, crashes>>

AdvanceBackups(p) == /\ pc[p] = "a_backups"
                     /\ BackupsOf(txn[p]) \subseteq backups
                     /\ Advance(p, "backups", "a_keys")

\* keyring Set and the Get that verifies it.
SetKey(p) ==
  /\ pc[p] = "a_keys"
  /\ \E x \in Refs(txn[p]) \ keyring, f \in Fates :
       /\ Suffer(f)
       /\ keyring' = Effect(f, keyring, keyring \cup {x})
       /\ ApplyStep(p, f, "a_keys")
  /\ UNCHANGED <<config, lkg, marker, journal, snapshot, backups, version, lock,
                 plan, txn, edit, outcome, crashes>>

\* Mutation: the phase advances before every secret is stored.
AdvanceKeyring_Early(p) == /\ pc[p] = "a_keys"
                           /\ Refs(txn[p]) \cap keyring # {}
                           /\ Advance(p, "keyring", "a_config")
AdvanceKeyring(p) == /\ pc[p] = "a_keys"
                     /\ Refs(txn[p]) \subseteq keyring
                     /\ Advance(p, "keyring", "a_config")

\* replacePrepared without a last-known-good copy, then verify and strict reload.
WriteConfig(p) ==
  /\ pc[p] = "a_config"
  /\ \E f \in Fates :
       /\ Suffer(f)
       /\ config' = Effect(f, config, FileOf(journal.after))
       /\ ApplyStep(p, f, "a_adv_config")
  /\ UNCHANGED <<lkg, marker, journal, snapshot, backups, keyring, version, lock,
                 plan, txn, edit, outcome, crashes>>

AdvanceConfig(p) == pc[p] = "a_adv_config" /\ Advance(p, "config", "a_marker")

WriteMarker(p) ==
  /\ pc[p] = "a_marker"
  /\ \E f \in Fates :
       /\ Suffer(f)
       /\ marker' = Effect(f, marker, [txn |-> txn[p], cfg |-> journal.after,
                                       src |-> plan[p].src])
       /\ ApplyStep(p, f, "a_adv_marker")
  /\ UNCHANGED <<config, lkg, journal, snapshot, backups, keyring, version, lock,
                 plan, txn, edit, outcome, crashes>>

AdvanceMarker(p) == pc[p] = "a_adv_marker" /\ Advance(p, "marker_verified", "c_verify")
-----------------------------------------------------------------------------
(***************************************************************************)
(* recoverPendingMigration, under the lock, for one of three callers: the  *)
(* explicit recovery of runMigrate, the recovery that opens an apply, and  *)
(* the fail() of an apply whose step failed.                               *)
(***************************************************************************)
\* Mutation: the caller is told the transaction committed although it was rolled back.
Resume_Optimistic(p, done) ==
  CASE caller[p] = "apply"    -> Goto(p, "a_check") /\ UNCHANGED outcome
    [] caller[p] = "explicit" -> Goto(p, "m_runlock") /\ UNCHANGED outcome
    [] OTHER                  -> Return(p, "migrated")
Resume(p, done) ==
  CASE caller[p] = "apply"    -> Goto(p, "a_check") /\ UNCHANGED outcome
    [] caller[p] = "explicit" -> Goto(p, "m_runlock") /\ UNCHANGED outcome
    [] OTHER                  -> Return(p, done)

EnterRecovery(p) ==
  /\ pc[p] = "r_entry"
  /\ IF journal.phase # "none" THEN Goto(p, "r_load") /\ UNCHANGED outcome
     ELSE IF snapshot.state = "absent" THEN Resume(p, "none")
     ELSE Return(p, "orphan")
  /\ UNCHANGED <<disk, version, lock, locals, bounds>>

\* inspectMigrationRollbackArtifact accepts only the before and the after image,
\* and the after image only when the snapshot to restore can be loaded.
Restorable == journal.before.exists => snapshot = Saved(journal.before)
\* Mutation: any Config is taken for an image of this transaction.
KnownArtifacts_Config == marker.txn \in {NoTxn, journal.txn}
KnownArtifacts == /\ marker.txn \in {NoTxn, journal.txn}
                  /\ \/ IsBefore(config, journal)
                     \/ IsAfter(config, journal) /\ Restorable

\* Mutation: the Config and not the phase of the journal decides whether to complete.
LoadRecovery_ByImage(p) ==
  /\ pc[p] = "r_load"
  /\ IF ~Valid(journal) THEN Return(p, "recovery_required")
     ELSE IF journal.phase = "marker_verified" /\ IsAfter(config, journal)
     THEN Goto(p, "c_verify") /\ UNCHANGED outcome
     ELSE IF KnownArtifacts THEN Goto(p, "r_marker") /\ UNCHANGED outcome
     ELSE Return(p, "recovery_required")
  /\ UNCHANGED <<disk, version, lock, locals, bounds>>
LoadRecovery(p) ==
  /\ pc[p] = "r_load"
  /\ IF ~Valid(journal) THEN Return(p, "recovery_required")
     ELSE IF journal.phase = "marker_verified" THEN Goto(p, "c_verify") /\ UNCHANGED outcome
     ELSE IF KnownArtifacts THEN Goto(p, "r_marker") /\ UNCHANGED outcome
     ELSE Return(p, "recovery_required")
  /\ UNCHANGED <<disk, version, lock, locals, bounds>>

RecoveryStep(p, f, l) == IF f = "ok" THEN Goto(p, l) /\ UNCHANGED outcome
                                     ELSE Return(p, "recovery_required")

\* Mutation: the rollback leaves the marker behind.
RollbackMarker_Skipped(p) == /\ pc[p] = "r_marker"
                             /\ Goto(p, "r_config")
                             /\ UNCHANGED <<disk, version, lock, locals, outcome, bounds>>
RollbackMarker(p) ==
  /\ pc[p] = "r_marker"
  /\ IF marker.txn = NoTxn
     THEN Goto(p, "r_config") /\ UNCHANGED <<marker, outcome, faults>>
     ELSE \E f \in Fates : /\ Suffer(f)
                           /\ marker' = Effect(f, marker, NoMarker)
                           /\ RecoveryStep(p, f, "r_config")
  /\ UNCHANGED <<config, lkg, journal, snapshot, backups, keyring, version, lock,
                 locals, crashes>>

\* Mutation: secrets are deleted only once the phase says all of them were stored.
AfterConfigRollback_Late == IF journal.phase \in {"prepared", "backups"} THEN "r_backups"
                                                                       ELSE "r_keyring"
AfterConfigRollback == IF journal.phase = "prepared" THEN "r_backups" ELSE "r_keyring"

RollbackConfig(p) ==
  /\ pc[p] = "r_config"
  /\ IF IsBefore(config, journal)
     THEN Goto(p, AfterConfigRollback) /\ UNCHANGED <<config, outcome, faults>>
     ELSE \E f \in Fates :
            /\ Suffer(f)
            /\ config' = Effect(f, config, IF journal.before.exists THEN snapshot.data
                                                                     ELSE Absent)
            /\ RecoveryStep(p, f, AfterConfigRollback)
  /\ UNCHANGED <<lkg, marker, journal, snapshot, backups, keyring, version, lock,
                 locals, crashes>>

\* Every registered reference is deleted; one that is not found counts as deleted.
RollbackKeyring(p) ==
  /\ pc[p] = "r_keyring"
  /\ \E f \in Fates :
       /\ Suffer(f)
       /\ \/ \E x \in Ours(journal.txn, keyring) :
               /\ keyring' = Effect(f, keyring, keyring \ {x})
               /\ RecoveryStep(p, f, "r_keyring")
          \/ /\ f # "ok" \/ Ours(journal.txn, keyring) = {}
             /\ UNCHANGED keyring
             /\ RecoveryStep(p, f, "r_backups")
  /\ UNCHANGED <<config, lkg, marker, journal, snapshot, backups, version, lock,
                 locals, crashes>>

RollbackBackups(p) ==
  /\ pc[p] = "r_backups"
  /\ \/ \E x \in Ours(journal.txn, backups), f \in Fates :
          /\ Suffer(f)
          /\ backups' = Effect(f, backups, backups \ {x})
          /\ RecoveryStep(p, f, "r_backups")
     \/ /\ Ours(journal.txn, backups) = {}
        /\ Goto(p, "r_snapshot")
        /\ UNCHANGED <<backups, outcome, faults>>
  /\ UNCHANGED <<config, lkg, marker, journal, snapshot, keyring, version, lock,
                 locals, crashes>>

\* removeMigrationSnapshot refuses to remove a file whose digest it does not know.
\* Mutation: a snapshot that is already gone is an error, not a finished step.
NoSnapshotToRemove_Strict == ~journal.before.exists
NoSnapshotToRemove == ~journal.before.exists \/ snapshot.state = "absent"
ForeignSnapshot    == ~NoSnapshotToRemove /\ ~Restorable

RemoveSnapshot(p) ==
  /\ pc[p] = "r_snapshot"
  /\ IF NoSnapshotToRemove
     THEN Goto(p, "r_journal") /\ UNCHANGED <<snapshot, outcome, faults>>
     ELSE IF ForeignSnapshot
     THEN Return(p, "recovery_required") /\ UNCHANGED <<snapshot, faults>>
     ELSE \E f \in Fates : /\ Suffer(f)
                           /\ snapshot' = Effect(f, snapshot, NoFile)
                           /\ RecoveryStep(p, f, "r_journal")
  /\ UNCHANGED <<config, lkg, marker, journal, backups, keyring, version, lock,
                 locals, crashes>>

RemoveJournal(p) ==
  /\ pc[p] = "r_journal"
  /\ \E f \in Fates :
       /\ Suffer(f)
       /\ journal' = Effect(f, journal, NoJournal)
       /\ IF f = "ok" THEN Resume(p, "rolled_back") ELSE Return(p, "recovery_required")
  /\ UNCHANGED <<config, lkg, marker, snapshot, backups, keyring, version, lock,
                 locals, crashes>>
-----------------------------------------------------------------------------
(***************************************************************************)
(* completeMigrationJournal: called by an apply that went through          *)
(* ("complete"), whose failure falls back to fail(), or by the recovery.   *)
(***************************************************************************)
CompleteFailed(p) == IF caller[p] = "complete"
                     THEN Goto(p, "r_load") /\ Call(p, "fail") /\ UNCHANGED outcome
                     ELSE Return(p, "recovery_required") /\ UNCHANGED caller
CompleteStep(p, f, l) == IF f = "ok" THEN Goto(p, l) /\ UNCHANGED <<outcome, caller>>
                                     ELSE CompleteFailed(p)

VerifyCommitted(p) ==
  /\ pc[p] = "c_verify"
  /\ IF IsAfter(config, journal) /\ marker.txn = journal.txn
     THEN Goto(p, "c_snapshot") /\ UNCHANGED <<outcome, caller>>
     ELSE CompleteFailed(p)
  /\ UNCHANGED <<disk, version, lock, plan, txn, edit, bounds>>

CompleteSnapshot(p) ==
  /\ pc[p] = "c_snapshot"
  /\ IF NoSnapshotToRemove
     THEN Goto(p, "c_journal") /\ UNCHANGED <<snapshot, outcome, caller, faults>>
     ELSE IF ForeignSnapshot
     THEN CompleteFailed(p) /\ UNCHANGED <<snapshot, faults>>
     ELSE \E f \in Fates : /\ Suffer(f)
                           /\ snapshot' = Effect(f, snapshot, NoFile)
                           /\ CompleteStep(p, f, "c_journal")
  /\ UNCHANGED <<config, lkg, marker, journal, backups, keyring, version, lock,
                 plan, txn, edit, crashes>>

CompleteJournal(p) ==
  /\ pc[p] = "c_journal"
  /\ \E f \in Fates :
       /\ Suffer(f)
       /\ journal' = Effect(f, journal, NoJournal)
       /\ IF f = "ok" THEN Resume(p, "migrated") /\ UNCHANGED caller
                      ELSE CompleteFailed(p)
  /\ UNCHANGED <<config, lkg, marker, snapshot, backups, keyring, version, lock,
                 plan, txn, edit, crashes>>
-----------------------------------------------------------------------------
\* The kernel releases the lock of a process that dies.  A file that is created
\* exclusively and written in place may be left empty or cut short.
Crash(p) ==
  /\ pc[p] # "idle"
  /\ crashes < MaxCrashes
  /\ crashes' = crashes + 1
  /\ lock' = IF lock = p THEN None ELSE lock
  /\ Goto(p, "idle")
  /\ Report(p, "crashed")
  /\ Forget(p)
  /\ \/ UNCHANGED <<journal, snapshot>>
     \/ /\ pc[p] = "a_begin"
        /\ journal' = Torn
        /\ UNCHANGED snapshot
     \/ /\ pc[p] = "a_snapshot" /\ journal.before.exists
        /\ snapshot' = TornFile
        /\ UNCHANGED journal
  /\ UNCHANGED <<config, lkg, marker, backups, keyring, version, faults>>

\* The legacy tool rewrites its own configuration at any time.
ChangeSources == /\ \E v \in Versions \ {version} : version' = v
                 /\ UNCHANGED <<disk, lock, pc, locals, outcome, bounds>>

Init == /\ config \in {Absent, FileOf(NoContent)}
        /\ lkg = Absent /\ marker = NoMarker /\ journal = NoJournal /\ snapshot = NoFile
        /\ backups = {} /\ keyring = {}
        /\ version \in Versions
        /\ lock = None
        /\ pc = [p \in Procs |-> "idle"]
        /\ plan = [p \in Procs |-> NoPlan]
        /\ txn = [p \in Procs |-> NoTxn]
        /\ edit = [p \in Procs |-> Absent]
        /\ caller = [p \in Procs |-> "none"]
        /\ outcome = [p \in Procs |-> "none"]
        /\ crashes = 0 /\ faults = 0

Start(p)   == StartUpdate(p) \/ StartMigrate(p)
Lock(p)    == LockUpdate(p) \/ LockRecover(p) \/ LockApply(p)
Update(p)  == LoadForUpdate(p) \/ PublishUpdate(p) \/ Unlock(p)
Preview(p) == InspectJournal(p) \/ InspectOrphan(p) \/ UnlockRecover(p) \/ BuildPlan(p)
                \/ Precheck(p)
Apply(p)   == CheckApply(p) \/ BeginJournal(p) \/ WriteSnapshot(p) \/ WriteBackup(p)
                \/ AdvanceBackups(p) \/ SetKey(p) \/ AdvanceKeyring(p) \/ WriteConfig(p)
                \/ AdvanceConfig(p) \/ WriteMarker(p) \/ AdvanceMarker(p)
Recover(p) == EnterRecovery(p) \/ LoadRecovery(p) \/ RollbackMarker(p)
                \/ RollbackConfig(p) \/ RollbackKeyring(p) \/ RollbackBackups(p)
                \/ RemoveSnapshot(p) \/ RemoveJournal(p) \/ VerifyCommitted(p)
                \/ CompleteSnapshot(p) \/ CompleteJournal(p)

Next == \/ \E p \in Procs : Start(p) \/ Lock(p) \/ Update(p) \/ Preview(p)
                              \/ Apply(p) \/ Recover(p) \/ Crash(p)
        \/ ChangeSources

Spec == Init /\ [][Next]_vars

\* Fairness: a running command keeps running; the kernel does not starve a process
\* that waits for the lock; the user runs the migration again.  Nothing is assumed
\* of crashes, faults, profile updates or the legacy tool.
Fairness == \A p \in Procs : /\ WF_vars(Update(p) \/ Preview(p) \/ Apply(p) \/ Recover(p))
                             /\ SF_vars(Lock(p))
                             /\ SF_vars(StartMigrate(p))
FairSpec == Spec /\ Fairness
-----------------------------------------------------------------------------
TypeOK ==
  /\ config \in Config /\ lkg \in Config
  /\ marker \in Markers /\ journal \in Journals /\ snapshot \in Snapshots
  /\ backups \subseteq TxnIds \X Sources
  /\ keyring \subseteq TxnIds \X KeyProfiles
  /\ version \in Versions
  /\ lock \in Procs \cup {None}
  /\ pc \in [Procs -> PCs]
  /\ plan \in [Procs -> Plans]
  /\ txn \in [Procs -> TxnIds \cup {NoTxn}]
  /\ edit \in [Procs -> Config]
  /\ caller \in [Procs -> Callers]
  /\ outcome \in [Procs -> Outcomes]
  /\ crashes \in 0..MaxCrashes /\ faults \in 0..MaxFaults

(***************************************************************************)
(* No reader ever meets a migrated profile whose keyring secret is         *)
(* missing: secrets are written before the Config that refers to them is   *)
(* published and deleted only after that Config has been rolled back,      *)
(* whatever crashes.                                                       *)
(***************************************************************************)
NoDanglingCredential == config.mig # NoTxn => Refs(config.mig) \subseteq keyring

(***************************************************************************)
(* Every secret in the keyring and every backup of a legacy source belongs *)
(* to the committed migration or to the one the journal can still roll     *)
(* back: no crash, fault or rollback leaves a secret nobody will ever      *)
(* delete.                                                                 *)
(***************************************************************************)
Owners == {marker.txn} \cup (IF Valid(journal) THEN {journal.txn} ELSE {})
SideEffectsOwned == \A x \in keyring \cup backups : x[1] \in Owners

(***************************************************************************)
(* When no rollback is pending, the marker names exactly the transaction   *)
(* whose profiles the Config holds, and all backups of its sources are     *)
(* there.                                                                  *)
(***************************************************************************)
MarkerVouches == ~Pending => /\ marker.txn = config.mig
                             /\ marker.txn # NoTxn => BackupsOf(marker.txn) \subseteq backups

(***************************************************************************)
(* While a transaction can still fail, the Config is its before image or   *)
(* its after image, and in the second case the snapshot to go back to is   *)
(* intact.                                                                 *)
(***************************************************************************)
RollbackPossible ==
  Pending => IsBefore(config, journal) \/ (IsAfter(config, journal) /\ Restorable)

(***************************************************************************)
(* A command tells the truth, whatever others did between its steps.       *)
(* "migrated" is said only of a migration that is complete, cleaned up and *)
(* the one the user saw in the preview: of that Config and those sources.  *)
(* "rolled back" is said only when nothing of it remains, and a refused    *)
(* apply has left no journal, snapshot, backup or secret of its own.  An   *)
(* apply that could not begin has left at most a journal whose before      *)
(* image is the Config (beginMigrationJournal).  An update that may have   *)
(* been published is in the Config, one that failed is not                 *)
(* (publishedWriteError).                                                  *)
(***************************************************************************)
CleanState == journal.phase = "none" /\ snapshot.state = "absent"
Unmigrated == config.mig = NoTxn /\ marker.txn = NoTxn /\ keyring = {} /\ backups = {}
TruthOf(p) ==
  /\ outcome[p] \in {"migrated", "already_migrated"} =>
       /\ CleanState
       /\ marker.txn # NoTxn /\ marker.txn = config.mig /\ marker.src = plan[p].src
  /\ outcome[p] = "migrated" => config.edits = plan[p].cfg.edits
  /\ outcome[p] \in {"rolled_back", "destination_changed", "keyring_unavailable"} =>
       CleanState /\ Unmigrated
  /\ outcome[p] = "begin_failed" =>
       /\ Unmigrated /\ snapshot.state = "absent"
       /\ journal.phase = "none" \/ (journal.phase = "prepared" /\ IsBefore(config, journal))
  /\ outcome[p] \in {"saved", "published_unconfirmed"} => config = edit[p]
  /\ outcome[p] = "update_failed" => config # edit[p]
HonestStep == \A p \in Procs : outcome'[p] # outcome[p] => TruthOf(p)'
HonestOutcome == [][HonestStep]_vars

(***************************************************************************)
(* The transaction implements the atomic migration: what a reader sees     *)
(* after recovery changes only by an edit or by one commit that keeps      *)
(* every edit, so an update is never lost between preview, apply, rollback *)
(* and crash.                                                              *)
(***************************************************************************)
Atomic == INSTANCE AtomicMigration WITH
            profiles   <- IF Pending THEN journal.before.edits ELSE config.edits,
            migratedBy <- IF Pending THEN journal.before.mig ELSE config.mig
AtomicMigrationSpec == Atomic!ASpec

(***************************************************************************)
(* Once faults stop, a pending transaction does not stay pending: the next *)
(* migration completes it or rolls it back, unless a crash tore a file     *)
(* that was being created, which only a person can resolve.                *)
(***************************************************************************)
TornState == journal.phase = "torn" \/ snapshot.state = "torn"
RecoveryTerminates == []<>(journal.phase = "none" \/ TornState)

(***************************************************************************)
(* docs/operations/config-migration.md, MIG-IDEMPOTENT-001: when the       *)
(* sources have changed since the committed migration, a new run previews  *)
(* and processes them again; it does not refuse because of the change.     *)
(***************************************************************************)
ChangedSourcesReprocessed == \A p \in Procs : outcome[p] # "marker_sources_mismatch"
=============================================================================
