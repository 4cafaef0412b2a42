--------------------------- MODULE MigrationProofs ---------------------------
(***************************************************************************)
(* The safety of the migration transaction, for every value of the         *)
(* constants: of MigrationTxn alone (Spec) and beside a person who         *)
(* rewrites or deletes the Config while a transaction waits for its        *)
(* recovery (TSpec of MigrationTampered).  SafeInv is the invariant of     *)
(* both; ImageInv is what such a person adds, Undisturbed what the absence *)
(* of one does.                                                            *)
(***************************************************************************)
EXTENDS MigrationInvariant, MigrationTampered, TLAPS
-----------------------------------------------------------------------------
(***************************************************************************)
(* Lemmas about the values the model is built from: loading a Config gives *)
(* its content, publishing a content gives a Config that loads as that     *)
(* content, and a new or advanced journal, marker or snapshot is well      *)
(* formed.                                                                 *)
(***************************************************************************)
LEMMA ConfigValues ==
  /\ Absent \in Config /\ NoContent \in Content /\ NoContent = ContentOf(Absent)
  /\ ~Absent.exists /\ Absent.edits = {} /\ Absent.mig = NoTxn
  /\ NoContent.edits = {} /\ NoContent.mig = NoTxn
  /\ \A c \in Config : /\ c.exists \in BOOLEAN /\ c.edits \subseteq Edits
                       /\ c.mig \in TxnIds \cup {NoTxn}
                       /\ ContentOf(c) \in Content
                       /\ ContentOf(c).edits = c.edits /\ ContentOf(c).mig = c.mig
  /\ \A c \in Content : /\ c.edits \subseteq Edits /\ c.mig \in TxnIds \cup {NoTxn}
                        /\ FileOf(c) \in Config /\ FileOf(c).exists
                        /\ FileOf(c).edits = c.edits /\ FileOf(c).mig = c.mig
                        /\ ContentOf(FileOf(c)) = c
<1>1. Absent \in Config /\ ~Absent.exists /\ Absent.edits = {} /\ Absent.mig = NoTxn
  BY DEF Absent, Config
<1>2. \A c \in Config : /\ c.exists \in BOOLEAN /\ c.edits \subseteq Edits
                        /\ c.mig \in TxnIds \cup {NoTxn}
                        /\ ContentOf(c) \in Content
                        /\ ContentOf(c).edits = c.edits /\ ContentOf(c).mig = c.mig
  BY DEF ContentOf, Config, Content
<1>3. NoContent \in Content /\ NoContent.edits = {} /\ NoContent.mig = NoTxn
  BY <1>1, <1>2 DEF NoContent
<1>4. \A c \in Content : /\ c.edits \subseteq Edits /\ c.mig \in TxnIds \cup {NoTxn}
                         /\ FileOf(c) \in Config /\ FileOf(c).exists
                         /\ FileOf(c).edits = c.edits /\ FileOf(c).mig = c.mig
                         /\ ContentOf(FileOf(c)) = c
  BY DEF ContentOf, Config, Content, FileOf
<1> QED
  BY <1>1, <1>2, <1>3, <1>4 DEF NoContent

LEMMA MigratedValues ==
  ASSUME NEW c \in Config, NEW t \in TxnIds \cup {NoTxn}
  PROVE  /\ Migrated(c, t) \in Content
         /\ Migrated(c, t).edits = c.edits /\ Migrated(c, t).mig = t
BY DEF Config, Content, Migrated

LEMMA JournalValues ==
  /\ NoJournal \in Journals /\ NoJournal.phase = "none"
  /\ Torn \in Journals /\ Torn.phase = "torn"
  /\ \A j \in Journals : /\ j.phase \in Phases \cup {"none", "torn"}
                         /\ j.txn \in TxnIds \cup {NoTxn}
                         /\ j.before \in Config /\ j.after \in Content
                         /\ \A ph \in Phases :
                              LET k == AtPhase(j, ph)
                              IN  /\ k \in Journals /\ k.phase = ph
                                  /\ k.txn = j.txn /\ k.before = j.before /\ k.after = j.after
<1>1. /\ NoJournal \in Journals /\ NoJournal.phase = "none"
      /\ Torn \in Journals /\ Torn.phase = "torn"
  BY ConfigValues DEF NoJournal, Torn, Journals
<1>2. \A j \in Journals : /\ j.phase \in Phases \cup {"none", "torn"}
                          /\ j.txn \in TxnIds \cup {NoTxn}
                          /\ j.before \in Config /\ j.after \in Content
  BY DEF Journals
<1>3. ASSUME NEW j \in Journals, NEW ph \in Phases
      PROVE  LET k == AtPhase(j, ph)
             IN  /\ k \in Journals /\ k.phase = ph
                 /\ k.txn = j.txn /\ k.before = j.before /\ k.after = j.after
  BY DEF Journals, AtPhase
<1> QED
  BY <1>1, <1>2, <1>3

LEMMA NewJournalValues ==
  ASSUME TypeOK, NEW p \in Procs
  PROVE  LET j == NewJournal(p)
         IN  /\ j \in Journals /\ j.phase = "prepared" /\ j.txn = txn[p]
             /\ j.before = config
             /\ j.after = Migrated(config, txn[p])
<1>1. Migrated(config, txn[p]) \in Content
  BY MigratedValues DEF TypeOK
<1> QED
  BY <1>1 DEF TypeOK, Journals, NewJournal, Phases

LEMMA FileValues ==
  /\ NoMarker \in Markers /\ NoMarker.txn = NoTxn
  /\ NoFile \in Snapshots /\ NoFile.state = "absent"
  /\ TornFile \in Snapshots /\ TornFile.state = "torn"
  /\ NoPlan \in Plans
  /\ \A m \in Markers : m.txn \in TxnIds \cup {NoTxn}
  /\ \A c \in Config : /\ Saved(c) \in Snapshots
                       /\ Saved(c).state = "full" /\ Saved(c).data = c
  /\ \A f \in Snapshots : f.data \in Config /\ f.state \in {"absent", "torn", "full"}
  /\ \A pl \in Plans : pl.cfg \in Content /\ pl.src \in Versions \cup {NoVersion}
<1>1. NoMarker \in Markers /\ NoMarker.txn = NoTxn /\ NoPlan \in Plans
  BY ConfigValues DEF NoMarker, Markers, NoPlan, Plans
<1>2. /\ NoFile \in Snapshots /\ NoFile.state = "absent"
      /\ TornFile \in Snapshots /\ TornFile.state = "torn"
  BY ConfigValues DEF NoFile, TornFile, Snapshots
<1>3. \A c \in Config : /\ Saved(c) \in Snapshots
                        /\ Saved(c).state = "full" /\ Saved(c).data = c
  BY DEF Saved, Snapshots
<1>4. \A f \in Snapshots : f.data \in Config /\ f.state \in {"absent", "torn", "full"}
  BY DEF Snapshots
<1>5. /\ \A pl \in Plans : pl.cfg \in Content /\ pl.src \in Versions \cup {NoVersion}
      /\ \A m \in Markers : m.txn \in TxnIds \cup {NoTxn}
  BY DEF Plans, Markers
<1> QED
  BY <1>1, <1>2, <1>3, <1>4, <1>5

LEMMA EditedValues ==
  ASSUME NEW c \in Config, NEW e \in Edits
  PROVE  /\ Edited(c, e) \in Config /\ Edited(c, e).exists /\ Edited(c, e).mig = c.mig
         /\ Edited(c, e).edits \in {c.edits \cup {e}, c.edits \ {e}}
<1>1. Toggle(c.edits, e) \in {c.edits \cup {e}, c.edits \ {e}}
  BY DEF Toggle
<1>2. [edits |-> Toggle(c.edits, e), mig |-> c.mig] \in Content
  BY <1>1, ConfigValues DEF Content
<1> QED
  BY <1>1, <1>2, ConfigValues DEF Edited
-----------------------------------------------------------------------------
(***************************************************************************)
(* Every variable keeps its type: each action leaves each file, the        *)
(* journal, the lock and every process in one of the states the code can   *)
(* tell apart.                                                             *)
(***************************************************************************)
LEMMA Names ==
  /\ {"idle", "e_lock", "m_journal", "m_orphan", "m_rlock", "m_load", "m_precheck",
      "m_lock", "e_load", "e_publish", "m_runlock", "unlock", "a_check", "a_begin",
      "a_snapshot", "a_backups", "a_keys", "a_config", "a_adv_config", "a_marker",
      "a_adv_marker", "r_entry", "r_load", "r_marker", "r_config", "r_keyring",
      "r_backups", "r_snapshot", "r_journal", "c_verify", "c_snapshot", "c_journal"}
        \subseteq PCs
  /\ {"none", "saved", "published_unconfirmed", "update_failed", "update_refused", "orphan",
      "sources_changed", "keyring_unavailable", "begin_failed", "migrated", "rolled_back",
      "recovery_required", "crashed"} \subseteq Outcomes
BY DEF PCs, LockedPCs, ApplyPCs, RecoverPCs, Outcomes

LEMMA LocalTypes ==
  ASSUME TypeOK, NEW p \in Procs
  PROVE  /\ \A l \in PCs : Goto(p, l) => pc' \in [Procs -> PCs]
         /\ \A o \in Outcomes : Report(p, o) => outcome' \in [Procs -> Outcomes]
         /\ \A o \in Outcomes : Return(p, o) => /\ pc' \in [Procs -> PCs]
                                              /\ outcome' \in [Procs -> Outcomes]
         /\ \A o \in Outcomes : Resume(p, o) => /\ pc' \in [Procs -> PCs]
                                              /\ outcome' \in [Procs -> Outcomes]
         /\ \A f : \A l \in PCs : ApplyStep(p, f, l) => /\ pc' \in [Procs -> PCs]
                                                     /\ caller' \in [Procs -> Callers]
         /\ \A f : \A l \in PCs : RecoveryStep(p, f, l) => /\ pc' \in [Procs -> PCs]
                                                        /\ outcome' \in [Procs -> Outcomes]
         /\ CompleteFailed(p) => /\ pc' \in [Procs -> PCs]
                                 /\ outcome' \in [Procs -> Outcomes]
                                 /\ caller' \in [Procs -> Callers]
         /\ \A f : \A l \in PCs : CompleteStep(p, f, l) => /\ pc' \in [Procs -> PCs]
                                                        /\ outcome' \in [Procs -> Outcomes]
                                                        /\ caller' \in [Procs -> Callers]
         /\ \A f : Suffer(f) => faults' \in 0..MaxFaults
         /\ ApplyVerdict(p) \in Outcomes \/ ApplyVerdict(p) = "go"
<1> USE DEF TypeOK
<1>1. \A l \in PCs : Goto(p, l) => pc' \in [Procs -> PCs]
  BY DEF Goto
<1>2. \A o \in Outcomes : Report(p, o) => outcome' \in [Procs -> Outcomes]
  BY DEF Report
<1>3. \A o \in Outcomes : Return(p, o) => /\ pc' \in [Procs -> PCs]
                                       /\ outcome' \in [Procs -> Outcomes]
  BY <1>1, <1>2, Names DEF Return
<1>4. ASSUME NEW o \in Outcomes, Resume(p, o)
      PROVE  pc' \in [Procs -> PCs] /\ outcome' \in [Procs -> Outcomes]
  <2>1. CASE caller[p] = "apply"
    BY <2>1, <1>1, <1>4, Names DEF Resume
  <2>2. CASE caller[p] = "explicit"
    BY <2>2, <1>1, <1>4, Names DEF Resume
  <2>3. CASE caller[p] \notin {"apply", "explicit"}
    BY <2>3, <1>3, <1>4, Names DEF Resume
  <2> QED
    BY <2>1, <2>2, <2>3
<1>5. \A c \in Callers : Call(p, c) => caller' \in [Procs -> Callers]
  BY DEF Call
<1>6. ASSUME NEW f, NEW l \in PCs, ApplyStep(p, f, l)
      PROVE  pc' \in [Procs -> PCs] /\ caller' \in [Procs -> Callers]
  BY <1>1, <1>5, <1>6, Names DEF ApplyStep, Callers
<1>7. ASSUME NEW f, NEW l \in PCs, RecoveryStep(p, f, l)
      PROVE  pc' \in [Procs -> PCs] /\ outcome' \in [Procs -> Outcomes]
  BY <1>1, <1>3, <1>7, Names DEF RecoveryStep
<1>8. CompleteFailed(p) => /\ pc' \in [Procs -> PCs]
                           /\ outcome' \in [Procs -> Outcomes]
                           /\ caller' \in [Procs -> Callers]
  BY <1>1, <1>3, <1>5, Names DEF CompleteFailed, Callers
<1>9. ASSUME NEW f, NEW l \in PCs, CompleteStep(p, f, l)
      PROVE  /\ pc' \in [Procs -> PCs] /\ outcome' \in [Procs -> Outcomes]
             /\ caller' \in [Procs -> Callers]
  BY <1>1, <1>8, <1>9 DEF CompleteStep
<1>10. \A f : Suffer(f) => faults' \in 0..MaxFaults
  BY MigrationAssumption DEF Suffer
<1>11. ApplyVerdict(p) \in Outcomes \/ ApplyVerdict(p) = "go"
  BY DEF ApplyVerdict, Outcomes
<1> QED
  BY <1>1, <1>2, <1>3, <1>4, <1>6, <1>7, <1>8, <1>9, <1>10, <1>11

LEMMA TypeInit == Init => TypeInv
BY MigrationAssumption, ConfigValues, JournalValues, FileValues
   DEF Init, TypeInv, TxnInv, TypeOK, PCs, Callers, Outcomes, ApplyPCs

LEMMA TypeStep == TypeInv /\ [Next]_vars => TypeOK'
<1> SUFFICES ASSUME TypeOK, TxnInv, [Next]_vars PROVE TypeOK'
  BY DEF TypeInv
<1> USE DEF disk, locals, bounds
<1>1. ASSUME NEW p \in Procs,
             Start(p) \/ Lock(p) \/ Update(p) \/ Preview(p) \/ Apply(p) \/ Recover(p) \/ Crash(p)
      PROVE  TypeOK'
  <2> USE LocalTypes, Names DEF TypeOK
  <2>1. CASE StartUpdate(p)
    BY <2>1 DEF StartUpdate
  <2>2. CASE StartMigrate(p)
    BY <2>2 DEF StartMigrate
  <2>3. CASE LockUpdate(p)
    BY <2>3 DEF LockUpdate, Acquire
  <2>4. CASE LockRecover(p)
    BY <2>4 DEF LockRecover, Acquire, Call, Callers
  <2>5. CASE LockApply(p)
    BY <2>5 DEF LockApply, Acquire, Call, Callers
  <2>6. CASE LoadForUpdate(p)
    <3>1. CASE journal.phase # "none"
      BY <2>6, <3>1 DEF LoadForUpdate
    <3>2. CASE journal.phase = "none"
      <4>1. PICK e \in Edits : edit' = [edit EXCEPT ![p] = Edited(config, e)]
        BY <2>6, <3>2 DEF LoadForUpdate
      <4>2. edit' \in [Procs -> Config]
        BY <4>1, EditedValues
      <4> QED
        BY <2>6, <3>2, <4>2 DEF LoadForUpdate
    <3> QED
      BY <3>1, <3>2
  <2>7. CASE PublishUpdate(p)
    BY <2>7 DEF PublishUpdate
  <2>8. CASE Unlock(p)
    BY <2>8, ConfigValues, FileValues DEF Unlock, Forget, Callers
  <2>9. CASE InspectJournal(p)
    BY <2>9 DEF InspectJournal
  <2>10. CASE InspectOrphan(p)
    BY <2>10 DEF InspectOrphan
  <2>11. CASE UnlockRecover(p)
    BY <2>11 DEF UnlockRecover, Call, Callers
  <2>12. CASE BuildPlan(p)
    BY <2>12, ConfigValues DEF BuildPlan, Plans
  <2>13. CASE Precheck(p)
    BY <2>13, FileValues DEF Precheck
  <2>14. CASE CheckApply(p)
    BY <2>14 DEF CheckApply, FreshTxns, Call, Callers
  <2>15. CASE BeginJournal(p)
    BY <2>15, NewJournalValues DEF BeginJournal, Effect
  <2>16. CASE WriteSnapshot(p)
    BY <2>16, JournalValues, FileValues DEF WriteSnapshot, Effect
  <2>17. CASE WriteBackup(p)
    <3>1. PICK x \in BackupsOf(txn[p]) \ backups, f \in Fates :
            /\ Suffer(f) /\ backups' = Effect(f, backups, backups \cup {x})
            /\ ApplyStep(p, f, "a_backups")
      BY <2>17 DEF WriteBackup
    <3>2. x \in TxnIds \X Sources
      BY <2>17, <3>1 DEF BackupsOf, WriteBackup, TxnInv, ApplyPCs
    <3> QED
      BY <2>17, <3>1, <3>2 DEF WriteBackup, Effect
  <2>18. CASE AdvanceBackups(p)
    BY <2>18, JournalValues DEF AdvanceBackups, Advance, Effect, Phases
  <2>19. CASE SetKey(p)
    <3>1. PICK x \in Refs(txn[p]) \ keyring, f \in Fates :
            /\ Suffer(f) /\ keyring' = Effect(f, keyring, keyring \cup {x})
            /\ ApplyStep(p, f, "a_keys")
      BY <2>19 DEF SetKey
    <3>2. x \in TxnIds \X KeyProfiles
      BY <2>19, <3>1 DEF Refs, SetKey, TxnInv, ApplyPCs
    <3> QED
      BY <2>19, <3>1, <3>2 DEF SetKey, Effect
  <2>20. CASE AdvanceKeyring(p)
    BY <2>20, JournalValues DEF AdvanceKeyring, Advance, Effect, Phases
  <2>21. CASE WriteConfig(p)
    BY <2>21, ConfigValues, JournalValues DEF WriteConfig, Effect
  <2>22. CASE AdvanceConfig(p)
    BY <2>22, JournalValues DEF AdvanceConfig, Advance, Effect, Phases
  <2>23. CASE WriteMarker(p)
    BY <2>23, JournalValues, FileValues DEF WriteMarker, Markers, Effect
  <2>24. CASE AdvanceMarker(p)
    BY <2>24, JournalValues DEF AdvanceMarker, Advance, Effect, Phases
  <2>25. CASE EnterRecovery(p)
    BY <2>25 DEF EnterRecovery
  <2>26. CASE LoadRecovery(p)
    BY <2>26 DEF LoadRecovery
  <2>27. CASE RollbackMarker(p)
    BY <2>27, FileValues DEF RollbackMarker, Effect
  <2>28. CASE RollbackConfig(p)
    BY <2>28, ConfigValues, JournalValues, FileValues DEF RollbackConfig,
       AfterConfigRollback, Effect
  <2>29. CASE RollbackKeyring(p)
    BY <2>29 DEF RollbackKeyring, Effect
  <2>30. CASE RollbackBackups(p)
    BY <2>30 DEF RollbackBackups, Effect
  <2>31. CASE RemoveSnapshot(p)
    BY <2>31, FileValues DEF RemoveSnapshot, Effect
  <2>32. CASE RemoveJournal(p)
    BY <2>32, JournalValues DEF RemoveJournal, Effect
  <2>33. CASE VerifyCommitted(p)
    BY <2>33 DEF VerifyCommitted
  <2>34. CASE CompleteSnapshot(p)
    BY <2>34, FileValues DEF CompleteSnapshot, Effect
  <2>35. CASE CompleteJournal(p)
    BY <2>35, JournalValues DEF CompleteJournal, Effect
  <2>36. CASE Crash(p)
    BY <2>36, MigrationAssumption, ConfigValues, JournalValues, FileValues DEF Crash,
       Forget, Callers
  <2> QED
    BY <1>1, <2>1, <2>2, <2>3, <2>4, <2>5, <2>6, <2>7, <2>8, <2>9, <2>10, <2>11, <2>12,
       <2>13, <2>14, <2>15, <2>16, <2>17, <2>18, <2>19, <2>20, <2>21, <2>22, <2>23,
       <2>24, <2>25, <2>26, <2>27, <2>28, <2>29, <2>30, <2>31, <2>32, <2>33, <2>34,
       <2>35, <2>36
       DEF Start, Lock, Update, Preview, Apply, Recover
<1>2. CASE ChangeSources
  BY <1>2 DEF ChangeSources, TypeOK
<1>3. CASE UNCHANGED vars
  BY <1>3 DEF vars, TypeOK
<1> QED
  BY <1>1, <1>2, <1>3 DEF Next


\* Only CheckApply chooses a transaction; every other step keeps it or forgets it.
LEMMA TxnStep == TypeInv /\ [Next]_vars => TxnInv'
<1> SUFFICES ASSUME TypeOK, TxnInv, [Next]_vars PROVE TxnInv'
  BY DEF TypeInv
<1> USE DEF TxnInv, ApplyPCs
<1>1. ASSUME NEW p \in Procs,
             Start(p) \/ Lock(p) \/ Update(p) \/ Preview(p) \/ Apply(p) \/ Recover(p) \/ Crash(p)
      PROVE  TxnInv'
  <2> USE DEF locals, TypeOK
  <2>1. CASE StartUpdate(p)
    BY <2>1 DEF StartUpdate, Goto
  <2>2. CASE StartMigrate(p)
    BY <2>2 DEF StartMigrate, Goto
  <2>3. CASE LockUpdate(p)
    BY <2>3 DEF LockUpdate, Goto
  <2>4. CASE LockRecover(p)
    BY <2>4 DEF LockRecover, Goto
  <2>5. CASE LockApply(p)
    BY <2>5 DEF LockApply, Goto
  <2>6. CASE LoadForUpdate(p)
    BY <2>6 DEF LoadForUpdate, Return, Goto
  <2>7. CASE PublishUpdate(p)
    BY <2>7 DEF PublishUpdate, Return, Goto
  <2>8. CASE Unlock(p)
    BY <2>8 DEF Unlock, Forget, Goto
  <2>9. CASE InspectJournal(p)
    BY <2>9 DEF InspectJournal, Goto
  <2>10. CASE InspectOrphan(p)
    BY <2>10 DEF InspectOrphan, Goto
  <2>11. CASE UnlockRecover(p)
    BY <2>11 DEF UnlockRecover, Goto
  <2>12. CASE BuildPlan(p)
    BY <2>12 DEF BuildPlan, Goto
  <2>13. CASE Precheck(p)
    BY <2>13 DEF Precheck, Goto
  <2>14. CASE CheckApply(p)
    BY <2>14 DEF CheckApply, FreshTxns, Return, Goto
  <2>15. CASE BeginJournal(p)
    BY <2>15 DEF BeginJournal, Return, Goto
  <2>16. CASE WriteSnapshot(p)
    BY <2>16 DEF WriteSnapshot, ApplyStep, Goto
  <2>17. CASE WriteBackup(p)
    BY <2>17 DEF WriteBackup, ApplyStep, Goto
  <2>18. CASE AdvanceBackups(p)
    BY <2>18 DEF AdvanceBackups, Advance, ApplyStep, Goto
  <2>19. CASE SetKey(p)
    BY <2>19 DEF SetKey, ApplyStep, Goto
  <2>20. CASE AdvanceKeyring(p)
    BY <2>20 DEF AdvanceKeyring, Advance, ApplyStep, Goto
  <2>21. CASE WriteConfig(p)
    BY <2>21 DEF WriteConfig, ApplyStep, Goto
  <2>22. CASE AdvanceConfig(p)
    BY <2>22 DEF AdvanceConfig, Advance, ApplyStep, Goto
  <2>23. CASE WriteMarker(p)
    BY <2>23 DEF WriteMarker, ApplyStep, Goto
  <2>24. CASE AdvanceMarker(p)
    BY <2>24 DEF AdvanceMarker, Advance, ApplyStep, Goto
  <2>25. CASE EnterRecovery(p)
    BY <2>25 DEF EnterRecovery, Resume, Return, Goto
  <2>26. CASE LoadRecovery(p)
    BY <2>26 DEF LoadRecovery, Return, Goto
  <2>27. CASE RollbackMarker(p)
    BY <2>27 DEF RollbackMarker, RecoveryStep, Return, Goto
  <2>28. CASE RollbackConfig(p)
    BY <2>28 DEF RollbackConfig, RecoveryStep, Return, Goto, AfterConfigRollback
  <2>29. CASE RollbackKeyring(p)
    BY <2>29 DEF RollbackKeyring, RecoveryStep, Return, Goto
  <2>30. CASE RollbackBackups(p)
    BY <2>30 DEF RollbackBackups, RecoveryStep, Return, Goto
  <2>31. CASE RemoveSnapshot(p)
    BY <2>31 DEF RemoveSnapshot, RecoveryStep, Return, Goto
  <2>32. CASE RemoveJournal(p)
    BY <2>32 DEF RemoveJournal, Resume, Return, Goto
  <2>33. CASE VerifyCommitted(p)
    BY <2>33 DEF VerifyCommitted, CompleteFailed, Return, Goto
  <2>34. CASE CompleteSnapshot(p)
    BY <2>34 DEF CompleteSnapshot, CompleteStep, CompleteFailed, Return, Goto
  <2>35. CASE CompleteJournal(p)
    BY <2>35 DEF CompleteJournal, CompleteFailed, Resume, Return, Goto
  <2>36. CASE Crash(p)
    BY <2>36 DEF Crash, Forget, Goto
  <2> QED
    BY <1>1, <2>1, <2>2, <2>3, <2>4, <2>5, <2>6, <2>7, <2>8, <2>9, <2>10, <2>11, <2>12,
       <2>13, <2>14, <2>15, <2>16, <2>17, <2>18, <2>19, <2>20, <2>21, <2>22, <2>23,
       <2>24, <2>25, <2>26, <2>27, <2>28, <2>29, <2>30, <2>31, <2>32, <2>33, <2>34,
       <2>35, <2>36
       DEF Start, Lock, Update, Preview, Apply, Recover
<1>2. CASE ChangeSources
  BY <1>2 DEF ChangeSources, locals
<1>3. CASE UNCHANGED vars
  BY <1>3 DEF vars
<1> QED
  BY <1>1, <1>2, <1>3 DEF Next
-----------------------------------------------------------------------------
\* What carries the name of a transaction is named by it.
LEMMA Named == \A t : \A x \in Refs(t) \cup BackupsOf(t) : x[1] = t
BY DEF Refs, BackupsOf

\* Without a transaction the keyring and the backups are empty.
LEMMA OwnedByNobody == TypeOK /\ OwnedBy(NoTxn) => keyring = {} /\ backups = {}
BY MigrationAssumption DEF TypeOK, OwnedBy

\* What one transaction owns alone is all there is.
LEMMA OursIfOwned ==
  ASSUME NEW t, OwnedBy(t)
  PROVE  Ours(t, keyring) = keyring /\ Ours(t, backups) = backups
BY DEF OwnedBy, Ours

\* The after image names the transaction and keeps the edits, so it is not the before image.
LEMMA AfterNotBefore ==
  ASSUME TypeOK, DiskInv, Valid(journal), IsAfter(config, journal)
  PROVE  /\ config.mig = journal.txn /\ config.edits = journal.before.edits
         /\ journal.txn # NoTxn /\ ~IsBefore(config, journal)
<1>1. /\ journal.before \in Config /\ journal.txn \in TxnIds /\ journal.before.mig = NoTxn
      /\ ContentOf(config) = Migrated(journal.before, journal.txn)
  BY JournalValues DEF TypeOK, DiskInv, JournalInv, IsAfter
<1>2. /\ ContentOf(config).mig = journal.txn
      /\ ContentOf(config).edits = journal.before.edits
  BY <1>1, MigratedValues
<1>3. config.mig = journal.txn /\ config.edits = journal.before.edits
  BY <1>2, ConfigValues DEF TypeOK
<1> QED
  BY <1>1, <1>3, MigrationAssumption DEF IsBefore

\* The before image holds no migrated profile.
LEMMA BeforeUnmigrated ==
  DiskInv /\ Valid(journal) /\ IsBefore(config, journal) => config.mig = NoTxn
BY DEF DiskInv, JournalInv, IsBefore

\* Once the before image is back, side effects may go in any order.
LEMMA CleanupKeepsDisk ==
  ASSUME DiskInv, Pending, AtBefore, UNCHANGED <<config, marker, journal>>,
         keyring' \subseteq keyring, backups' \subseteq backups,
         snapshot' = snapshot \/ snapshot'.state = "absent"
  PROVE  DiskInv'
<1>1. config.mig = NoTxn /\ marker.txn = NoTxn /\ Valid(journal) /\ Pending'
  BY BeforeUnmigrated DEF AtBefore, Pending, Valid
<1>2. FileInv' /\ QuietInv' /\ NamesInv' /\ CommittedInv'
  BY <1>1 DEF DiskInv, FileInv, QuietInv, NamesInv, CommittedInv, Pending
<1>3. JournalInv'
  BY <1>1 DEF DiskInv, JournalInv, OwnedBy
<1>4. PendingInv'
  BY <1>1 DEF DiskInv, PendingInv
<1> QED
  BY <1>2, <1>3, <1>4 DEF DiskInv

\* The rollback finds one of the images of the transaction and leaves that one, or the
\* before image; it goes on only from the before image.
LEMMA ConfigRollback ==
  ASSUME TypeOK, DiskInv, NEW p \in Procs, HolderInv(p), RollbackConfig(p)
  PROVE  /\ Pending /\ Valid(journal) /\ marker.txn = NoTxn
         /\ IsBefore(config, journal) \/ (IsAfter(config, journal) /\ Restorable)
         /\ UNCHANGED <<marker, journal, snapshot, backups, keyring>>
         /\ config' = config \/ config' = journal.before
         /\ pc'[p] # "unlock" => config' = journal.before
<1>1. /\ Pending /\ Valid(journal) /\ marker.txn = NoTxn
      /\ IsBefore(config, journal) \/ IsAfter(config, journal)
  BY DEF RollbackConfig, HolderInv, Pending
<1>2. IsBefore(config, journal) \/ (IsAfter(config, journal) /\ Restorable)
  BY <1>1, AfterNotBefore DEF DiskInv, PendingInv
<1>3. CASE IsBefore(config, journal)
  BY <1>1, <1>2, <1>3 DEF RollbackConfig, IsBefore
<1>4. CASE ~IsBefore(config, journal)
  <2>1. journal.before = IF journal.before.exists THEN snapshot.data ELSE Absent
    BY <1>1, <1>2, <1>4, JournalValues, FileValues DEF Restorable, DiskInv, JournalInv, TypeOK
  <2>2. PICK f \in Fates : /\ config' = Effect(f, config, journal.before)
                         /\ RecoveryStep(p, f, AfterConfigRollback)
    BY <1>4, <2>1 DEF RollbackConfig
  <2>3. /\ config' = config \/ config' = journal.before
        /\ pc'[p] # "unlock" => config' = journal.before
    BY <2>2 DEF Effect, RecoveryStep, Return, Goto, TypeOK
  <2> QED
    BY <1>1, <1>2, <2>3 DEF RollbackConfig
<1> QED
  BY <1>3, <1>4

\* A step that leaves the files alone preserves what is true of them.
LEMMA DiskSame == DiskInv /\ UNCHANGED disk => DiskInv'
BY DEF disk, DiskInv, FileInv, QuietInv, JournalInv, NamesInv, PendingInv, CommittedInv, OwnedBy,
       Pending, Restorable

\* A step of another process preserves what is true of the holder of the lock.
LEMMA HolderSame ==
  ASSUME NEW q \in Procs, HolderInv(q), UNCHANGED disk,
         pc'[q] = pc[q], txn'[q] = txn[q], edit'[q] = edit[q]
  PROVE  HolderInv(q)'
BY DEF disk, HolderInv, AtBefore, Pending, Valid, IsBefore, IsAfter, Restorable

\* HolderInv says nothing of a process that does not hold the lock.
LEMMA Outsider ==
  ASSUME NEW q \in Procs, pc'[q] \notin LockedPCs
  PROVE  HolderInv(q)'
BY DEF HolderInv, LockedPCs, ApplyPCs, RecoverPCs

\* Steps the holder of the lock takes while it keeps the lock.
LEMMA InsideStep ==
  ASSUME TypeOK, LockInv, NEW p \in Procs, pc[p] \in LockedPCs,
         pc'[p] \in LockedPCs, \A q \in Procs \ {p} : pc'[q] = pc[q], lock' = lock,
         HolderInv(p)'
  PROVE  LockInv' /\ \A q \in Procs : HolderInv(q)'
<1>1. lock = p /\ \A q \in Procs \ {p} : pc'[q] \notin LockedPCs
  BY DEF LockInv
<1>2. LockInv'
  BY <1>1 DEF LockInv
<1> QED
  BY <1>1, <1>2, Outsider

\* Steps that leave every file alone and are taken, or end, outside the lock.
LEMMA OutsideStep ==
  ASSUME TypeOK, LockInv, \A q \in Procs : HolderInv(q), NEW p \in Procs, UNCHANGED disk,
         pc'[p] \notin LockedPCs,
         \A q \in Procs \ {p} : pc'[q] = pc[q] /\ txn'[q] = txn[q] /\ edit'[q] = edit[q],
         lock' = IF lock = p THEN None ELSE lock
  PROVE  LockInv' /\ \A q \in Procs : HolderInv(q)'
<1>1. LockInv'
  BY MigrationAssumption DEF LockInv
<1>2. ASSUME NEW q \in Procs \ {p} PROVE HolderInv(q)'
  BY <1>2, HolderSame
<1> QED
  BY <1>1, <1>2, Outsider

\* The lock changes hands only from nobody to a process that waits for it.
LEMMA AcquireStep ==
  ASSUME TypeOK, LockInv, NEW p \in Procs, lock = None, lock' = p,
         pc'[p] \in {"e_load", "r_entry"}, \A q \in Procs \ {p} : pc'[q] = pc[q]
  PROVE  LockInv' /\ \A q \in Procs : HolderInv(q)'
<1>1. \A q \in Procs \ {p} : pc'[q] \notin LockedPCs
  BY MigrationAssumption DEF LockInv
<1>2. LockInv'
  BY <1>1 DEF LockInv, LockedPCs, RecoverPCs
<1>3. HolderInv(p)'
  BY DEF HolderInv
<1> QED
  BY <1>1, <1>2, <1>3, Outsider
-----------------------------------------------------------------------------
\* Starting a command preserves the invariant.
LEMMA StartSafe ==
  ASSUME TypeInv, TypeOK', Safe, NEW p \in Procs, Start(p)
  PROVE  Safe'
<1> USE DEF Safe, TypeInv, locals
<1>1. CASE StartUpdate(p)
  BY <1>1, OutsideStep, DiskSame
     DEF StartUpdate, Goto, LockedPCs, ApplyPCs, RecoverPCs, LockInv
<1>2. CASE StartMigrate(p)
  BY <1>2, OutsideStep, DiskSame
     DEF StartMigrate, Goto, LockedPCs, ApplyPCs, RecoverPCs, LockInv
<1> QED
  BY <1>1, <1>2 DEF Start

\* Taking the lock preserves the invariant.
LEMMA LockSafe ==
  ASSUME TypeInv, TypeOK', Safe, NEW p \in Procs, Lock(p)
  PROVE  Safe'
<1> USE DEF Safe, TypeInv, locals
<1>1. CASE LockUpdate(p)
  BY <1>1, AcquireStep, DiskSame DEF LockUpdate, Acquire, Goto, TypeOK
<1>2. CASE LockRecover(p)
  BY <1>2, AcquireStep, DiskSame DEF LockRecover, Acquire, Goto, TypeOK
<1>3. CASE LockApply(p)
  BY <1>3, AcquireStep, DiskSame DEF LockApply, Acquire, Goto, TypeOK
<1> QED
  BY <1>1, <1>2, <1>3 DEF Lock

\* The preview preserves the invariant.
LEMMA PreviewSafe ==
  ASSUME TypeInv, TypeOK', Safe, NEW p \in Procs, Preview(p)
  PROVE  Safe'
<1> USE DEF Safe, TypeInv, locals
<1>1. CASE InspectJournal(p)
  BY <1>1, OutsideStep, DiskSame
     DEF InspectJournal, Goto, LockedPCs, ApplyPCs, RecoverPCs, LockInv
<1>2. CASE InspectOrphan(p)
  BY <1>2, OutsideStep, DiskSame
     DEF InspectOrphan, Goto, TypeOK, LockedPCs, ApplyPCs, RecoverPCs, LockInv
<1>3. CASE UnlockRecover(p)
  BY <1>3, OutsideStep, DiskSame
     DEF UnlockRecover, Goto, TypeOK, LockedPCs, ApplyPCs, RecoverPCs, LockInv
<1>4. CASE BuildPlan(p)
  BY <1>4, OutsideStep, DiskSame
     DEF BuildPlan, Goto, LockedPCs, ApplyPCs, RecoverPCs, LockInv
<1>5. CASE Precheck(p)
  BY <1>5, OutsideStep, DiskSame
     DEF Precheck, Goto, TypeOK, LockedPCs, ApplyPCs, RecoverPCs, LockInv
<1> QED
  BY <1>1, <1>2, <1>3, <1>4, <1>5 DEF Preview

\* An ordinary update of the configuration preserves the invariant.
LEMMA UpdateSafe ==
  ASSUME TypeInv, TypeOK', Safe, NEW p \in Procs, Update(p)
  PROVE  Safe'
<1> USE DEF Safe, TypeInv, locals
<1>1. CASE LoadForUpdate(p)
  <2>1. /\ pc[p] \in LockedPCs /\ pc'[p] \in LockedPCs /\ lock' = lock
        /\ \A q \in Procs \ {p} : pc'[q] = pc[q]
    BY <1>1 DEF LoadForUpdate, TypeOK, LockedPCs, Goto, Return
  <2>2. DiskInv'
    BY <1>1, DiskSame DEF LoadForUpdate
  <2>3. HolderInv(p)'
    <3>1. CASE journal.phase # "none"
      <4>1. pc'[p] = "unlock"
        BY <1>1, <3>1 DEF LoadForUpdate, Return, Goto, TypeOK
      <4> QED
        BY <4>1 DEF HolderInv
    <3>2. CASE journal.phase = "none"
      <4>1. PICK e \in Edits : edit' = [edit EXCEPT ![p] = Edited(config, e)]
        BY <1>1, <3>2 DEF LoadForUpdate, TypeOK, disk
      <4>2. /\ edit'[p].exists /\ edit'[p].mig = config.mig
            /\ edit'[p].edits \in {config.edits \cup {e}, config.edits \ {e}}
        BY <4>1, EditedValues DEF TypeOK
      <4>3. \E x \in Edits : edit'[p].edits \in {config.edits \cup {x}, config.edits \ {x}}
        BY <4>2
      <4>4. /\ pc'[p] = "e_publish"
            /\ config' = config /\ journal' = journal
        BY <1>1, <3>2 DEF LoadForUpdate, Goto, TypeOK, disk
      <4>5. \E x \in Edits : edit'[p].edits \in {config'.edits \cup {x}, config'.edits \ {x}}
        BY <4>3, <4>4
      <4> QED
        BY <3>2, <4>2, <4>4, <4>5 DEF HolderInv
    <3> QED
      BY <3>1, <3>2
  <2> QED
    BY <2>1, <2>2, <2>3, InsideStep
<1>2. CASE PublishUpdate(p)
  <2>1. /\ pc[p] \in LockedPCs /\ pc'[p] \in LockedPCs /\ lock' = lock
        /\ \A q \in Procs \ {p} : pc'[q] = pc[q]
    BY <1>2 DEF PublishUpdate, TypeOK, LockedPCs, ApplyPCs, RecoverPCs, Goto, Return
  <2>2. DiskInv'
    BY <1>2
       DEF PublishUpdate, DiskInv, FileInv, QuietInv, JournalInv, NamesInv, PendingInv,
           CommittedInv, HolderInv, OwnedBy, Pending, Valid, Phases
  <2>3. HolderInv(p)'
    BY <1>2 DEF PublishUpdate, HolderInv, Goto, Return
  <2> QED
    BY <2>1, <2>2, <2>3, InsideStep
<1>3. CASE Unlock(p)
  BY <1>3, OutsideStep, DiskSame
     DEF Unlock, Goto, TypeOK, LockedPCs, ApplyPCs, RecoverPCs, LockInv, Forget
<1> QED
  BY <1>1, <1>2, <1>3 DEF Update

\* Every step of applyLocked preserves the invariant.
LEMMA ApplySafe ==
  ASSUME TypeInv, TypeOK', Safe, NEW p \in Procs, Apply(p)
  PROVE  Safe'
<1> USE DEF Safe, TypeInv, locals
<1>1. CASE CheckApply(p)
  <2>1. /\ pc[p] \in LockedPCs /\ pc'[p] \in LockedPCs /\ lock' = lock
        /\ \A q \in Procs \ {p} : pc'[q] = pc[q]
    BY <1>1 DEF CheckApply, TypeOK, LockedPCs, ApplyPCs, RecoverPCs, Goto, Return
  <2>2. DiskInv'
    BY <1>1, DiskSame DEF CheckApply
  <2>3. HolderInv(p)'
    BY <1>1 DEF CheckApply, HolderInv, TypeOK, Goto, ApplyVerdict, disk, Return
  <2> QED
    BY <2>1, <2>2, <2>3, InsideStep
<1>2. CASE BeginJournal(p)
  <2>1. /\ pc[p] \in LockedPCs /\ pc'[p] \in LockedPCs /\ lock' = lock
        /\ \A q \in Procs \ {p} : pc'[q] = pc[q]
    BY <1>2 DEF BeginJournal, TypeOK, LockedPCs, ApplyPCs, RecoverPCs, Goto, Return
  <2>2. DiskInv'
    <3>1. FileInv'
      BY <1>2, NewJournalValues DEF BeginJournal, DiskInv, FileInv, Effect
    <3>2. QuietInv'
      BY <1>2, JournalValues, NewJournalValues
         DEF BeginJournal, DiskInv, QuietInv, Effect, Pending, Valid, OwnedBy
    <3>3. JournalInv'
      <4>1. /\ config.mig = NoTxn
            /\ config.exists \/ config = Absent
            /\ txn[p] \in TxnIds /\ snapshot.state = "absent"
        BY <1>2
           DEF BeginJournal, TxnInv, ApplyPCs, HolderInv, DiskInv, FileInv, QuietInv,
               Valid, Phases
      <4>2. keyring = {} /\ backups = {}
        BY <1>2, OwnedByNobody
           DEF BeginJournal, HolderInv, DiskInv, QuietInv, Valid, Phases
      <4>3. \/ journal' = journal
            \/ /\ journal'.txn = txn[p] /\ journal'.before = config
               /\ journal'.after = Migrated(config, txn[p])
        BY <1>2, NewJournalValues DEF BeginJournal, Effect
      <4>4. UNCHANGED <<snapshot, keyring, backups>>
        BY <1>2 DEF BeginJournal
      <4>5. CASE journal' = journal
        BY <1>2, <4>4, <4>5 DEF BeginJournal, HolderInv, JournalInv, Valid, Phases
      <4>6. CASE journal' # journal
        BY <4>1, <4>2, <4>3, <4>4, <4>6 DEF JournalInv, OwnedBy
      <4> QED
        BY <4>5, <4>6
    <3>4. PendingInv'
      BY <1>2, NewJournalValues, OwnedByNobody
         DEF BeginJournal, DiskInv, QuietInv, NamesInv, PendingInv, HolderInv, Effect, IsBefore,
             Pending, Valid, Phases
    <3>5. CommittedInv'
      BY <1>2, NewJournalValues DEF BeginJournal, DiskInv, CommittedInv, Effect
    <3>6. NamesInv'
      BY <1>2, NewJournalValues
         DEF BeginJournal, DiskInv, QuietInv, NamesInv, HolderInv, Effect, Valid, Phases
    <3> QED
      BY <3>1, <3>2, <3>3, <3>4, <3>5, <3>6 DEF DiskInv
  <2>3. HolderInv(p)'
    BY <1>2, NewJournalValues
       DEF BeginJournal, DiskInv, QuietInv, HolderInv, TypeOK, Goto, Effect, IsBefore,
           Valid, AtBefore, Phases, Return
  <2> QED
    BY <2>1, <2>2, <2>3, InsideStep
<1>3. CASE WriteSnapshot(p)
  <2>1. /\ pc[p] \in LockedPCs /\ pc'[p] \in LockedPCs /\ lock' = lock
        /\ \A q \in Procs \ {p} : pc'[q] = pc[q]
    BY <1>3 DEF WriteSnapshot, TypeOK, LockedPCs, ApplyPCs, RecoverPCs, Goto, ApplyStep
  <2>2. DiskInv'
    <3>1. JournalInv'
      BY <1>3 DEF WriteSnapshot, DiskInv, JournalInv, OwnedBy
    <3>2. FileInv' /\ QuietInv' /\ NamesInv' /\ PendingInv' /\ CommittedInv'
      BY <1>3, JournalValues, NewJournalValues
         DEF WriteSnapshot, DiskInv, FileInv, QuietInv, NamesInv, PendingInv, CommittedInv,
             HolderInv, Pending, Valid
    <3> QED
      BY <3>1, <3>2 DEF DiskInv
  <2>3. HolderInv(p)'
    BY <1>3
       DEF WriteSnapshot, HolderInv, TypeOK, Goto, Effect, Restorable, AtBefore,
           ApplyStep
  <2> QED
    BY <2>1, <2>2, <2>3, InsideStep
<1>4. CASE WriteBackup(p)
  <2>1. /\ pc[p] \in LockedPCs /\ pc'[p] \in LockedPCs /\ lock' = lock
        /\ \A q \in Procs \ {p} : pc'[q] = pc[q]
    BY <1>4 DEF WriteBackup, TypeOK, LockedPCs, ApplyPCs, RecoverPCs, Goto, ApplyStep
  <2>2. DiskInv'
    BY <1>4, JournalValues, NewJournalValues, Named
       DEF WriteBackup, DiskInv, FileInv, QuietInv, JournalInv, NamesInv, PendingInv,
           CommittedInv, HolderInv, Effect, OwnedBy, Pending, Valid
  <2>3. HolderInv(p)'
    BY <1>4 DEF WriteBackup, HolderInv, TypeOK, Goto, Restorable, AtBefore, ApplyStep
  <2> QED
    BY <2>1, <2>2, <2>3, InsideStep
<1>5. CASE AdvanceBackups(p)
  <2>1. /\ pc[p] \in LockedPCs /\ pc'[p] \in LockedPCs /\ lock' = lock
        /\ \A q \in Procs \ {p} : pc'[q] = pc[q]
    BY <1>5
       DEF AdvanceBackups, TypeOK, LockedPCs, ApplyPCs, RecoverPCs, Goto, Advance,
           ApplyStep
  <2>2. DiskInv'
    <3>1. JournalInv'
      BY <1>5, JournalValues
         DEF AdvanceBackups, DiskInv, JournalInv, HolderInv, TypeOK, Effect, Advance,
             Valid, Phases, OwnedBy
    <3>2. FileInv' /\ QuietInv' /\ NamesInv' /\ PendingInv' /\ CommittedInv'
      BY <1>5, JournalValues
         DEF AdvanceBackups, DiskInv, FileInv, QuietInv, NamesInv, PendingInv, CommittedInv,
             HolderInv, TypeOK, Effect, Advance, IsBefore, Pending, Valid, Phases
    <3> QED
      BY <3>1, <3>2 DEF DiskInv
  <2>3. HolderInv(p)'
    BY <1>5, JournalValues
       DEF AdvanceBackups, HolderInv, TypeOK, Goto, Effect, Advance, IsBefore,
           Restorable, AtBefore, Phases, ApplyStep
  <2> QED
    BY <2>1, <2>2, <2>3, InsideStep
<1>6. CASE SetKey(p)
  <2>1. /\ pc[p] \in LockedPCs /\ pc'[p] \in LockedPCs /\ lock' = lock
        /\ \A q \in Procs \ {p} : pc'[q] = pc[q]
    BY <1>6 DEF SetKey, TypeOK, LockedPCs, ApplyPCs, RecoverPCs, Goto, ApplyStep
  <2>2. DiskInv'
    BY <1>6, JournalValues, Named
       DEF SetKey, DiskInv, FileInv, QuietInv, JournalInv, NamesInv, PendingInv, CommittedInv,
           HolderInv, TypeOK, Effect, OwnedBy, Pending, Valid
  <2>3. HolderInv(p)'
    BY <1>6 DEF SetKey, HolderInv, TypeOK, Goto, Restorable, AtBefore, ApplyStep
  <2> QED
    BY <2>1, <2>2, <2>3, InsideStep
<1>7. CASE AdvanceKeyring(p)
  <2>1. /\ pc[p] \in LockedPCs /\ pc'[p] \in LockedPCs /\ lock' = lock
        /\ \A q \in Procs \ {p} : pc'[q] = pc[q]
    BY <1>7
       DEF AdvanceKeyring, TypeOK, LockedPCs, ApplyPCs, RecoverPCs, Goto, Advance,
           ApplyStep
  <2>2. DiskInv'
    <3>1. JournalInv'
      BY <1>7, JournalValues
         DEF AdvanceKeyring, DiskInv, JournalInv, HolderInv, TypeOK, Effect, Advance,
             Valid, Phases, OwnedBy
    <3>2. FileInv' /\ QuietInv' /\ NamesInv' /\ PendingInv' /\ CommittedInv'
      BY <1>7, JournalValues
         DEF AdvanceKeyring, DiskInv, FileInv, QuietInv, NamesInv, PendingInv, CommittedInv,
             HolderInv, TypeOK, Effect, Advance, IsBefore, Pending, Valid, Phases
    <3> QED
      BY <3>1, <3>2 DEF DiskInv
  <2>3. HolderInv(p)'
    BY <1>7, JournalValues
       DEF AdvanceKeyring, HolderInv, TypeOK, Goto, Effect, Advance, IsBefore,
           Restorable, AtBefore, Phases, ApplyStep
  <2> QED
    BY <2>1, <2>2, <2>3, InsideStep
<1>8. CASE WriteConfig(p)
  <2>1. /\ pc[p] \in LockedPCs /\ pc'[p] \in LockedPCs /\ lock' = lock
        /\ \A q \in Procs \ {p} : pc'[q] = pc[q]
    BY <1>8 DEF WriteConfig, TypeOK, LockedPCs, ApplyPCs, RecoverPCs, Goto, ApplyStep
  <2>2. DiskInv'
    <3>1. UNCHANGED <<marker, journal, snapshot, backups, keyring>>
      BY <1>8 DEF WriteConfig
    <3>2. /\ journal.phase = "keyring" /\ Valid(journal) /\ marker.txn = NoTxn
          /\ Restorable /\ Refs(journal.txn) \subseteq keyring
          /\ BackupsOf(journal.txn) \subseteq backups
      BY <1>8 DEF WriteConfig, HolderInv, AtBefore, Valid, Phases
    <3>3. /\ config'.exists \/ config' = Absent
          /\ config'.mig \in {NoTxn, journal.txn}
      <4>1. /\ FileOf(journal.after).exists
            /\ FileOf(journal.after).mig = journal.txn
        <5>1. /\ journal.before \in Config /\ journal.txn \in TxnIds
              /\ journal.after = Migrated(journal.before, journal.txn)
          BY <3>2, JournalValues DEF DiskInv, JournalInv, TypeOK
        <5>2. journal.after \in Content /\ journal.after.mig = journal.txn
          BY <5>1, MigratedValues
        <5> QED
          BY <5>2, ConfigValues
      <4>2. config' = config \/ config' = FileOf(journal.after)
        BY <1>8 DEF WriteConfig, Effect
      <4> QED
        BY <3>2, <4>1, <4>2 DEF DiskInv, FileInv, NamesInv
    <3>4. JournalInv'
      BY <3>1 DEF DiskInv, JournalInv, OwnedBy, Valid
    <3>5. FileInv' /\ QuietInv' /\ NamesInv'
      BY <3>1, <3>2, <3>3 DEF DiskInv, FileInv, QuietInv, NamesInv, Valid
    <3>6. PendingInv' /\ CommittedInv'
      BY <3>1, <3>2 DEF DiskInv, PendingInv, CommittedInv, Restorable
    <3> QED
      BY <3>4, <3>5, <3>6 DEF DiskInv
  <2>3. HolderInv(p)'
    BY <1>8, ConfigValues, JournalValues
       DEF WriteConfig, DiskInv, FileInv, PendingInv, HolderInv, TypeOK, Goto, Effect,
           IsAfter, Pending, Valid, Restorable, ApplyStep
  <2> QED
    BY <2>1, <2>2, <2>3, InsideStep
<1>9. CASE AdvanceConfig(p)
  <2>1. /\ pc[p] \in LockedPCs /\ pc'[p] \in LockedPCs /\ lock' = lock
        /\ \A q \in Procs \ {p} : pc'[q] = pc[q]
    BY <1>9
       DEF AdvanceConfig, TypeOK, LockedPCs, ApplyPCs, RecoverPCs, Goto, Advance,
           ApplyStep
  <2>2. DiskInv'
    <3>1. JournalInv'
      BY <1>9, JournalValues
         DEF AdvanceConfig, DiskInv, JournalInv, HolderInv, TypeOK, Effect, Advance,
             Valid, Phases, OwnedBy
    <3>2. FileInv' /\ QuietInv' /\ NamesInv' /\ PendingInv' /\ CommittedInv'
      BY <1>9, JournalValues
         DEF AdvanceConfig, DiskInv, FileInv, QuietInv, NamesInv, PendingInv, CommittedInv,
             HolderInv, TypeOK, Effect, Advance, IsBefore, IsAfter, Pending, Valid,
             Restorable, Phases
    <3> QED
      BY <3>1, <3>2 DEF DiskInv
  <2>3. HolderInv(p)'
    BY <1>9, JournalValues
       DEF AdvanceConfig, HolderInv, TypeOK, Goto, Effect, Advance, IsAfter, Phases,
           ApplyStep
  <2> QED
    BY <2>1, <2>2, <2>3, InsideStep
<1>10. CASE WriteMarker(p)
  <2>1. /\ pc[p] \in LockedPCs /\ pc'[p] \in LockedPCs /\ lock' = lock
        /\ \A q \in Procs \ {p} : pc'[q] = pc[q]
    BY <1>10 DEF WriteMarker, TypeOK, LockedPCs, ApplyPCs, RecoverPCs, Goto, ApplyStep
  <2>2. DiskInv'
    <3>1. FileInv'
      BY <1>10 DEF WriteMarker, DiskInv, FileInv
    <3>2. QuietInv'
      BY <1>10, JournalValues DEF WriteMarker, QuietInv, HolderInv, TypeOK, Valid
    <3>3. JournalInv'
      BY <1>10 DEF WriteMarker, DiskInv, JournalInv, OwnedBy
    <3>4. PendingInv'
      <4>1. /\ IsAfter(config, journal) /\ journal.phase = "config"
            /\ journal.txn = txn[p] /\ BackupsOf(journal.txn) \subseteq backups
        BY <1>10 DEF WriteMarker, HolderInv
      <4>2. Restorable /\ Refs(journal.txn) \subseteq keyring
        BY <4>1, AfterNotBefore DEF DiskInv, PendingInv, Pending, Valid, Phases
      <4>3. marker'.txn = txn[p] \/ marker'.txn = NoTxn
        BY <1>10, <4>1
           DEF WriteMarker, Effect, DiskInv, NamesInv, Valid, Phases
      <4>4. UNCHANGED <<config, journal, snapshot, keyring, backups>>
        BY <1>10 DEF WriteMarker
      <4> QED
        BY <4>1, <4>2, <4>3, <4>4 DEF PendingInv, IsAfter, Restorable
    <3>5. CommittedInv'
      BY <1>10 DEF WriteMarker, CommittedInv, HolderInv
    <3>6. NamesInv'
      BY <1>10 DEF WriteMarker, DiskInv, NamesInv, HolderInv, Effect, Valid
    <3> QED
      BY <3>1, <3>2, <3>3, <3>4, <3>5, <3>6 DEF DiskInv
  <2>3. HolderInv(p)'
    BY <1>10 DEF WriteMarker, HolderInv, TypeOK, Goto, Effect, ApplyStep
  <2> QED
    BY <2>1, <2>2, <2>3, InsideStep
<1>11. CASE AdvanceMarker(p)
  <2>1. /\ pc[p] \in LockedPCs /\ pc'[p] \in LockedPCs /\ lock' = lock
        /\ \A q \in Procs \ {p} : pc'[q] = pc[q]
    BY <1>11
       DEF AdvanceMarker, TypeOK, LockedPCs, ApplyPCs, RecoverPCs, Goto, Advance,
           ApplyStep
  <2>2. DiskInv'
    <3>1. FileInv'
      BY <1>11, JournalValues
         DEF AdvanceMarker, DiskInv, FileInv, TypeOK, Effect, Advance, Phases
    <3>2. QuietInv'
      BY <1>11, JournalValues
         DEF AdvanceMarker, QuietInv, HolderInv, TypeOK, Effect, Advance, Valid, Phases
    <3>3. JournalInv'
      BY <1>11, JournalValues
         DEF AdvanceMarker, DiskInv, JournalInv, HolderInv, TypeOK, Effect, Advance,
             Valid, Phases, OwnedBy
    <3>4. PendingInv'
      BY <1>11, JournalValues
         DEF AdvanceMarker, DiskInv, PendingInv, TypeOK, Effect, Advance, Pending,
             Restorable, Phases
    <3>5. CommittedInv'
      <4>1. /\ IsAfter(config, journal) /\ marker.txn = journal.txn
            /\ journal.phase = "config"
        BY <1>11 DEF AdvanceMarker, HolderInv
      <4>2. Refs(journal.txn) \subseteq keyring /\ BackupsOf(journal.txn) \subseteq backups
        BY <4>1, AfterNotBefore DEF DiskInv, PendingInv, Pending, Valid, Phases
      <4>3. journal' = journal \/ (journal'.txn = journal.txn /\ journal'.after = journal.after)
        BY <1>11, JournalValues DEF AdvanceMarker, Advance, Effect, Phases, TypeOK
      <4>4. UNCHANGED <<config, marker, keyring, backups>>
        BY <1>11 DEF AdvanceMarker, Advance
      <4> QED
        BY <4>1, <4>2, <4>3, <4>4 DEF CommittedInv, IsAfter
    <3>6. NamesInv'
      BY <1>11, JournalValues
         DEF AdvanceMarker, DiskInv, NamesInv, HolderInv, TypeOK, Effect, Advance,
             Valid, Phases
    <3> QED
      BY <3>1, <3>2, <3>3, <3>4, <3>5, <3>6 DEF DiskInv
  <2>3. HolderInv(p)'
    BY <1>11, JournalValues
       DEF AdvanceMarker, HolderInv, TypeOK, Goto, Effect, Advance, Phases, ApplyStep
  <2> QED
    BY <2>1, <2>2, <2>3, InsideStep
<1> QED
  BY <1>1, <1>2, <1>3, <1>4, <1>5, <1>6, <1>7, <1>8, <1>9, <1>10, <1>11 DEF Apply

\* Every step of the recovery preserves the invariant.
LEMMA RecoverSafe ==
  ASSUME TypeInv, TypeOK', Safe, NEW p \in Procs, Recover(p)
  PROVE  Safe'
<1> USE DEF Safe, TypeInv, locals
<1>1. CASE EnterRecovery(p)
  <2>1. /\ pc[p] \in LockedPCs /\ pc'[p] \in LockedPCs /\ lock' = lock
        /\ \A q \in Procs \ {p} : pc'[q] = pc[q]
    BY <1>1
       DEF EnterRecovery, TypeOK, LockedPCs, ApplyPCs, RecoverPCs, Goto, Resume, Return
  <2>2. DiskInv'
    BY <1>1, DiskSame DEF EnterRecovery
  <2>3. HolderInv(p)'
    BY <1>1 DEF EnterRecovery, HolderInv, TypeOK, Goto, disk, Resume, Return
  <2> QED
    BY <2>1, <2>2, <2>3, InsideStep
<1>2. CASE LoadRecovery(p)
  <2>1. /\ pc[p] \in LockedPCs /\ pc'[p] \in LockedPCs /\ lock' = lock
        /\ \A q \in Procs \ {p} : pc'[q] = pc[q]
    BY <1>2 DEF LoadRecovery, TypeOK, LockedPCs, ApplyPCs, RecoverPCs, Goto, Return
  <2>2. DiskInv'
    BY <1>2, DiskSame DEF LoadRecovery
  <2>3. HolderInv(p)'
    BY <1>2
       DEF LoadRecovery, HolderInv, TypeOK, Goto, disk, Pending, Return, KnownArtifacts,
           IsBefore, IsAfter
  <2> QED
    BY <2>1, <2>2, <2>3, InsideStep
<1>3. CASE RollbackMarker(p)
  <2>1. /\ pc[p] \in LockedPCs /\ pc'[p] \in LockedPCs /\ lock' = lock
        /\ \A q \in Procs \ {p} : pc'[q] = pc[q]
    BY <1>3
       DEF RollbackMarker, TypeOK, LockedPCs, RecoverPCs, Goto, RecoveryStep, Return
  <2>2. DiskInv'
    <3>1. JournalInv'
      BY <1>3 DEF RollbackMarker, DiskInv, JournalInv, OwnedBy
    <3>2. FileInv' /\ QuietInv' /\ NamesInv' /\ PendingInv' /\ CommittedInv'
      BY <1>3, FileValues
         DEF RollbackMarker, DiskInv, FileInv, QuietInv, NamesInv, PendingInv, CommittedInv,
             HolderInv, Effect, Pending, Restorable
    <3> QED
      BY <3>1, <3>2 DEF DiskInv
  <2>3. HolderInv(p)'
    BY <1>3, FileValues
       DEF RollbackMarker, HolderInv, TypeOK, Goto, Effect, Pending, RecoveryStep,
           Return
  <2> QED
    BY <2>1, <2>2, <2>3, InsideStep
<1>4. CASE RollbackConfig(p)
  <2>1. /\ pc[p] \in LockedPCs /\ pc'[p] \in LockedPCs /\ lock' = lock
        /\ \A q \in Procs \ {p} : pc'[q] = pc[q]
    BY <1>4
       DEF RollbackConfig, TypeOK, LockedPCs, RecoverPCs, Goto, RecoveryStep, Return,
           AfterConfigRollback
  <2>2. /\ Pending /\ Valid(journal) /\ marker.txn = NoTxn
        /\ IsBefore(config, journal) \/ (IsAfter(config, journal) /\ Restorable)
        /\ UNCHANGED <<marker, journal, snapshot, backups, keyring>>
        /\ config' = config \/ config' = journal.before
        /\ pc'[p] # "unlock" => config' = journal.before
    BY <1>4, ConfigRollback
  <2>3. DiskInv'
    <3>1. /\ journal.before.mig = NoTxn
          /\ journal.before.exists \/ journal.before = Absent
      BY <2>2 DEF DiskInv, JournalInv
    <3>2. JournalInv'
      BY <2>2 DEF DiskInv, JournalInv, OwnedBy
    <3>3. FileInv' /\ QuietInv' /\ NamesInv'
      BY <2>2, <3>1 DEF DiskInv, FileInv, QuietInv, NamesInv
    <3>4. PendingInv' /\ CommittedInv'
      BY <2>2, <3>1 DEF DiskInv, PendingInv, CommittedInv, Pending, Restorable
    <3> QED
      BY <3>2, <3>3, <3>4 DEF DiskInv
  <2>4. HolderInv(p)'
    <3>1. journal.phase = "prepared" => keyring = {}
      BY <2>2 DEF DiskInv, PendingInv
    <3>2. /\ pc'[p] \in {"unlock", "r_keyring", "r_backups"}
          /\ pc'[p] = "r_backups" => keyring = {}
      BY <1>4, <3>1
         DEF RollbackConfig, RecoveryStep, Return, Goto, AfterConfigRollback, TypeOK
    <3> QED
      BY <2>2, <3>2 DEF HolderInv, AtBefore, IsBefore, Pending, Valid
  <2> QED
    BY <2>1, <2>3, <2>4, InsideStep
<1>5. CASE RollbackKeyring(p)
  <2>1. /\ pc[p] \in LockedPCs /\ pc'[p] \in LockedPCs /\ lock' = lock
        /\ \A q \in Procs \ {p} : pc'[q] = pc[q]
    BY <1>5
       DEF RollbackKeyring, TypeOK, LockedPCs, RecoverPCs, Goto, RecoveryStep, Return
  <2>2. DiskInv'
    <3>1. /\ UNCHANGED <<config, marker, journal, snapshot, backups>>
          /\ keyring' \subseteq keyring
      BY <1>5 DEF RollbackKeyring, Effect
    <3> QED
      BY <1>5, <3>1, CleanupKeepsDisk DEF RollbackKeyring, HolderInv
  <2>3. HolderInv(p)'
    <3>1. OwnedBy(journal.txn)
      BY <1>5 DEF RollbackKeyring, HolderInv, DiskInv, JournalInv, Pending
    <3>2. Ours(journal.txn, keyring) = keyring
      BY <3>1, OursIfOwned
    <3>3. \/ pc'[p] \in {"r_keyring", "unlock"}
          \/ pc'[p] = "r_backups" /\ keyring = {} /\ keyring' = {}
      BY <1>5, <3>2 DEF RollbackKeyring, RecoveryStep, Return, Goto, TypeOK
    <3>4. Pending /\ AtBefore
      BY <1>5 DEF RollbackKeyring, HolderInv
    <3>5. UNCHANGED <<config, marker, journal>>
      BY <1>5 DEF RollbackKeyring
    <3> QED
      BY <3>3, <3>4, <3>5 DEF HolderInv, AtBefore, IsBefore, Pending, Valid
  <2> QED
    BY <2>1, <2>2, <2>3, InsideStep
<1>6. CASE RollbackBackups(p)
  <2>1. /\ pc[p] \in LockedPCs /\ pc'[p] \in LockedPCs /\ lock' = lock
        /\ \A q \in Procs \ {p} : pc'[q] = pc[q]
    BY <1>6
       DEF RollbackBackups, TypeOK, LockedPCs, RecoverPCs, Goto, RecoveryStep, Return
  <2>2. DiskInv'
    <3>1. /\ UNCHANGED <<config, marker, journal, snapshot, keyring>>
          /\ backups' \subseteq backups
      BY <1>6 DEF RollbackBackups, Effect
    <3> QED
      BY <1>6, <3>1, CleanupKeepsDisk DEF RollbackBackups, HolderInv
  <2>3. HolderInv(p)'
    <3>1. OwnedBy(journal.txn)
      BY <1>6 DEF RollbackBackups, HolderInv, DiskInv, JournalInv, Pending
    <3>2. Ours(journal.txn, backups) = backups
      BY <3>1, OursIfOwned
    <3>3. \/ pc'[p] \in {"r_backups", "unlock"}
          \/ pc'[p] = "r_snapshot" /\ backups' = {}
      BY <1>6, <3>2 DEF RollbackBackups, RecoveryStep, Return, Goto, TypeOK
    <3>4. Pending /\ AtBefore /\ keyring = {}
      BY <1>6 DEF RollbackBackups, HolderInv
    <3>5. UNCHANGED <<config, marker, journal, keyring>>
      BY <1>6 DEF RollbackBackups
    <3> QED
      BY <3>3, <3>4, <3>5 DEF HolderInv, AtBefore, IsBefore, Pending, Valid
  <2> QED
    BY <2>1, <2>2, <2>3, InsideStep
<1>7. CASE RemoveSnapshot(p)
  <2>1. /\ pc[p] \in LockedPCs /\ pc'[p] \in LockedPCs /\ lock' = lock
        /\ \A q \in Procs \ {p} : pc'[q] = pc[q]
    BY <1>7
       DEF RemoveSnapshot, TypeOK, LockedPCs, RecoverPCs, Goto, RecoveryStep, Return
  <2>2. DiskInv'
    <3>1. /\ UNCHANGED <<config, marker, journal, backups, keyring>>
          /\ snapshot' = snapshot \/ snapshot'.state = "absent"
      BY <1>7, FileValues DEF RemoveSnapshot, Effect
    <3> QED
      BY <1>7, <3>1, CleanupKeepsDisk DEF RemoveSnapshot, HolderInv
  <2>3. HolderInv(p)'
    BY <1>7, FileValues
       DEF RemoveSnapshot, DiskInv, JournalInv, HolderInv, TypeOK, Goto, Effect,
           NoSnapshotToRemove, Pending, AtBefore, RecoveryStep, Return
  <2> QED
    BY <2>1, <2>2, <2>3, InsideStep
<1>8. CASE RemoveJournal(p)
  <2>1. /\ pc[p] \in LockedPCs /\ pc'[p] \in LockedPCs /\ lock' = lock
        /\ \A q \in Procs \ {p} : pc'[q] = pc[q]
    BY <1>8
       DEF RemoveJournal, TypeOK, LockedPCs, ApplyPCs, RecoverPCs, Goto, Return, Resume
  <2>2. DiskInv'
    BY <1>8, JournalValues
       DEF RemoveJournal, DiskInv, FileInv, QuietInv, JournalInv, NamesInv, PendingInv,
           CommittedInv, HolderInv, Effect, OwnedBy, IsBefore, Pending, Valid, AtBefore,
           Phases
  <2>3. HolderInv(p)'
    BY <1>8, JournalValues
       DEF RemoveJournal, HolderInv, TypeOK, Goto, Effect, Return, Resume
  <2> QED
    BY <2>1, <2>2, <2>3, InsideStep
<1>9. CASE VerifyCommitted(p)
  <2>1. /\ pc[p] \in LockedPCs /\ pc'[p] \in LockedPCs /\ lock' = lock
        /\ \A q \in Procs \ {p} : pc'[q] = pc[q]
    BY <1>9
       DEF VerifyCommitted, TypeOK, LockedPCs, RecoverPCs, Goto, CompleteFailed, Return
  <2>2. DiskInv'
    BY <1>9, DiskSame DEF VerifyCommitted
  <2>3. HolderInv(p)'
    BY <1>9
       DEF VerifyCommitted, CompleteFailed, HolderInv, TypeOK, Goto, Return, disk, IsAfter
  <2> QED
    BY <2>1, <2>2, <2>3, InsideStep
<1>10. CASE CompleteSnapshot(p)
  <2>1. /\ pc[p] \in LockedPCs /\ pc'[p] \in LockedPCs /\ lock' = lock
        /\ \A q \in Procs \ {p} : pc'[q] = pc[q]
    BY <1>10
       DEF CompleteSnapshot, TypeOK, LockedPCs, RecoverPCs, Goto, CompleteStep,
           CompleteFailed, Return
  <2>2. DiskInv'
    <3>1. JournalInv'
      BY <1>10, FileValues DEF CompleteSnapshot, DiskInv, JournalInv, Effect, OwnedBy
    <3>2. FileInv' /\ QuietInv' /\ NamesInv' /\ PendingInv' /\ CommittedInv'
      BY <1>10, JournalValues
         DEF CompleteSnapshot, DiskInv, FileInv, QuietInv, NamesInv, PendingInv, CommittedInv,
             HolderInv, TypeOK, Pending, Valid
    <3> QED
      BY <3>1, <3>2 DEF DiskInv
  <2>3. HolderInv(p)'
    BY <1>10, FileValues
       DEF CompleteSnapshot, DiskInv, QuietInv, JournalInv, HolderInv, TypeOK, Goto,
           Effect, NoSnapshotToRemove, CompleteStep, CompleteFailed, Return
  <2> QED
    BY <2>1, <2>2, <2>3, InsideStep
<1>11. CASE CompleteJournal(p)
  <2>1. /\ pc[p] \in LockedPCs /\ pc'[p] \in LockedPCs /\ lock' = lock
        /\ \A q \in Procs \ {p} : pc'[q] = pc[q]
    BY <1>11
       DEF CompleteJournal, TypeOK, LockedPCs, ApplyPCs, RecoverPCs, Goto,
           CompleteFailed, Resume, Return
  <2>2. DiskInv'
    <3>1. FileInv'
      BY <1>11, JournalValues DEF CompleteJournal, DiskInv, FileInv, Effect
    <3>2. QuietInv'
      <4>1. /\ snapshot.state = "absent" /\ IsAfter(config, journal) /\ marker.txn = journal.txn
            /\ Refs(journal.txn) \subseteq keyring /\ BackupsOf(journal.txn) \subseteq backups
            /\ OwnedBy(journal.txn) /\ Valid(journal)
        BY <1>11
           DEF CompleteJournal, HolderInv, DiskInv, CommittedInv, JournalInv, Valid,
               Phases
      <4>2. config.mig = journal.txn
        BY <4>1, AfterNotBefore
      <4>3. UNCHANGED <<config, marker, snapshot, keyring, backups>>
        BY <1>11 DEF CompleteJournal
      <4> QED
        BY <4>1, <4>2, <4>3 DEF QuietInv, OwnedBy
    <3>3. JournalInv'
      <4>1. journal' = journal \/ journal' = NoJournal
        BY <1>11 DEF CompleteJournal, Effect
      <4>2. UNCHANGED <<snapshot, keyring, backups>>
        BY <1>11 DEF CompleteJournal
      <4> QED
        BY <4>1, <4>2, JournalValues DEF DiskInv, JournalInv, OwnedBy, Valid, Phases
    <3>4. PendingInv'
      BY <1>11, JournalValues
         DEF CompleteJournal, PendingInv, HolderInv, Effect, OwnedBy, IsAfter, Pending,
             Valid, AtBefore, Phases
    <3>5. CommittedInv' /\ NamesInv'
      <4>1. journal' = journal \/ journal' = NoJournal
        BY <1>11 DEF CompleteJournal, Effect
      <4>2. UNCHANGED <<config, marker, keyring, backups>>
        BY <1>11 DEF CompleteJournal
      <4> QED
        BY <4>1, <4>2, JournalValues DEF DiskInv, CommittedInv, NamesInv, Valid, Phases
    <3> QED
      BY <3>1, <3>2, <3>3, <3>4, <3>5 DEF DiskInv
  <2>3. HolderInv(p)'
    BY <1>11, JournalValues
       DEF CompleteJournal, HolderInv, TypeOK, Goto, Effect, CompleteFailed, Resume,
           Return
  <2> QED
    BY <2>1, <2>2, <2>3, InsideStep
<1> QED
  BY <1>1, <1>2, <1>3, <1>4, <1>5, <1>6, <1>7, <1>8, <1>9, <1>10, <1>11 DEF Recover

\* A crash preserves the invariant: the files are as recovery expects them.
LEMMA CrashSafe ==
  ASSUME TypeInv, TypeOK', Safe, NEW p \in Procs, Crash(p)
  PROVE  Safe'
<1> USE DEF Safe, TypeInv
<1>1. /\ pc' = [pc EXCEPT ![p] = "idle"] /\ lock' = IF lock = p THEN None ELSE lock
      /\ UNCHANGED <<config, lkg, marker, backups, keyring>>
      /\ \A q \in Procs \ {p} : pc'[q] = pc[q] /\ txn'[q] = txn[q] /\ edit'[q] = edit[q]
  BY DEF Crash, Forget, Goto, TypeOK
<1>2. pc'[p] \notin LockedPCs
  BY <1>1 DEF TypeOK, LockedPCs, ApplyPCs, RecoverPCs
<1>3. CASE UNCHANGED <<journal, snapshot>>
  BY <1>1, <1>2, <1>3, OutsideStep, DiskSame DEF disk
<1>4. CASE pc[p] \in {"a_begin", "a_snapshot"} /\ ~UNCHANGED <<journal, snapshot>>
  <2>1. lock = p /\ \A q \in Procs \ {p} : pc'[q] \notin LockedPCs
    BY <1>1, <1>4 DEF LockInv, LockedPCs, ApplyPCs
  <2>2. LockInv' /\ \A q \in Procs : HolderInv(q)'
    BY <1>1, <1>2, <2>1, Outsider, MigrationAssumption DEF LockInv
  <2>3. CASE pc[p] = "a_begin"
    <3>1. journal' = Torn /\ UNCHANGED snapshot
      BY <1>4, <2>3 DEF Crash
    <3>2. DiskInv'
      BY <1>1, <2>3, <3>1, JournalValues
         DEF HolderInv, DiskInv, FileInv, QuietInv, JournalInv, NamesInv, PendingInv,
             CommittedInv, OwnedBy, Valid, Pending, Phases
    <3> QED
      BY <2>2, <3>2
  <2>4. CASE pc[p] = "a_snapshot"
    <3>1. UNCHANGED journal /\ journal.before.exists
      BY <1>4, <2>4 DEF Crash
    <3>2. journal.phase = "prepared" /\ AtBefore
      BY <2>4 DEF HolderInv
    <3>3. DiskInv'
      BY <1>1, <3>1, <3>2
         DEF DiskInv, FileInv, QuietInv, JournalInv, NamesInv, PendingInv, CommittedInv, OwnedBy,
             Valid, Pending, Phases
    <3> QED
      BY <2>2, <3>3
  <2> QED
    BY <1>4, <2>3, <2>4
<1> QED
  BY <1>3, <1>4 DEF Crash
-----------------------------------------------------------------------------
\* The initial states satisfy the invariant.
LEMMA SafeInit == Init => Safe
<1> SUFFICES ASSUME Init PROVE Safe
  OBVIOUS
<1>1. LockInv /\ \A p \in Procs : HolderInv(p)
  BY MigrationAssumption DEF Init, LockInv, HolderInv, LockedPCs, ApplyPCs, RecoverPCs
<1>2. config.exists \/ config = Absent
  BY ConfigValues DEF Init
<1>3. config.mig = NoTxn
  BY ConfigValues DEF Init
<1>4. DiskInv
  BY <1>2, <1>3, JournalValues, FileValues
     DEF Init, DiskInv, FileInv, QuietInv, JournalInv, NamesInv, PendingInv, CommittedInv,
         OwnedBy, Valid, Pending, Phases
<1> QED
  BY <1>1, <1>4 DEF Safe

\* Every step preserves the invariant.
LEMMA SafeStep == TypeInv /\ Safe /\ TypeOK' /\ [Next]_vars => Safe'
<1> SUFFICES ASSUME TypeInv, Safe, TypeOK', [Next]_vars PROVE Safe'
  OBVIOUS
<1>1. ASSUME NEW p \in Procs,
             Start(p) \/ Lock(p) \/ Update(p) \/ Preview(p) \/ Apply(p) \/ Recover(p) \/ Crash(p)
      PROVE  Safe'
  BY <1>1, StartSafe, LockSafe, UpdateSafe, PreviewSafe, ApplySafe, RecoverSafe,
     CrashSafe
<1>2. CASE ChangeSources \/ UNCHANGED vars
  <2>1. UNCHANGED <<disk, lock, pc, txn, edit>>
    BY <1>2 DEF ChangeSources, vars, disk, locals
  <2> QED
    BY <2>1, DiskSame, HolderSame DEF Safe, LockInv
<1> QED
  BY <1>1, <1>2 DEF Next
-----------------------------------------------------------------------------
\* A step of another process leaves what the holder of the lock has seen as it was.
LEMMA PlanSame ==
  ASSUME NEW q \in Procs, PlanInv(q), UNCHANGED <<config, marker, journal>>,
         pc'[q] = pc[q], plan'[q] = plan[q], edit'[q] = edit[q], caller'[q] = caller[q]
  PROVE  PlanInv(q)'
BY DEF PlanInv, Inside, Valid

\* PlanInv says nothing of a process outside the lock.
LEMMA PlanOutsider ==
  ASSUME NEW q \in Procs, pc'[q] \notin LockedPCs
  PROVE  PlanInv(q)'
BY DEF PlanInv, Inside, Applying, LockedPCs, ApplyPCs, RecoverPCs

\* A step of the holder of the lock: only what it has seen itself is at stake.
LEMMA PlanHolder ==
  ASSUME TypeOK, LockInv, NEW p \in Procs, pc[p] \in LockedPCs,
         \A q \in Procs \ {p} : pc'[q] = pc[q], PlanInv(p)'
  PROVE  \A q \in Procs : PlanInv(q)'
<1>1. \A q \in Procs \ {p} : pc'[q] \notin LockedPCs
  BY DEF LockInv
<1> QED
  BY <1>1, PlanOutsider

\* Edits and commands outside a transaction.
LEMMA PlanUpdate ==
  ASSUME TypeInv, TypeOK', Safe, \A q \in Procs : PlanInv(q), NEW p \in Procs,
         Start(p) \/ Lock(p) \/ Update(p) \/ Preview(p) \/ Crash(p)
  PROVE  \A q \in Procs : PlanInv(q)'
<1> USE DEF Safe, TypeInv, locals, disk
<1>1. CASE Start(p) \/ Preview(p) \/ Unlock(p)
  <2>1. /\ pc'[p] \notin LockedPCs /\ UNCHANGED disk
        /\ \A q \in Procs \ {p} : /\ pc'[q] = pc[q] /\ plan'[q] = plan[q]
                                 /\ edit'[q] = edit[q] /\ caller'[q] = caller[q]
    BY <1>1
       DEF Start, StartUpdate, StartMigrate, Preview, InspectJournal, InspectOrphan, UnlockRecover,
           BuildPlan, Precheck, Unlock, Forget, Goto, Call, Report, TypeOK, LockedPCs, ApplyPCs,
           RecoverPCs
  <2> QED
    BY <2>1, PlanSame, PlanOutsider
<1>2. CASE Lock(p)
  <2>1. /\ \/ pc'[p] = "e_load"
           \/ pc'[p] = "r_entry" /\ caller'[p] \in {"explicit", "apply"}
        /\ UNCHANGED disk
        /\ \A q \in Procs \ {p} : /\ pc'[q] = pc[q] /\ plan'[q] = plan[q]
                                 /\ edit'[q] = edit[q] /\ caller'[q] = caller[q]
    BY <1>2 DEF Lock, LockUpdate, LockRecover, LockApply, Goto, Call, TypeOK
  <2>2. PlanInv(p)'
    BY <2>1 DEF PlanInv, Inside, Applying, RecoverPCs
  <2> QED
    BY <2>1, <2>2, PlanSame
<1>3. CASE LoadForUpdate(p)
  <2>1. /\ pc[p] \in LockedPCs /\ UNCHANGED disk /\ \A q \in Procs \ {p} : pc'[q] = pc[q]
        /\ \/ pc'[p] = "unlock"
           \/ /\ pc'[p] = "e_publish"
              /\ \E e \in Edits : edit' = [edit EXCEPT ![p] = Edited(config, e)]
    BY <1>3 DEF LoadForUpdate, Return, Goto, TypeOK, LockedPCs
  <2>2. ASSUME NEW e \in Edits, edit' = [edit EXCEPT ![p] = Edited(config, e)]
        PROVE  edit'[p].edits # config.edits
    <3>1. edit'[p].edits = Toggle(config.edits, e)
      BY <2>2 DEF Edited, FileOf, TypeOK
    <3> QED
      BY <3>1 DEF Toggle
  <2>3. PlanInv(p)'
    BY <2>1, <2>2 DEF PlanInv, Inside, Applying, RecoverPCs
  <2> QED
    BY <2>1, <2>3, PlanHolder
<1>4. CASE PublishUpdate(p)
  <2>1. /\ pc[p] \in LockedPCs /\ pc'[p] = "unlock" /\ \A q \in Procs \ {p} : pc'[q] = pc[q]
    BY <1>4 DEF PublishUpdate, Return, Goto, TypeOK, LockedPCs
  <2>2. PlanInv(p)'
    BY <2>1 DEF PlanInv, Inside, Applying, RecoverPCs
  <2> QED
    BY <2>1, <2>2, PlanHolder
<1>5. CASE Crash(p)
  <2>1. /\ pc'[p] = "idle" /\ UNCHANGED <<config, marker>>
        /\ \A q \in Procs \ {p} : /\ pc'[q] = pc[q] /\ plan'[q] = plan[q]
                                 /\ edit'[q] = edit[q] /\ caller'[q] = caller[q]
        /\ journal' = journal \/ pc[p] \in LockedPCs
    BY <1>5 DEF Crash, Forget, Goto, TypeOK, LockedPCs, ApplyPCs
  <2>2. pc'[p] \notin LockedPCs
    BY <2>1 DEF LockedPCs, ApplyPCs, RecoverPCs
  <2>3. CASE journal' = journal
    BY <2>1, <2>2, <2>3, PlanSame, PlanOutsider
  <2>4. CASE pc[p] \in LockedPCs
    BY <2>1, <2>2, <2>4, PlanHolder, PlanOutsider
  <2> QED
    BY <2>1, <2>3, <2>4
<1> QED
  BY <1>1, <1>2, <1>3, <1>4, <1>5 DEF Update

\* A failing step of an apply hands what it knows to the recovery of the same process.
LEMMA PlanHandedOver ==
  ASSUME NEW p \in Procs, NEW f \in Fates, NEW l \in PCs, ApplyStep(p, f, l), TypeOK,
         plan'[p] = plan[p],
         plan'[p].cfg = ContentOf(journal'.before),
         journal'.phase = "marker_verified" \/ pc'[p] = "a_adv_marker"
           => marker'.src = plan'[p].src,
         l \in Applying \cup {"c_verify"}
  PROVE  PlanInv(p)'
<1>1. pc'[p] \in Applying \cup {"c_verify", "r_load"}
  BY DEF ApplyStep, Goto, TypeOK
<1> QED
  BY <1>1 DEF PlanInv, Inside, Applying, RecoverPCs

\* The steps of an apply go by the preview they were compared with.
LEMMA PlanApply ==
  ASSUME TypeInv, TypeOK', Safe, \A q \in Procs : PlanInv(q), NEW p \in Procs, Apply(p)
  PROVE  \A q \in Procs : PlanInv(q)'
<1> USE DEF Safe, TypeInv
<1>1. CASE CheckApply(p)
  <2>1. /\ pc[p] \in LockedPCs /\ UNCHANGED <<config, plan>>
        /\ \A q \in Procs \ {p} : pc'[q] = pc[q]
        /\ pc'[p] = "unlock" \/ (pc'[p] = "a_begin" /\ ApplyVerdict(p) = "go")
    BY <1>1 DEF CheckApply, Return, Goto, TypeOK, LockedPCs, ApplyPCs, disk
  <2>2. ApplyVerdict(p) = "go" => plan[p].cfg = ContentOf(config)
    BY DEF ApplyVerdict
  <2>3. PlanInv(p)'
    BY <2>1, <2>2 DEF PlanInv, Inside, Applying, RecoverPCs, ContentOf
  <2> QED
    BY <2>1, <2>3, PlanHolder
<1>2. CASE BeginJournal(p)
  <2>1. /\ pc[p] \in LockedPCs /\ UNCHANGED <<config, plan>>
        /\ \A q \in Procs \ {p} : pc'[q] = pc[q]
        /\ pc'[p] = "unlock" \/ (pc'[p] = "a_snapshot" /\ journal' = NewJournal(p))
    BY <1>2 DEF BeginJournal, Return, Goto, Effect, TypeOK, LockedPCs, ApplyPCs, locals
  <2>2. plan[p].cfg = ContentOf(config)
    BY <1>2 DEF BeginJournal, PlanInv
  <2>3. journal' = NewJournal(p) => journal'.before = config
    BY NewJournalValues
  <2>4. PlanInv(p)'
    BY <2>1, <2>2, <2>3 DEF PlanInv, Inside, Applying, RecoverPCs
  <2> QED
    BY <2>1, <2>4, PlanHolder
<1>3. CASE WriteSnapshot(p) \/ WriteBackup(p) \/ SetKey(p) \/ WriteConfig(p) \/ WriteMarker(p)
  <2>1. /\ pc[p] \in {"a_snapshot", "a_backups", "a_keys", "a_config", "a_marker"}
        /\ UNCHANGED <<journal, plan>> /\ \A q \in Procs \ {p} : pc'[q] = pc[q]
        /\ \E f \in Fates, l \in Applying : ApplyStep(p, f, l)
        /\ pc'[p] = "a_adv_marker" => marker'.src = plan[p].src
    <3>1. CASE WriteSnapshot(p) \/ WriteBackup(p) \/ SetKey(p) \/ WriteConfig(p)
      BY <3>1
         DEF WriteSnapshot, WriteBackup, SetKey, WriteConfig, ApplyStep, Applying, Goto, Fates,
             TypeOK
    <3>2. CASE WriteMarker(p)
      BY <3>2 DEF WriteMarker, ApplyStep, Applying, Goto, Effect, TypeOK
    <3> QED
      BY <1>3, <3>1, <3>2
  <2>2. journal.phase # "marker_verified" /\ plan[p].cfg = ContentOf(journal.before)
    BY <2>1 DEF HolderInv, PlanInv, Applying
  <2>3. PICK f \in Fates, l \in Applying : ApplyStep(p, f, l)
    BY <2>1
  <2>4. PlanInv(p)'
    BY <2>1, <2>2, <2>3, PlanHandedOver, Names DEF Applying
  <2> QED
    BY <2>1, <2>4, PlanHolder DEF LockedPCs, ApplyPCs
<1>4. CASE AdvanceBackups(p) \/ AdvanceKeyring(p) \/ AdvanceConfig(p) \/ AdvanceMarker(p)
  <2>1. /\ pc[p] \in {"a_backups", "a_keys", "a_adv_config", "a_adv_marker"}
        /\ UNCHANGED <<marker, plan>> /\ \A q \in Procs \ {p} : pc'[q] = pc[q]
        /\ \E f \in Fates, l \in Applying \cup {"c_verify"} :
              ApplyStep(p, f, l) /\ l # "a_adv_marker"
        /\ journal' = journal
             \/ \E ph \in Phases : /\ journal' = AtPhase(journal, ph)
                                   /\ ph = "marker_verified" => pc[p] = "a_adv_marker"
    BY <1>4
       DEF AdvanceBackups, AdvanceKeyring, AdvanceConfig, AdvanceMarker, Advance, ApplyStep,
           Applying, Goto, Effect, Phases, TypeOK
  <2>2. /\ journal.phase # "marker_verified" /\ plan[p].cfg = ContentOf(journal.before)
        /\ pc[p] = "a_adv_marker" => marker.src = plan[p].src
    BY <2>1 DEF HolderInv, PlanInv, Applying
  <2>3. /\ journal'.before = journal.before
        /\ journal'.phase = "marker_verified" => marker'.src = plan'[p].src
    BY <2>1, <2>2, JournalValues DEF TypeOK
  <2>4. PICK f \in Fates, l \in Applying \cup {"c_verify"} :
               ApplyStep(p, f, l) /\ l # "a_adv_marker"
    BY <2>1
  <2>5. pc'[p] # "a_adv_marker"
    BY <2>4 DEF ApplyStep, Goto, TypeOK
  <2>6. PlanInv(p)'
    BY <2>1, <2>2, <2>3, <2>4, <2>5, PlanHandedOver, Names DEF Applying
  <2> QED
    BY <2>1, <2>6, PlanHolder DEF LockedPCs, ApplyPCs
<1> QED
  BY <1>1, <1>2, <1>3, <1>4 DEF Apply

\* The recovery an apply has called keeps what the apply handed over.
LEMMA PlanRecover ==
  ASSUME TypeInv, TypeOK', Safe, \A q \in Procs : PlanInv(q), NEW p \in Procs, Recover(p)
  PROVE  \A q \in Procs : PlanInv(q)'
<1> USE DEF Safe, TypeInv
<1>1. CASE EnterRecovery(p)
  <2>1. /\ pc[p] = "r_entry" /\ caller' = caller /\ \A q \in Procs \ {p} : pc'[q] = pc[q]
        /\ pc'[p] \in {"r_load", "a_check", "m_runlock", "unlock"}
    BY <1>1 DEF EnterRecovery, Resume, Return, Goto, TypeOK, locals
  <2>2. PlanInv(p)'
    BY <2>1 DEF PlanInv, Inside, Applying, RecoverPCs
  <2> QED
    BY <2>1, <2>2, PlanHolder DEF LockedPCs, RecoverPCs
<1>2. CASE ~EnterRecovery(p)
  <2>1. /\ pc[p] \in RecoverPCs \ {"r_entry"} /\ plan' = plan
        /\ \A q \in Procs \ {p} : pc'[q] = pc[q]
        /\ pc'[p] \in (RecoverPCs \ {"r_entry"}) \cup {"unlock", "a_check", "m_runlock"}
        /\ caller' = caller \/ caller[p] = "complete"
    BY <1>2
       DEF Recover, LoadRecovery, RollbackMarker, RollbackConfig, RollbackKeyring,
           RollbackBackups, RemoveSnapshot, RemoveJournal, VerifyCommitted, CompleteSnapshot,
           CompleteJournal, AfterConfigRollback, RecoveryStep, CompleteStep, CompleteFailed,
           Resume, Return, Goto, RecoverPCs, TypeOK, locals
  <2>2. /\ journal' = journal \/ journal' = NoJournal
        /\ marker' = marker \/ journal.phase # "marker_verified"
    BY <1>2
       DEF Recover, LoadRecovery, RollbackMarker, RollbackConfig, RollbackKeyring,
           RollbackBackups, RemoveSnapshot, RemoveJournal, VerifyCommitted, CompleteSnapshot,
           CompleteJournal, Effect, HolderInv, Pending, disk
  <2>3. /\ Inside(p)' => Inside(p)
        /\ Valid(journal)' => journal' = journal
    BY <2>1, <2>2, JournalValues DEF Inside, Valid, Phases, RecoverPCs
  <2>4. PlanInv(p)'
    BY <2>1, <2>2, <2>3, JournalValues DEF PlanInv, Applying, RecoverPCs, Valid, Phases
  <2> QED
    BY <2>1, <2>4, PlanHolder DEF LockedPCs, RecoverPCs
<1> QED
  BY <1>1, <1>2

\* No step of the program loses what the holder of the lock has seen.
LEMMA PlanStep ==
  ASSUME SafeInv, TypeOK', [Next]_vars
  PROVE  \A q \in Procs : PlanInv(q)'
<1> USE DEF SafeInv
<1>1. CASE ChangeSources \/ UNCHANGED vars
  BY <1>1, PlanSame DEF ChangeSources, vars, disk, locals
<1>2. ASSUME NEW p \in Procs,
             Start(p) \/ Lock(p) \/ Update(p) \/ Preview(p) \/ Apply(p) \/ Recover(p) \/ Crash(p)
      PROVE  \A q \in Procs : PlanInv(q)'
  BY <1>2, PlanUpdate, PlanApply, PlanRecover
<1> QED
  BY <1>1, <1>2 DEF Next
-----------------------------------------------------------------------------
\* Steps that touch neither the Config nor the journal.
LEMMA KnownSame ==
  KnownImage(config) /\ UNCHANGED <<config, journal>> => KnownImage(config)'
BY DEF KnownImage, Pending, Valid, IsBefore, IsAfter

\* Without a valid journal there is no image to compare with.
LEMMA KnownQuiet == ~Valid(journal) => KnownImage(config)
BY DEF KnownImage, Pending, Valid, Phases

\* Advancing the journal does not change the images it knows.
LEMMA KnownAdvance ==
  ASSUME TypeOK, UNCHANGED <<config, marker>>,
         journal' = journal \/ \E ph \in Phases : journal' = AtPhase(journal, ph),
         KnownImage(config),
         IsAfter(config, journal)
           \/ (AtBefore /\ journal'.phase # "marker_verified")
  PROVE  KnownImage(config)'
<1>1. journal'.before = journal.before /\ journal'.after = journal.after
  BY JournalValues DEF TypeOK
<1>2. CASE IsAfter(config, journal)
  BY <1>1, <1>2 DEF KnownImage, IsAfter
<1>3. CASE AtBefore /\ journal'.phase # "marker_verified"
  BY <1>1, <1>3 DEF KnownImage, AtBefore, IsBefore
<1> QED
  BY <1>2, <1>3

\* The apply publishes the after image and nothing else.
LEMMA KnownApply ==
  ASSUME SafeInv, KnownImage(config), NEW p \in Procs, Apply(p)
  PROVE  KnownImage(config)'
<1> USE DEF SafeInv, TypeInv, Safe
<1>1. CASE CheckApply(p) \/ WriteSnapshot(p) \/ WriteBackup(p) \/ SetKey(p)
  BY <1>1, KnownSame DEF CheckApply, WriteSnapshot, WriteBackup, SetKey, disk
<1>2. CASE BeginJournal(p)
  <2>1. /\ UNCHANGED <<config, marker>> /\ marker.txn = NoTxn
        /\ journal' = journal \/ journal' = NewJournal(p)
    BY <1>2 DEF BeginJournal, HolderInv, Effect
  <2>2. CASE journal' = journal
    BY <2>1, <2>2, KnownSame
  <2>3. CASE journal' = NewJournal(p)
    BY <2>1, <2>3, NewJournalValues DEF KnownImage, IsBefore
  <2> QED
    BY <2>1, <2>2, <2>3
<1>3. CASE AdvanceBackups(p) \/ AdvanceKeyring(p)
  <2>1. AtBefore /\ UNCHANGED <<config, marker>> /\ journal.phase # "marker_verified"
    BY <1>3 DEF AdvanceBackups, AdvanceKeyring, Advance, HolderInv
  <2>2. \/ journal' = journal
        \/ \E ph \in {"backups", "keyring"} : journal' = AtPhase(journal, ph)
    BY <1>3 DEF AdvanceBackups, AdvanceKeyring, Advance, Effect
  <2>3. journal'.phase # "marker_verified"
    BY <2>1, <2>2, JournalValues DEF Phases, TypeOK
  <2> QED
    BY <2>1, <2>2, <2>3, KnownAdvance DEF Phases
<1>4. CASE WriteConfig(p)
  <2>1. /\ UNCHANGED <<marker, journal>> /\ Valid(journal)
        /\ config' = config \/ config' = FileOf(journal.after)
    BY <1>4 DEF WriteConfig, HolderInv, Effect, Valid, Phases
  <2>2. CASE config' = config
    BY <2>1, <2>2, KnownSame
  <2>3. CASE config' = FileOf(journal.after)
    <3>1. IsAfter(config', journal)
      BY <2>3, ConfigValues, JournalValues DEF IsAfter, TypeOK
    <3> QED
      BY <2>1, <3>1 DEF KnownImage, IsAfter
  <2> QED
    BY <2>1, <2>2, <2>3
<1>5. CASE AdvanceConfig(p) \/ AdvanceMarker(p)
  <2>1. IsAfter(config, journal) /\ UNCHANGED <<config, marker>>
    BY <1>5 DEF AdvanceConfig, AdvanceMarker, Advance, HolderInv
  <2>2. journal' = journal \/ \E ph \in Phases : journal' = AtPhase(journal, ph)
    BY <1>5 DEF AdvanceConfig, AdvanceMarker, Advance, Effect, Phases
  <2> QED
    BY <2>1, <2>2, KnownAdvance
<1>6. CASE WriteMarker(p)
  <2>1. IsAfter(config, journal) /\ UNCHANGED <<config, journal>>
    BY <1>6 DEF WriteMarker, HolderInv
  <2> QED
    BY <2>1 DEF KnownImage, IsAfter
<1> QED
  BY <1>1, <1>2, <1>3, <1>4, <1>5, <1>6 DEF Apply

\* The recovery goes from the after image to the before image and nowhere else.
LEMMA KnownRecover ==
  ASSUME SafeInv, KnownImage(config), NEW p \in Procs, Recover(p)
  PROVE  KnownImage(config)'
<1> USE DEF SafeInv, TypeInv, Safe
<1>1. CASE EnterRecovery(p) \/ LoadRecovery(p) \/ RollbackKeyring(p) \/ RollbackBackups(p)
             \/ RemoveSnapshot(p) \/ VerifyCommitted(p) \/ CompleteSnapshot(p)
  BY <1>1, KnownSame
     DEF EnterRecovery, LoadRecovery, RollbackKeyring, RollbackBackups, RemoveSnapshot,
         VerifyCommitted, CompleteSnapshot, disk
<1>2. CASE RollbackMarker(p)
  <2>1. /\ UNCHANGED <<config, journal>>
        /\ marker' = marker \/ marker'.txn = NoTxn
    BY <1>2, FileValues DEF RollbackMarker, Effect
  <2> QED
    BY <2>1 DEF KnownImage, Pending, Valid, IsBefore, IsAfter
<1>3. CASE RollbackConfig(p)
  <2>1. /\ Pending /\ marker.txn = NoTxn /\ UNCHANGED <<marker, journal>>
        /\ config' = config \/ config' = journal.before
    BY <1>3, ConfigRollback
  <2> QED
    BY <2>1 DEF KnownImage, Pending, Valid, IsBefore, IsAfter
<1>4. CASE RemoveJournal(p) \/ CompleteJournal(p)
  <2>1. /\ UNCHANGED <<config, marker>>
        /\ journal' = journal \/ journal' = NoJournal
    BY <1>4 DEF RemoveJournal, CompleteJournal, Effect
  <2>2. CASE journal' = journal
    BY <2>1, <2>2, KnownSame
  <2>3. CASE journal' = NoJournal
    BY <2>3, JournalValues DEF KnownImage, Pending, Valid, Phases
  <2> QED
    BY <2>1, <2>2, <2>3
<1> QED
  BY <1>1, <1>2, <1>3, <1>4 DEF Recover

\* As long as nobody else writes the Config it stays one of the images.
LEMMA KnownStep ==
  ASSUME SafeInv, KnownImage(config), [Next]_vars
  PROVE  KnownImage(config)'
<1> USE DEF disk
<1>1. ASSUME NEW p \in Procs, Start(p) \/ Lock(p) \/ Preview(p) \/ LoadForUpdate(p) \/ Unlock(p)
      PROVE  KnownImage(config)'
  BY <1>1, KnownSame
     DEF Start, StartUpdate, StartMigrate, Lock, LockUpdate, LockRecover, LockApply, Preview,
         InspectJournal, InspectOrphan, UnlockRecover, BuildPlan, Precheck, LoadForUpdate,
         Unlock
<1>2. ASSUME NEW p \in Procs, PublishUpdate(p)
      PROVE  KnownImage(config)'
  <2>1. journal.phase = "none" /\ journal' = journal
    BY <1>2 DEF PublishUpdate, SafeInv, Safe, HolderInv
  <2> QED
    BY <2>1 DEF KnownImage, Pending, Valid, Phases
<1>3. ASSUME NEW p \in Procs, Apply(p) \/ Recover(p)
      PROVE  KnownImage(config)'
  BY <1>3, KnownApply, KnownRecover
<1>4. ASSUME NEW p \in Procs, Crash(p)
      PROVE  KnownImage(config)'
  <2>1. /\ UNCHANGED <<config, marker>>
        /\ journal' = journal \/ journal' = Torn
    BY <1>4 DEF Crash
  <2>2. CASE journal' = journal
    BY <2>1, <2>2, KnownSame
  <2>3. CASE journal' = Torn
    BY <2>3, JournalValues DEF KnownImage, Pending, Valid, Phases
  <2> QED
    BY <2>1, <2>2, <2>3
<1>5. CASE ChangeSources \/ UNCHANGED vars
  BY <1>5, KnownSame DEF ChangeSources, vars
<1> QED
  BY <1>1, <1>2, <1>3, <1>4, <1>5 DEF Next, Update

\* The marker is written below the after image and goes before that image does.
LEMMA MarkerStep ==
  ASSUME SafeInv, [Next]_vars,
         Pending /\ ~IsAfter(config, journal) => marker.txn = NoTxn
  PROVE  (Pending /\ ~IsAfter(config, journal) => marker.txn = NoTxn)'
<1> DEFINE Last == Pending /\ ~IsAfter(config, journal) => marker.txn = NoTxn
<1> USE DEF SafeInv, TypeInv, Safe
<1>1. ASSUME UNCHANGED <<config, journal>>, marker' = marker \/ marker'.txn = NoTxn
      PROVE  Last'
  BY <1>1 DEF Pending, Valid, IsAfter
<1>2. ASSUME IsAfter(config, journal), UNCHANGED config,
             journal' = journal \/ \E ph \in Phases : journal' = AtPhase(journal, ph)
      PROVE  Last'
  BY <1>2, JournalValues DEF IsAfter, TypeOK
<1>3. ASSUME ~Valid(journal)'
      PROVE  Last'
  BY <1>3 DEF Pending, Valid
<1>4. ASSUME marker.txn = NoTxn, UNCHANGED marker
      PROVE  Last'
  BY <1>4
<1>5. ASSUME NEW p \in Procs, Start(p) \/ Lock(p) \/ Preview(p) \/ LoadForUpdate(p) \/ Unlock(p)
      PROVE  Last'
  BY <1>5, <1>1
     DEF Start, StartUpdate, StartMigrate, Lock, LockUpdate, LockRecover, LockApply, Preview,
         InspectJournal, InspectOrphan, UnlockRecover, BuildPlan, Precheck, LoadForUpdate,
         Unlock, disk
<1>6. ASSUME NEW p \in Procs, PublishUpdate(p)
      PROVE  Last'
  <2>1. journal.phase = "none" /\ journal' = journal
    BY <1>6 DEF PublishUpdate, HolderInv
  <2> QED
    BY <2>1, <1>3 DEF Valid, Phases
<1>7. ASSUME NEW p \in Procs, Apply(p)
      PROVE  Last'
  <2>1. CASE CheckApply(p) \/ WriteSnapshot(p) \/ WriteBackup(p) \/ SetKey(p)
    BY <2>1, <1>1 DEF CheckApply, WriteSnapshot, WriteBackup, SetKey, disk
  <2>2. CASE BeginJournal(p) \/ AdvanceBackups(p) \/ AdvanceKeyring(p) \/ WriteConfig(p)
    <3>1. marker.txn = NoTxn /\ UNCHANGED marker
      BY <2>2
         DEF BeginJournal, AdvanceBackups, AdvanceKeyring, WriteConfig, Advance, HolderInv,
             AtBefore
    <3> QED
      BY <3>1, <1>4
  <2>3. CASE AdvanceConfig(p) \/ AdvanceMarker(p) \/ WriteMarker(p)
    <3>1. IsAfter(config, journal) /\ UNCHANGED config
      BY <2>3 DEF AdvanceConfig, AdvanceMarker, WriteMarker, Advance, HolderInv
    <3>2. journal' = journal \/ \E ph \in Phases : journal' = AtPhase(journal, ph)
      BY <2>3 DEF AdvanceConfig, AdvanceMarker, WriteMarker, Advance, Effect, Phases
    <3> QED
      BY <3>1, <3>2, <1>2
  <2> QED
    BY <1>7, <2>1, <2>2, <2>3 DEF Apply
<1>8. ASSUME NEW p \in Procs, Recover(p)
      PROVE  Last'
  <2>1. CASE ~RollbackConfig(p) /\ ~RemoveJournal(p) /\ ~CompleteJournal(p)
    <3>1. UNCHANGED <<config, journal>> /\ (marker' = marker \/ marker'.txn = NoTxn)
      BY <1>8, <2>1, FileValues
         DEF Recover, EnterRecovery, LoadRecovery, RollbackMarker, RollbackKeyring,
             RollbackBackups, RemoveSnapshot, VerifyCommitted, CompleteSnapshot, Effect, disk
    <3> QED
      BY <3>1, <1>1
  <2>2. CASE RollbackConfig(p)
    BY <2>2, <1>4, ConfigRollback
  <2>3. CASE RemoveJournal(p) \/ CompleteJournal(p)
    <3>1. /\ UNCHANGED <<config, marker>>
          /\ journal' = journal \/ journal' = NoJournal
      BY <2>3 DEF RemoveJournal, CompleteJournal, Effect
    <3> QED
      BY <3>1, <1>1, <1>3, JournalValues DEF Valid, Phases
  <2> QED
    BY <2>1, <2>2, <2>3
<1>9. ASSUME NEW p \in Procs, Crash(p)
      PROVE  Last'
  <2>1. UNCHANGED <<config, marker>> /\ (journal' = journal \/ journal' = Torn)
    BY <1>9 DEF Crash
  <2> QED
    BY <2>1, <1>1, <1>3, JournalValues DEF Valid, Phases
<1>10. CASE ChangeSources \/ UNCHANGED vars
  BY <1>10, <1>1 DEF ChangeSources, vars, disk
<1> QED
  BY <1>5, <1>6, <1>7, <1>8, <1>9, <1>10 DEF Next, Update

LEMMA UndisturbedStep == SafeInv /\ Undisturbed /\ [Next]_vars => Undisturbed'
BY KnownStep, MarkerStep DEF Undisturbed
-----------------------------------------------------------------------------
\* The shared invariant, from the initial states on and through every step.
LEMMA SafeInvInit == Init => SafeInv
<1>1. Init => \A p \in Procs : PlanInv(p)
  BY DEF Init, PlanInv, Inside, Applying, RecoverPCs
<1> QED
  BY <1>1, TypeInit, SafeInit DEF SafeInv

LEMMA SafeInvStep == SafeInv /\ [Next]_vars => SafeInv'
BY TypeStep, TxnStep, SafeStep, PlanStep DEF SafeInv, TypeInv

-----------------------------------------------------------------------------
(***************************************************************************)
(* Beside a person who edits the Config.  ImageInv says of the Config that *)
(* such an edit has replaced what SafeInv and KnownImage say of a Config   *)
(* in place: while the Config is foreign the image could be put back.      *)
(***************************************************************************)
ImageInv ==
  Foreign => /\ image \in Config /\ (image.exists \/ image = Absent)
             /\ image.mig \in {NoTxn, journal.txn}
             /\ KnownImage(image)
             /\ Pending /\ image.mig # NoTxn => /\ Restorable
                                                /\ journal.phase \in {"keyring", "config"}
                                                /\ Refs(journal.txn) \subseteq keyring
                                                /\ BackupsOf(journal.txn) \subseteq backups
TInv == SafeInv /\ ImageInv

\* An edit by hand preserves the shared invariant: nobody is inside the lock, the journal
\* is valid, and no hand writes the profiles of a transaction into the Config unless it puts
\* the image back.
LEMMA HandEditSafe == TInv /\ HandEdit => SafeInv'
<1> SUFFICES ASSUME TInv, HandEdit PROVE SafeInv'
  OBVIOUS
<1> USE DEF TInv, SafeInv, Safe, TypeInv
<1>1. /\ lock = None /\ Valid(journal)
      /\ UNCHANGED <<lkg, marker, journal, snapshot, backups, keyring, version, lock, pc,
                     plan, txn, edit, caller, outcome, crashes, faults>>
  BY DEF HandEdit, locals, bounds
<1>2. /\ config' \in Config
      /\ config'.exists \/ config' = Absent
      /\ config'.mig \in {NoTxn, journal.txn}
      /\ Pending /\ config'.mig # NoTxn => /\ Restorable
                                           /\ journal.phase \in {"keyring", "config"}
                                           /\ Refs(journal.txn) \subseteq keyring
                                           /\ BackupsOf(journal.txn) \subseteq backups
  <2>1. CASE config' = Absent
    BY <2>1, ConfigValues
  <2>2. ASSUME NEW e \in Edits, config' = Edited(config, e)
        PROVE  config' \in Config /\ config'.exists /\ config'.mig = config.mig
    BY <2>2, EditedValues DEF TypeOK
  <2>3. /\ config.mig \in {NoTxn, journal.txn}
        /\ Pending /\ config.mig # NoTxn => /\ Restorable
                                            /\ journal.phase \in {"keyring", "config"}
                                            /\ Refs(journal.txn) \subseteq keyring
                                            /\ BackupsOf(journal.txn) \subseteq backups
    BY <1>1 DEF DiskInv, NamesInv, PendingInv
  <2>4. CASE Foreign /\ config' = image
    BY <2>4 DEF ImageInv
  <2> QED
    BY <2>1, <2>2, <2>3, <2>4, ConfigValues DEF HandEdit
<1>3. TypeInv'
  BY <1>1, <1>2 DEF TypeOK, TxnInv
<1>4. \A p \in Procs : pc'[p] \notin LockedPCs
  BY <1>1, MigrationAssumption DEF LockInv
<1>5. LockInv' /\ (\A p \in Procs : HolderInv(p)') /\ (\A p \in Procs : PlanInv(p)')
  BY <1>1, <1>4, Outsider, PlanOutsider DEF LockInv
<1>6. FileInv' /\ QuietInv' /\ JournalInv' /\ CommittedInv'
  BY <1>1, <1>2 DEF DiskInv, FileInv, QuietInv, JournalInv, CommittedInv, OwnedBy
<1>7. NamesInv'
  BY <1>1, <1>2 DEF DiskInv, NamesInv
<1>8. PendingInv'
  BY <1>1, <1>2 DEF DiskInv, PendingInv, Pending, Restorable
<1> QED
  BY <1>3, <1>5, <1>6, <1>7, <1>8 DEF DiskInv

\* The edit that makes the Config foreign replaces one that could be taken up from; later
\* ones leave the image alone.
LEMMA HandEditImage == TInv /\ HandEdit => ImageInv'
<1> SUFFICES ASSUME TInv, HandEdit PROVE ImageInv'
  OBVIOUS
<1> USE DEF TInv, SafeInv, Safe, TypeInv
<1>1. Valid(journal) /\ UNCHANGED <<marker, journal, snapshot, backups, keyring>>
  BY DEF HandEdit
<1>2. CASE Foreign
  <2>1. image' = image
    BY <1>2 DEF HandEdit
  <2> QED
    BY <1>1, <1>2, <2>1 DEF ImageInv, KnownImage, IsBefore, IsAfter, Pending, Valid, Restorable
<1>3. CASE ~Foreign
  <2>1. image' = config /\ KnownImage(config)
    BY <1>1, <1>3 DEF HandEdit, Foreign
  <2>2. /\ config \in Config /\ (config.exists \/ config = Absent)
        /\ config.mig \in {NoTxn, journal.txn}
        /\ Pending /\ config.mig # NoTxn => /\ Restorable
                                            /\ journal.phase \in {"keyring", "config"}
                                            /\ Refs(journal.txn) \subseteq keyring
                                            /\ BackupsOf(journal.txn) \subseteq backups
    BY <1>1 DEF TypeOK, DiskInv, FileInv, NamesInv, PendingInv
  <2> QED
    BY <1>1, <2>1, <2>2
       DEF ImageInv, KnownImage, IsBefore, IsAfter, Pending, Valid, Restorable
<1> QED
  BY <1>2, <1>3

\* A Config that is no image of the transaction stops every step before it writes: the
\* applying and the rolling back process know theirs, the others meet the journal first.
LEMMA ForeignStops ==
  ASSUME SafeInv, Foreign, NEW p \in Procs,
         Update(p) \/ Apply(p) \/ Recover(p) \/ Crash(p)
  PROVE  UNCHANGED disk
<1> USE DEF SafeInv, Safe
<1>1. Valid(journal) /\ ~IsAfter(config, journal) /\ journal.phase # "none"
  BY DEF Foreign, KnownImage, Pending, Valid, Phases
<1>2. HolderInv(p)
  OBVIOUS
<1>3. Pending => ~IsBefore(config, journal) /\ ~AtBefore
  BY DEF Foreign, KnownImage, AtBefore, Pending
<1>4. /\ journal.phase \in {"prepared", "backups", "keyring", "config"} => Pending
      /\ Pending => journal.phase # "marker_verified"
  BY DEF Pending, Valid, Phases
<1>5. pc[p] \notin {"e_publish", "a_begin", "a_snapshot", "a_backups", "a_keys", "a_config",
                    "a_adv_config", "a_marker", "a_adv_marker", "r_marker", "r_config",
                    "r_keyring", "r_backups", "r_snapshot", "r_journal", "c_snapshot",
                    "c_journal"}
  BY <1>1, <1>2, <1>3, <1>4 DEF HolderInv
<1>6. CASE Update(p)
  BY <1>5, <1>6 DEF Update, LoadForUpdate, PublishUpdate, Unlock
<1>7. CASE Apply(p)
  BY <1>5, <1>7
     DEF Apply, CheckApply, BeginJournal, WriteSnapshot, WriteBackup, AdvanceBackups,
         SetKey, AdvanceKeyring, WriteConfig, AdvanceConfig, WriteMarker, AdvanceMarker
<1>8. CASE Recover(p)
  BY <1>5, <1>8
     DEF Recover, EnterRecovery, LoadRecovery, RollbackMarker, RollbackConfig,
         RollbackKeyring, RollbackBackups, RemoveSnapshot, RemoveJournal,
         VerifyCommitted, CompleteSnapshot, CompleteJournal
<1>9. CASE Crash(p)
  BY <1>5, <1>9 DEF Crash, disk
<1> QED
  BY <1>6, <1>7, <1>8, <1>9

\* The program touches nothing as long as the Config is foreign.
LEMMA ForeignStep == SafeInv /\ Foreign /\ [Next]_vars => UNCHANGED disk
<1> SUFFICES ASSUME SafeInv, Foreign, [Next]_vars PROVE UNCHANGED disk
  OBVIOUS
<1>1. ASSUME NEW p \in Procs, Start(p) \/ Lock(p) \/ Preview(p)
      PROVE  UNCHANGED disk
  BY <1>1
     DEF Start, StartUpdate, StartMigrate, Lock, LockUpdate, LockRecover, LockApply,
         Preview, InspectJournal, InspectOrphan, UnlockRecover, BuildPlan, Precheck
<1>2. ASSUME NEW p \in Procs, Update(p) \/ Apply(p) \/ Recover(p) \/ Crash(p)
      PROVE  UNCHANGED disk
  BY <1>2, ForeignStops
<1>3. CASE ChangeSources \/ UNCHANGED vars
  BY <1>3 DEF ChangeSources, vars, disk
<1> QED
  BY <1>1, <1>2, <1>3 DEF Next

\* The program makes no Config foreign, and touches nothing beside a foreign one.
LEMMA ImageStep == TInv /\ [Next]_vars /\ UNCHANGED image => ImageInv'
<1> SUFFICES ASSUME TInv, [Next]_vars, image' = image, Foreign' PROVE ImageInv'
  BY DEF ImageInv
<1>1. Foreign
  <2>1. ~Foreign => KnownImage(config)
    BY KnownQuiet DEF Foreign
  <2> QED
    BY <2>1, KnownStep DEF Foreign, TInv
<1>2. UNCHANGED disk
  BY <1>1, ForeignStep DEF TInv
<1> QED
  BY <1>1, <1>2
     DEF TInv, ImageInv, KnownImage, IsBefore, IsAfter, Pending, Valid, Restorable, disk

LEMMA TamperedStep == TInv /\ [TNext]_tvars => TInv'
<1> SUFFICES ASSUME TInv, [TNext]_tvars PROVE TInv'
  OBVIOUS
<1>1. CASE [Next]_vars /\ UNCHANGED image
  BY <1>1, SafeInvStep, ImageStep DEF TInv
<1>2. CASE HandEdit
  BY <1>2, HandEditSafe, HandEditImage DEF TInv
<1> QED
  BY <1>1, <1>2 DEF TNext, tvars

(***************************************************************************)
(* The inductive invariant holds in every reachable state of the program,  *)
(* whatever its processes are doing and wherever they crash.               *)
(***************************************************************************)
THEOREM Invariance == Spec => []IInv
<1>1. Init => IInv
  <2>1. Init => Undisturbed
    BY JournalValues DEF Init, Undisturbed, KnownImage, Pending, Valid, Phases
  <2> QED
    BY <2>1, SafeInvInit DEF IInv
<1>2. IInv /\ [Next]_vars => IInv'
  BY SafeInvStep, UndisturbedStep DEF IInv
<1> QED
  BY <1>1, <1>2, PTL DEF Spec

(***************************************************************************)
(* Beside a person who rewrites, deletes and restores the Config the part  *)
(* that speaks of the Config only through the transaction it names holds,  *)
(* and the Config that the person has replaced could be put back.          *)
(***************************************************************************)
THEOREM TamperedInvariance == TSpec => []TInv
<1>1. TInit => TInv
  <2>1. Init => ~Foreign
    BY JournalValues DEF Init, Foreign, Valid, Phases
  <2> QED
    BY <2>1, SafeInvInit DEF TInit, TInv, ImageInv
<1> QED
  BY <1>1, TamperedStep, PTL DEF TSpec

(***************************************************************************)
(* Every variable keeps its type: each action leaves each file, the        *)
(* journal, the lock and every process in one of the states the code can   *)
(* tell apart.                                                             *)
(***************************************************************************)
THEOREM TypeCorrect == Spec => []TypeOK
<1>1. IInv => TypeOK
  BY DEF IInv, SafeInv, TypeInv
<1> QED
  BY <1>1, Invariance, PTL

\* A journal is pending, committed, or of no use.
LEMMA PhaseCases ==
  ASSUME TypeOK
  PROVE  \/ Pending
         \/ journal.phase = "marker_verified" /\ Valid(journal) /\ ~Pending
         \/ ~Valid(journal) /\ ~Pending
BY DEF Pending, Valid, Phases

\* A Config that names a transaction has the secrets of that transaction.
LEMMA CredentialFact == SafeInv => NoDanglingCredential
<1> SUFFICES ASSUME TypeOK, DiskInv, config.mig # NoTxn PROVE Refs(config.mig) \subseteq keyring
  BY DEF SafeInv, Safe, TypeInv, NoDanglingCredential
<1>1. CASE Pending
  BY <1>1 DEF DiskInv, NamesInv, PendingInv, Pending
<1>2. CASE journal.phase = "marker_verified" /\ Valid(journal)
  BY <1>2 DEF DiskInv, NamesInv, CommittedInv
<1>3. CASE ~Valid(journal)
  BY <1>3 DEF DiskInv, QuietInv
<1> QED
  BY <1>1, <1>2, <1>3, PhaseCases

\* What is in the keyring or among the backups has an owner.
LEMMA OwnerFact == SafeInv => SideEffectsOwned
BY DEF SafeInv, Safe, SideEffectsOwned, Owners, DiskInv, QuietInv, JournalInv, OwnedBy

(***************************************************************************)
(* No reader ever meets a migrated profile whose secret is not in the      *)
(* keyring.                                                                *)
(***************************************************************************)
THEOREM CredentialsSafe == Spec => []NoDanglingCredential
BY CredentialFact, Invariance, PTL DEF IInv

(***************************************************************************)
(* Every secret and every backup has an owner that keeps or will delete    *)
(* it.                                                                     *)
(***************************************************************************)
THEOREM NothingOrphaned == Spec => []SideEffectsOwned
BY OwnerFact, Invariance, PTL DEF IInv

(***************************************************************************)
(* No reader meets a migrated profile without its secret, whoever edits    *)
(* the Config: an editor can remove a migrated profile but name no         *)
(* transaction, and the recovery deletes secrets only below a Config that  *)
(* is the before image again.                                              *)
(***************************************************************************)
THEOREM CredentialsSafeTampered == TSpec => []NoDanglingCredential
BY CredentialFact, TamperedInvariance, PTL DEF TInv

\* No hand edit makes the program forget a secret or a backup that is to be deleted.
THEOREM NothingOrphanedTampered == TSpec => []SideEffectsOwned
BY OwnerFact, TamperedInvariance, PTL DEF TInv

(***************************************************************************)
(* Outside a pending transaction the marker and the Config name the same   *)
(* one.                                                                    *)
(***************************************************************************)
THEOREM MarkerSound == Spec => []MarkerVouches
<1>1. IInv => MarkerVouches
  <2> SUFFICES ASSUME TypeOK, DiskInv, Undisturbed, ~Pending
               PROVE  /\ marker.txn = config.mig
                      /\ marker.txn # NoTxn => BackupsOf(marker.txn) \subseteq backups
    BY DEF IInv, SafeInv, Safe, TypeInv, MarkerVouches
  <2>1. CASE journal.phase = "marker_verified" /\ Valid(journal)
    BY <2>1, AfterNotBefore DEF DiskInv, CommittedInv, Undisturbed, KnownImage
  <2>2. CASE ~Valid(journal)
    BY <2>2 DEF DiskInv, QuietInv
  <2> QED
    BY <2>1, <2>2, PhaseCases
<1> QED
  BY <1>1, Invariance, PTL

(***************************************************************************)
(* A transaction that has not committed can always be rolled back.         *)
(***************************************************************************)
THEOREM RollbackAlwaysPossible == Spec => []RollbackPossible
<1>1. IInv => RollbackPossible
  <2> SUFFICES ASSUME TypeOK, DiskInv, Pending, IsAfter(config, journal) PROVE Restorable
    BY DEF IInv, SafeInv, Safe, TypeInv, RollbackPossible, Undisturbed, KnownImage
  <2> QED
    BY AfterNotBefore DEF DiskInv, PendingInv, Pending
<1> QED
  BY <1>1, Invariance, PTL
-----------------------------------------------------------------------------
(***************************************************************************)
(* A recovery that a foreign Config stops can be taken up again: the       *)
(* journal accepts the image that was replaced and the marker, and the     *)
(* snapshot, the backups and the secrets that go with them are there.      *)
(***************************************************************************)
THEOREM MaterialsSurvive == TSpec => []MaterialsKept
<1>1. TInv => MaterialsKept
  <2> SUFFICES ASSUME DiskInv, ImageInv, Foreign
               PROVE  MaterialsKept
    BY DEF TInv, SafeInv, Safe, MaterialsKept
  <2>1. /\ Valid(journal) /\ marker.txn \in {NoTxn, journal.txn}
        /\ image.mig # NoTxn => image.mig = journal.txn
    BY DEF Foreign, DiskInv, NamesInv, ImageInv
  <2>2. Pending \/ journal.phase = "marker_verified"
    BY <2>1 DEF Pending
  <2>3. KnownImage(image)
    BY DEF ImageInv
  <2>4. CASE Pending
    BY <2>1, <2>3, <2>4 DEF MaterialsKept, ImageInv, Pending
  <2>5. CASE journal.phase = "marker_verified"
    BY <2>1, <2>3, <2>5 DEF MaterialsKept, DiskInv, CommittedInv, Pending
  <2> QED
    BY <2>2, <2>4, <2>5
<1> QED
  BY <1>1, TamperedInvariance, PTL

(***************************************************************************)
(* While the Config is foreign the program leaves every artifact, the      *)
(* journal, the snapshot, the backups and the secrets as they are.         *)
(***************************************************************************)
THEOREM ForeignLeftAlone == TSpec => ForeignConfigUntouched
<1>1. TInv /\ [TNext]_tvars => [Foreign => HandEdit \/ UNCHANGED disk]_tvars
  BY ForeignStep DEF TInv, TNext
<1> QED
  BY <1>1, TamperedInvariance, PTL DEF TSpec, ForeignConfigUntouched
-----------------------------------------------------------------------------
\* The outcomes that say something of the files.
Judged == {"migrated", "already_migrated", "rolled_back", "destination_changed",
           "keyring_unavailable", "begin_failed", "saved", "published_unconfirmed",
           "update_failed"}
Judging(p) == \/ PublishUpdate(p) \/ BeginJournal(p) \/ CheckApply(p)
              \/ RemoveJournal(p) \/ CompleteJournal(p)

\* A step that reports nothing, or nothing that is judged.
Silent(p) == \A q \in Procs : outcome'[q] # outcome[q] => outcome'[q] \notin Judged

\* The other steps settle the outcome of nothing.
LEMMA SilentSteps ==
  ASSUME TypeOK, NEW p \in Procs, ~Judging(p),
         Start(p) \/ Lock(p) \/ Update(p) \/ Preview(p) \/ Apply(p) \/ Recover(p) \/ Crash(p)
  PROVE  Silent(p)
<1> USE DEF Silent, Judged, Judging, Report, Return, TypeOK
<1>1. CASE Start(p) \/ Lock(p) \/ Preview(p) \/ Crash(p)
  BY <1>1
     DEF Start, StartUpdate, StartMigrate, Lock, LockUpdate, LockRecover, LockApply,
         Preview, InspectJournal, InspectOrphan, UnlockRecover, BuildPlan, Precheck,
         Crash
<1>2. CASE Update(p)
  BY <1>2 DEF Update, LoadForUpdate, Unlock
<1>3. CASE Apply(p)
  BY <1>3
     DEF Apply, WriteSnapshot, WriteBackup, AdvanceBackups, SetKey,
         AdvanceKeyring, WriteConfig, AdvanceConfig, WriteMarker, AdvanceMarker, Advance
<1>4. CASE Recover(p)
  BY <1>4
     DEF Recover, EnterRecovery, LoadRecovery, RollbackMarker, RollbackConfig,
         RollbackKeyring, RollbackBackups, RemoveSnapshot, VerifyCommitted,
         CompleteSnapshot, RecoveryStep, CompleteStep, CompleteFailed, Resume
<1> QED
  BY <1>1, <1>2, <1>3, <1>4

\* An update that may have been published is in the Config, and the Config it was computed
\* from was another one.
LEMMA HonestPublish ==
  ASSUME SafeInv, NEW p \in Procs, PublishUpdate(p), NEW q \in Procs,
         outcome'[q] # outcome[q]
  PROVE  TruthOf(q)'
<1> USE DEF SafeInv, Safe, TypeInv
<1>1. q = p /\ edit' = edit /\ edit[p] # config
  <2>1. q = p /\ edit' = edit
    BY DEF PublishUpdate, Return, Report, TypeOK, locals
  <2>2. edit[p].edits # config.edits
    BY DEF PublishUpdate, PlanInv
  <2> QED
    BY <2>1, <2>2
<1>2. \/ outcome'[p] \in {"saved", "published_unconfirmed"} /\ config' = edit[p]
      \/ outcome'[p] = "update_failed" /\ config' = config
  BY DEF PublishUpdate, Return, Report, Fates, TypeOK
<1> QED
  BY <1>1, <1>2 DEF TruthOf

\* An apply that cannot begin has written nothing but, perhaps, its journal.
LEMMA HonestBegin ==
  ASSUME SafeInv, NEW p \in Procs, BeginJournal(p), NEW q \in Procs,
         outcome'[q] # outcome[q]
  PROVE  TruthOf(q)'
<1> USE DEF SafeInv, Safe, TypeInv
<1>1. q = p /\ UNCHANGED <<config, marker, snapshot, backups, keyring>>
  BY DEF BeginJournal, Return, Report, TypeOK
<1>2. /\ journal.phase = "none" /\ snapshot.state = "absent"
      /\ config.mig = NoTxn /\ marker.txn = NoTxn /\ OwnedBy(NoTxn)
  BY DEF BeginJournal, HolderInv, DiskInv, QuietInv, Valid, Phases
<1>3. keyring = {} /\ backups = {}
  BY <1>2, OwnedByNobody
<1>4. outcome'[p] = "begin_failed" /\ (journal' = journal \/ journal' = NewJournal(p))
  BY <1>1 DEF BeginJournal, Return, Report, Effect, TypeOK
<1>5. \/ journal'.phase = "none"
      \/ journal'.phase = "prepared" /\ journal'.before = config
  BY <1>2, <1>4, NewJournalValues
<1> QED
  BY <1>1, <1>2, <1>3, <1>4, <1>5 DEF TruthOf, Unmigrated, IsBefore

\* The refusals of an apply leave what they found: nothing, or a finished migration.
LEMMA HonestCheck ==
  ASSUME SafeInv, NEW p \in Procs, CheckApply(p), NEW q \in Procs, outcome'[q] # outcome[q]
  PROVE  TruthOf(q)'
<1> USE DEF SafeInv, Safe, TypeInv
<1>1. q = p /\ UNCHANGED <<config, marker, journal, snapshot, backups, keyring, plan>>
  BY DEF CheckApply, Return, Report, disk, TypeOK
<1>2. /\ journal.phase = "none" /\ snapshot.state = "absent" /\ marker.txn = config.mig
      /\ OwnedBy(marker.txn)
  BY DEF CheckApply, HolderInv, DiskInv, QuietInv, Valid, Phases
<1>3. marker.txn = NoTxn => keyring = {} /\ backups = {}
  BY <1>2, OwnedByNobody
<1>4. \/ outcome'[p] = ApplyVerdict(p) /\ ApplyVerdict(p) # "go"
      \/ outcome'[p] = "keyring_unavailable" /\ ApplyVerdict(p) = "go"
  BY <1>1 DEF CheckApply, Return, Report, TypeOK
<1>5. /\ ApplyVerdict(p) = "already_migrated" =>
            marker.txn # NoTxn /\ marker.src = plan[p].src
      /\ ApplyVerdict(p) \in {"go", "destination_changed"} => marker.txn = NoTxn
      /\ ApplyVerdict(p) \notin Judged \ {"already_migrated", "destination_changed"}
  BY DEF ApplyVerdict, Judged
<1> QED
  BY <1>1, <1>2, <1>3, <1>4, <1>5 DEF TruthOf, CleanState, Unmigrated, Judged

\* Removing the journal reports a rollback only when the machine is rolled back.
LEMMA HonestRollback ==
  ASSUME SafeInv, NEW p \in Procs, RemoveJournal(p), NEW q \in Procs, outcome'[q] # outcome[q]
  PROVE  TruthOf(q)'
<1> USE DEF SafeInv, Safe, TypeInv
<1>1. q = p /\ UNCHANGED <<config, marker, snapshot, backups, keyring>>
  BY DEF RemoveJournal, Resume, Return, Report, TypeOK
<1>2. /\ IsBefore(config, journal) /\ marker.txn = NoTxn /\ snapshot.state = "absent"
      /\ keyring = {} /\ backups = {} /\ journal.before.mig = NoTxn
  BY DEF RemoveJournal, HolderInv, AtBefore, DiskInv, JournalInv, Pending
<1>3. \/ outcome'[p] = "recovery_required"
      \/ outcome'[p] = "rolled_back" /\ journal'.phase = "none"
  BY <1>1, JournalValues DEF RemoveJournal, Resume, Return, Report, Effect, TypeOK
<1> QED
  BY <1>1, <1>2, <1>3 DEF TruthOf, CleanState, Unmigrated, IsBefore

\* Completing the journal reports a commit only when the machine is migrated as previewed.
LEMMA HonestCommit ==
  ASSUME SafeInv, NEW p \in Procs, CompleteJournal(p), NEW q \in Procs, outcome'[q] # outcome[q]
  PROVE  TruthOf(q)'
<1> USE DEF SafeInv, Safe, TypeInv
<1>1. q = p /\ UNCHANGED <<config, marker, snapshot, plan>>
  BY DEF CompleteJournal, CompleteFailed, Resume, Return, Report, TypeOK
<1>2. /\ IsAfter(config, journal) /\ marker.txn = journal.txn /\ snapshot.state = "absent"
      /\ Valid(journal) /\ journal.phase = "marker_verified" /\ pc[p] = "c_journal"
  BY DEF CompleteJournal, HolderInv, DiskInv, CommittedInv, Valid, Phases
<1>3. config.mig = marker.txn /\ marker.txn # NoTxn /\ config.edits = journal.before.edits
  BY <1>2, AfterNotBefore
<1>4. \/ outcome'[p] = "recovery_required"
      \/ /\ outcome'[p] = "migrated" /\ journal'.phase = "none"
         /\ caller[p] \notin {"explicit", "apply"}
  BY <1>1, JournalValues
     DEF CompleteJournal, CompleteFailed, Resume, Return, Report, Effect, TypeOK
<1>5. CASE outcome'[p] = "recovery_required"
  BY <1>1, <1>5 DEF TruthOf
<1>6. CASE /\ outcome'[p] = "migrated" /\ journal'.phase = "none"
           /\ caller[p] \notin {"explicit", "apply"}
  <2>1. Inside(p)
    BY <1>2, <1>6 DEF Inside, RecoverPCs
  <2>2. marker.src = plan[p].src /\ plan[p].cfg = ContentOf(journal.before)
    BY <1>2, <2>1 DEF PlanInv
  <2>3. plan[p].cfg.edits = config.edits
    BY <1>3, <2>2, ConfigValues, JournalValues DEF TypeOK
  <2> QED
    BY <1>1, <1>2, <1>3, <1>6, <2>2, <2>3 DEF TruthOf, CleanState
<1> QED
  BY <1>4, <1>5, <1>6

\* A step of the program reports nothing that is not so.
LEMMA HonestSteps == SafeInv /\ [Next]_vars => [HonestStep]_vars
<1> SUFFICES ASSUME SafeInv, Next, NEW q \in Procs, outcome'[q] # outcome[q]
             PROVE  TruthOf(q)'
  BY DEF HonestStep
<1>1. PICK p \in Procs : Start(p) \/ Lock(p) \/ Update(p) \/ Preview(p) \/ Apply(p)
                           \/ Recover(p) \/ Crash(p)
  BY DEF Next, ChangeSources
<1>2. CASE Judging(p)
  BY <1>2, HonestPublish, HonestBegin, HonestCheck, HonestRollback, HonestCommit DEF Judging
<1>3. CASE ~Judging(p)
  <2>1. outcome'[q] \notin Judged
    BY <1>1, <1>3, SilentSteps DEF Silent, SafeInv, TypeInv
  <2> QED
    BY <2>1 DEF TruthOf, Judged
<1> QED
  BY <1>2, <1>3

(***************************************************************************)
(* What a command reports of the files is true when it is reported.        *)
(***************************************************************************)
THEOREM OutcomesHonest == Spec => HonestOutcome
BY HonestSteps, Invariance, PTL DEF Spec, HonestOutcome, IInv

(***************************************************************************)
(* It is true as well after somebody has edited the Config by hand: such a *)
(* Config is reported as a required recovery, never as done or undone.     *)
(***************************************************************************)
THEOREM OutcomesHonestTampered == TSpec => HonestOutcome
<1>1. TInv /\ [TNext]_tvars => [HonestStep]_vars
  BY HonestSteps DEF TInv, TNext, tvars, HandEdit, HonestStep
<1> QED
  BY <1>1, TamperedInvariance, PTL DEF TSpec, HonestOutcome
-----------------------------------------------------------------------------
(***************************************************************************)
(* MigrationTxn implements AtomicMigration, for every value of the         *)
(* constants: whatever crashes, fails or is interleaved, what a reader     *)
(* sees after recovery changes only by a profile edit or by the one step   *)
(* that commits a migration.                                               *)
(***************************************************************************)
\* The refinement mapping of Atomic, by name.
Profiles   == IF Pending THEN journal.before.edits ELSE config.edits
MigratedBy == IF Pending THEN journal.before.mig ELSE config.mig

\* What a step may do to the abstract state: nothing, an edit or a commit.
AbstractStep == \/ UNCHANGED <<Profiles, MigratedBy>>
                \/ /\ \E e \in Edits : \/ Profiles' = Profiles \cup {e}
                                       \/ Profiles' = Profiles \ {e}
                   /\ UNCHANGED MigratedBy
                \/ /\ MigratedBy = NoTxn
                   /\ \E t \in TxnIds : MigratedBy' = t
                   /\ UNCHANGED Profiles

\* A step that leaves Config and journal alone is a stutter.
LEMMA SameFiles == UNCHANGED <<config, journal>> => AbstractStep
BY DEF AbstractStep, Profiles, MigratedBy, Pending, Valid

\* While the transaction is pending only its before image counts.
LEMMA SameBefore ==
  ASSUME Pending, Pending', journal'.before = journal.before
  PROVE  AbstractStep
BY DEF AbstractStep, Profiles, MigratedBy

\* Rewriting or removing the journal of a transaction that is still, or again, at
\* its before image changes nothing.
LEMMA AtBeforeStep ==
  ASSUME UNCHANGED config,
         Pending => IsBefore(config, journal),
         Pending' => journal'.before = config
  PROVE  AbstractStep
BY DEF AbstractStep, Profiles, MigratedBy, IsBefore

\* The edits an update publishes.
LEMMA PublishRefines ==
  ASSUME IInv, NEW p \in Procs, PublishUpdate(p)
  PROVE  AbstractStep
<1>1. /\ journal.phase = "none" /\ edit[p].mig = config.mig
      /\ \E e \in Edits : edit[p].edits \in {config.edits \cup {e}, config.edits \ {e}}
  BY DEF IInv, SafeInv, Safe, HolderInv, PublishUpdate
<1>2. journal' = journal /\ (config' = config \/ config' = edit[p])
  BY DEF PublishUpdate
<1>3. ~Pending /\ ~Pending'
  BY <1>1, <1>2 DEF Pending, Valid, Phases
<1>4. CASE config' = config
  BY <1>2, <1>4, SameFiles
<1>5. CASE config' = edit[p]
  <2>1. Profiles = config.edits /\ Profiles' = config'.edits
    BY <1>3 DEF Profiles
  <2>2. MigratedBy = config.mig /\ MigratedBy' = config'.mig
    BY <1>3 DEF MigratedBy
  <2>3. PICK e \in Edits : edit[p].edits \in {config.edits \cup {e}, config.edits \ {e}}
    BY <1>1
  <2>4. Profiles' = Profiles \cup {e} \/ Profiles' = Profiles \ {e}
    BY <1>5, <2>1, <2>3
  <2> QED
    BY <1>1, <1>5, <2>2, <2>4 DEF AbstractStep
<1> QED
  BY <1>2, <1>4, <1>5

\* The commit point: the journal is advanced to marker_verified.
LEMMA CommitRefines ==
  ASSUME IInv, NEW p \in Procs, AdvanceMarker(p)
  PROVE  AbstractStep
<1>1. /\ journal.phase = "config" /\ IsAfter(config, journal) /\ Valid(journal) /\ Pending
  BY DEF IInv, SafeInv, Safe, HolderInv, AdvanceMarker, Valid, Pending, Phases
<1>2. /\ config.mig = journal.txn /\ config.edits = journal.before.edits
      /\ journal.txn \in TxnIds /\ journal.before.mig = NoTxn
  BY <1>1, AfterNotBefore DEF IInv, SafeInv, Safe, TypeInv, DiskInv, JournalInv
<1>3. UNCHANGED config /\ (journal' = journal \/ journal'.phase = "marker_verified")
  BY JournalValues DEF AdvanceMarker, Advance, Effect, IInv, SafeInv, TypeInv, TypeOK, Phases
<1>4. CASE journal' = journal
  BY <1>3, <1>4, SameFiles
<1>5. CASE journal'.phase = "marker_verified"
  <2>1. ~Pending'
    BY <1>5 DEF Pending
  <2>2. Profiles = journal.before.edits /\ Profiles' = config.edits
    BY <1>1, <1>3, <2>1 DEF Profiles
  <2>3. MigratedBy = journal.before.mig /\ MigratedBy' = config.mig
    BY <1>1, <1>3, <2>1 DEF MigratedBy
  <2> QED
    BY <1>2, <2>2, <2>3 DEF AbstractStep
<1> QED
  BY <1>3, <1>4, <1>5

\* Every step of applyLocked is an abstract one.
LEMMA ApplyRefines ==
  ASSUME IInv, NEW p \in Procs, Apply(p)
  PROVE  AbstractStep
<1> USE DEF IInv, SafeInv, Safe, TypeInv, disk
<1>1. CASE CheckApply(p) \/ WriteSnapshot(p) \/ WriteBackup(p) \/ SetKey(p) \/ WriteMarker(p)
  BY <1>1, SameFiles DEF CheckApply, WriteSnapshot, WriteBackup, SetKey, WriteMarker
<1>2. CASE BeginJournal(p)
  <2>1. ~Pending
    BY <1>2 DEF BeginJournal, HolderInv, Pending, Valid, Phases
  <2>2. UNCHANGED config /\ (journal' = journal \/ journal'.before = config)
    BY <1>2, NewJournalValues DEF BeginJournal, Effect
  <2>3. journal' = journal => ~Pending'
    BY <2>1 DEF Pending, Valid
  <2> QED
    BY <2>1, <2>2, <2>3, AtBeforeStep
<1>3. CASE AdvanceBackups(p) \/ AdvanceKeyring(p) \/ AdvanceConfig(p)
  <2>1. /\ journal.phase \in {"prepared", "backups", "keyring"} /\ journal'.before = journal.before
        /\ journal'.phase \in {journal.phase, "backups", "keyring", "config"}
    BY <1>3, JournalValues
       DEF AdvanceBackups, AdvanceKeyring, AdvanceConfig, Advance, Before, Effect, Phases, TypeOK
  <2> QED
    BY <2>1, SameBefore DEF Pending, Valid, Phases
<1>4. CASE WriteConfig(p)
  <2>1. Pending /\ journal' = journal
    BY <1>4 DEF WriteConfig, HolderInv, Pending, Valid, Phases
  <2> QED
    BY <2>1, SameBefore DEF Pending, Valid
<1>5. CASE AdvanceMarker(p)
  BY <1>5, CommitRefines
<1> QED
  BY <1>1, <1>2, <1>3, <1>4, <1>5 DEF Apply

\* Every step of the recovery is an abstract one.
LEMMA RecoverRefines ==
  ASSUME IInv, NEW p \in Procs, Recover(p)
  PROVE  AbstractStep
<1> USE DEF IInv, SafeInv, Safe, disk
<1>1. CASE EnterRecovery(p) \/ LoadRecovery(p) \/ RollbackMarker(p) \/ RollbackKeyring(p)
             \/ RollbackBackups(p) \/ RemoveSnapshot(p) \/ VerifyCommitted(p) \/ CompleteSnapshot(p)
  BY <1>1, SameFiles
     DEF EnterRecovery, LoadRecovery, RollbackMarker, RollbackKeyring, RollbackBackups,
         RemoveSnapshot, VerifyCommitted, CompleteSnapshot
<1>2. CASE RollbackConfig(p)
  <2>1. Pending /\ journal' = journal
    BY <1>2 DEF RollbackConfig, HolderInv
  <2> QED
    BY <2>1, SameBefore DEF Pending, Valid
<1>3. CASE RemoveJournal(p)
  <2>1. IsBefore(config, journal) /\ UNCHANGED config
    BY <1>3 DEF RemoveJournal, HolderInv, AtBefore
  <2>2. journal' = journal \/ ~Pending'
    BY <1>3, JournalValues DEF RemoveJournal, Effect, Pending, Valid, Phases
  <2> QED
    BY <2>1, <2>2, AtBeforeStep DEF IsBefore
<1>4. CASE CompleteJournal(p)
  <2>1. UNCHANGED config /\ ~Pending
    BY <1>4 DEF CompleteJournal, HolderInv, Pending
  <2>2. ~Pending'
    BY <1>4, <2>1, JournalValues DEF CompleteJournal, Effect, Pending, Valid, Phases
  <2> QED
    BY <2>1, <2>2, AtBeforeStep
<1> QED
  BY <1>1, <1>2, <1>3, <1>4 DEF Recover

\* A crash is an abstract step.
LEMMA CrashRefines ==
  ASSUME IInv, NEW p \in Procs, Crash(p)
  PROVE  AbstractStep
<1>1. UNCHANGED config
  BY DEF Crash
<1>2. CASE UNCHANGED journal
  BY <1>1, <1>2, SameFiles
<1>3. CASE pc[p] = "a_begin" /\ journal' = Torn
  <2>1. ~Pending /\ ~Pending'
    BY <1>3, JournalValues DEF IInv, SafeInv, Safe, HolderInv, Pending, Valid, Phases
  <2> QED
    BY <1>1, <2>1, AtBeforeStep
<1> QED
  BY <1>2, <1>3 DEF Crash

\* Every step is an abstract one.
LEMMA NextRefines == IInv /\ [Next]_vars => AbstractStep
<1> SUFFICES ASSUME IInv, [Next]_vars PROVE AbstractStep
  OBVIOUS
<1>1. ASSUME NEW p \in Procs, Start(p) \/ Lock(p) \/ Preview(p) \/ LoadForUpdate(p) \/ Unlock(p)
      PROVE  AbstractStep
  BY <1>1, SameFiles
     DEF Start, StartUpdate, StartMigrate, Lock, LockUpdate, LockRecover, LockApply, Preview,
         InspectJournal, InspectOrphan, UnlockRecover, BuildPlan, Precheck, LoadForUpdate,
         Unlock, disk
<1>2. ASSUME NEW p \in Procs, PublishUpdate(p) \/ Apply(p) \/ Recover(p) \/ Crash(p)
      PROVE  AbstractStep
  BY <1>2, PublishRefines, ApplyRefines, RecoverRefines, CrashRefines
<1>3. CASE ChangeSources \/ UNCHANGED vars
  BY <1>3, SameFiles DEF ChangeSources, vars, disk
<1> QED
  BY <1>1, <1>2, <1>3 DEF Next, Update

(***************************************************************************)
(* Edits are never lost or invented and at most one migration ever         *)
(* commits: every behaviour of the transaction is one of the atomic        *)
(* migration.                                                              *)
(***************************************************************************)
THEOREM Refinement == Spec => AtomicMigrationSpec
<1>1. Init => Atomic!AInit
  <2> SUFFICES ASSUME Init PROVE config.edits = {} /\ config.mig = NoTxn /\ ~Pending
    BY DEF Atomic!AInit
  <2>1. config.edits = {} /\ config.mig = NoTxn
    BY ConfigValues DEF Init
  <2>2. ~Pending
    BY JournalValues DEF Init, Pending, Valid, Phases
  <2> QED
    BY <2>1, <2>2
<1>2. IInv /\ [Next]_vars => [Atomic!ANext]_(Atomic!avars)
  BY NextRefines
     DEF AbstractStep, Profiles, MigratedBy, Atomic!ANext, Atomic!Edit, Atomic!Commit, Atomic!avars
<1> QED
  BY <1>1, <1>2, Invariance, PTL DEF Spec, AtomicMigrationSpec, Atomic!ASpec
=============================================================================
