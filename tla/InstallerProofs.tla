-------------------------- MODULE InstallerProofs --------------------------
(***************************************************************************)
(* Proofs about Installer for any set of versions and any number of        *)
(* failing commands, signals, kills and doings of other programs.          *)
(*                                                                         *)
(* The inductive invariant says, for each of the four things a run         *)
(* replaces (the version directory, the link active, the entries and the   *)
(* launcher configuration), what of the former installation stands or is   *)
(* in the recovery materials, and what the variables of the shell know of  *)
(* it, at every command of the run and of its rollback.                    *)
(***************************************************************************)
EXTENDS Installer, TLAPS

Opening   == {"launcher", "check", "open"}
Marking   == {"mark_version", "publish_version", "link_active", "mark_detached", "detach"}
Switching == {"check_active", "switch"}
Looping   == {"entry", "move_entry", "link_entry", "mark_entry", "publish_entry"}
Closing   == {"check_launcher", "publish_launcher", "commit"}
Working   == Marking \cup Switching \cup {"make_backup"} \cup Looping \cup Closing
Dropping  == {"drop_backup", "drop_transaction"}
PCs == {"idle", "mark_committed"} \cup Opening \cup Working \cup Dropping \cup Undoing

Shells ==
  [new : Versions \cup {None}, hadActive : BOOLEAN, version : BOOLEAN, detached : BOOLEAN,
   switched : BOOLEAN, backed : SUBSET Names, installed : SUBSET Names, tmp : BOOLEAN,
   launcher : BOOLEAN, committed : BOOLEAN, failed : BOOLEAN]

HadActive == before["active"] \in Versions

\* The new version is none of those that stood before.
Typed ==
  /\ TypeOK
  /\ pc \in PCs /\ sh \in Shells /\ before \in [Places -> Contents] /\ kept \subseteq Versions
  /\ pc # "idle" => sh.new \in Versions
  /\ sh.new \notin kept /\ (HadActive => sh.new # before["active"])

\* What stood at p stands, or something from outside where nothing stood.
Stands(p) == at[p] = before[p] \/ (before[p] = None /\ at[p] \in Foreign)

\* Nothing of the installer's stands at p.
Vacant(p) == at[p] \in {None} \cup Foreign

Unmarked ==
  /\ ~sh.version /\ ~sh.detached /\ ~sh.switched /\ ~sh.launcher /\ ~sh.failed
  /\ sh.backed = {} /\ sh.installed = {}

(* The journal, the backup directory and the flags that end a run.         *)
JournalPart ==
  /\ pc \in Opening => txn = "none"
  /\ pc \in Working => txn = "open"
  /\ pc = "mark_committed" => txn = "committed"
  /\ pc \in Dropping => sh.committed
  /\ pc \in Opening \cup Working \cup {"mark_committed"} => ~sh.committed
  /\ pc \in Undoing \ {"finish", "tidy"} => ~Committed
  /\ pc \in Opening \cup Working \cup Dropping \cup {"mark_committed", "finish", "undo_launcher"}
       => ~sh.failed
  /\ pc \in Looping \cup Closing \cup {"mark_committed", "drop_backup"} => backupDir
  /\ pc = "undo_transaction" /\ ~sh.failed => ~backupDir
  /\ txn = "none" => prior = None /\ (sh.committed \/ ~backupDir)
  /\ ~backupDir => backup = NoBackup
  /\ txn = "none" /\ ~sh.committed /\ pc \notin {"tidy", "idle"} => Unmarked

VersionPart ==
  ~Committed =>
    /\ versions = kept \/ (versions = kept \cup {sh.new} /\ sh.version)
    /\ pc = "publish_version" => sh.version
    /\ pc \in Working \ {"mark_version", "publish_version"} => versions = kept \cup {sh.new}
    /\ pc \in {"undo_backup", "undo_transaction"} /\ ~sh.failed => versions = kept

Moved ==
  IF HadActive THEN prior = before["active"] /\ sh.detached
  ELSE prior = None /\ ~sh.detached /\ before["active"] = None

ActiveStands == Stands("active") /\ prior = None

ActivePart ==
  ~Committed =>
    /\ HadActive => before["active"] \in {at["active"], prior}
    /\ pc \in Opening \cup Marking => ActiveStands /\ ~sh.switched
    /\ pc \in (Opening \cup Marking) \ {"detach"} => ~sh.detached
    /\ pc \in {"open"} \cup Marking =>
         before["active"] \in Versions \cup {None} /\ (sh.hadActive <=> HadActive)
    /\ pc \in {"mark_detached", "detach"} => HadActive
    /\ pc = "detach" => sh.detached
    /\ pc \in Working \ Marking => Moved
    /\ pc \in Switching => Vacant("active")
    /\ pc = "check_active" => ~sh.switched
    /\ pc \in Working \ (Marking \cup {"check_active"}) => sh.switched
    /\ pc \in Working \ (Marking \cup Switching) => at["active"] = sh.new
    /\ pc \in {"finish", "undo_launcher", "unlink_entries", "restore_entries", "undo_active"} =>
         \/ ActiveStands /\ ~sh.switched /\ (sh.detached => HadActive)
         \/ Moved /\ (sh.switched \/ Vacant("active"))
    /\ pc = "restore_active" =>
         \/ ActiveStands /\ (sh.detached => HadActive)
         \/ Moved /\ (sh.failed \/ Vacant("active"))
    /\ pc \in {"undo_version", "undo_backup", "undo_transaction"} /\ ~sh.failed =>
         Stands("active")

\* The entry n has not been touched yet.
Whole(n) == Stands(n) /\ backup[n] = None /\ n \notin sh.installed

\* What stood at n, if anything, is in the backup directory.
Saved(n) ==
  \/ /\ n \in sh.backed /\ backup[n] # None
     /\ backup[n] = before[n] \/ (before[n] = None /\ backup[n] \in Foreign)
  \/ n \notin sh.backed /\ backup[n] = None /\ before[n] = None

EntryKept(n) == before[n] # None => before[n] \in {at[n], backup[n]} \/ Unrecorded(n)

AwaitsUnlink(n)  == Whole(n) \/ (Saved(n) /\ (n \in sh.installed \/ Vacant(n)))
AwaitsRestore(n) == Whole(n) \/ (Saved(n) /\ (sh.failed \/ Vacant(n)))

EntryState(n, i) ==
  /\ EntryKept(n)
  /\ \/ pc \in Opening \cup Marking \cup Switching \cup {"make_backup"}
     \/ pc \in Looping /\ i > idx
     \/ pc = "entry" /\ i = idx
     => Whole(n) /\ n \notin sh.backed
  /\ pc = "move_entry" /\ i = idx => Whole(n) /\ n \in sh.backed /\ at[n] # None
  /\ pc \in {"link_entry", "mark_entry"} /\ i = idx =>
       Saved(n) /\ n \notin sh.installed /\ Vacant(n)
  /\ pc = "publish_entry" /\ i = idx => Saved(n) /\ n \in sh.installed
  /\ (pc \in Looping /\ i < idx) \/ pc \in Closing =>
       Saved(n) /\ n \in sh.installed /\ at[n] = "managed"
  /\ pc \in {"finish", "undo_launcher"} \/ (pc = "unlink_entries" /\ i <= idx) =>
       AwaitsUnlink(n)
  /\ (pc = "unlink_entries" /\ i > idx) \/ (pc = "restore_entries" /\ i <= idx) =>
       AwaitsRestore(n)
  /\ pc = "restore_entries" /\ i > idx /\ ~sh.failed => Stands(n)
  /\ /\ pc \in {"undo_active", "restore_active", "undo_version", "undo_backup",
                "undo_transaction"}
     /\ ~sh.failed
     => Stands(n) \/ (Unrecorded(n) /\ Vacant(n))

EntryPart == ~Committed => \A i \in 1..Len(Entries) : EntryState(Entries[i], i)

LauncherPart ==
  /\ ~Committed => Stands("launcher") /\ (sh.launcher => before["launcher"] = None)
  /\ pc \in (Opening \cup Working) \ {"launcher"} => sh.tmp \/ at["launcher"] = "file"
  /\ pc = "publish_launcher" => sh.launcher
  /\ pc = "commit" => at["launcher"] = "file"

FormerPart == txn = "none" /\ ~sh.committed => Former

InstalledPart == Committed => Installed

IInv ==
  /\ Typed /\ JournalPart /\ VersionPart /\ ActivePart /\ EntryPart /\ LauncherPart
  /\ FormerPart /\ InstalledPart


-----------------------------------------------------------------------------
(* Types and positions.                                                    *)

\* The three entries.
LEMMA EntryList ==
  /\ Len(Entries) = 3
  /\ \A i \in 1..3 : Entries[i] \in Names
  /\ \A i, j \in 1..3 : Entries[i] = Entries[j] => i = j
  /\ \A n \in Names : \E i \in 1..3 : n = Entries[i]
  /\ \A n \in Names : n # "active" /\ n # "launcher"
BY DEF Entries, Names

\* The entry of the loop is one of them.
LEMMA EntryName == ASSUME Typed PROVE Entry \in Names
BY EntryList DEF Typed, TypeOK, Entry

\* At a place stands nothing, a file, a link or a version.
LEMMA PlacesType == ASSUME Typed, [Next]_vars PROVE at' \in [Places -> Contents]
<1>1. CASE Detach
  BY <1>1
     DEF Detach, Run, Put, Constant, history, Typed, TypeOK, Contents, Places
<1>2. CASE Switch
  BY <1>2
     DEF Switch, Run, Put, materials, Constant, history, Typed, TypeOK, Contents,
         Places
<1>3. CASE MoveEntry
  BY <1>3, EntryName
     DEF MoveEntry, Run, Put, Constant, history, Typed, TypeOK, Contents, Places
<1>4. CASE PublishEntry
  BY <1>4, EntryName
     DEF PublishEntry, Run, Put, materials, Constant, history, Typed, TypeOK,
         Contents, Places
<1>5. CASE PublishLauncher
  BY <1>5
     DEF PublishLauncher, Run, Put, materials, Constant, history, Typed, TypeOK,
         Contents, Places
<1>6. CASE UndoLauncher
  BY <1>6
     DEF UndoLauncher, Attempt, Skip, Put, Goto, Set, materials, Constant, history,
         Mishap, NoMishap, Typed, TypeOK, Contents, Places
<1>7. CASE UnlinkEntry
  BY <1>7, EntryName
     DEF UnlinkEntry, Loop, Attempt, Skip, Put, Goto, Set, materials, Constant,
         history, Mishap, NoMishap, Typed, TypeOK, Contents, Places
<1>8. CASE RestoreEntry
  BY <1>8, EntryName
     DEF RestoreEntry, Loop, Attempt, Skip, Put, Goto, Set, Constant, history, Mishap,
         NoMishap, Typed, TypeOK, Contents, Places
<1>9. CASE UndoActive
  BY <1>9
     DEF UndoActive, Attempt, Skip, Put, Goto, Set, materials, Constant, history,
         Mishap, NoMishap, Typed, TypeOK, Contents, Places
<1>10. CASE RestoreActive
  BY <1>10
     DEF RestoreActive, Attempt, Skip, Put, Goto, Set, Constant, history, Mishap,
         NoMishap, Typed, TypeOK, Contents, Places
<1>11. CASE Intrude
  BY <1>11
     DEF Intrude, Put, materials, history, Mishap, NoMishap, Typed, TypeOK, Contents,
         Places
<1>12. CASE UNCHANGED at
  BY <1>12
     DEF Typed, TypeOK
<1> QED
  BY <1>1, <1>2, <1>3, <1>4, <1>5, <1>6, <1>7, <1>8, <1>9, <1>10, <1>11, <1>12
     DEF Begin, PrepareLauncher, CheckTargets, OpenTransaction, MarkVersion,
         PublishVersion, LinkActive, MarkDetached, CheckActive, MakeBackup,
         CheckEntry, LinkEntry, MarkEntry, CheckLauncher, Commit, MarkCommitted,
         DropBackup, DropTransaction, Finish, UndoVersion, UndoBackup,
         UndoTransaction, Tidy, Stopped, Killed, Next, Forward, Rollback, Ended, vars,
         materials, history, SameFiles, Constant

\* The shell's variables keep their types.
LEMMA ShellType == ASSUME Typed, [Next]_vars PROVE sh' \in Shells
<1>1. CASE Begin
  BY <1>1
     DEF Begin, Goto, materials, Typed, TypeOK, Shells, FreshShell
<1>2. CASE PrepareLauncher
  BY <1>2
     DEF PrepareLauncher, Goto, Set, materials, Constant, history, Typed, TypeOK,
         Shells
<1>3. CASE CheckTargets
  BY <1>3
     DEF CheckTargets, Goto, Set, SameFiles, materials, Constant, history, Typed,
         TypeOK, Shells
<1>4. CASE MarkVersion
  BY <1>4
     DEF MarkVersion, Run, Set, SameFiles, materials, Constant, history, Typed,
         TypeOK, Shells
<1>5. CASE MarkDetached
  BY <1>5
     DEF MarkDetached, Run, Set, SameFiles, materials, Constant, history, Typed,
         TypeOK, Shells
<1>6. CASE CheckActive
  BY <1>6
     DEF CheckActive, Goto, Set, SameFiles, materials, Constant, history, Typed,
         TypeOK, Shells
<1>7. CASE CheckEntry
  <2>1. sh' = sh \/ sh' = [sh EXCEPT !["backed"] = sh.backed \cup {Entry}]
    BY <1>7 DEF CheckEntry, Set
  <2> QED
    BY <2>1, EntryName DEF Typed, Shells
<1>8. CASE MarkEntry
  BY <1>8, EntryName
     DEF MarkEntry, Run, Set, SameFiles, materials, Constant, history, Typed, TypeOK,
         Shells
<1>9. CASE CheckLauncher
  BY <1>9
     DEF CheckLauncher, Goto, Set, materials, Constant, history, Typed, TypeOK, Shells
<1>10. CASE MarkCommitted
  BY <1>10
     DEF MarkCommitted, Run, SameFiles, materials, Constant, history, Typed, TypeOK,
         Shells
<1>11. CASE UndoLauncher
  BY <1>11
     DEF UndoLauncher, Attempt, Skip, Put, Goto, Set, materials, Constant, history,
         Mishap, NoMishap, Typed, TypeOK, Shells
<1>12. CASE UnlinkEntry
  BY <1>12
     DEF UnlinkEntry, Loop, Attempt, Skip, Put, Goto, Set, materials, Constant,
         history, Mishap, NoMishap, Typed, TypeOK, Shells
<1>13. CASE RestoreEntry
  BY <1>13
     DEF RestoreEntry, Loop, Attempt, Skip, Put, Goto, Set, Constant, history, Mishap,
         NoMishap, Typed, TypeOK, Shells
<1>14. CASE UndoActive
  BY <1>14
     DEF UndoActive, Attempt, Skip, Put, Goto, Set, materials, Constant, history,
         Mishap, NoMishap, Typed, TypeOK, Shells
<1>15. CASE RestoreActive
  BY <1>15
     DEF RestoreActive, Attempt, Skip, Put, Goto, Set, Constant, history, Mishap,
         NoMishap, Typed, TypeOK, Shells
<1>16. CASE UndoVersion
  BY <1>16
     DEF UndoVersion, Attempt, Skip, Goto, Set, materials, Constant, history, Mishap,
         NoMishap, Typed, TypeOK, Shells
<1>17. CASE UndoBackup
  BY <1>17
     DEF UndoBackup, RemoveBackup, Skip, Goto, Set, materials, Constant, history,
         Mishap, NoMishap, Typed, TypeOK, Shells
<1>18. CASE UndoTransaction
  BY <1>18
     DEF UndoTransaction, RemoveTransaction, Skip, Goto, Set, materials, Constant,
         history, Mishap, NoMishap, Typed, TypeOK, Shells
<1>19. CASE UNCHANGED sh
  BY <1>19
     DEF Typed, TypeOK, Shells
<1> QED
  BY <1>1, <1>2, <1>3, <1>4, <1>5, <1>6, <1>7, <1>8, <1>9, <1>10, <1>11, <1>12, <1>13,
     <1>14, <1>15, <1>16, <1>17, <1>18, <1>19
     DEF OpenTransaction, PublishVersion, LinkActive, Detach, Switch, MakeBackup,
         MoveEntry, LinkEntry, PublishEntry, PublishLauncher, Commit, DropBackup,
         DropTransaction, Finish, Tidy, Stopped, Killed, Intrude, Next, Forward,
         Rollback, Ended, vars, materials, history, SameFiles, Constant

\* The backup directory and active.previous hold what may stand at a place.
LEMMA MaterialsType == ASSUME Typed, [Next]_vars PROVE backup' \in [Names -> Contents] /\ prior' \in Contents
<1>1. CASE Detach
  BY <1>1
     DEF Detach, Run, Put, Constant, history, Typed, TypeOK, Contents, NoBackup,
         Places
<1>2. CASE MoveEntry
  BY <1>2, EntryName
     DEF MoveEntry, Run, Put, Constant, history, Typed, TypeOK, Contents, NoBackup,
         Places
<1>3. CASE DropBackup
  BY <1>3
     DEF DropBackup, RemoveBackup, Goto, Constant, history, Mishap, NoMishap, Typed,
         TypeOK, Contents, NoBackup, Places
<1>4. CASE DropTransaction
  BY <1>4
     DEF DropTransaction, RemoveTransaction, Goto, Constant, history, Mishap,
         NoMishap, Typed, TypeOK, Contents, NoBackup, Places
<1>5. CASE RestoreEntry
  BY <1>5, EntryName
     DEF RestoreEntry, Loop, Attempt, Skip, Put, Goto, Set, Constant, history, Mishap,
         NoMishap, Typed, TypeOK, Contents, NoBackup, Places
<1>6. CASE RestoreActive
  BY <1>6
     DEF RestoreActive, Attempt, Skip, Put, Goto, Set, Constant, history, Mishap,
         NoMishap, Typed, TypeOK, Contents, NoBackup, Places
<1>7. CASE UndoBackup
  BY <1>7
     DEF UndoBackup, RemoveBackup, Skip, Goto, Set, materials, Constant, history,
         Mishap, NoMishap, Typed, TypeOK, Contents, NoBackup, Places
<1>8. CASE UndoTransaction
  BY <1>8
     DEF UndoTransaction, RemoveTransaction, Skip, Goto, Set, materials, Constant,
         history, Mishap, NoMishap, Typed, TypeOK, Contents, NoBackup, Places
<1>9. CASE UNCHANGED << backup, prior >>
  BY <1>9
     DEF Typed, TypeOK
<1> QED
  BY <1>1, <1>2, <1>3, <1>4, <1>5, <1>6, <1>7, <1>8, <1>9
     DEF Begin, PrepareLauncher, CheckTargets, OpenTransaction, MarkVersion,
         PublishVersion, LinkActive, MarkDetached, CheckActive, Switch, MakeBackup,
         CheckEntry, LinkEntry, MarkEntry, PublishEntry, CheckLauncher,
         PublishLauncher, Commit, MarkCommitted, Finish, UndoLauncher, UnlinkEntry,
         UndoActive, UndoVersion, Tidy, Stopped, Killed, Intrude, Next, Forward,
         Rollback, Ended, vars, materials, history, SameFiles, Constant

\* Version directories have the names of versions.
LEMMA VersionsType == ASSUME Typed, [Next]_vars PROVE versions' \subseteq Versions
<1>1. CASE PublishVersion
  BY <1>1
     DEF PublishVersion, Run, materials, Constant, history, Typed, TypeOK
<1>2. CASE UndoVersion
  BY <1>2
     DEF UndoVersion, Attempt, Skip, Goto, Set, materials, Constant, history, Mishap,
         NoMishap, Typed, TypeOK
<1>3. CASE UNCHANGED versions
  BY <1>3
     DEF Typed, TypeOK
<1> QED
  BY <1>1, <1>2, <1>3
     DEF Begin, PrepareLauncher, CheckTargets, OpenTransaction, MarkVersion,
         LinkActive, MarkDetached, Detach, CheckActive, Switch, MakeBackup,
         CheckEntry, MoveEntry, LinkEntry, MarkEntry, PublishEntry, CheckLauncher,
         PublishLauncher, Commit, MarkCommitted, DropBackup, DropTransaction, Finish,
         UndoLauncher, UnlinkEntry, RestoreEntry, UndoActive, RestoreActive,
         UndoBackup, UndoTransaction, Tidy, Stopped, Killed, Intrude, Next, Forward,
         Rollback, Ended, vars, materials, history, SameFiles, Constant

\* The new version is chosen when the run begins.
LEMMA SameNew == ASSUME Typed, [Next]_vars PROVE Begin \/ sh'.new = sh.new
<1>1. CASE Begin
  BY <1>1
     DEF Begin, Goto, materials, Typed, Shells
<1>2. CASE PrepareLauncher
  BY <1>2
     DEF PrepareLauncher, Goto, Set, materials, Constant, history, Typed, Shells
<1>3. CASE CheckTargets
  BY <1>3
     DEF CheckTargets, Goto, Set, SameFiles, materials, Constant, history, Typed,
         Shells
<1>4. CASE MarkVersion
  BY <1>4
     DEF MarkVersion, Run, Set, SameFiles, materials, Constant, history, Typed, Shells
<1>5. CASE MarkDetached
  BY <1>5
     DEF MarkDetached, Run, Set, SameFiles, materials, Constant, history, Typed,
         Shells
<1>6. CASE CheckActive
  BY <1>6
     DEF CheckActive, Goto, Set, SameFiles, materials, Constant, history, Typed,
         Shells
<1>7. CASE CheckEntry
  BY <1>7
     DEF CheckEntry, Goto, Set, SameFiles, materials, Constant, history, Typed, Shells
<1>8. CASE MarkEntry
  BY <1>8
     DEF MarkEntry, Run, Set, SameFiles, materials, Constant, history, Typed, Shells
<1>9. CASE CheckLauncher
  BY <1>9
     DEF CheckLauncher, Goto, Set, materials, Constant, history, Typed, Shells
<1>10. CASE MarkCommitted
  BY <1>10
     DEF MarkCommitted, Run, SameFiles, materials, Constant, history, Typed, Shells
<1>11. CASE UndoLauncher
  BY <1>11
     DEF UndoLauncher, Attempt, Skip, Put, Goto, Set, materials, Constant, history,
         Mishap, NoMishap, Typed, Shells
<1>12. CASE UnlinkEntry
  BY <1>12
     DEF UnlinkEntry, Loop, Attempt, Skip, Put, Goto, Set, materials, Constant,
         history, Mishap, NoMishap, Typed, Shells
<1>13. CASE RestoreEntry
  BY <1>13
     DEF RestoreEntry, Loop, Attempt, Skip, Put, Goto, Set, Constant, history, Mishap,
         NoMishap, Typed, Shells
<1>14. CASE UndoActive
  BY <1>14
     DEF UndoActive, Attempt, Skip, Put, Goto, Set, materials, Constant, history,
         Mishap, NoMishap, Typed, Shells
<1>15. CASE RestoreActive
  BY <1>15
     DEF RestoreActive, Attempt, Skip, Put, Goto, Set, Constant, history, Mishap,
         NoMishap, Typed, Shells
<1>16. CASE UndoVersion
  BY <1>16
     DEF UndoVersion, Attempt, Skip, Goto, Set, materials, Constant, history, Mishap,
         NoMishap, Typed, Shells
<1>17. CASE UndoBackup
  BY <1>17
     DEF UndoBackup, RemoveBackup, Skip, Goto, Set, materials, Constant, history,
         Mishap, NoMishap, Typed, Shells
<1>18. CASE UndoTransaction
  BY <1>18
     DEF UndoTransaction, RemoveTransaction, Skip, Goto, Set, materials, Constant,
         history, Mishap, NoMishap, Typed, Shells
<1>19. CASE UNCHANGED sh
  BY <1>19
     DEF Typed, Shells
<1> QED
  BY <1>1, <1>2, <1>3, <1>4, <1>5, <1>6, <1>7, <1>8, <1>9, <1>10, <1>11, <1>12, <1>13,
     <1>14, <1>15, <1>16, <1>17, <1>18, <1>19
     DEF OpenTransaction, PublishVersion, LinkActive, Detach, Switch, MakeBackup,
         MoveEntry, LinkEntry, PublishEntry, PublishLauncher, Commit, DropBackup,
         DropTransaction, Finish, Tidy, Stopped, Killed, Intrude, Next, Forward,
         Rollback, Ended, vars, materials, history, SameFiles, Constant

\* The version being installed is none of those that stood before.
LEMMA NewVersion ==
  ASSUME Typed, [Next]_vars
  PROVE  /\ before' \in [Places -> Contents] /\ kept' \subseteq Versions
         /\ sh'.new \notin kept' /\ (HadActive' => sh'.new # before'["active"])
         /\ pc' # "idle" => sh'.new \in Versions
<1>1. CASE Begin
  BY <1>1 DEF Begin, FreshShell, Typed, TypeOK, HadActive
<1>2. CASE ~Begin
  <2>1. history' = history /\ (pc = "idle" => pc' = "idle")
    BY <1>2
       DEF PrepareLauncher, CheckTargets, OpenTransaction, MarkVersion,
           PublishVersion, LinkActive, MarkDetached, Detach, CheckActive, Switch,
           MakeBackup, CheckEntry, MoveEntry, LinkEntry, MarkEntry, PublishEntry,
           CheckLauncher, PublishLauncher, Commit, MarkCommitted, DropBackup,
           DropTransaction, Finish, UndoLauncher, UnlinkEntry, RestoreEntry,
           UndoActive, RestoreActive, UndoVersion, UndoBackup, UndoTransaction,
           Tidy, Stopped, Killed, Intrude, Next, Forward, Rollback, Ended, vars,
           materials, history, Constant, Run, Goto, Loop, Attempt, Skip
  <2> QED
    BY <1>2, <2>1, SameNew DEF Typed, HadActive, history
<1> QED
  BY <1>1, <1>2

\* The next command is one of the script.
LEMMA PCType == ASSUME Typed, [Next]_vars PROVE pc' \in PCs
<1>1. CASE UNCHANGED pc
  BY <1>1 DEF Typed
<1>2. CASE Begin
  BY <1>2
     DEF Begin, Goto, PCs, Opening, Marking, Switching, Looping, Closing, Working,
         Dropping, Undoing
<1>3. CASE PrepareLauncher
  BY <1>3
     DEF PrepareLauncher, Goto, PCs, Opening, Marking, Switching, Looping, Closing,
         Working, Dropping, Undoing
<1>4. CASE CheckTargets
  BY <1>4
     DEF CheckTargets, Goto, PCs, Opening, Marking, Switching, Looping, Closing,
         Working, Dropping, Undoing
<1>5. CASE OpenTransaction
  BY <1>5
     DEF OpenTransaction, Run, PCs, Opening, Marking, Switching, Looping, Closing,
         Working, Dropping, Undoing
<1>6. CASE MarkVersion
  BY <1>6
     DEF MarkVersion, Run, PCs, Opening, Marking, Switching, Looping, Closing,
         Working, Dropping, Undoing
<1>7. CASE PublishVersion
  BY <1>7
     DEF PublishVersion, Run, PCs, Opening, Marking, Switching, Looping, Closing,
         Working, Dropping, Undoing
<1>8. CASE LinkActive
  BY <1>8
     DEF LinkActive, Run, PCs, Opening, Marking, Switching, Looping, Closing, Working,
         Dropping, Undoing
<1>9. CASE MarkDetached
  BY <1>9
     DEF MarkDetached, Run, PCs, Opening, Marking, Switching, Looping, Closing,
         Working, Dropping, Undoing
<1>10. CASE Detach
  BY <1>10
     DEF Detach, Run, PCs, Opening, Marking, Switching, Looping, Closing, Working,
         Dropping, Undoing
<1>11. CASE CheckActive
  BY <1>11
     DEF CheckActive, Goto, PCs, Opening, Marking, Switching, Looping, Closing,
         Working, Dropping, Undoing
<1>12. CASE Switch
  BY <1>12
     DEF Switch, Run, PCs, Opening, Marking, Switching, Looping, Closing, Working,
         Dropping, Undoing
<1>13. CASE MakeBackup
  BY <1>13
     DEF MakeBackup, Run, PCs, Opening, Marking, Switching, Looping, Closing, Working,
         Dropping, Undoing
<1>14. CASE CheckEntry
  BY <1>14
     DEF CheckEntry, Goto, PCs, Opening, Marking, Switching, Looping, Closing,
         Working, Dropping, Undoing
<1>15. CASE MoveEntry
  BY <1>15
     DEF MoveEntry, Run, PCs, Opening, Marking, Switching, Looping, Closing, Working,
         Dropping, Undoing
<1>16. CASE LinkEntry
  BY <1>16
     DEF LinkEntry, Run, PCs, Opening, Marking, Switching, Looping, Closing, Working,
         Dropping, Undoing
<1>17. CASE MarkEntry
  BY <1>17
     DEF MarkEntry, Run, PCs, Opening, Marking, Switching, Looping, Closing, Working,
         Dropping, Undoing
<1>18. CASE PublishEntry
  BY <1>18
     DEF PublishEntry, Run, PCs, Opening, Marking, Switching, Looping, Closing,
         Working, Dropping, Undoing
<1>19. CASE CheckLauncher
  BY <1>19
     DEF CheckLauncher, Goto, PCs, Opening, Marking, Switching, Looping, Closing,
         Working, Dropping, Undoing
<1>20. CASE PublishLauncher
  BY <1>20
     DEF PublishLauncher, Run, PCs, Opening, Marking, Switching, Looping, Closing,
         Working, Dropping, Undoing
<1>21. CASE Commit
  BY <1>21
     DEF Commit, Run, PCs, Opening, Marking, Switching, Looping, Closing, Working,
         Dropping, Undoing
<1>22. CASE MarkCommitted
  BY <1>22
     DEF MarkCommitted, Run, PCs, Opening, Marking, Switching, Looping, Closing,
         Working, Dropping, Undoing
<1>23. CASE DropBackup
  BY <1>23
     DEF DropBackup, Goto, RemoveBackup, PCs, Opening, Marking, Switching, Looping,
         Closing, Working, Dropping, Undoing
<1>24. CASE DropTransaction
  BY <1>24
     DEF DropTransaction, Goto, RemoveTransaction, PCs, Opening, Marking, Switching,
         Looping, Closing, Working, Dropping, Undoing
<1>25. CASE Finish
  BY <1>25
     DEF Finish, Goto, PCs, Opening, Marking, Switching, Looping, Closing, Working,
         Dropping, Undoing
<1>26. CASE UndoLauncher
  BY <1>26
     DEF UndoLauncher, Goto, Attempt, Skip, PCs, Opening, Marking, Switching, Looping,
         Closing, Working, Dropping, Undoing
<1>27. CASE UnlinkEntry
  BY <1>27
     DEF UnlinkEntry, Goto, Loop, Attempt, Skip, PCs, Opening, Marking, Switching,
         Looping, Closing, Working, Dropping, Undoing
<1>28. CASE RestoreEntry
  BY <1>28
     DEF RestoreEntry, Goto, Loop, Attempt, Skip, PCs, Opening, Marking, Switching,
         Looping, Closing, Working, Dropping, Undoing
<1>29. CASE UndoActive
  BY <1>29
     DEF UndoActive, Goto, Attempt, Skip, PCs, Opening, Marking, Switching, Looping,
         Closing, Working, Dropping, Undoing
<1>30. CASE RestoreActive
  BY <1>30
     DEF RestoreActive, Goto, Attempt, Skip, PCs, Opening, Marking, Switching,
         Looping, Closing, Working, Dropping, Undoing
<1>31. CASE UndoVersion
  BY <1>31
     DEF UndoVersion, Goto, Attempt, Skip, PCs, Opening, Marking, Switching, Looping,
         Closing, Working, Dropping, Undoing
<1>32. CASE UndoBackup
  BY <1>32
     DEF UndoBackup, Goto, Skip, RemoveBackup, PCs, Opening, Marking, Switching,
         Looping, Closing, Working, Dropping, Undoing
<1>33. CASE UndoTransaction
  BY <1>33
     DEF UndoTransaction, Goto, Skip, RemoveTransaction, PCs, Opening, Marking,
         Switching, Looping, Closing, Working, Dropping, Undoing
<1>34. CASE Tidy
  BY <1>34
     DEF Tidy, Run, PCs, Opening, Marking, Switching, Looping, Closing, Working,
         Dropping, Undoing
<1>35. CASE Stopped
  BY <1>35
     DEF Stopped, Goto, PCs, Opening, Marking, Switching, Looping, Closing, Working,
         Dropping, Undoing
<1>36. CASE Killed
  BY <1>36
     DEF Killed, Goto, PCs, Opening, Marking, Switching, Looping, Closing, Working,
         Dropping, Undoing
<1> QED
  BY <1>1, <1>2, <1>3, <1>4, <1>5, <1>6, <1>7, <1>8, <1>9, <1>10, <1>11, <1>12, <1>13,
     <1>14, <1>15, <1>16, <1>17, <1>18, <1>19, <1>20, <1>21, <1>22, <1>23, <1>24,
     <1>25, <1>26, <1>27, <1>28, <1>29, <1>30, <1>31, <1>32, <1>33, <1>34, <1>35,
     <1>36
     DEF Next, Forward, Rollback, Ended, vars, Intrude

\* Temporary paths are the four of the script.
LEMMA TempsType == ASSUME Typed, [Next]_vars PROVE temps' \subseteq Temps
<1>1. CASE Begin
  BY <1>1
     DEF Begin, Goto, materials, Typed, TypeOK, Temps
<1>2. CASE PrepareLauncher
  BY <1>2
     DEF PrepareLauncher, Goto, Set, materials, Constant, history, Typed, TypeOK,
         Temps
<1>3. CASE PublishVersion
  BY <1>3
     DEF PublishVersion, Run, materials, Constant, history, Typed, TypeOK, Temps
<1>4. CASE LinkActive
  BY <1>4
     DEF LinkActive, Run, materials, Constant, history, Typed, TypeOK, Temps
<1>5. CASE Switch
  BY <1>5
     DEF Switch, Run, Put, materials, Constant, history, Typed, TypeOK, Temps
<1>6. CASE LinkEntry
  BY <1>6
     DEF LinkEntry, Run, materials, Constant, history, Typed, TypeOK, Temps
<1>7. CASE PublishEntry
  BY <1>7
     DEF PublishEntry, Run, Put, materials, Constant, history, Typed, TypeOK, Temps
<1>8. CASE CheckLauncher
  BY <1>8
     DEF CheckLauncher, Goto, Set, materials, Constant, history, Typed, TypeOK, Temps
<1>9. CASE PublishLauncher
  BY <1>9
     DEF PublishLauncher, Run, Put, materials, Constant, history, Typed, TypeOK, Temps
<1>10. CASE Tidy
  BY <1>10
     DEF Tidy, Run, materials, Constant, history, Mishap, NoMishap, Typed, TypeOK,
         Temps
<1>11. CASE UNCHANGED temps
  BY <1>11
     DEF Typed, TypeOK, Temps
<1> QED
  BY <1>1, <1>2, <1>3, <1>4, <1>5, <1>6, <1>7, <1>8, <1>9, <1>10, <1>11
     DEF CheckTargets, OpenTransaction, MarkVersion, MarkDetached, Detach,
         CheckActive, MakeBackup, CheckEntry, MoveEntry, MarkEntry, Commit,
         MarkCommitted, DropBackup, DropTransaction, Finish, UndoLauncher,
         UnlinkEntry, RestoreEntry, UndoActive, RestoreActive, UndoVersion,
         UndoBackup, UndoTransaction, Stopped, Killed, Intrude, Next, Forward,
         Rollback, Ended, vars, materials, history, SameFiles, Constant

\* The journal and the backup directory keep their types.
LEMMA JournalType == ASSUME Typed, [Next]_vars PROVE txn' \in {"none", "open", "committed"} /\ backupDir' \in BOOLEAN
<1>1. CASE OpenTransaction
  BY <1>1
     DEF OpenTransaction, Run, SameFiles, materials, Constant, history, Typed, TypeOK
<1>2. CASE MakeBackup
  BY <1>2
     DEF MakeBackup, Run, Constant, history, Typed, TypeOK
<1>3. CASE Commit
  BY <1>3
     DEF Commit, Run, Constant, history, Typed, TypeOK
<1>4. CASE DropBackup
  BY <1>4
     DEF DropBackup, RemoveBackup, Goto, Constant, history, Mishap, NoMishap, Typed,
         TypeOK
<1>5. CASE DropTransaction
  BY <1>5
     DEF DropTransaction, RemoveTransaction, Goto, Constant, history, Mishap,
         NoMishap, Typed, TypeOK
<1>6. CASE UndoBackup
  BY <1>6
     DEF UndoBackup, RemoveBackup, Skip, Goto, Set, materials, Constant, history,
         Mishap, NoMishap, Typed, TypeOK
<1>7. CASE UndoTransaction
  BY <1>7
     DEF UndoTransaction, RemoveTransaction, Skip, Goto, Set, materials, Constant,
         history, Mishap, NoMishap, Typed, TypeOK
<1>8. CASE UNCHANGED << txn, backupDir >>
  BY <1>8
     DEF Typed, TypeOK
<1> QED
  BY <1>1, <1>2, <1>3, <1>4, <1>5, <1>6, <1>7, <1>8
     DEF Begin, PrepareLauncher, CheckTargets, MarkVersion, PublishVersion,
         LinkActive, MarkDetached, Detach, CheckActive, Switch, CheckEntry, MoveEntry,
         LinkEntry, MarkEntry, PublishEntry, CheckLauncher, PublishLauncher,
         MarkCommitted, Finish, UndoLauncher, UnlinkEntry, RestoreEntry, UndoActive,
         RestoreActive, UndoVersion, Tidy, Stopped, Killed, Intrude, Next, Forward,
         Rollback, Ended, vars, materials, history, SameFiles, Constant

\* The loops stay within the three entries.
LEMMA IdxType == ASSUME Typed, [Next]_vars PROVE idx' \in 1..Len(Entries)
<1>1. idx \in 1..3 /\ Len(Entries) = 3
  BY EntryList DEF Typed, TypeOK
<1>2. idx' \in {idx, 1, 3} \/ (idx < 3 /\ idx' = idx + 1) \/ (idx > 1 /\ idx' = idx - 1)
  BY <1>1
     DEF Begin, PrepareLauncher, CheckTargets, OpenTransaction, MarkVersion,
         PublishVersion, LinkActive, MarkDetached, Detach, CheckActive, Switch,
         MakeBackup, CheckEntry, MoveEntry, LinkEntry, MarkEntry, PublishEntry,
         CheckLauncher, PublishLauncher, Commit, MarkCommitted, DropBackup,
         DropTransaction, Finish, UndoLauncher, UnlinkEntry, RestoreEntry, UndoActive,
         RestoreActive, UndoVersion, UndoBackup, UndoTransaction, Tidy, Stopped,
         Killed, Intrude, Next, Forward, Rollback, Ended, vars, Loop
<1> QED
  BY <1>1, <1>2

\* No more mishaps happen than the bound allows.
LEMMA MishapsType == ASSUME Typed, [Next]_vars PROVE mishaps' \in 0..MaxMishaps
<1>1. NoMishap \/ Mishap
  BY
     DEF Begin, PrepareLauncher, CheckTargets, OpenTransaction, MarkVersion,
         PublishVersion, LinkActive, MarkDetached, Detach, CheckActive, Switch,
         MakeBackup, CheckEntry, MoveEntry, LinkEntry, MarkEntry, PublishEntry,
         CheckLauncher, PublishLauncher, Commit, MarkCommitted, DropBackup,
         DropTransaction, Finish, UndoLauncher, UnlinkEntry, RestoreEntry, UndoActive,
         RestoreActive, UndoVersion, UndoBackup, UndoTransaction, Tidy, Stopped,
         Killed, Intrude, Next, Forward, Rollback, Ended, vars, Attempt, Skip,
         RemoveBackup, RemoveTransaction, NoMishap
<1> QED
  BY <1>1, MishapsAssumption DEF Mishap, NoMishap, Typed, TypeOK

\* Every step preserves the types.
LEMMA TypedStep == ASSUME Typed, [Next]_vars PROVE Typed'
BY PlacesType, ShellType, MaterialsType, VersionsType, NewVersion, PCType, TempsType,
   JournalType, IdxType, MishapsType
   DEF Typed, TypeOK, Shells

\* The initial states have the types.
LEMMA TypedInit == Init => Typed
<1> SUFFICES ASSUME Init PROVE Typed
  OBVIOUS
<1>1. versions \subseteq Versions
  BY DEF Init
<1>2. at \in [Places -> Contents] /\ before = at
  BY <1>1 DEF Init, Contents
<1>3. sh \in Shells /\ sh.new = None
  BY DEF Init, FreshShell, Shells
<1>4. backup \in [Names -> Contents] /\ prior \in Contents
  BY DEF Init, NoBackup, Contents
<1>5. idx \in 1..Len(Entries) /\ mishaps \in 0..MaxMishaps
  BY EntryList, MishapsAssumption DEF Init
<1>6. TypeOK
  BY <1>1, <1>2, <1>3, <1>4, <1>5 DEF Init, TypeOK, Shells
<1> QED
  BY <1>1, <1>2, <1>3, <1>6, NoneAssumption DEF Init, Typed, PCs, HadActive

-----------------------------------------------------------------------------
(* The journal and the flags.                                              *)

\* No journal, no flag and no material at first.
LEMMA JournalInit == Init => JournalPart
BY DEF Init, JournalPart, Opening, Marking, Switching, Looping, Closing, Working, Dropping,
       Undoing, FreshShell, NoBackup

\* The journal, the backup directory and the flags follow the script's order.
LEMMA JournalStep == ASSUME Typed, JournalPart, [Next]_vars PROVE JournalPart'
<1>1. ASSUME Begin PROVE JournalPart'
  BY <1>1
     DEF Begin, Goto, materials, Typed, Shells, JournalPart, Committed, Unmarked,
         Opening, Marking, Switching, Looping, Closing, Working, Dropping, Undoing,
         Pending, FreshShell
<1>2. ASSUME PrepareLauncher PROVE JournalPart'
  BY <1>2
     DEF PrepareLauncher, Goto, Set, materials, Constant, history, Typed, Shells,
         JournalPart, Committed, Unmarked, Opening, Marking, Switching, Looping,
         Closing, Working, Dropping, Undoing
<1>3. ASSUME CheckTargets PROVE JournalPart'
  BY <1>3
     DEF CheckTargets, Goto, Set, SameFiles, materials, Constant, history, Typed,
         Shells, JournalPart, Committed, Unmarked, Opening, Marking, Switching,
         Looping, Closing, Working, Dropping, Undoing
<1>4. ASSUME OpenTransaction PROVE JournalPart'
  BY <1>4
     DEF OpenTransaction, Run, SameFiles, materials, Constant, history, Typed, Shells,
         JournalPart, Committed, Unmarked, Opening, Marking, Switching, Looping,
         Closing, Working, Dropping, Undoing
<1>5. ASSUME MarkVersion PROVE JournalPart'
  BY <1>5
     DEF MarkVersion, Run, Set, SameFiles, materials, Constant, history, Typed,
         Shells, JournalPart, Committed, Unmarked, Opening, Marking, Switching,
         Looping, Closing, Working, Dropping, Undoing
<1>6. ASSUME PublishVersion PROVE JournalPart'
  BY <1>6
     DEF PublishVersion, Run, materials, Constant, history, Typed, Shells,
         JournalPart, Committed, Unmarked, Opening, Marking, Switching, Looping,
         Closing, Working, Dropping, Undoing
<1>7. ASSUME LinkActive PROVE JournalPart'
  BY <1>7
     DEF LinkActive, Run, materials, Constant, history, Typed, Shells, JournalPart,
         Committed, Unmarked, Opening, Marking, Switching, Looping, Closing, Working,
         Dropping, Undoing
<1>8. ASSUME MarkDetached PROVE JournalPart'
  BY <1>8
     DEF MarkDetached, Run, Set, SameFiles, materials, Constant, history, Typed,
         Shells, JournalPart, Committed, Unmarked, Opening, Marking, Switching,
         Looping, Closing, Working, Dropping, Undoing
<1>9. ASSUME Detach PROVE JournalPart'
  BY <1>9
     DEF Detach, Run, Put, Constant, history, Typed, Shells, JournalPart, Committed,
         Unmarked, Opening, Marking, Switching, Looping, Closing, Working, Dropping,
         Undoing
<1>10. ASSUME CheckActive PROVE JournalPart'
  BY <1>10
     DEF CheckActive, Goto, Set, SameFiles, materials, Constant, history, Typed,
         Shells, JournalPart, Committed, Unmarked, Opening, Marking, Switching,
         Looping, Closing, Working, Dropping, Undoing
<1>11. ASSUME Switch PROVE JournalPart'
  BY <1>11
     DEF Switch, Run, Put, materials, Constant, history, Typed, Shells, JournalPart,
         Committed, Unmarked, Opening, Marking, Switching, Looping, Closing, Working,
         Dropping, Undoing
<1>12. ASSUME MakeBackup PROVE JournalPart'
  BY <1>12
     DEF MakeBackup, Run, Constant, history, Typed, Shells, JournalPart, Committed,
         Unmarked, Opening, Marking, Switching, Looping, Closing, Working, Dropping,
         Undoing
<1>13. ASSUME CheckEntry PROVE JournalPart'
  BY <1>13
     DEF CheckEntry, Goto, Set, SameFiles, materials, Constant, history, Typed,
         Shells, JournalPart, Committed, Unmarked, Opening, Marking, Switching,
         Looping, Closing, Working, Dropping, Undoing
<1>14. ASSUME MoveEntry PROVE JournalPart'
  BY <1>14
     DEF MoveEntry, Run, Put, Constant, history, Typed, Shells, JournalPart,
         Committed, Unmarked, Opening, Marking, Switching, Looping, Closing, Working,
         Dropping, Undoing
<1>15. ASSUME LinkEntry PROVE JournalPart'
  BY <1>15
     DEF LinkEntry, Run, materials, Constant, history, Typed, Shells, JournalPart,
         Committed, Unmarked, Opening, Marking, Switching, Looping, Closing, Working,
         Dropping, Undoing
<1>16. ASSUME MarkEntry PROVE JournalPart'
  BY <1>16
     DEF MarkEntry, Run, Set, SameFiles, materials, Constant, history, Typed, Shells,
         JournalPart, Committed, Unmarked, Opening, Marking, Switching, Looping,
         Closing, Working, Dropping, Undoing
<1>17. ASSUME PublishEntry PROVE JournalPart'
  BY <1>17
     DEF PublishEntry, Run, Put, materials, Constant, history, Typed, Shells,
         JournalPart, Committed, Unmarked, Opening, Marking, Switching, Looping,
         Closing, Working, Dropping, Undoing
<1>18. ASSUME CheckLauncher PROVE JournalPart'
  BY <1>18
     DEF CheckLauncher, Goto, Set, materials, Constant, history, Typed, Shells,
         JournalPart, Committed, Unmarked, Opening, Marking, Switching, Looping,
         Closing, Working, Dropping, Undoing
<1>19. ASSUME PublishLauncher PROVE JournalPart'
  BY <1>19
     DEF PublishLauncher, Run, Put, materials, Constant, history, Typed, Shells,
         JournalPart, Committed, Unmarked, Opening, Marking, Switching, Looping,
         Closing, Working, Dropping, Undoing
<1>20. ASSUME Commit PROVE JournalPart'
  BY <1>20
     DEF Commit, Run, Constant, history, Typed, Shells, JournalPart, Committed,
         Unmarked, Opening, Marking, Switching, Looping, Closing, Working, Dropping,
         Undoing
<1>21. ASSUME MarkCommitted PROVE JournalPart'
  BY <1>21
     DEF MarkCommitted, Run, SameFiles, materials, Constant, history, Typed, Shells,
         JournalPart, Committed, Unmarked, Opening, Marking, Switching, Looping,
         Closing, Working, Dropping, Undoing
<1>22. ASSUME DropBackup PROVE JournalPart'
  BY <1>22
     DEF DropBackup, RemoveBackup, Goto, Constant, history, Mishap, NoMishap, Typed,
         Shells, JournalPart, Committed, Unmarked, Opening, Marking, Switching,
         Looping, Closing, Working, Dropping, Undoing
<1>23. ASSUME DropTransaction PROVE JournalPart'
  BY <1>23
     DEF DropTransaction, RemoveTransaction, Goto, Constant, history, Mishap,
         NoMishap, Typed, Shells, JournalPart, Committed, Unmarked, Opening, Marking,
         Switching, Looping, Closing, Working, Dropping, Undoing
<1>24. ASSUME Finish PROVE JournalPart'
  BY <1>24
     DEF Finish, Goto, SameFiles, materials, Constant, history, Typed, Shells,
         JournalPart, Committed, Unmarked, Opening, Marking, Switching, Looping,
         Closing, Working, Dropping, Undoing
<1>25. ASSUME UndoLauncher PROVE JournalPart'
  BY <1>25
     DEF UndoLauncher, Attempt, Skip, Put, Goto, Set, materials, Constant, history,
         Mishap, NoMishap, Typed, Shells, JournalPart, Committed, Unmarked, Opening,
         Marking, Switching, Looping, Closing, Working, Dropping, Undoing
<1>26. ASSUME UnlinkEntry PROVE JournalPart'
  BY <1>26
     DEF UnlinkEntry, Loop, Attempt, Skip, Put, Goto, Set, materials, Constant,
         history, Mishap, NoMishap, Typed, Shells, JournalPart, Committed, Unmarked,
         Opening, Marking, Switching, Looping, Closing, Working, Dropping, Undoing
<1>27. ASSUME RestoreEntry PROVE JournalPart'
  BY <1>27, EntryName
     DEF RestoreEntry, Loop, Attempt, Skip, Put, Goto, Set, Constant, history, Mishap,
         NoMishap, Typed, Shells, JournalPart, Committed, Unmarked, Opening, Marking,
         Switching, Looping, Closing, Working, Dropping, Undoing, NoBackup, TypeOK
<1>28. ASSUME UndoActive PROVE JournalPart'
  BY <1>28
     DEF UndoActive, Attempt, Skip, Put, Goto, Set, materials, Constant, history,
         Mishap, NoMishap, Typed, Shells, JournalPart, Committed, Unmarked, Opening,
         Marking, Switching, Looping, Closing, Working, Dropping, Undoing
<1>29. ASSUME RestoreActive PROVE JournalPart'
  BY <1>29
     DEF RestoreActive, Attempt, Skip, Put, Goto, Set, Constant, history, Mishap,
         NoMishap, Typed, Shells, JournalPart, Committed, Unmarked, Opening, Marking,
         Switching, Looping, Closing, Working, Dropping, Undoing
<1>30. ASSUME UndoVersion PROVE JournalPart'
  BY <1>30
     DEF UndoVersion, Attempt, Skip, Goto, Set, materials, Constant, history, Mishap,
         NoMishap, Typed, Shells, JournalPart, Committed, Unmarked, Opening, Marking,
         Switching, Looping, Closing, Working, Dropping, Undoing
<1>31. ASSUME UndoBackup PROVE JournalPart'
  <2>1. pc = "undo_backup" /\ pc' = "undo_transaction" /\ txn' = txn /\ prior' = prior
    BY <1>31 DEF UndoBackup, Skip, RemoveBackup, Goto, materials
  <2>2. CASE ~backupDir' /\ backup' = NoBackup /\ sh' = sh
    BY <2>1, <2>2
       DEF JournalPart, Committed, Unmarked, Opening, Marking, Switching, Looping, Closing,
           Working, Dropping, Undoing
  <2>3. CASE backupDir /\ backupDir' /\ sh' = [sh EXCEPT !["failed"] = TRUE]
    BY <2>1, <2>3
       DEF JournalPart, Committed, Unmarked, Opening, Marking, Switching, Looping, Closing,
           Working, Dropping, Undoing, Typed, Shells
  <2>4. CASE UNCHANGED << materials, sh >> /\ (sh.failed \/ ~backupDir)
    BY <2>1, <2>4
       DEF JournalPart, Committed, Unmarked, Opening, Marking, Switching, Looping, Closing,
           Working, Dropping, Undoing, materials
  <2> QED
    BY <1>31, <2>2, <2>3, <2>4 DEF UndoBackup, Skip, RemoveBackup, Set
<1>32. ASSUME UndoTransaction PROVE JournalPart'
  <2>1. /\ pc = "undo_transaction" /\ pc' = "tidy"
        /\ backup' = backup /\ backupDir' = backupDir
    BY <1>32 DEF UndoTransaction, Skip, RemoveTransaction, Goto, materials
  <2>2. CASE txn' = "none" /\ prior' = None /\ sh' = sh /\ ~sh.failed
    BY <2>1, <2>2
       DEF JournalPart, Committed, Unmarked, Opening, Marking, Switching, Looping, Closing,
           Working, Dropping, Undoing
  <2>3. CASE txn # "none" /\ txn' # "none" /\ sh' = [sh EXCEPT !["failed"] = TRUE]
    BY <2>1, <2>3
       DEF JournalPart, Committed, Unmarked, Opening, Marking, Switching, Looping, Closing,
           Working, Dropping, Undoing, Typed, Shells
  <2>4. CASE txn' = txn /\ prior' = prior /\ sh' = sh
    BY <2>1, <2>4
       DEF JournalPart, Committed, Unmarked, Opening, Marking, Switching, Looping, Closing,
           Working, Dropping, Undoing
  <2> QED
    BY <1>32, <2>2, <2>3, <2>4
       DEF UndoTransaction, Skip, RemoveTransaction, Set, NoMishap, materials
<1>33. ASSUME Tidy PROVE JournalPart'
  BY <1>33
     DEF Tidy, Run, materials, Constant, history, Mishap, NoMishap, Typed, Shells,
         JournalPart, Committed, Unmarked, Opening, Marking, Switching, Looping,
         Closing, Working, Dropping, Undoing
<1>34. ASSUME Stopped PROVE JournalPart'
  BY <1>34
     DEF Stopped, Goto, SameFiles, materials, Constant, history, Mishap, NoMishap,
         Typed, Shells, JournalPart, Committed, Unmarked, Opening, Marking, Switching,
         Looping, Closing, Working, Dropping, Undoing, PCs
<1>35. ASSUME Killed PROVE JournalPart'
  BY <1>35
     DEF Killed, Goto, SameFiles, materials, Constant, history, Mishap, NoMishap,
         Typed, Shells, JournalPart, Committed, Unmarked, Opening, Marking, Switching,
         Looping, Closing, Working, Dropping, Undoing
<1>36. ASSUME Intrude PROVE JournalPart'
  BY <1>36
     DEF Intrude, Put, materials, history, Mishap, NoMishap, Typed, Shells,
         JournalPart, Committed, Unmarked, Opening, Marking, Switching, Looping,
         Closing, Working, Dropping, Undoing
<1>37. ASSUME UNCHANGED vars PROVE JournalPart'
  BY <1>37
     DEF vars, materials, history, JournalPart, Committed, Unmarked
<1> QED
  BY <1>1, <1>2, <1>3, <1>4, <1>5, <1>6, <1>7, <1>8, <1>9, <1>10, <1>11, <1>12, <1>13,
     <1>14, <1>15, <1>16, <1>17, <1>18, <1>19, <1>20, <1>21, <1>22, <1>23, <1>24,
     <1>25, <1>26, <1>27, <1>28, <1>29, <1>30, <1>31, <1>32, <1>33, <1>34, <1>35,
     <1>36, <1>37
     DEF Next, Forward, Rollback, Ended

-----------------------------------------------------------------------------
(* The version directory.                                                  *)

\* The version directories are those of the beginning at first.
LEMMA VersionInit == Init => VersionPart
BY DEF Init, VersionPart, Marking, Switching, Looping, Closing, Working

\* A version directory is added when it is marked, and leaves with the rollback.
LEMMA VersionStep == ASSUME Typed, JournalPart, VersionPart, [Next]_vars PROVE VersionPart'
<1>1. ASSUME Begin PROVE VersionPart'
  BY <1>1
     DEF Begin, Goto, materials, Typed, Shells, JournalPart, VersionPart, Committed,
         Opening, Marking, Switching, Looping, Closing, Working, Dropping, Undoing,
         Pending, FreshShell
<1>2. ASSUME PrepareLauncher PROVE VersionPart'
  BY <1>2
     DEF PrepareLauncher, Goto, Set, materials, Constant, history, Typed, Shells,
         JournalPart, VersionPart, Committed, Opening, Marking, Switching, Looping,
         Closing, Working, Dropping, Undoing
<1>3. ASSUME CheckTargets PROVE VersionPart'
  BY <1>3
     DEF CheckTargets, Goto, Set, SameFiles, materials, Constant, history, Typed,
         Shells, JournalPart, VersionPart, Committed, Opening, Marking, Switching,
         Looping, Closing, Working, Dropping, Undoing
<1>4. ASSUME OpenTransaction PROVE VersionPart'
  BY <1>4
     DEF OpenTransaction, Run, SameFiles, materials, Constant, history, Typed, Shells,
         JournalPart, VersionPart, Committed, Opening, Marking, Switching, Looping,
         Closing, Working, Dropping, Undoing
<1>5. ASSUME MarkVersion PROVE VersionPart'
  BY <1>5
     DEF MarkVersion, Run, Set, SameFiles, materials, Constant, history, Typed,
         Shells, JournalPart, VersionPart, Committed, Opening, Marking, Switching,
         Looping, Closing, Working, Dropping, Undoing
<1>6. ASSUME PublishVersion PROVE VersionPart'
  BY <1>6
     DEF PublishVersion, Run, materials, Constant, history, Typed, Shells,
         JournalPart, VersionPart, Committed, Opening, Marking, Switching, Looping,
         Closing, Working, Dropping, Undoing
<1>7. ASSUME LinkActive PROVE VersionPart'
  BY <1>7
     DEF LinkActive, Run, materials, Constant, history, Typed, Shells, JournalPart,
         VersionPart, Committed, Opening, Marking, Switching, Looping, Closing,
         Working, Dropping, Undoing
<1>8. ASSUME MarkDetached PROVE VersionPart'
  BY <1>8
     DEF MarkDetached, Run, Set, SameFiles, materials, Constant, history, Typed,
         Shells, JournalPart, VersionPart, Committed, Opening, Marking, Switching,
         Looping, Closing, Working, Dropping, Undoing
<1>9. ASSUME Detach PROVE VersionPart'
  BY <1>9
     DEF Detach, Run, Put, Constant, history, Typed, Shells, JournalPart, VersionPart,
         Committed, Opening, Marking, Switching, Looping, Closing, Working, Dropping,
         Undoing
<1>10. ASSUME CheckActive PROVE VersionPart'
  BY <1>10
     DEF CheckActive, Goto, Set, SameFiles, materials, Constant, history, Typed,
         Shells, JournalPart, VersionPart, Committed, Opening, Marking, Switching,
         Looping, Closing, Working, Dropping, Undoing
<1>11. ASSUME Switch PROVE VersionPart'
  BY <1>11
     DEF Switch, Run, Put, materials, Constant, history, Typed, Shells, JournalPart,
         VersionPart, Committed, Opening, Marking, Switching, Looping, Closing,
         Working, Dropping, Undoing
<1>12. ASSUME MakeBackup PROVE VersionPart'
  BY <1>12
     DEF MakeBackup, Run, Constant, history, Typed, Shells, JournalPart, VersionPart,
         Committed, Opening, Marking, Switching, Looping, Closing, Working, Dropping,
         Undoing
<1>13. ASSUME CheckEntry PROVE VersionPart'
  BY <1>13
     DEF CheckEntry, Goto, Set, SameFiles, materials, Constant, history, Typed,
         Shells, JournalPart, VersionPart, Committed, Opening, Marking, Switching,
         Looping, Closing, Working, Dropping, Undoing
<1>14. ASSUME MoveEntry PROVE VersionPart'
  BY <1>14
     DEF MoveEntry, Run, Put, Constant, history, Typed, Shells, JournalPart,
         VersionPart, Committed, Opening, Marking, Switching, Looping, Closing,
         Working, Dropping, Undoing
<1>15. ASSUME LinkEntry PROVE VersionPart'
  BY <1>15
     DEF LinkEntry, Run, materials, Constant, history, Typed, Shells, JournalPart,
         VersionPart, Committed, Opening, Marking, Switching, Looping, Closing,
         Working, Dropping, Undoing
<1>16. ASSUME MarkEntry PROVE VersionPart'
  BY <1>16
     DEF MarkEntry, Run, Set, SameFiles, materials, Constant, history, Typed, Shells,
         JournalPart, VersionPart, Committed, Opening, Marking, Switching, Looping,
         Closing, Working, Dropping, Undoing
<1>17. ASSUME PublishEntry PROVE VersionPart'
  BY <1>17
     DEF PublishEntry, Run, Put, materials, Constant, history, Typed, Shells,
         JournalPart, VersionPart, Committed, Opening, Marking, Switching, Looping,
         Closing, Working, Dropping, Undoing
<1>18. ASSUME CheckLauncher PROVE VersionPart'
  BY <1>18
     DEF CheckLauncher, Goto, Set, materials, Constant, history, Typed, Shells,
         JournalPart, VersionPart, Committed, Opening, Marking, Switching, Looping,
         Closing, Working, Dropping, Undoing
<1>19. ASSUME PublishLauncher PROVE VersionPart'
  BY <1>19
     DEF PublishLauncher, Run, Put, materials, Constant, history, Typed, Shells,
         JournalPart, VersionPart, Committed, Opening, Marking, Switching, Looping,
         Closing, Working, Dropping, Undoing
<1>20. ASSUME Commit PROVE VersionPart'
  BY <1>20
     DEF Commit, Run, Constant, history, Typed, Shells, JournalPart, VersionPart,
         Committed, Opening, Marking, Switching, Looping, Closing, Working, Dropping,
         Undoing
<1>21. ASSUME MarkCommitted PROVE VersionPart'
  BY <1>21
     DEF MarkCommitted, Run, SameFiles, materials, Constant, history, Typed, Shells,
         JournalPart, VersionPart, Committed, Opening, Marking, Switching, Looping,
         Closing, Working, Dropping, Undoing
<1>22. ASSUME DropBackup PROVE VersionPart'
  BY <1>22
     DEF DropBackup, RemoveBackup, Goto, Constant, history, Mishap, NoMishap, Typed,
         Shells, JournalPart, VersionPart, Committed, Opening, Marking, Switching,
         Looping, Closing, Working, Dropping, Undoing
<1>23. ASSUME DropTransaction PROVE VersionPart'
  BY <1>23
     DEF DropTransaction, RemoveTransaction, Goto, Constant, history, Mishap,
         NoMishap, Typed, Shells, JournalPart, VersionPart, Committed, Opening,
         Marking, Switching, Looping, Closing, Working, Dropping, Undoing
<1>24. ASSUME Finish PROVE VersionPart'
  BY <1>24
     DEF Finish, Goto, SameFiles, materials, Constant, history, Typed, Shells,
         JournalPart, VersionPart, Committed, Opening, Marking, Switching, Looping,
         Closing, Working, Dropping, Undoing
<1>25. ASSUME UndoLauncher PROVE VersionPart'
  BY <1>25
     DEF UndoLauncher, Attempt, Skip, Put, Goto, Set, materials, Constant, history,
         Mishap, NoMishap, Typed, Shells, JournalPart, VersionPart, Committed,
         Opening, Marking, Switching, Looping, Closing, Working, Dropping, Undoing
<1>26. ASSUME UnlinkEntry PROVE VersionPart'
  BY <1>26
     DEF UnlinkEntry, Loop, Attempt, Skip, Put, Goto, Set, materials, Constant,
         history, Mishap, NoMishap, Typed, Shells, JournalPart, VersionPart,
         Committed, Opening, Marking, Switching, Looping, Closing, Working, Dropping,
         Undoing
<1>27. ASSUME RestoreEntry PROVE VersionPart'
  BY <1>27
     DEF RestoreEntry, Loop, Attempt, Skip, Put, Goto, Set, Constant, history, Mishap,
         NoMishap, Typed, Shells, JournalPart, VersionPart, Committed, Opening,
         Marking, Switching, Looping, Closing, Working, Dropping, Undoing
<1>28. ASSUME UndoActive PROVE VersionPart'
  BY <1>28
     DEF UndoActive, Attempt, Skip, Put, Goto, Set, materials, Constant, history,
         Mishap, NoMishap, Typed, Shells, JournalPart, VersionPart, Committed,
         Opening, Marking, Switching, Looping, Closing, Working, Dropping, Undoing
<1>29. ASSUME RestoreActive PROVE VersionPart'
  BY <1>29
     DEF RestoreActive, Attempt, Skip, Put, Goto, Set, Constant, history, Mishap,
         NoMishap, Typed, Shells, JournalPart, VersionPart, Committed, Opening,
         Marking, Switching, Looping, Closing, Working, Dropping, Undoing
<1>30. ASSUME UndoVersion PROVE VersionPart'
  <2>1. /\ pc = "undo_version" /\ pc' = "undo_backup" /\ ~Committed
        /\ txn' = txn /\ kept' = kept
    BY <1>30
       DEF UndoVersion, Attempt, Skip, Goto, Constant, history, materials, JournalPart, Undoing
  <2>2. CASE versions' = versions \ {sh.new} /\ sh' = sh
    <3>1. versions' = kept
      BY <2>1, <2>2 DEF VersionPart, Typed
    <3> QED
      BY <2>1, <2>2, <3>1 DEF VersionPart, Marking, Switching, Looping, Closing, Working
  <2>3. CASE versions' = versions /\ sh' = [sh EXCEPT !["failed"] = TRUE]
    BY <2>1, <2>3
       DEF VersionPart, Committed, Typed, Shells, Marking, Switching, Looping, Closing, Working
  <2>4. CASE versions' = versions /\ sh' = sh /\ ~(~sh.failed /\ sh.version)
    BY <2>1, <2>4
       DEF VersionPart, Committed, Marking, Switching, Looping, Closing, Working
  <2> QED
    BY <1>30, <2>2, <2>3, <2>4 DEF UndoVersion, Attempt, Skip, Set
<1>31. ASSUME UndoBackup PROVE VersionPart'
  BY <1>31
     DEF UndoBackup, RemoveBackup, Skip, Goto, Set, materials, Constant, history,
         Mishap, NoMishap, Typed, Shells, JournalPart, VersionPart, Committed,
         Opening, Marking, Switching, Looping, Closing, Working, Dropping, Undoing
<1>32. ASSUME UndoTransaction PROVE VersionPart'
  BY <1>32
     DEF UndoTransaction, RemoveTransaction, Skip, Goto, Set, materials, Constant,
         history, Mishap, NoMishap, Typed, Shells, JournalPart, VersionPart,
         Committed, Opening, Marking, Switching, Looping, Closing, Working, Dropping,
         Undoing
<1>33. ASSUME Tidy PROVE VersionPart'
  BY <1>33
     DEF Tidy, Run, materials, Constant, history, Mishap, NoMishap, Typed, Shells,
         JournalPart, VersionPart, Committed, Opening, Marking, Switching, Looping,
         Closing, Working, Dropping, Undoing
<1>34. ASSUME Stopped PROVE VersionPart'
  BY <1>34
     DEF Stopped, Goto, SameFiles, materials, Constant, history, Mishap, NoMishap,
         Typed, Shells, JournalPart, VersionPart, Committed, Opening, Marking,
         Switching, Looping, Closing, Working, Dropping, Undoing
<1>35. ASSUME Killed PROVE VersionPart'
  BY <1>35
     DEF Killed, Goto, SameFiles, materials, Constant, history, Mishap, NoMishap,
         Typed, Shells, JournalPart, VersionPart, Committed, Opening, Marking,
         Switching, Looping, Closing, Working, Dropping, Undoing
<1>36. ASSUME Intrude PROVE VersionPart'
  BY <1>36
     DEF Intrude, Put, materials, Constant, history, Mishap, NoMishap, Typed, Shells,
         JournalPart, VersionPart, Committed, Opening, Marking, Switching, Looping,
         Closing, Working, Dropping, Undoing
<1>37. ASSUME UNCHANGED vars PROVE VersionPart'
  BY <1>37
     DEF vars, materials, history, VersionPart, Committed
<1> QED
  BY <1>1, <1>2, <1>3, <1>4, <1>5, <1>6, <1>7, <1>8, <1>9, <1>10, <1>11, <1>12, <1>13,
     <1>14, <1>15, <1>16, <1>17, <1>18, <1>19, <1>20, <1>21, <1>22, <1>23, <1>24,
     <1>25, <1>26, <1>27, <1>28, <1>29, <1>30, <1>31, <1>32, <1>33, <1>34, <1>35,
     <1>36, <1>37
     DEF Next, Forward, Rollback, Ended

-----------------------------------------------------------------------------
(* The launcher configuration.                                             *)

\* An entry of the loop is neither the link active nor the configuration.
LEMMA EntryApart ==
  ASSUME Typed
  PROVE  /\ Entry \in Names /\ Entry \in Places /\ Entry # "active" /\ Entry # "launcher"
         /\ "active" \in Places /\ "launcher" \in Places
BY EntryName, EntryList DEF Places

\* The launcher configuration stands as it stood at first.
LEMMA LauncherInit == Init => LauncherPart
BY DEF Init, LauncherPart, Stands, Foreign, FreshShell, Opening, Marking, Switching, Looping,
       Closing, Working

\* The launcher configuration is created where none stood, and removed by rollback.
LEMMA LauncherStep == ASSUME Typed, JournalPart, LauncherPart, [Next]_vars PROVE LauncherPart'
<1>1. ASSUME Begin PROVE LauncherPart'
  BY <1>1, EntryApart
     DEF Begin, Goto, materials, Typed, TypeOK, Shells, JournalPart, LauncherPart,
         Stands, Foreign, Committed, Opening, Marking, Switching, Looping, Closing,
         Working, Dropping, Undoing, Pending, FreshShell
<1>2. ASSUME PrepareLauncher PROVE LauncherPart'
  BY <1>2, EntryApart
     DEF PrepareLauncher, Goto, Set, materials, Constant, history, Typed, TypeOK,
         Shells, JournalPart, LauncherPart, Stands, Foreign, Committed, Opening,
         Marking, Switching, Looping, Closing, Working, Dropping, Undoing
<1>3. ASSUME CheckTargets PROVE LauncherPart'
  BY <1>3, EntryApart
     DEF CheckTargets, Goto, Set, SameFiles, materials, Constant, history, Typed,
         TypeOK, Shells, JournalPart, LauncherPart, Stands, Foreign, Committed,
         Opening, Marking, Switching, Looping, Closing, Working, Dropping, Undoing
<1>4. ASSUME OpenTransaction PROVE LauncherPart'
  BY <1>4, EntryApart
     DEF OpenTransaction, Run, SameFiles, materials, Constant, history, Typed, TypeOK,
         Shells, JournalPart, LauncherPart, Stands, Foreign, Committed, Opening,
         Marking, Switching, Looping, Closing, Working, Dropping, Undoing
<1>5. ASSUME MarkVersion PROVE LauncherPart'
  BY <1>5, EntryApart
     DEF MarkVersion, Run, Set, SameFiles, materials, Constant, history, Typed,
         TypeOK, Shells, JournalPart, LauncherPart, Stands, Foreign, Committed,
         Opening, Marking, Switching, Looping, Closing, Working, Dropping, Undoing
<1>6. ASSUME PublishVersion PROVE LauncherPart'
  BY <1>6, EntryApart
     DEF PublishVersion, Run, materials, Constant, history, Typed, TypeOK, Shells,
         JournalPart, LauncherPart, Stands, Foreign, Committed, Opening, Marking,
         Switching, Looping, Closing, Working, Dropping, Undoing
<1>7. ASSUME LinkActive PROVE LauncherPart'
  BY <1>7, EntryApart
     DEF LinkActive, Run, materials, Constant, history, Typed, TypeOK, Shells,
         JournalPart, LauncherPart, Stands, Foreign, Committed, Opening, Marking,
         Switching, Looping, Closing, Working, Dropping, Undoing
<1>8. ASSUME MarkDetached PROVE LauncherPart'
  BY <1>8, EntryApart
     DEF MarkDetached, Run, Set, SameFiles, materials, Constant, history, Typed,
         TypeOK, Shells, JournalPart, LauncherPart, Stands, Foreign, Committed,
         Opening, Marking, Switching, Looping, Closing, Working, Dropping, Undoing
<1>9. ASSUME Detach PROVE LauncherPart'
  BY <1>9, EntryApart
     DEF Detach, Run, Put, Constant, history, Typed, TypeOK, Shells, JournalPart,
         LauncherPart, Stands, Foreign, Committed, Opening, Marking, Switching,
         Looping, Closing, Working, Dropping, Undoing
<1>10. ASSUME CheckActive PROVE LauncherPart'
  BY <1>10, EntryApart
     DEF CheckActive, Goto, Set, SameFiles, materials, Constant, history, Typed,
         TypeOK, Shells, JournalPart, LauncherPart, Stands, Foreign, Committed,
         Opening, Marking, Switching, Looping, Closing, Working, Dropping, Undoing
<1>11. ASSUME Switch PROVE LauncherPart'
  BY <1>11, EntryApart
     DEF Switch, Run, Put, materials, Constant, history, Typed, TypeOK, Shells,
         JournalPart, LauncherPart, Stands, Foreign, Committed, Opening, Marking,
         Switching, Looping, Closing, Working, Dropping, Undoing
<1>12. ASSUME MakeBackup PROVE LauncherPart'
  BY <1>12, EntryApart
     DEF MakeBackup, Run, Constant, history, Typed, TypeOK, Shells, JournalPart,
         LauncherPart, Stands, Foreign, Committed, Opening, Marking, Switching,
         Looping, Closing, Working, Dropping, Undoing
<1>13. ASSUME CheckEntry PROVE LauncherPart'
  BY <1>13, EntryApart
     DEF CheckEntry, Goto, Set, SameFiles, materials, Constant, history, Typed,
         TypeOK, Shells, JournalPart, LauncherPart, Stands, Foreign, Committed,
         Opening, Marking, Switching, Looping, Closing, Working, Dropping, Undoing
<1>14. ASSUME MoveEntry PROVE LauncherPart'
  BY <1>14, EntryApart
     DEF MoveEntry, Run, Put, Constant, history, Typed, TypeOK, Shells, JournalPart,
         LauncherPart, Stands, Foreign, Committed, Opening, Marking, Switching,
         Looping, Closing, Working, Dropping, Undoing
<1>15. ASSUME LinkEntry PROVE LauncherPart'
  BY <1>15, EntryApart
     DEF LinkEntry, Run, materials, Constant, history, Typed, TypeOK, Shells,
         JournalPart, LauncherPart, Stands, Foreign, Committed, Opening, Marking,
         Switching, Looping, Closing, Working, Dropping, Undoing
<1>16. ASSUME MarkEntry PROVE LauncherPart'
  BY <1>16, EntryApart
     DEF MarkEntry, Run, Set, SameFiles, materials, Constant, history, Typed, TypeOK,
         Shells, JournalPart, LauncherPart, Stands, Foreign, Committed, Opening,
         Marking, Switching, Looping, Closing, Working, Dropping, Undoing
<1>17. ASSUME PublishEntry PROVE LauncherPart'
  BY <1>17, EntryApart
     DEF PublishEntry, Run, Put, materials, Constant, history, Typed, TypeOK, Shells,
         JournalPart, LauncherPart, Stands, Foreign, Committed, Opening, Marking,
         Switching, Looping, Closing, Working, Dropping, Undoing
<1>18. ASSUME CheckLauncher PROVE LauncherPart'
  BY <1>18, EntryApart
     DEF CheckLauncher, Goto, Set, materials, Constant, history, Typed, TypeOK,
         Shells, JournalPart, LauncherPart, Stands, Foreign, Committed, Opening,
         Marking, Switching, Looping, Closing, Working, Dropping, Undoing
<1>19. ASSUME PublishLauncher PROVE LauncherPart'
  BY <1>19, EntryApart
     DEF PublishLauncher, Run, Put, materials, Constant, history, Typed, TypeOK,
         Shells, JournalPart, LauncherPart, Stands, Foreign, Committed, Opening,
         Marking, Switching, Looping, Closing, Working, Dropping, Undoing
<1>20. ASSUME Commit PROVE LauncherPart'
  BY <1>20, EntryApart
     DEF Commit, Run, Constant, history, Typed, TypeOK, Shells, JournalPart,
         LauncherPart, Stands, Foreign, Committed, Opening, Marking, Switching,
         Looping, Closing, Working, Dropping, Undoing
<1>21. ASSUME MarkCommitted PROVE LauncherPart'
  BY <1>21, EntryApart
     DEF MarkCommitted, Run, SameFiles, materials, Constant, history, Typed, TypeOK,
         Shells, JournalPart, LauncherPart, Stands, Foreign, Committed, Opening,
         Marking, Switching, Looping, Closing, Working, Dropping, Undoing
<1>22. ASSUME DropBackup PROVE LauncherPart'
  BY <1>22, EntryApart
     DEF DropBackup, RemoveBackup, Goto, Constant, history, Mishap, NoMishap, Typed,
         TypeOK, Shells, JournalPart, LauncherPart, Stands, Foreign, Committed,
         Opening, Marking, Switching, Looping, Closing, Working, Dropping, Undoing
<1>23. ASSUME DropTransaction PROVE LauncherPart'
  BY <1>23, EntryApart
     DEF DropTransaction, RemoveTransaction, Goto, Constant, history, Mishap,
         NoMishap, Typed, TypeOK, Shells, JournalPart, LauncherPart, Stands, Foreign,
         Committed, Opening, Marking, Switching, Looping, Closing, Working, Dropping,
         Undoing
<1>24. ASSUME Finish PROVE LauncherPart'
  BY <1>24, EntryApart
     DEF Finish, Goto, SameFiles, materials, Constant, history, Typed, TypeOK, Shells,
         JournalPart, LauncherPart, Stands, Foreign, Committed, Opening, Marking,
         Switching, Looping, Closing, Working, Dropping, Undoing
<1>25. ASSUME UndoLauncher PROVE LauncherPart'
  BY <1>25, EntryApart
     DEF UndoLauncher, Attempt, Skip, Put, Goto, Set, materials, Constant, history,
         Mishap, NoMishap, Typed, TypeOK, Shells, JournalPart, LauncherPart, Stands,
         Foreign, Committed, Opening, Marking, Switching, Looping, Closing, Working,
         Dropping, Undoing
<1>26. ASSUME UnlinkEntry PROVE LauncherPart'
  BY <1>26, EntryApart
     DEF UnlinkEntry, Loop, Attempt, Skip, Put, Goto, Set, materials, Constant,
         history, Mishap, NoMishap, Typed, TypeOK, Shells, JournalPart, LauncherPart,
         Stands, Foreign, Committed, Opening, Marking, Switching, Looping, Closing,
         Working, Dropping, Undoing
<1>27. ASSUME RestoreEntry PROVE LauncherPart'
  BY <1>27, EntryApart
     DEF RestoreEntry, Loop, Attempt, Skip, Put, Goto, Set, Constant, history, Mishap,
         NoMishap, Typed, TypeOK, Shells, JournalPart, LauncherPart, Stands, Foreign,
         Committed, Opening, Marking, Switching, Looping, Closing, Working, Dropping,
         Undoing
<1>28. ASSUME UndoActive PROVE LauncherPart'
  BY <1>28, EntryApart
     DEF UndoActive, Attempt, Skip, Put, Goto, Set, materials, Constant, history,
         Mishap, NoMishap, Typed, TypeOK, Shells, JournalPart, LauncherPart, Stands,
         Foreign, Committed, Opening, Marking, Switching, Looping, Closing, Working,
         Dropping, Undoing
<1>29. ASSUME RestoreActive PROVE LauncherPart'
  BY <1>29, EntryApart
     DEF RestoreActive, Attempt, Skip, Put, Goto, Set, Constant, history, Mishap,
         NoMishap, Typed, TypeOK, Shells, JournalPart, LauncherPart, Stands, Foreign,
         Committed, Opening, Marking, Switching, Looping, Closing, Working, Dropping,
         Undoing
<1>30. ASSUME UndoVersion PROVE LauncherPart'
  BY <1>30, EntryApart
     DEF UndoVersion, Attempt, Skip, Goto, Set, materials, Constant, history, Mishap,
         NoMishap, Typed, TypeOK, Shells, JournalPart, LauncherPart, Stands, Foreign,
         Committed, Opening, Marking, Switching, Looping, Closing, Working, Dropping,
         Undoing
<1>31. ASSUME UndoBackup PROVE LauncherPart'
  BY <1>31, EntryApart
     DEF UndoBackup, RemoveBackup, Skip, Goto, Set, materials, Constant, history,
         Mishap, NoMishap, Typed, TypeOK, Shells, JournalPart, LauncherPart, Stands,
         Foreign, Committed, Opening, Marking, Switching, Looping, Closing, Working,
         Dropping, Undoing
<1>32. ASSUME UndoTransaction PROVE LauncherPart'
  BY <1>32, EntryApart
     DEF UndoTransaction, RemoveTransaction, Skip, Goto, Set, materials, Constant,
         history, Mishap, NoMishap, Typed, TypeOK, Shells, JournalPart, LauncherPart,
         Stands, Foreign, Committed, Opening, Marking, Switching, Looping, Closing,
         Working, Dropping, Undoing
<1>33. ASSUME Tidy PROVE LauncherPart'
  BY <1>33, EntryApart
     DEF Tidy, Run, materials, Constant, history, Mishap, NoMishap, Typed, TypeOK,
         Shells, JournalPart, LauncherPart, Stands, Foreign, Committed, Opening,
         Marking, Switching, Looping, Closing, Working, Dropping, Undoing
<1>34. ASSUME Stopped PROVE LauncherPart'
  BY <1>34, EntryApart
     DEF Stopped, Goto, SameFiles, materials, Constant, history, Mishap, NoMishap,
         Typed, TypeOK, Shells, JournalPart, LauncherPart, Stands, Foreign, Committed,
         Opening, Marking, Switching, Looping, Closing, Working, Dropping, Undoing
<1>35. ASSUME Killed PROVE LauncherPart'
  BY <1>35, EntryApart
     DEF Killed, Goto, SameFiles, materials, Constant, history, Mishap, NoMishap,
         Typed, TypeOK, Shells, JournalPart, LauncherPart, Stands, Foreign, Committed,
         Opening, Marking, Switching, Looping, Closing, Working, Dropping, Undoing
<1>36. ASSUME Intrude PROVE LauncherPart'
  <2>1. /\ at["launcher"] = None \/ at'["launcher"] = at["launcher"]
        /\ at'["launcher"] \in {at["launcher"]} \cup Foreign
    BY <1>36 DEF Intrude, Put, Foreign, Typed, TypeOK
  <2>2. UNCHANGED << txn, pc, sh, before >>
    BY <1>36 DEF Intrude, Constant, history, materials
  <2> QED
    BY <2>1, <2>2, NoneAssumption DEF LauncherPart, Stands, Committed, Foreign
<1>37. ASSUME UNCHANGED vars PROVE LauncherPart'
  BY <1>37
     DEF vars, materials, history, LauncherPart, Committed, Stands
<1> QED
  BY <1>1, <1>2, <1>3, <1>4, <1>5, <1>6, <1>7, <1>8, <1>9, <1>10, <1>11, <1>12, <1>13,
     <1>14, <1>15, <1>16, <1>17, <1>18, <1>19, <1>20, <1>21, <1>22, <1>23, <1>24,
     <1>25, <1>26, <1>27, <1>28, <1>29, <1>30, <1>31, <1>32, <1>33, <1>34, <1>35,
     <1>36, <1>37
     DEF Next, Forward, Rollback, Ended

-----------------------------------------------------------------------------
(* The link active.                                                        *)

\* The link active stands as it stood at first.
LEMMA ActiveInit == Init => ActivePart
BY DEF Init, ActivePart, HadActive, Stands, FreshShell, Opening, Marking, Switching, Looping,
       Closing, Working

\* The link active stands, or is in the transaction directory until the commit.
LEMMA ActiveStep == ASSUME Typed, JournalPart, ActivePart, [Next]_vars PROVE ActivePart'
<1>1. ASSUME Begin PROVE ActivePart'
  BY <1>1, EntryApart, NoneAssumption, VersionsAssumption
     DEF Begin, Goto, materials, Typed, TypeOK, Shells, JournalPart, ActivePart,
         HadActive, Moved, ActiveStands, Vacant, Stands, Foreign, Committed, Opening,
         Marking, Switching, Looping, Closing, Working, Dropping, Undoing, Pending,
         FreshShell
<1>2. ASSUME PrepareLauncher PROVE ActivePart'
  BY <1>2, EntryApart, NoneAssumption, VersionsAssumption
     DEF PrepareLauncher, Goto, Set, materials, Constant, history, Typed, TypeOK,
         Shells, JournalPart, ActivePart, HadActive, Moved, ActiveStands, Vacant,
         Stands, Foreign, Committed, Opening, Marking, Switching, Looping, Closing,
         Working, Dropping, Undoing
<1>3. ASSUME CheckTargets PROVE ActivePart'
  BY <1>3, EntryApart, NoneAssumption, VersionsAssumption
     DEF CheckTargets, Goto, Set, SameFiles, materials, Constant, history, Typed,
         TypeOK, Shells, JournalPart, ActivePart, HadActive, Moved, ActiveStands,
         Vacant, Stands, Foreign, Committed, Opening, Marking, Switching, Looping,
         Closing, Working, Dropping, Undoing
<1>4. ASSUME OpenTransaction PROVE ActivePart'
  BY <1>4, EntryApart, NoneAssumption, VersionsAssumption
     DEF OpenTransaction, Run, SameFiles, materials, Constant, history, Typed, TypeOK,
         Shells, JournalPart, ActivePart, HadActive, Moved, ActiveStands, Vacant,
         Stands, Foreign, Committed, Opening, Marking, Switching, Looping, Closing,
         Working, Dropping, Undoing
<1>5. ASSUME MarkVersion PROVE ActivePart'
  BY <1>5, EntryApart, NoneAssumption, VersionsAssumption
     DEF MarkVersion, Run, Set, SameFiles, materials, Constant, history, Typed,
         TypeOK, Shells, JournalPart, ActivePart, HadActive, Moved, ActiveStands,
         Vacant, Stands, Foreign, Committed, Opening, Marking, Switching, Looping,
         Closing, Working, Dropping, Undoing
<1>6. ASSUME PublishVersion PROVE ActivePart'
  BY <1>6, EntryApart, NoneAssumption, VersionsAssumption
     DEF PublishVersion, Run, materials, Constant, history, Typed, TypeOK, Shells,
         JournalPart, ActivePart, HadActive, Moved, ActiveStands, Vacant, Stands,
         Foreign, Committed, Opening, Marking, Switching, Looping, Closing, Working,
         Dropping, Undoing
<1>7. ASSUME LinkActive PROVE ActivePart'
  BY <1>7, EntryApart, NoneAssumption, VersionsAssumption
     DEF LinkActive, Run, materials, Constant, history, Typed, TypeOK, Shells,
         JournalPart, ActivePart, HadActive, Moved, ActiveStands, Vacant, Stands,
         Foreign, Committed, Opening, Marking, Switching, Looping, Closing, Working,
         Dropping, Undoing
<1>8. ASSUME MarkDetached PROVE ActivePart'
  BY <1>8, EntryApart, NoneAssumption, VersionsAssumption
     DEF MarkDetached, Run, Set, SameFiles, materials, Constant, history, Typed,
         TypeOK, Shells, JournalPart, ActivePart, HadActive, Moved, ActiveStands,
         Vacant, Stands, Foreign, Committed, Opening, Marking, Switching, Looping,
         Closing, Working, Dropping, Undoing
<1>9. ASSUME Detach PROVE ActivePart'
  BY <1>9, EntryApart, NoneAssumption, VersionsAssumption
     DEF Detach, Run, Put, Constant, history, Typed, TypeOK, Shells, JournalPart,
         ActivePart, HadActive, Moved, ActiveStands, Vacant, Stands, Foreign,
         Committed, Opening, Marking, Switching, Looping, Closing, Working, Dropping,
         Undoing
<1>10. ASSUME CheckActive PROVE ActivePart'
  BY <1>10, EntryApart, NoneAssumption, VersionsAssumption
     DEF CheckActive, Goto, Set, SameFiles, materials, Constant, history, Typed,
         TypeOK, Shells, JournalPart, ActivePart, HadActive, Moved, ActiveStands,
         Vacant, Stands, Foreign, Committed, Opening, Marking, Switching, Looping,
         Closing, Working, Dropping, Undoing
<1>11. ASSUME Switch PROVE ActivePart'
  BY <1>11, EntryApart, NoneAssumption, VersionsAssumption
     DEF Switch, Run, Put, materials, Constant, history, Typed, TypeOK, Shells,
         JournalPart, ActivePart, HadActive, Moved, ActiveStands, Vacant, Stands,
         Foreign, Committed, Opening, Marking, Switching, Looping, Closing, Working,
         Dropping, Undoing
<1>12. ASSUME MakeBackup PROVE ActivePart'
  BY <1>12, EntryApart, NoneAssumption, VersionsAssumption
     DEF MakeBackup, Run, Constant, history, Typed, TypeOK, Shells, JournalPart,
         ActivePart, HadActive, Moved, ActiveStands, Vacant, Stands, Foreign,
         Committed, Opening, Marking, Switching, Looping, Closing, Working, Dropping,
         Undoing
<1>13. ASSUME CheckEntry PROVE ActivePart'
  BY <1>13, EntryApart, NoneAssumption, VersionsAssumption
     DEF CheckEntry, Goto, Set, SameFiles, materials, Constant, history, Typed,
         TypeOK, Shells, JournalPart, ActivePart, HadActive, Moved, ActiveStands,
         Vacant, Stands, Foreign, Committed, Opening, Marking, Switching, Looping,
         Closing, Working, Dropping, Undoing
<1>14. ASSUME MoveEntry PROVE ActivePart'
  BY <1>14, EntryApart, NoneAssumption, VersionsAssumption
     DEF MoveEntry, Run, Put, Constant, history, Typed, TypeOK, Shells, JournalPart,
         ActivePart, HadActive, Moved, ActiveStands, Vacant, Stands, Foreign,
         Committed, Opening, Marking, Switching, Looping, Closing, Working, Dropping,
         Undoing
<1>15. ASSUME LinkEntry PROVE ActivePart'
  BY <1>15, EntryApart, NoneAssumption, VersionsAssumption
     DEF LinkEntry, Run, materials, Constant, history, Typed, TypeOK, Shells,
         JournalPart, ActivePart, HadActive, Moved, ActiveStands, Vacant, Stands,
         Foreign, Committed, Opening, Marking, Switching, Looping, Closing, Working,
         Dropping, Undoing
<1>16. ASSUME MarkEntry PROVE ActivePart'
  BY <1>16, EntryApart, NoneAssumption, VersionsAssumption
     DEF MarkEntry, Run, Set, SameFiles, materials, Constant, history, Typed, TypeOK,
         Shells, JournalPart, ActivePart, HadActive, Moved, ActiveStands, Vacant,
         Stands, Foreign, Committed, Opening, Marking, Switching, Looping, Closing,
         Working, Dropping, Undoing
<1>17. ASSUME PublishEntry PROVE ActivePart'
  BY <1>17, EntryApart, NoneAssumption, VersionsAssumption
     DEF PublishEntry, Run, Put, materials, Constant, history, Typed, TypeOK, Shells,
         JournalPart, ActivePart, HadActive, Moved, ActiveStands, Vacant, Stands,
         Foreign, Committed, Opening, Marking, Switching, Looping, Closing, Working,
         Dropping, Undoing
<1>18. ASSUME CheckLauncher PROVE ActivePart'
  BY <1>18, EntryApart, NoneAssumption, VersionsAssumption
     DEF CheckLauncher, Goto, Set, materials, Constant, history, Typed, TypeOK,
         Shells, JournalPart, ActivePart, HadActive, Moved, ActiveStands, Vacant,
         Stands, Foreign, Committed, Opening, Marking, Switching, Looping, Closing,
         Working, Dropping, Undoing
<1>19. ASSUME PublishLauncher PROVE ActivePart'
  BY <1>19, EntryApart, NoneAssumption, VersionsAssumption
     DEF PublishLauncher, Run, Put, materials, Constant, history, Typed, TypeOK,
         Shells, JournalPart, ActivePart, HadActive, Moved, ActiveStands, Vacant,
         Stands, Foreign, Committed, Opening, Marking, Switching, Looping, Closing,
         Working, Dropping, Undoing
<1>20. ASSUME Commit PROVE ActivePart'
  BY <1>20, EntryApart, NoneAssumption, VersionsAssumption
     DEF Commit, Run, Constant, history, Typed, TypeOK, Shells, JournalPart,
         ActivePart, HadActive, Moved, ActiveStands, Vacant, Stands, Foreign,
         Committed, Opening, Marking, Switching, Looping, Closing, Working, Dropping,
         Undoing
<1>21. ASSUME MarkCommitted PROVE ActivePart'
  BY <1>21, EntryApart, NoneAssumption, VersionsAssumption
     DEF MarkCommitted, Run, SameFiles, materials, Constant, history, Typed, TypeOK,
         Shells, JournalPart, ActivePart, HadActive, Moved, ActiveStands, Vacant,
         Stands, Foreign, Committed, Opening, Marking, Switching, Looping, Closing,
         Working, Dropping, Undoing
<1>22. ASSUME DropBackup PROVE ActivePart'
  BY <1>22, EntryApart, NoneAssumption, VersionsAssumption
     DEF DropBackup, RemoveBackup, Goto, Constant, history, Mishap, NoMishap, Typed,
         TypeOK, Shells, JournalPart, ActivePart, HadActive, Moved, ActiveStands,
         Vacant, Stands, Foreign, Committed, Opening, Marking, Switching, Looping,
         Closing, Working, Dropping, Undoing
<1>23. ASSUME DropTransaction PROVE ActivePart'
  BY <1>23, EntryApart, NoneAssumption, VersionsAssumption
     DEF DropTransaction, RemoveTransaction, Goto, Constant, history, Mishap,
         NoMishap, Typed, TypeOK, Shells, JournalPart, ActivePart, HadActive, Moved,
         ActiveStands, Vacant, Stands, Foreign, Committed, Opening, Marking,
         Switching, Looping, Closing, Working, Dropping, Undoing
<1>24. ASSUME Finish PROVE ActivePart'
  BY <1>24, EntryApart, NoneAssumption, VersionsAssumption
     DEF Finish, Goto, SameFiles, materials, Constant, history, Typed, TypeOK, Shells,
         JournalPart, ActivePart, HadActive, Moved, ActiveStands, Vacant, Stands,
         Foreign, Committed, Opening, Marking, Switching, Looping, Closing, Working,
         Dropping, Undoing
<1>25. ASSUME UndoLauncher PROVE ActivePart'
  <2>1. /\ pc = "undo_launcher" /\ pc' \in {"undo_active", "unlink_entries"}
        /\ UNCHANGED << txn, prior, before >>
    BY <1>25 DEF UndoLauncher, Attempt, Skip, Goto, Constant, history, materials
  <2>2. at'["active"] = at["active"]
    BY <1>25, EntryApart DEF UndoLauncher, Attempt, Skip, Put, Typed, TypeOK
  <2>3. sh' = sh \/ sh' = [sh EXCEPT !["failed"] = TRUE]
    BY <1>25 DEF UndoLauncher, Attempt, Skip, Set
  <2>4. /\ sh'.committed = sh.committed /\ sh'.switched = sh.switched
        /\ sh'.detached = sh.detached
    BY <2>3 DEF Typed, Shells
  <2> QED
    BY <2>1, <2>2, <2>4
       DEF ActivePart, ActiveStands, HadActive, Moved, Vacant, Stands, Committed, Opening,
           Marking, Switching, Looping, Closing, Working
<1>26. ASSUME UnlinkEntry PROVE ActivePart'
  BY <1>26, EntryApart, NoneAssumption, VersionsAssumption
     DEF UnlinkEntry, Loop, Attempt, Skip, Put, Goto, Set, materials, Constant,
         history, Mishap, NoMishap, Typed, TypeOK, Shells, JournalPart, ActivePart,
         HadActive, Moved, ActiveStands, Vacant, Stands, Foreign, Committed, Opening,
         Marking, Switching, Looping, Closing, Working, Dropping, Undoing
<1>27. ASSUME RestoreEntry PROVE ActivePart'
  BY <1>27, EntryApart, NoneAssumption, VersionsAssumption
     DEF RestoreEntry, Loop, Attempt, Skip, Put, Goto, Set, Constant, history, Mishap,
         NoMishap, Typed, TypeOK, Shells, JournalPart, ActivePart, HadActive, Moved,
         ActiveStands, Vacant, Stands, Foreign, Committed, Opening, Marking,
         Switching, Looping, Closing, Working, Dropping, Undoing
<1>28. ASSUME UndoActive PROVE ActivePart'
  BY <1>28, EntryApart, NoneAssumption, VersionsAssumption
     DEF UndoActive, Attempt, Skip, Put, Goto, Set, materials, Constant, history,
         Mishap, NoMishap, Typed, TypeOK, Shells, JournalPart, ActivePart, HadActive,
         Moved, ActiveStands, Vacant, Stands, Foreign, Committed, Opening, Marking,
         Switching, Looping, Closing, Working, Dropping, Undoing
<1>29. ASSUME RestoreActive PROVE ActivePart'
  BY <1>29, EntryApart, NoneAssumption, VersionsAssumption
     DEF RestoreActive, Attempt, Skip, Put, Goto, Set, Constant, history, Mishap,
         NoMishap, Typed, TypeOK, Shells, JournalPart, ActivePart, HadActive, Moved,
         ActiveStands, Vacant, Stands, Foreign, Committed, Opening, Marking,
         Switching, Looping, Closing, Working, Dropping, Undoing
<1>30. ASSUME UndoVersion PROVE ActivePart'
  BY <1>30, EntryApart, NoneAssumption, VersionsAssumption
     DEF UndoVersion, Attempt, Skip, Goto, Set, materials, Constant, history, Mishap,
         NoMishap, Typed, TypeOK, Shells, JournalPart, ActivePart, HadActive, Moved,
         ActiveStands, Vacant, Stands, Foreign, Committed, Opening, Marking,
         Switching, Looping, Closing, Working, Dropping, Undoing
<1>31. ASSUME UndoBackup PROVE ActivePart'
  BY <1>31, EntryApart, NoneAssumption, VersionsAssumption
     DEF UndoBackup, RemoveBackup, Skip, Goto, Set, materials, Constant, history,
         Mishap, NoMishap, Typed, TypeOK, Shells, JournalPart, ActivePart, HadActive,
         Moved, ActiveStands, Vacant, Stands, Foreign, Committed, Opening, Marking,
         Switching, Looping, Closing, Working, Dropping, Undoing
<1>32. ASSUME UndoTransaction PROVE ActivePart'
  BY <1>32, EntryApart, NoneAssumption, VersionsAssumption
     DEF UndoTransaction, RemoveTransaction, Skip, Goto, Set, materials, Constant,
         history, Mishap, NoMishap, Typed, TypeOK, Shells, JournalPart, ActivePart,
         HadActive, Moved, ActiveStands, Vacant, Stands, Foreign, Committed, Opening,
         Marking, Switching, Looping, Closing, Working, Dropping, Undoing
<1>33. ASSUME Tidy PROVE ActivePart'
  BY <1>33, EntryApart, NoneAssumption, VersionsAssumption
     DEF Tidy, Run, materials, Constant, history, Mishap, NoMishap, Typed, TypeOK,
         Shells, JournalPart, ActivePart, HadActive, Moved, ActiveStands, Vacant,
         Stands, Foreign, Committed, Opening, Marking, Switching, Looping, Closing,
         Working, Dropping, Undoing
<1>34. ASSUME Stopped PROVE ActivePart'
  BY <1>34, EntryApart, NoneAssumption, VersionsAssumption
     DEF Stopped, Goto, SameFiles, materials, Constant, history, Mishap, NoMishap,
         Typed, TypeOK, Shells, JournalPart, ActivePart, HadActive, Moved,
         ActiveStands, Vacant, Stands, Foreign, Committed, Opening, Marking,
         Switching, Looping, Closing, Working, Dropping, Undoing, PCs
<1>35. ASSUME Killed PROVE ActivePart'
  BY <1>35, EntryApart, NoneAssumption, VersionsAssumption
     DEF Killed, Goto, SameFiles, materials, Constant, history, Mishap, NoMishap,
         Typed, TypeOK, Shells, JournalPart, ActivePart, HadActive, Moved,
         ActiveStands, Vacant, Stands, Foreign, Committed, Opening, Marking,
         Switching, Looping, Closing, Working, Dropping, Undoing
<1>36. ASSUME Intrude PROVE ActivePart'
  <2>1. /\ at["active"] = None \/ at'["active"] = at["active"]
        /\ at'["active"] \in {at["active"]} \cup Foreign
    BY <1>36 DEF Intrude, Put, Foreign, Typed, TypeOK
  <2>2. UNCHANGED << txn, pc, sh, before, prior >>
    BY <1>36 DEF Intrude, Constant, history, materials
  <2> QED
    BY <2>1, <2>2, NoneAssumption, VersionsAssumption
       DEF ActivePart, ActiveStands, HadActive, Moved, Vacant, Stands, Committed, Foreign,
           Opening, Marking, Switching, Looping, Closing, Working, Typed
<1>37. ASSUME UNCHANGED vars PROVE ActivePart'
  BY <1>37
     DEF vars, materials, history, ActivePart, Committed, HadActive, Moved,
         ActiveStands, Vacant, Stands
<1> QED
  BY <1>1, <1>2, <1>3, <1>4, <1>5, <1>6, <1>7, <1>8, <1>9, <1>10, <1>11, <1>12, <1>13,
     <1>14, <1>15, <1>16, <1>17, <1>18, <1>19, <1>20, <1>21, <1>22, <1>23, <1>24,
     <1>25, <1>26, <1>27, <1>28, <1>29, <1>30, <1>31, <1>32, <1>33, <1>34, <1>35,
     <1>36, <1>37
     DEF Next, Forward, Rollback, Ended

-----------------------------------------------------------------------------
(* The entries.                                                            *)

\* What is true of an entry is said of its name and its place in the loop.
LEMMA EntryIndex ==
  ASSUME Typed, NEW i \in 1..3
  PROVE  /\ Entries[i] \in Names /\ Entries[i] \in Places
         /\ Entries[i] # "active" /\ Entries[i] # "launcher"
         /\ Entries[i] = Entry <=> i = idx
         /\ idx \in 1..3 /\ Len(Entries) = 3
BY EntryList DEF Typed, TypeOK, Entry, Places

\* Every entry stands as it stood at first.
LEMMA EntryInit == Init => EntryPart
<1> SUFFICES ASSUME Init, NEW i \in 1..3 PROVE EntryState(Entries[i], i)
  BY EntryList DEF EntryPart
<1>1. Entries[i] \in Names
  BY EntryList
<1> QED
  BY <1>1
     DEF Init, EntryState, EntryKept, FreshShell, Opening, Marking, Switching, Looping, Closing

\* Every entry stands, is in the backup directory, or is replaced, as the place
\* of the loop says; rollback unlinks and restores it.
LEMMA EntryStep ==
  ASSUME Typed, JournalPart, EntryPart, ~Committed', [Next]_vars,
         NEW i \in 1..3, NEW n, n = Entries[i]
  PROVE  EntryState(n, i)'
<1>1. /\ n \in Names /\ n \in Places /\ n # "active" /\ n # "launcher"
      /\ n = Entry <=> i = idx
      /\ idx \in 1..3 /\ Len(Entries) = 3
  BY EntryIndex
<1>0. Saved(n)' \/ Whole(n)' \/ Stands(n)' => EntryKept(n)'
  BY DEF Saved, Whole, Stands, EntryKept
<1>2. ~Committed => EntryState(n, i)
  BY <1>1 DEF EntryPart
<1>3. CASE Begin
  BY <1>1, <1>2, <1>3, NoneAssumption
     DEF Begin, Goto, materials, Typed, TypeOK, Shells, JournalPart, EntryState,
         EntryKept, Unrecorded, Whole, Saved, AwaitsUnlink, AwaitsRestore, Vacant,
         Stands, Foreign, Committed, Opening, Marking, Switching, Looping, Closing,
         Working, Dropping, Undoing, Pending, FreshShell, NoBackup
<1>4. CASE PrepareLauncher
  BY <1>1, <1>2, <1>4, NoneAssumption
     DEF PrepareLauncher, Goto, Set, materials, Constant, history, Typed, TypeOK,
         Shells, JournalPart, EntryState, EntryKept, Unrecorded, Whole, Saved,
         AwaitsUnlink, AwaitsRestore, Vacant, Stands, Foreign, Committed, Opening,
         Marking, Switching, Looping, Closing, Working, Dropping, Undoing
<1>5. CASE CheckTargets
  BY <1>1, <1>2, <1>5, NoneAssumption
     DEF CheckTargets, Goto, Set, SameFiles, materials, Constant, history, Typed,
         TypeOK, Shells, JournalPart, EntryState, EntryKept, Unrecorded, Whole, Saved,
         AwaitsUnlink, AwaitsRestore, Vacant, Stands, Foreign, Committed, Opening,
         Marking, Switching, Looping, Closing, Working, Dropping, Undoing
<1>6. CASE OpenTransaction
  BY <1>1, <1>2, <1>6, NoneAssumption
     DEF OpenTransaction, Run, SameFiles, materials, Constant, history, Typed, TypeOK,
         Shells, JournalPart, EntryState, EntryKept, Unrecorded, Whole, Saved,
         AwaitsUnlink, AwaitsRestore, Vacant, Stands, Foreign, Committed, Opening,
         Marking, Switching, Looping, Closing, Working, Dropping, Undoing
<1>7. CASE MarkVersion
  BY <1>1, <1>2, <1>7, NoneAssumption
     DEF MarkVersion, Run, Set, SameFiles, materials, Constant, history, Typed,
         TypeOK, Shells, JournalPart, EntryState, EntryKept, Unrecorded, Whole, Saved,
         AwaitsUnlink, AwaitsRestore, Vacant, Stands, Foreign, Committed, Opening,
         Marking, Switching, Looping, Closing, Working, Dropping, Undoing
<1>8. CASE PublishVersion
  BY <1>1, <1>2, <1>8, NoneAssumption
     DEF PublishVersion, Run, materials, Constant, history, Typed, TypeOK, Shells,
         JournalPart, EntryState, EntryKept, Unrecorded, Whole, Saved, AwaitsUnlink,
         AwaitsRestore, Vacant, Stands, Foreign, Committed, Opening, Marking,
         Switching, Looping, Closing, Working, Dropping, Undoing
<1>9. CASE LinkActive
  BY <1>1, <1>2, <1>9, NoneAssumption
     DEF LinkActive, Run, materials, Constant, history, Typed, TypeOK, Shells,
         JournalPart, EntryState, EntryKept, Unrecorded, Whole, Saved, AwaitsUnlink,
         AwaitsRestore, Vacant, Stands, Foreign, Committed, Opening, Marking,
         Switching, Looping, Closing, Working, Dropping, Undoing
<1>10. CASE MarkDetached
  BY <1>1, <1>2, <1>10, NoneAssumption
     DEF MarkDetached, Run, Set, SameFiles, materials, Constant, history, Typed,
         TypeOK, Shells, JournalPart, EntryState, EntryKept, Unrecorded, Whole, Saved,
         AwaitsUnlink, AwaitsRestore, Vacant, Stands, Foreign, Committed, Opening,
         Marking, Switching, Looping, Closing, Working, Dropping, Undoing
<1>11. CASE Detach
  BY <1>1, <1>2, <1>11, NoneAssumption
     DEF Detach, Run, Put, Constant, history, Typed, TypeOK, Shells, JournalPart,
         EntryState, EntryKept, Unrecorded, Whole, Saved, AwaitsUnlink, AwaitsRestore,
         Vacant, Stands, Foreign, Committed, Opening, Marking, Switching, Looping,
         Closing, Working, Dropping, Undoing
<1>12. CASE CheckActive
  BY <1>1, <1>2, <1>12, NoneAssumption
     DEF CheckActive, Goto, Set, SameFiles, materials, Constant, history, Typed,
         TypeOK, Shells, JournalPart, EntryState, EntryKept, Unrecorded, Whole, Saved,
         AwaitsUnlink, AwaitsRestore, Vacant, Stands, Foreign, Committed, Opening,
         Marking, Switching, Looping, Closing, Working, Dropping, Undoing
<1>13. CASE Switch
  BY <1>1, <1>2, <1>13, NoneAssumption
     DEF Switch, Run, Put, materials, Constant, history, Typed, TypeOK, Shells,
         JournalPart, EntryState, EntryKept, Unrecorded, Whole, Saved, AwaitsUnlink,
         AwaitsRestore, Vacant, Stands, Foreign, Committed, Opening, Marking,
         Switching, Looping, Closing, Working, Dropping, Undoing
<1>14. CASE MakeBackup
  <2>1. /\ pc = "make_backup" /\ pc' = "entry" /\ idx' = 1
        /\ UNCHANGED << at, backup, sh, before, txn >>
    BY <1>14 DEF MakeBackup, Run, Constant, history
  <2>2. EntryState(n, i)
    BY <1>2, <2>1 DEF Committed
  <2>3. Whole(n) /\ n \notin sh.backed
    BY <2>1, <2>2 DEF EntryState
  <2>4. Whole(n)' /\ n \notin sh'.backed
    BY <2>1, <2>3 DEF Whole, Stands
  <2> QED
    BY <1>1, <1>0, <2>1, <2>4
       DEF EntryState, Opening, Marking, Switching, Looping, Closing
<1>15. CASE CheckEntry
  <2>1. /\ pc = "entry" /\ UNCHANGED << at, backup, before, txn, idx >>
    BY <1>15 DEF CheckEntry, Constant, history, SameFiles, materials
  <2>2. CASE pc' = "finish" /\ sh' = sh
    BY <1>1, <1>2, NoneAssumption, <2>1, <2>2
       DEF EntryState, EntryKept, Unrecorded, Whole, Saved, AwaitsUnlink,
           AwaitsRestore, Vacant, Stands, Foreign, Opening, Marking, Switching,
           Looping, Closing, Undoing, Committed
  <2>3. CASE pc' = "link_entry" /\ sh' = sh /\ at[Entry] = None
    BY <1>1, <1>2, NoneAssumption, <2>1, <2>3
       DEF EntryState, EntryKept, Unrecorded, Whole, Saved, AwaitsUnlink,
           AwaitsRestore, Vacant, Stands, Foreign, Opening, Marking, Switching,
           Looping, Closing, Undoing, Committed
  <2>4. CASE /\ pc' = "move_entry" /\ at[Entry] \in {"file", "managed"}
             /\ sh' = [sh EXCEPT !["backed"] = sh.backed \cup {Entry}]
    <3>1. /\ sh'.backed = sh.backed \cup {Entry} /\ sh'.installed = sh.installed
          /\ sh'.failed = sh.failed /\ sh'.committed = sh.committed
      BY <2>4 DEF Typed, Shells
    <3> QED
      BY <1>1, <1>2, NoneAssumption, <2>1, <2>4, <3>1
         DEF EntryState, EntryKept, Unrecorded, Whole, Saved, AwaitsUnlink,
             AwaitsRestore, Vacant, Stands, Foreign, Opening, Marking, Switching,
             Looping, Closing, Undoing, Committed
  <2> QED
    BY <1>15, <2>2, <2>3, <2>4 DEF CheckEntry, Goto, Set
<1>16. CASE MoveEntry
  BY <1>1, <1>2, <1>16, NoneAssumption
     DEF MoveEntry, Run, Put, Constant, history, Typed, TypeOK, Shells, JournalPart,
         EntryState, EntryKept, Unrecorded, Whole, Saved, AwaitsUnlink, AwaitsRestore,
         Vacant, Stands, Foreign, Committed, Opening, Marking, Switching, Looping,
         Closing, Working, Dropping, Undoing
<1>17. CASE LinkEntry
  BY <1>1, <1>2, <1>17, NoneAssumption
     DEF LinkEntry, Run, materials, Constant, history, Typed, TypeOK, Shells,
         JournalPart, EntryState, EntryKept, Unrecorded, Whole, Saved, AwaitsUnlink,
         AwaitsRestore, Vacant, Stands, Foreign, Committed, Opening, Marking,
         Switching, Looping, Closing, Working, Dropping, Undoing
<1>18. CASE MarkEntry
  <2>1. /\ pc = "mark_entry" /\ pc' = "publish_entry"
        /\ UNCHANGED << at, backup, before, txn, idx >>
    BY <1>18 DEF MarkEntry, Run, Constant, history, SameFiles, materials
  <2>2. /\ sh'.backed = sh.backed /\ sh'.installed = sh.installed \cup {Entry}
        /\ sh'.failed = sh.failed /\ sh'.committed = sh.committed
    BY <1>18 DEF MarkEntry, Set, Typed, Shells
  <2>3. EntryState(n, i)
    BY <1>2, <2>1, <2>2 DEF Committed
  <2>4. CASE i > idx
    BY <1>1, <2>1, <2>2, <2>3, <2>4
       DEF EntryState, EntryKept, Whole, Stands, Opening, Marking, Switching, Looping,
           Closing
  <2>5. CASE i = idx
    BY <1>1, <2>1, <2>2, <2>3, <2>5
       DEF EntryState, EntryKept, Saved, Opening, Marking, Switching, Looping, Closing
  <2>6. CASE i < idx
    <3>1. Saved(n) /\ n \in sh.installed /\ at[n] = "managed"
      BY <1>1, <2>1, <2>3, <2>6 DEF EntryState, Looping
    <3>2. Saved(n)' /\ n \in sh'.installed /\ at'[n] = "managed"
      BY <2>1, <2>2, <3>1 DEF Saved
    <3> QED
      BY <1>1, <1>0, <2>1, <2>6, <3>2
         DEF EntryState, Opening, Marking, Switching, Looping, Closing
  <2> QED
    BY <1>1, <2>4, <2>5, <2>6
<1>19. CASE PublishEntry
  <2>1. /\ pc = "publish_entry" /\ UNCHANGED << backup, before, txn, sh >>
        /\ \/ idx < 3 /\ pc' = "entry" /\ idx' = idx + 1
           \/ idx = 3 /\ pc' = "check_launcher" /\ idx' = idx
    BY <1>1, <1>19 DEF PublishEntry, Run, Constant, history, materials
  <2>2. at'[n] = IF i = idx THEN "managed" ELSE at[n]
    BY <1>1, <1>19 DEF PublishEntry, Put, Typed, TypeOK
  <2>3. EntryState(n, i)
    BY <1>2, <2>1 DEF Committed
  <2>4. CASE i > idx
    <3>1. Whole(n) /\ n \notin sh.backed
      BY <1>1, <2>1, <2>3, <2>4 DEF EntryState, Looping
    <3>2. Whole(n)' /\ n \notin sh'.backed
      BY <1>1, <2>1, <2>2, <2>4, <3>1 DEF Whole, Stands
    <3> QED
      BY <1>1, <1>0, <2>1, <2>4, <3>2
         DEF EntryState, Opening, Marking, Switching, Looping, Closing
  <2>5. CASE i <= idx
    <3>1. Saved(n) /\ n \in sh.installed
      BY <1>1, <2>1, <2>3, <2>5 DEF EntryState, Looping
    <3>2. at'[n] = "managed"
      BY <1>1, <2>1, <2>2, <2>3, <2>5 DEF EntryState, Looping
    <3>3. Saved(n)' /\ n \in sh'.installed
      BY <2>1, <3>1 DEF Saved
    <3> QED
      BY <1>1, <1>0, <2>1, <2>5, <3>2, <3>3
         DEF EntryState, Opening, Marking, Switching, Looping, Closing
  <2> QED
    BY <1>1, <2>4, <2>5
<1>20. CASE CheckLauncher
  BY <1>1, <1>2, <1>20, NoneAssumption
     DEF CheckLauncher, Goto, Set, materials, Constant, history, Typed, TypeOK,
         Shells, JournalPart, EntryState, EntryKept, Unrecorded, Whole, Saved,
         AwaitsUnlink, AwaitsRestore, Vacant, Stands, Foreign, Committed, Opening,
         Marking, Switching, Looping, Closing, Working, Dropping, Undoing
<1>21. CASE PublishLauncher
  BY <1>1, <1>2, <1>21, NoneAssumption
     DEF PublishLauncher, Run, Put, materials, Constant, history, Typed, TypeOK,
         Shells, JournalPart, EntryState, EntryKept, Unrecorded, Whole, Saved,
         AwaitsUnlink, AwaitsRestore, Vacant, Stands, Foreign, Committed, Opening,
         Marking, Switching, Looping, Closing, Working, Dropping, Undoing
<1>22. CASE Commit
  BY <1>1, <1>2, <1>22, NoneAssumption
     DEF Commit, Run, Constant, history, Typed, TypeOK, Shells, JournalPart,
         EntryState, EntryKept, Unrecorded, Whole, Saved, AwaitsUnlink, AwaitsRestore,
         Vacant, Stands, Foreign, Committed, Opening, Marking, Switching, Looping,
         Closing, Working, Dropping, Undoing
<1>23. CASE MarkCommitted
  BY <1>1, <1>2, <1>23, NoneAssumption
     DEF MarkCommitted, Run, SameFiles, materials, Constant, history, Typed, TypeOK,
         Shells, JournalPart, EntryState, EntryKept, Unrecorded, Whole, Saved,
         AwaitsUnlink, AwaitsRestore, Vacant, Stands, Foreign, Committed, Opening,
         Marking, Switching, Looping, Closing, Working, Dropping, Undoing
<1>24. CASE DropBackup
  BY <1>1, <1>2, <1>24, NoneAssumption
     DEF DropBackup, RemoveBackup, Goto, Constant, history, Mishap, NoMishap, Typed,
         TypeOK, Shells, JournalPart, EntryState, EntryKept, Unrecorded, Whole, Saved,
         AwaitsUnlink, AwaitsRestore, Vacant, Stands, Foreign, Committed, Opening,
         Marking, Switching, Looping, Closing, Working, Dropping, Undoing
<1>25. CASE DropTransaction
  BY <1>1, <1>2, <1>25, NoneAssumption
     DEF DropTransaction, RemoveTransaction, Goto, Constant, history, Mishap,
         NoMishap, Typed, TypeOK, Shells, JournalPart, EntryState, EntryKept,
         Unrecorded, Whole, Saved, AwaitsUnlink, AwaitsRestore, Vacant, Stands,
         Foreign, Committed, Opening, Marking, Switching, Looping, Closing, Working,
         Dropping, Undoing
<1>26. CASE Finish
  BY <1>1, <1>2, <1>26, NoneAssumption
     DEF Finish, Goto, SameFiles, materials, Constant, history, Typed, TypeOK, Shells,
         JournalPart, EntryState, EntryKept, Unrecorded, Whole, Saved, AwaitsUnlink,
         AwaitsRestore, Vacant, Stands, Foreign, Committed, Opening, Marking,
         Switching, Looping, Closing, Working, Dropping, Undoing
<1>27. CASE UndoLauncher
  <2>1. /\ pc = "undo_launcher" /\ idx' = 3
        /\ UNCHANGED << backup, before, txn >>
        /\ \/ sh.installed = {} /\ pc' = "undo_active"
           \/ pc' = "unlink_entries"
    BY <1>1, <1>27 DEF UndoLauncher, Attempt, Skip, Goto, Constant, history, materials
  <2>2. at'[n] = at[n]
    BY <1>1, <1>27 DEF UndoLauncher, Attempt, Skip, Put, Typed, TypeOK
  <2>3. sh' = sh \/ sh' = [sh EXCEPT !["failed"] = TRUE]
    BY <1>27 DEF UndoLauncher, Attempt, Skip, Set
  <2>4. /\ sh'.backed = sh.backed /\ sh'.installed = sh.installed
        /\ sh'.committed = sh.committed
    BY <2>3 DEF Typed, Shells
  <2>5. EntryState(n, i)
    BY <1>2, <2>1, <2>4 DEF Committed
  <2>6. AwaitsUnlink(n)
    BY <2>1, <2>5 DEF EntryState
  <2>7. EntryKept(n)'
    BY <2>1, <2>2, <2>4, <2>5 DEF EntryState, EntryKept, Unrecorded
  <2>8. AwaitsUnlink(n)'
    BY <2>1, <2>2, <2>4, <2>6 DEF AwaitsUnlink, Whole, Saved, Stands, Vacant
  <2>9. sh.installed = {} => Stands(n)' \/ (Unrecorded(n) /\ Vacant(n))'
    BY <2>1, <2>2, <2>4, <2>6
       DEF AwaitsUnlink, Whole, Saved, Stands, Vacant, Unrecorded
  <2> QED
    BY <1>1, <2>1, <2>7, <2>8, <2>9
       DEF EntryState, Opening, Marking, Switching, Looping, Closing
<1>28. CASE UnlinkEntry
  <2>1. /\ pc = "unlink_entries" /\ UNCHANGED << backup, before, txn >>
        /\ \/ idx > 1 /\ pc' = "unlink_entries" /\ idx' = idx - 1
           \/ idx = 1 /\ pc' = "restore_entries" /\ idx' = 3
    <3>1. pc' = IF idx > 1 THEN "unlink_entries" ELSE "restore_entries"
      BY <1>28 DEF UnlinkEntry, Attempt, Skip, Goto
    <3>2. /\ pc = "unlink_entries" /\ UNCHANGED << backup, before, txn >>
          /\ idx' = IF idx > 1 THEN idx - 1 ELSE 3
      BY <1>1, <1>28 DEF UnlinkEntry, Loop, Constant, history, materials
    <3> QED
      BY <1>1, <3>1, <3>2
  <2>2. sh' = sh \/ sh' = [sh EXCEPT !["failed"] = TRUE]
    BY <1>28 DEF UnlinkEntry, Attempt, Skip, Set
  <2>3. /\ sh'.backed = sh.backed /\ sh'.installed = sh.installed
        /\ sh'.committed = sh.committed /\ (sh.failed => sh'.failed)
    BY <2>2 DEF Typed, Shells
  <2>4. i # idx \/ n \notin sh.installed => at'[n] = at[n]
    BY <1>1, <1>28 DEF UnlinkEntry, Attempt, Skip, Put, Typed, TypeOK
  <2>5. i = idx /\ n \in sh.installed => at'[n] = None \/ sh'.failed
    <3>1. CASE at[n] = None
      BY <1>1, <1>28, <3>1 DEF UnlinkEntry, Attempt, Skip, Put, Typed, TypeOK
    <3>2. SUFFICES ASSUME i = idx, n \in sh.installed, at[n] # None
                   PROVE  at'[n] = None \/ sh'.failed
      BY <3>1
    <3>3. \/ at' = [at EXCEPT ![n] = None]
          \/ sh' = [sh EXCEPT !["failed"] = TRUE]
      BY <1>1, <1>28, <3>2 DEF UnlinkEntry, Attempt, Skip, Put, Set
    <3> QED
      BY <1>1, <3>3 DEF Typed, TypeOK, Shells
  <2>6. EntryState(n, i)
    BY <1>2, <2>1, <2>3 DEF Committed
  <2>7. i < idx => AwaitsUnlink(n)'
    <3>1. i < idx => AwaitsUnlink(n)
      BY <1>1, <2>1, <2>6 DEF EntryState
    <3> QED
      BY <1>1, <2>1, <2>3, <2>4, <3>1 DEF AwaitsUnlink, Whole, Saved, Stands, Vacant
  <2>8. i = idx => AwaitsRestore(n)'
    <3>1. i = idx => AwaitsUnlink(n)
      BY <1>1, <2>1, <2>6 DEF EntryState
    <3> QED
      BY <1>1, <2>1, <2>3, <2>4, <2>5, <3>1
         DEF AwaitsUnlink, AwaitsRestore, Whole, Saved, Stands, Vacant
  <2>9. i > idx => AwaitsRestore(n)'
    <3>1. i > idx => AwaitsRestore(n)
      BY <1>1, <2>1, <2>6 DEF EntryState
    <3> QED
      BY <1>1, <2>1, <2>3, <2>4, <3>1 DEF AwaitsRestore, Whole, Saved, Stands, Vacant
  <2>10. EntryKept(n)'
    BY <1>1, <1>0, <2>7, <2>8, <2>9 DEF AwaitsUnlink, AwaitsRestore
  <2> QED
    BY <1>1, <2>1, <2>7, <2>8, <2>9, <2>10
       DEF EntryState, Opening, Marking, Switching, Looping, Closing
<1>29. CASE RestoreEntry
  <2>1. /\ pc = "restore_entries" /\ UNCHANGED << before, txn >>
        /\ \/ idx > 1 /\ pc' = "restore_entries" /\ idx' = idx - 1
           \/ idx = 1 /\ pc' = "undo_active" /\ idx' = 3
    <3>1. pc' = IF idx > 1 THEN "restore_entries" ELSE "undo_active"
      BY <1>29 DEF RestoreEntry, Attempt, Skip, Goto
    <3>2. /\ pc = "restore_entries" /\ UNCHANGED << before, txn >>
          /\ idx' = IF idx > 1 THEN idx - 1 ELSE 3
      BY <1>1, <1>29 DEF RestoreEntry, Loop, Constant, history
    <3> QED
      BY <1>1, <3>1, <3>2
  <2>2. sh' = sh \/ sh' = [sh EXCEPT !["failed"] = TRUE]
    BY <1>29 DEF RestoreEntry, Attempt, Skip, Set
  <2>3. /\ sh'.backed = sh.backed /\ sh'.installed = sh.installed
        /\ sh'.committed = sh.committed /\ (sh.failed => sh'.failed)
    BY <2>2 DEF Typed, Shells
  <2>4. i # idx => at'[n] = at[n] /\ backup'[n] = backup[n]
    BY <1>1, <1>29 DEF RestoreEntry, Attempt, Skip, Put, Typed, TypeOK
  <2>5. i = idx =>
          \/ at'[n] = at[n] /\ backup'[n] = backup[n] /\ (sh'.failed \/ n \notin sh.backed)
          \/ backup[n] # None /\ at'[n] = backup[n]
    <3>1. SUFFICES ASSUME i = idx
                   PROVE  \/ /\ at'[n] = at[n] /\ backup'[n] = backup[n]
                             /\ sh'.failed \/ n \notin sh.backed
                          \/ backup[n] # None /\ at'[n] = backup[n]
      OBVIOUS
    <3>2. \/ UNCHANGED << at, backup >> /\ sh' = [sh EXCEPT !["failed"] = TRUE]
          \/ UNCHANGED << at, backup >> /\ n \notin sh.backed
          \/ backup[n] # None /\ at' = [at EXCEPT ![n] = backup[n]]
      BY <1>1, <1>29, <3>1 DEF RestoreEntry, Attempt, Skip, Put, Set
    <3> QED
      BY <1>1, <3>2 DEF Typed, TypeOK, Shells
  <2>6. EntryState(n, i)
    BY <1>2, <2>1, <2>3 DEF Committed
  <2>7. i < idx => AwaitsRestore(n)'
    <3>1. i < idx => AwaitsRestore(n)
      BY <1>1, <2>1, <2>6 DEF EntryState
    <3> QED
      BY <1>1, <2>1, <2>3, <2>4, <3>1 DEF AwaitsRestore, Whole, Saved, Stands, Vacant
  <2>8. i = idx => EntryKept(n)' /\ (~sh'.failed => Stands(n)')
    <3>1. SUFFICES ASSUME i = idx PROVE EntryKept(n)' /\ (~sh'.failed => Stands(n)')
      OBVIOUS
    <3>2. AwaitsRestore(n)
      BY <1>1, <2>1, <2>6, <3>1 DEF EntryState
    <3>3. CASE backup[n] # None /\ at'[n] = backup[n]
      BY <1>0, <2>1, <3>2, <3>3 DEF AwaitsRestore, Whole, Saved, Stands
    <3>4. CASE /\ at'[n] = at[n] /\ backup'[n] = backup[n]
               /\ sh'.failed \/ n \notin sh.backed
      <4>1. AwaitsRestore(n)'
        BY <2>1, <2>3, <3>2, <3>4 DEF AwaitsRestore, Whole, Saved, Stands, Vacant
      <4> QED
        BY <1>0, <2>3, <3>4, <4>1 DEF AwaitsRestore, Whole, Saved, Stands, Vacant
    <3> QED
      BY <2>5, <3>1, <3>3, <3>4
  <2>9. i > idx => EntryKept(n)' /\ (~sh'.failed => Stands(n)')
    <3>1. i > idx => EntryKept(n) /\ (~sh.failed => Stands(n))
      BY <1>1, <2>1, <2>6 DEF EntryState
    <3> QED
      BY <1>1, <2>1, <2>3, <2>4, <3>1 DEF EntryKept, Unrecorded, Stands
  <2>10. EntryKept(n)'
    BY <1>1, <1>0, <2>7, <2>8, <2>9 DEF AwaitsRestore
  <2> QED
    BY <1>1, <2>1, <2>7, <2>8, <2>9, <2>10
       DEF EntryState, Opening, Marking, Switching, Looping, Closing
<1>30. CASE UndoActive
  BY <1>1, <1>2, <1>30, NoneAssumption
     DEF UndoActive, Attempt, Skip, Put, Goto, Set, materials, Constant, history,
         Mishap, NoMishap, Typed, TypeOK, Shells, JournalPart, EntryState, EntryKept,
         Unrecorded, Whole, Saved, AwaitsUnlink, AwaitsRestore, Vacant, Stands,
         Foreign, Committed, Opening, Marking, Switching, Looping, Closing, Working,
         Dropping, Undoing
<1>31. CASE RestoreActive
  BY <1>1, <1>2, <1>31, NoneAssumption
     DEF RestoreActive, Attempt, Skip, Put, Goto, Set, Constant, history, Mishap,
         NoMishap, Typed, TypeOK, Shells, JournalPart, EntryState, EntryKept,
         Unrecorded, Whole, Saved, AwaitsUnlink, AwaitsRestore, Vacant, Stands,
         Foreign, Committed, Opening, Marking, Switching, Looping, Closing, Working,
         Dropping, Undoing
<1>32. CASE UndoVersion
  BY <1>1, <1>2, <1>32, NoneAssumption
     DEF UndoVersion, Attempt, Skip, Goto, Set, materials, Constant, history, Mishap,
         NoMishap, Typed, TypeOK, Shells, JournalPart, EntryState, EntryKept,
         Unrecorded, Whole, Saved, AwaitsUnlink, AwaitsRestore, Vacant, Stands,
         Foreign, Committed, Opening, Marking, Switching, Looping, Closing, Working,
         Dropping, Undoing
<1>33. CASE UndoBackup
  BY <1>1, <1>2, <1>33, NoneAssumption
     DEF UndoBackup, RemoveBackup, Skip, Goto, Set, materials, Constant, history,
         Mishap, NoMishap, Typed, TypeOK, Shells, JournalPart, EntryState, EntryKept,
         Unrecorded, Whole, Saved, AwaitsUnlink, AwaitsRestore, Vacant, Stands,
         Foreign, Committed, Opening, Marking, Switching, Looping, Closing, Working,
         Dropping, Undoing
<1>34. CASE UndoTransaction
  BY <1>1, <1>2, <1>34, NoneAssumption
     DEF UndoTransaction, RemoveTransaction, Skip, Goto, Set, materials, Constant,
         history, Mishap, NoMishap, Typed, TypeOK, Shells, JournalPart, EntryState,
         EntryKept, Unrecorded, Whole, Saved, AwaitsUnlink, AwaitsRestore, Vacant,
         Stands, Foreign, Committed, Opening, Marking, Switching, Looping, Closing,
         Working, Dropping, Undoing
<1>35. CASE Tidy
  BY <1>1, <1>2, <1>35, NoneAssumption
     DEF Tidy, Run, materials, Constant, history, Mishap, NoMishap, Typed, TypeOK,
         Shells, JournalPart, EntryState, EntryKept, Unrecorded, Whole, Saved,
         AwaitsUnlink, AwaitsRestore, Vacant, Stands, Foreign, Committed, Opening,
         Marking, Switching, Looping, Closing, Working, Dropping, Undoing
<1>36. CASE Stopped
  <2>1. /\ pc' = "finish" /\ UNCHANGED << at, backup, before, txn, idx, sh >>
    BY <1>36 DEF Stopped, Goto, Constant, history, SameFiles, materials
  <2>2. EntryState(n, i)
    BY <1>2, <2>1 DEF Committed
  <2>3. pc \in Opening \cup Working
    BY <1>36, <2>1
       DEF Stopped, Typed, PCs, JournalPart, Committed, Dropping
  <2>4. i > idx \/ i = idx \/ i < idx
    BY <1>1
  <2>5. AwaitsUnlink(n)
    BY <2>2, <2>3, <2>4
       DEF EntryState, AwaitsUnlink, Saved, Opening, Marking, Switching, Looping,
           Closing, Working
  <2> QED
    BY <2>1, <2>2, <2>5
       DEF EntryState, EntryKept, Unrecorded, AwaitsUnlink, Whole, Saved, Stands,
           Vacant, Opening, Marking, Switching, Looping, Closing
<1>37. CASE Killed
  BY <1>1, <1>2, <1>37, NoneAssumption
     DEF Killed, Goto, SameFiles, materials, Constant, history, Mishap, NoMishap,
         Typed, TypeOK, Shells, JournalPart, EntryState, EntryKept, Unrecorded, Whole,
         Saved, AwaitsUnlink, AwaitsRestore, Vacant, Stands, Foreign, Committed,
         Opening, Marking, Switching, Looping, Closing, Working, Dropping, Undoing
<1>38. CASE Intrude
  <2>1. /\ at[n] = None \/ at'[n] = at[n]
        /\ at'[n] \in {at[n]} \cup Foreign
    BY <1>1, <1>38 DEF Intrude, Put, Foreign, Typed, TypeOK
  <2>2. UNCHANGED << txn, pc, idx, sh, before, backup >>
    BY <1>38 DEF Intrude, Constant, history, materials
  <2>3. EntryState(n, i)
    BY <1>2, <2>2 DEF Committed
  <2>4. /\ Stands(n) => Stands(n)'
        /\ Vacant(n) => Vacant(n)'
    BY <2>1, <2>2 DEF Stands, Vacant, Foreign
  <2>5. /\ Whole(n) => Whole(n)'
        /\ Saved(n)' <=> Saved(n)
    BY <2>2, <2>4 DEF Whole, Saved
  <2>6. EntryKept(n)'
    BY <2>1, <2>2, <2>3 DEF EntryState, EntryKept, Unrecorded
  <2> QED
    BY <2>1, <2>2, <2>3, <2>4, <2>5, <2>6, NoneAssumption
       DEF EntryState, AwaitsUnlink, AwaitsRestore, Unrecorded, Foreign
<1>39. CASE UNCHANGED vars
  BY <1>2, <1>39
     DEF vars, materials, history, EntryState, EntryKept, Unrecorded, Whole, Saved,
         AwaitsUnlink, AwaitsRestore, Vacant, Stands, Committed
<1> QED
  BY <1>3, <1>4, <1>5, <1>6, <1>7, <1>8, <1>9, <1>10, <1>11, <1>12, <1>13, <1>14,
     <1>15, <1>16, <1>17, <1>18, <1>19, <1>20, <1>21, <1>22, <1>23, <1>24, <1>25,
     <1>26, <1>27, <1>28, <1>29, <1>30, <1>31, <1>32, <1>33, <1>34, <1>35, <1>36,
     <1>37, <1>38, <1>39
     DEF Next, Forward, Rollback, Ended

\* Every step preserves what is true of the entries.
LEMMA EntryPartStep ==
  ASSUME Typed, JournalPart, EntryPart, [Next]_vars PROVE EntryPart'
<1> SUFFICES ASSUME ~Committed', NEW i \in 1..3 PROVE EntryState(Entries[i], i)'
  BY EntryList DEF EntryPart
<1> QED
  BY EntryStep

-----------------------------------------------------------------------------
(* The machine as a whole.                                                 *)

\* Without a journal and without a commit nothing that a run replaces is
\* touched: only a new run, another program and the end of a rollback count.
LEMMA WithoutJournal ==
  ASSUME Typed, JournalPart, [Next]_vars, txn' = "none", ~sh'.committed,
         ~Begin, ~Intrude, ~UndoTransaction
  PROVE  /\ txn = "none" /\ ~sh.committed /\ UNCHANGED << at, versions, before, kept >>
         /\ sh'.backed = sh.backed /\ sh'.installed = sh.installed
<1>1. CASE PrepareLauncher
  BY <1>1
     DEF PrepareLauncher, Goto, Set, materials, Constant, history, Typed, TypeOK,
         Shells, JournalPart, Unmarked, Committed, Opening, Marking, Switching,
         Looping, Closing, Working, Dropping, Undoing
<1>2. CASE CheckTargets
  BY <1>2
     DEF CheckTargets, Goto, Set, SameFiles, materials, Constant, history, Typed,
         TypeOK, Shells, JournalPart, Unmarked, Committed, Opening, Marking,
         Switching, Looping, Closing, Working, Dropping, Undoing
<1>3. CASE OpenTransaction
  BY <1>3
     DEF OpenTransaction, Run, SameFiles, materials, Constant, history, Typed, TypeOK,
         Shells, JournalPart, Unmarked, Committed, Opening, Marking, Switching,
         Looping, Closing, Working, Dropping, Undoing
<1>4. CASE MarkVersion
  BY <1>4
     DEF MarkVersion, Run, Set, SameFiles, materials, Constant, history, Typed,
         TypeOK, Shells, JournalPart, Unmarked, Committed, Opening, Marking,
         Switching, Looping, Closing, Working, Dropping, Undoing
<1>5. CASE PublishVersion
  BY <1>5
     DEF PublishVersion, Run, materials, Constant, history, Typed, TypeOK, Shells,
         JournalPart, Unmarked, Committed, Opening, Marking, Switching, Looping,
         Closing, Working, Dropping, Undoing
<1>6. CASE LinkActive
  BY <1>6
     DEF LinkActive, Run, materials, Constant, history, Typed, TypeOK, Shells,
         JournalPart, Unmarked, Committed, Opening, Marking, Switching, Looping,
         Closing, Working, Dropping, Undoing
<1>7. CASE MarkDetached
  BY <1>7
     DEF MarkDetached, Run, Set, SameFiles, materials, Constant, history, Typed,
         TypeOK, Shells, JournalPart, Unmarked, Committed, Opening, Marking,
         Switching, Looping, Closing, Working, Dropping, Undoing
<1>8. CASE Detach
  BY <1>8
     DEF Detach, Run, Put, Constant, history, Typed, TypeOK, Shells, JournalPart,
         Unmarked, Committed, Opening, Marking, Switching, Looping, Closing, Working,
         Dropping, Undoing
<1>9. CASE CheckActive
  BY <1>9
     DEF CheckActive, Goto, Set, SameFiles, materials, Constant, history, Typed,
         TypeOK, Shells, JournalPart, Unmarked, Committed, Opening, Marking,
         Switching, Looping, Closing, Working, Dropping, Undoing
<1>10. CASE Switch
  BY <1>10
     DEF Switch, Run, Put, materials, Constant, history, Typed, TypeOK, Shells,
         JournalPart, Unmarked, Committed, Opening, Marking, Switching, Looping,
         Closing, Working, Dropping, Undoing
<1>11. CASE MakeBackup
  BY <1>11
     DEF MakeBackup, Run, Constant, history, Typed, TypeOK, Shells, JournalPart,
         Unmarked, Committed, Opening, Marking, Switching, Looping, Closing, Working,
         Dropping, Undoing
<1>12. CASE CheckEntry
  BY <1>12
     DEF CheckEntry, Goto, Set, SameFiles, materials, Constant, history, Typed,
         TypeOK, Shells, JournalPart, Unmarked, Committed, Opening, Marking,
         Switching, Looping, Closing, Working, Dropping, Undoing
<1>13. CASE MoveEntry
  BY <1>13
     DEF MoveEntry, Run, Put, Constant, history, Typed, TypeOK, Shells, JournalPart,
         Unmarked, Committed, Opening, Marking, Switching, Looping, Closing, Working,
         Dropping, Undoing
<1>14. CASE LinkEntry
  BY <1>14
     DEF LinkEntry, Run, materials, Constant, history, Typed, TypeOK, Shells,
         JournalPart, Unmarked, Committed, Opening, Marking, Switching, Looping,
         Closing, Working, Dropping, Undoing
<1>15. CASE MarkEntry
  BY <1>15
     DEF MarkEntry, Run, Set, SameFiles, materials, Constant, history, Typed, TypeOK,
         Shells, JournalPart, Unmarked, Committed, Opening, Marking, Switching,
         Looping, Closing, Working, Dropping, Undoing
<1>16. CASE PublishEntry
  BY <1>16
     DEF PublishEntry, Run, Put, materials, Constant, history, Typed, TypeOK, Shells,
         JournalPart, Unmarked, Committed, Opening, Marking, Switching, Looping,
         Closing, Working, Dropping, Undoing
<1>17. CASE CheckLauncher
  BY <1>17
     DEF CheckLauncher, Goto, Set, materials, Constant, history, Typed, TypeOK,
         Shells, JournalPart, Unmarked, Committed, Opening, Marking, Switching,
         Looping, Closing, Working, Dropping, Undoing
<1>18. CASE PublishLauncher
  BY <1>18
     DEF PublishLauncher, Run, Put, materials, Constant, history, Typed, TypeOK,
         Shells, JournalPart, Unmarked, Committed, Opening, Marking, Switching,
         Looping, Closing, Working, Dropping, Undoing
<1>19. CASE Commit
  BY <1>19
     DEF Commit, Run, Constant, history, Typed, TypeOK, Shells, JournalPart, Unmarked,
         Committed, Opening, Marking, Switching, Looping, Closing, Working, Dropping,
         Undoing
<1>20. CASE MarkCommitted
  BY <1>20
     DEF MarkCommitted, Run, SameFiles, materials, Constant, history, Typed, TypeOK,
         Shells, JournalPart, Unmarked, Committed, Opening, Marking, Switching,
         Looping, Closing, Working, Dropping, Undoing
<1>21. CASE DropBackup
  BY <1>21
     DEF DropBackup, RemoveBackup, Goto, Constant, history, Mishap, NoMishap, Typed,
         TypeOK, Shells, JournalPart, Unmarked, Committed, Opening, Marking,
         Switching, Looping, Closing, Working, Dropping, Undoing
<1>22. CASE DropTransaction
  BY <1>22
     DEF DropTransaction, RemoveTransaction, Goto, Constant, history, Mishap,
         NoMishap, Typed, TypeOK, Shells, JournalPart, Unmarked, Committed, Opening,
         Marking, Switching, Looping, Closing, Working, Dropping, Undoing
<1>23. CASE Finish
  BY <1>23
     DEF Finish, Goto, SameFiles, materials, Constant, history, Typed, TypeOK, Shells,
         JournalPart, Unmarked, Committed, Opening, Marking, Switching, Looping,
         Closing, Working, Dropping, Undoing
<1>24. CASE UndoLauncher
  BY <1>24
     DEF UndoLauncher, Attempt, Skip, Put, Goto, Set, materials, Constant, history,
         Mishap, NoMishap, Typed, TypeOK, Shells, JournalPart, Unmarked, Committed,
         Opening, Marking, Switching, Looping, Closing, Working, Dropping, Undoing
<1>25. CASE UnlinkEntry
  BY <1>25
     DEF UnlinkEntry, Loop, Attempt, Skip, Put, Goto, Set, materials, Constant,
         history, Mishap, NoMishap, Typed, TypeOK, Shells, JournalPart, Unmarked,
         Committed, Opening, Marking, Switching, Looping, Closing, Working, Dropping,
         Undoing
<1>26. CASE RestoreEntry
  BY <1>26
     DEF RestoreEntry, Loop, Attempt, Skip, Put, Goto, Set, Constant, history, Mishap,
         NoMishap, Typed, TypeOK, Shells, JournalPart, Unmarked, Committed, Opening,
         Marking, Switching, Looping, Closing, Working, Dropping, Undoing
<1>27. CASE UndoActive
  BY <1>27
     DEF UndoActive, Attempt, Skip, Put, Goto, Set, materials, Constant, history,
         Mishap, NoMishap, Typed, TypeOK, Shells, JournalPart, Unmarked, Committed,
         Opening, Marking, Switching, Looping, Closing, Working, Dropping, Undoing
<1>28. CASE RestoreActive
  BY <1>28
     DEF RestoreActive, Attempt, Skip, Put, Goto, Set, Constant, history, Mishap,
         NoMishap, Typed, TypeOK, Shells, JournalPart, Unmarked, Committed, Opening,
         Marking, Switching, Looping, Closing, Working, Dropping, Undoing
<1>29. CASE UndoVersion
  BY <1>29
     DEF UndoVersion, Attempt, Skip, Goto, Set, materials, Constant, history, Mishap,
         NoMishap, Typed, TypeOK, Shells, JournalPart, Unmarked, Committed, Opening,
         Marking, Switching, Looping, Closing, Working, Dropping, Undoing
<1>30. CASE UndoBackup
  BY <1>30
     DEF UndoBackup, RemoveBackup, Skip, Goto, Set, materials, Constant, history,
         Mishap, NoMishap, Typed, TypeOK, Shells, JournalPart, Unmarked, Committed,
         Opening, Marking, Switching, Looping, Closing, Working, Dropping, Undoing
<1>31. CASE Tidy
  BY <1>31
     DEF Tidy, Run, materials, Constant, history, Mishap, NoMishap, Typed, TypeOK,
         Shells, JournalPart, Unmarked, Committed, Opening, Marking, Switching,
         Looping, Closing, Working, Dropping, Undoing
<1>32. CASE Stopped
  BY <1>32
     DEF Stopped, Goto, SameFiles, materials, Constant, history, Mishap, NoMishap,
         Typed, TypeOK, Shells, JournalPart, Unmarked, Committed, Opening, Marking,
         Switching, Looping, Closing, Working, Dropping, Undoing
<1>33. CASE Killed
  BY <1>33
     DEF Killed, Goto, SameFiles, materials, Constant, history, Mishap, NoMishap,
         Typed, TypeOK, Shells, JournalPart, Unmarked, Committed, Opening, Marking,
         Switching, Looping, Closing, Working, Dropping, Undoing
<1>34. CASE UNCHANGED vars
  BY <1>34
     DEF vars, materials, history, Typed, TypeOK, Shells, JournalPart, Unmarked,
         Committed, Opening, Marking, Switching, Looping, Closing, Working, Dropping,
         Undoing
<1> QED
  BY <1>1, <1>2, <1>3, <1>4, <1>5, <1>6, <1>7, <1>8, <1>9, <1>10, <1>11, <1>12, <1>13,
     <1>14, <1>15, <1>16, <1>17, <1>18, <1>19, <1>20, <1>21, <1>22, <1>23, <1>24,
     <1>25, <1>26, <1>27, <1>28, <1>29, <1>30, <1>31, <1>32, <1>33, <1>34
     DEF Next, Forward, Rollback, Ended

\* After the commit nothing that a run replaces is touched, but by others.
LEMMA AfterCommit ==
  ASSUME Typed, JournalPart, [Next]_vars, Committed',
         ~Commit, ~Intrude
  PROVE  Committed /\ UNCHANGED << at, versions >> /\ sh'.new = sh.new
<1>1. CASE Begin
  BY <1>1
     DEF Begin, Pending, FreshShell, Goto, materials, Typed, TypeOK, Shells, JournalPart, Unmarked,
         Committed, Opening, Marking, Switching, Looping, Closing, Working, Dropping,
         Undoing
<1>2. CASE PrepareLauncher
  BY <1>2
     DEF PrepareLauncher, Goto, Set, materials, Constant, history, Typed, TypeOK,
         Shells, JournalPart, Committed, Opening, Marking, Switching,
         Looping, Closing, Working, Dropping, Undoing
<1>3. CASE CheckTargets
  BY <1>3
     DEF CheckTargets, Goto, Set, SameFiles, materials, Constant, history, Typed,
         TypeOK, Shells, JournalPart, Committed, Opening, Marking,
         Switching, Looping, Closing, Working, Dropping, Undoing
<1>4. CASE OpenTransaction
  BY <1>4
     DEF OpenTransaction, Run, SameFiles, materials, Constant, history, Typed, TypeOK,
         Shells, JournalPart, Committed, Opening, Marking, Switching,
         Looping, Closing, Working, Dropping, Undoing
<1>5. CASE MarkVersion
  BY <1>5
     DEF MarkVersion, Run, Set, SameFiles, materials, Constant, history, Typed,
         TypeOK, Shells, JournalPart, Committed, Opening, Marking,
         Switching, Looping, Closing, Working, Dropping, Undoing
<1>6. CASE PublishVersion
  BY <1>6
     DEF PublishVersion, Run, materials, Constant, history, Typed, TypeOK, Shells,
         JournalPart, Committed, Opening, Marking, Switching, Looping,
         Closing, Working, Dropping, Undoing
<1>7. CASE LinkActive
  BY <1>7
     DEF LinkActive, Run, materials, Constant, history, Typed, TypeOK, Shells,
         JournalPart, Committed, Opening, Marking, Switching, Looping,
         Closing, Working, Dropping, Undoing
<1>8. CASE MarkDetached
  BY <1>8
     DEF MarkDetached, Run, Set, SameFiles, materials, Constant, history, Typed,
         TypeOK, Shells, JournalPart, Committed, Opening, Marking,
         Switching, Looping, Closing, Working, Dropping, Undoing
<1>9. CASE Detach
  BY <1>9
     DEF Detach, Run, Put, Constant, history, Typed, TypeOK, Shells, JournalPart,
         Committed, Opening, Marking, Switching, Looping, Closing, Working,
         Dropping, Undoing
<1>10. CASE CheckActive
  BY <1>10
     DEF CheckActive, Goto, Set, SameFiles, materials, Constant, history, Typed,
         TypeOK, Shells, JournalPart, Committed, Opening, Marking,
         Switching, Looping, Closing, Working, Dropping, Undoing
<1>11. CASE Switch
  BY <1>11
     DEF Switch, Run, Put, materials, Constant, history, Typed, TypeOK, Shells,
         JournalPart, Committed, Opening, Marking, Switching, Looping,
         Closing, Working, Dropping, Undoing
<1>12. CASE MakeBackup
  BY <1>12
     DEF MakeBackup, Run, Constant, history, Typed, TypeOK, Shells, JournalPart,
         Committed, Opening, Marking, Switching, Looping, Closing, Working,
         Dropping, Undoing
<1>13. CASE CheckEntry
  BY <1>13
     DEF CheckEntry, Goto, Set, SameFiles, materials, Constant, history, Typed,
         TypeOK, Shells, JournalPart, Committed, Opening, Marking,
         Switching, Looping, Closing, Working, Dropping, Undoing
<1>14. CASE MoveEntry
  BY <1>14
     DEF MoveEntry, Run, Put, Constant, history, Typed, TypeOK, Shells, JournalPart,
         Committed, Opening, Marking, Switching, Looping, Closing, Working,
         Dropping, Undoing
<1>15. CASE LinkEntry
  BY <1>15
     DEF LinkEntry, Run, materials, Constant, history, Typed, TypeOK, Shells,
         JournalPart, Committed, Opening, Marking, Switching, Looping,
         Closing, Working, Dropping, Undoing
<1>16. CASE MarkEntry
  BY <1>16
     DEF MarkEntry, Run, Set, SameFiles, materials, Constant, history, Typed, TypeOK,
         Shells, JournalPart, Committed, Opening, Marking, Switching,
         Looping, Closing, Working, Dropping, Undoing
<1>17. CASE PublishEntry
  BY <1>17
     DEF PublishEntry, Run, Put, materials, Constant, history, Typed, TypeOK, Shells,
         JournalPart, Committed, Opening, Marking, Switching, Looping,
         Closing, Working, Dropping, Undoing
<1>18. CASE CheckLauncher
  BY <1>18
     DEF CheckLauncher, Goto, Set, materials, Constant, history, Typed, TypeOK,
         Shells, JournalPart, Committed, Opening, Marking, Switching,
         Looping, Closing, Working, Dropping, Undoing
<1>19. CASE PublishLauncher
  BY <1>19
     DEF PublishLauncher, Run, Put, materials, Constant, history, Typed, TypeOK,
         Shells, JournalPart, Committed, Opening, Marking, Switching,
         Looping, Closing, Working, Dropping, Undoing
<1>20. CASE MarkCommitted
  BY <1>20
     DEF MarkCommitted, Run, SameFiles, materials, Constant, history, Typed, TypeOK,
         Shells, JournalPart, Committed, Opening, Marking, Switching,
         Looping, Closing, Working, Dropping, Undoing
<1>21. CASE DropBackup
  BY <1>21
     DEF DropBackup, RemoveBackup, Goto, Constant, history, Mishap, NoMishap, Typed,
         TypeOK, Shells, JournalPart, Committed, Opening, Marking,
         Switching, Looping, Closing, Working, Dropping, Undoing
<1>22. CASE DropTransaction
  BY <1>22
     DEF DropTransaction, RemoveTransaction, Goto, Constant, history, Mishap,
         NoMishap, Typed, TypeOK, Shells, JournalPart, Committed, Opening,
         Marking, Switching, Looping, Closing, Working, Dropping, Undoing
<1>23. CASE Finish
  BY <1>23
     DEF Finish, Goto, SameFiles, materials, Constant, history, Typed, TypeOK, Shells,
         JournalPart, Committed, Opening, Marking, Switching, Looping,
         Closing, Working, Dropping, Undoing
<1>24. CASE UndoLauncher
  BY <1>24
     DEF UndoLauncher, Attempt, Skip, Put, Goto, Set, materials, Constant, history,
         Mishap, NoMishap, Typed, TypeOK, Shells, JournalPart, Committed,
         Opening, Marking, Switching, Looping, Closing, Working, Dropping, Undoing
<1>25. CASE UnlinkEntry
  BY <1>25
     DEF UnlinkEntry, Loop, Attempt, Skip, Put, Goto, Set, materials, Constant,
         history, Mishap, NoMishap, Typed, TypeOK, Shells, JournalPart, Unmarked,
         Committed, Opening, Marking, Switching, Looping, Closing, Working, Dropping,
         Undoing
<1>26. CASE RestoreEntry
  BY <1>26
     DEF RestoreEntry, Loop, Attempt, Skip, Put, Goto, Set, Constant, history, Mishap,
         NoMishap, Typed, TypeOK, Shells, JournalPart, Committed, Opening,
         Marking, Switching, Looping, Closing, Working, Dropping, Undoing
<1>27. CASE UndoActive
  BY <1>27
     DEF UndoActive, Attempt, Skip, Put, Goto, Set, materials, Constant, history,
         Mishap, NoMishap, Typed, TypeOK, Shells, JournalPart, Committed,
         Opening, Marking, Switching, Looping, Closing, Working, Dropping, Undoing
<1>28. CASE RestoreActive
  BY <1>28
     DEF RestoreActive, Attempt, Skip, Put, Goto, Set, Constant, history, Mishap,
         NoMishap, Typed, TypeOK, Shells, JournalPart, Committed, Opening,
         Marking, Switching, Looping, Closing, Working, Dropping, Undoing
<1>29. CASE UndoVersion
  BY <1>29
     DEF UndoVersion, Attempt, Skip, Goto, Set, materials, Constant, history, Mishap,
         NoMishap, Typed, TypeOK, Shells, JournalPart, Committed, Opening,
         Marking, Switching, Looping, Closing, Working, Dropping, Undoing
<1>30. CASE UndoBackup
  BY <1>30
     DEF UndoBackup, RemoveBackup, Skip, Goto, Set, materials, Constant, history,
         Mishap, NoMishap, Typed, TypeOK, Shells, JournalPart, Committed,
         Opening, Marking, Switching, Looping, Closing, Working, Dropping, Undoing
<1>31. CASE UndoTransaction
  BY <1>31
     DEF UndoTransaction, RemoveTransaction, Skip, Goto, Set, materials, Constant,
         history, Mishap, NoMishap, Typed, TypeOK, Shells, JournalPart, Unmarked,
         Committed, Opening, Marking, Switching, Looping, Closing, Working, Dropping,
         Undoing
<1>32. CASE Tidy
  BY <1>32
     DEF Tidy, Run, materials, Constant, history, Mishap, NoMishap, Typed, TypeOK,
         Shells, JournalPart, Committed, Opening, Marking, Switching,
         Looping, Closing, Working, Dropping, Undoing
<1>33. CASE Stopped
  BY <1>33
     DEF Stopped, Goto, SameFiles, materials, Constant, history, Mishap, NoMishap,
         Typed, TypeOK, Shells, JournalPart, Committed, Opening, Marking,
         Switching, Looping, Closing, Working, Dropping, Undoing
<1>34. CASE Killed
  BY <1>34
     DEF Killed, Goto, SameFiles, materials, Constant, history, Mishap, NoMishap,
         Typed, TypeOK, Shells, JournalPart, Committed, Opening, Marking,
         Switching, Looping, Closing, Working, Dropping, Undoing
<1>35. CASE UNCHANGED vars
  BY <1>35
     DEF vars, materials, history, Typed, TypeOK, Shells, JournalPart, Unmarked,
         Committed, Opening, Marking, Switching, Looping, Closing, Working, Dropping,
         Undoing
<1> QED
  BY <1>1, <1>2, <1>3, <1>4, <1>5, <1>6, <1>7, <1>8, <1>9, <1>10, <1>11, <1>12, <1>13,
     <1>14, <1>15, <1>16, <1>17, <1>18, <1>19, <1>20, <1>21, <1>22, <1>23, <1>24,
     <1>25, <1>26, <1>27, <1>28, <1>29, <1>30, <1>31, <1>32, <1>33, <1>34, <1>35
     DEF Next, Forward, Rollback, Ended


\* The machine is as it stood at first.
LEMMA FormerInit == Init => FormerPart
BY DEF Init, FormerPart, Former

\* Without a journal and a commit the machine is wholly the former one.
LEMMA FormerStep ==
  ASSUME Typed, JournalPart, VersionPart, ActivePart, EntryPart, LauncherPart, FormerPart,
         [Next]_vars
  PROVE  FormerPart'
<1> SUFFICES ASSUME txn' = "none", ~sh'.committed PROVE Former'
  BY DEF FormerPart
<1>1. CASE Begin
  BY <1>1 DEF Begin, Former
<1>2. CASE Intrude
  <2>1. /\ UNCHANGED << txn, sh, before, kept, versions >>
        /\ \A p \in Places : at'[p] = at[p] \/ (at[p] = None /\ at'[p] \in Foreign)
    BY <1>2 DEF Intrude, Put, Constant, history, materials, Foreign, Typed, TypeOK
  <2>2. Former
    BY <2>1 DEF FormerPart
  <2> QED
    BY <2>1, <2>2, NoneAssumption DEF Former, Foreign, Unrecorded
<1>3. CASE UndoTransaction /\ ~sh.failed /\ txn # "none"
  <2>1. /\ pc = "undo_transaction" /\ UNCHANGED << at, versions, before, kept, sh >>
    BY <1>3, NoneAssumption
       DEF UndoTransaction, RemoveTransaction, Skip, Constant, history, NoMishap, Goto, Set,
           Typed, Shells
  <2>2. ~Committed
    BY <2>1 DEF JournalPart, Undoing
  <2>3. versions = kept /\ Stands("active") /\ Stands("launcher")
    BY <1>3, <2>1, <2>2 DEF VersionPart, ActivePart, LauncherPart
  <2>4. ASSUME NEW n \in Names PROVE Stands(n) \/ (Unrecorded(n) /\ Vacant(n))
    <3>1. PICK i \in 1..3 : n = Entries[i]
      BY EntryList
    <3>2. EntryState(n, i)
      BY <2>2, <3>1, EntryList DEF EntryPart
    <3> QED
      BY <1>3, <2>1, <3>2 DEF EntryState
  <2> QED
    BY <2>1, <2>3, <2>4 DEF Former, Stands, Vacant, Unrecorded, Places
<1>4. CASE UndoTransaction /\ (sh.failed \/ txn = "none")
  <2>1. /\ txn = "none" /\ UNCHANGED << at, versions, before, kept, sh >>
    BY <1>4 DEF UndoTransaction, Skip, materials, Constant, history
  <2> QED
    BY <2>1 DEF FormerPart, Former, Unrecorded
<1>5. CASE ~Begin /\ ~Intrude /\ ~UndoTransaction
  BY <1>5, WithoutJournal DEF FormerPart, Former, Unrecorded
<1> QED
  BY <1>1, <1>2, <1>3, <1>4, <1>5

\* Nothing is committed at first.
LEMMA InstalledInit == Init => InstalledPart
BY DEF Init, InstalledPart, Committed, FreshShell

\* After the commit the machine is wholly the new one.
LEMMA InstalledStep ==
  ASSUME Typed, JournalPart, VersionPart, ActivePart, EntryPart, LauncherPart, InstalledPart,
         [Next]_vars
  PROVE  InstalledPart'
<1> SUFFICES ASSUME Committed' PROVE Installed'
  BY DEF InstalledPart
<1>1. CASE Commit
  <2>1. pc = "commit" /\ UNCHANGED << at, versions, sh >>
    BY <1>1 DEF Commit, Run
  <2>2. ~Committed
    BY <2>1 DEF JournalPart, Committed, Working, Closing
  <2>3. at["active"] = sh.new /\ sh.new \in versions /\ at["launcher"] = "file"
    BY <2>1, <2>2
       DEF VersionPart, ActivePart, LauncherPart, Working, Closing, Marking, Switching
  <2>4. ASSUME NEW n \in Names PROVE at[n] = "managed"
    <3>1. PICK i \in 1..3 : n = Entries[i]
      BY EntryList
    <3>2. EntryState(n, i)
      BY <2>2, <3>1, EntryList DEF EntryPart
    <3> QED
      BY <2>1, <3>2 DEF EntryState, Closing
  <2> QED
    BY <2>1, <2>3, <2>4 DEF Installed
<1>2. CASE Intrude
  <2>1. /\ UNCHANGED << txn, sh, versions >>
        /\ \A p \in Places : at'[p] = at[p] \/ at[p] = None
    BY <1>2 DEF Intrude, Put, Constant, history, materials, Typed, TypeOK
  <2>2. Installed
    BY <2>1 DEF InstalledPart, Committed
  <2> QED
    BY <2>1, <2>2, NoneAssumption DEF Installed, Places, Typed, TypeOK
<1>3. CASE ~Commit /\ ~Intrude
  BY <1>3, AfterCommit DEF InstalledPart, Installed
<1> QED
  BY <1>1, <1>2, <1>3


-----------------------------------------------------------------------------
(* The theorems.                                                           *)

\* What a run has kept, it has kept of the places where it stood or in the
\* transaction and backup directories.
LEMMA KeptByParts == VersionPart /\ ActivePart /\ EntryPart => FormerKept
<1> SUFFICES ASSUME EntryPart, ~Committed, NEW n \in Names, before[n] # None
             PROVE  before[n] \in {at[n], backup[n]} \/ Unrecorded(n)
  BY DEF FormerKept, VersionPart, ActivePart, HadActive
<1>1. PICK i \in 1..3 : n = Entries[i]
  BY EntryList
<1>2. EntryKept(n)
  BY <1>1, EntryList DEF EntryPart, EntryState
<1> QED
  BY <1>2 DEF EntryKept

\* The initial states satisfy the inductive invariant.
LEMMA IInvInit == Init => IInv
BY TypedInit, JournalInit, VersionInit, ActiveInit, EntryInit, LauncherInit, FormerInit,
   InstalledInit
   DEF IInv

\* Every command of a run and of its rollback, a failure, a kill and another
\* program's doing preserve the inductive invariant.
LEMMA IInvStep == IInv /\ [Next]_vars => IInv'
BY TypedStep, JournalStep, VersionStep, ActiveStep, EntryPartStep, LauncherStep, FormerStep,
   InstalledStep
   DEF IInv

\* The inductive invariant: what stands, what the recovery materials hold and
\* what the shell's variables say agree at every command (install.sh).
THEOREM InstallerInvariant == Spec => []IInv
BY IInvInit, IInvStep, PTL DEF Spec

\* The machine, the recovery materials and the shell's variables keep their
\* types, and the loop stays within the three entries.
THEOREM InstallerTypeCorrect == Spec => []TypeOK
<1>1. IInv => TypeOK
  BY DEF IInv, Typed
<1> QED
  BY <1>1, InstallerInvariant, PTL

\* Until a run commits, the former version, the former link active and every
\* former entry that rollback has recorded stand or are in the recovery
\* materials, wherever the run or its rollback stopped (rollback).
THEOREM FormerIsKept == Spec => []FormerKept
<1>1. IInv => FormerKept
  BY KeptByParts DEF IInv
<1> QED
  BY <1>1, InstallerInvariant, PTL

\* When a next run would not refuse for recovery materials, the machine has
\* wholly the new installation or wholly the former one (finish, rollback).
THEOREM AllOrNothingHolds == Spec => []AllOrNothing
<1>1. IInv => AllOrNothing
  BY DEF IInv, FormerPart, InstalledPart, AllOrNothing, Pending, Committed
<1> QED
  BY <1>1, InstallerInvariant, PTL
=============================================================================
