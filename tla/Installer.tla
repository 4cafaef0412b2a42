----------------------------- MODULE Installer -----------------------------
(***************************************************************************)
(* The installation transaction of install.sh.                             *)
(*                                                                         *)
(* A verified bundle becomes a version directory, the link active moves to *)
(* it, the three entries in the binary directory become links through      *)
(* active, the launcher configuration is created if there is none, and the *)
(* journal records the commit.  A command that fails or a signal ends the  *)
(* script through the trap finish, which rolls back what the variables of  *)
(* the shell say was done; a second signal or a kill ends it on the spot,  *)
(* and the recovery materials that remain make every later run refuse.     *)
(* One step is one command of the shell that changes the machine or one of *)
(* those variables.  The journal is read for its commit record alone: its  *)
(* other writes can only fail, which is Stopped before the next command.   *)
(***************************************************************************)
EXTENDS Integers, Sequences, FiniteSets

CONSTANTS
    Versions,     \* names of version directories
    None,
    MaxMishaps    \* failing commands, signals, kills and doings of others

ASSUME NoneAssumption == None \notin Versions \cup {"file", "link", "managed"}

\* A link to a version directory is told from the other things at a place.
ASSUME VersionsAssumption == Versions \cap {"file", "link", "managed"} = {}

ASSUME MishapsAssumption == MaxMishaps \in Nat

Entries == << "ipgw", "ipgw-meta", "ipgw-legacy" >>
Names   == {Entries[i] : i \in 1..Len(Entries)}
Places  == Names \cup {"active", "launcher"}
Temps   == {"staging", "active-next", "entry-next", "launcher-next"}

\* What may stand at a place: a regular file, a link that is not the
\* installer's, the link an entry has to active, a version for active itself.
Contents == {None, "file", "link", "managed"} \cup Versions

VARIABLES
    at,        \* what stands at each place
    versions,  \* version directories
    temps,     \* temporary paths that exist
    txn,       \* the transaction directory: "none", "open", "committed"
    prior,     \* active.previous in the transaction directory
    backupDir, \* the backup directory exists
    backup,    \* its entries
    pc, idx,   \* the next command, the entry of the loop
    sh,        \* the variables of the shell that finish and rollback read
    before,    \* what stood at each place when this run began
    kept,      \* the version directories of that moment
    mishaps

materials == << txn, prior, backupDir, backup >>
history   == << before, kept >>
vars == << at, versions, temps, materials, pc, idx, sh, history, mishaps >>

NoBackup == [n \in Names |-> None]

FreshShell(v) ==
    [new |-> v, hadActive |-> FALSE, version |-> FALSE, detached |-> FALSE,
     switched |-> FALSE, backed |-> {}, installed |-> {}, tmp |-> FALSE,
     launcher |-> FALSE, committed |-> FALSE, failed |-> FALSE]

\* A machine without an installation, with the current one, or with entries
\* of another origin that the installer accepts.
Init ==
    /\ \E v \in Versions :
         /\ versions \in {{}, {v}}
         /\ at \in [Places -> {None, "file", "managed"} \cup versions]
    /\ at["active"] \in versions \cup {None}
    /\ at["launcher"] \in {None, "file"}
    /\ \A n \in Names : at[n] \in {None, "file"} \cup IF at["active"] = None THEN {} ELSE {"managed"}
    /\ temps = {} /\ txn = "none" /\ prior = None /\ backupDir = FALSE /\ backup = NoBackup
    /\ pc = "idle" /\ idx = 1 /\ sh = FreshShell(None)
    /\ before = at /\ kept = versions /\ mishaps = 0

Goto(label) == pc' = label
Run(label, next) == pc = label /\ pc' = next
Set(variable, value) == sh' = [sh EXCEPT ![variable] = value]
Put(place, content) == at' = [at EXCEPT ![place] = content]
Mishap == mishaps < MaxMishaps /\ mishaps' = mishaps + 1
NoMishap == mishaps' = mishaps

SameFiles == UNCHANGED << at, versions, temps, materials >>
Constant  == UNCHANGED history

-----------------------------------------------------------------------------
(* Forward.                                                                *)

\* The loop over pending_path.
Pending ==
    \/ txn # "none" \/ backupDir
    \/ temps \cap {"staging", "active-next", "entry-next"} # {}

\* Acquire and verify the bundle, then extract it into the stage.
Begin ==
    /\ pc = "idle" /\ ~Pending
    /\ \E v \in Versions \ (versions \cup {at["active"]}) : sh' = FreshShell(v)
    /\ temps' = temps \cup {"staging"}
    /\ Goto("launcher") /\ idx' = 1
    /\ before' = at /\ kept' = versions
    /\ UNCHANGED << at, versions, materials, mishaps >>

PrepareLauncher ==
    /\ pc = "launcher"
    /\ \/ /\ "launcher-next" \in temps \/ at["launcher"] = "link"
          /\ Goto("finish") /\ UNCHANGED << sh, temps >>
       \/ /\ "launcher-next" \notin temps /\ at["launcher"] = "file"
          /\ Goto("check") /\ UNCHANGED << sh, temps >>
       \/ /\ "launcher-next" \notin temps /\ at["launcher"] = None
          /\ Goto("check") /\ Set("tmp", TRUE) /\ temps' = temps \cup {"launcher-next"}
    /\ Constant /\ UNCHANGED << at, versions, materials, idx, mishaps >>

CheckTargets ==
    /\ pc = "check"
    /\ \/ /\ at["active"] \in {"file", "link"} \/ \E n \in Names : at[n] = "link"
          /\ Goto("finish") /\ UNCHANGED sh
       \/ /\ at["active"] \in Versions \cup {None} /\ \A n \in Names : at[n] # "link"
          /\ Goto("open") /\ Set("hadActive", at["active"] # None)
    /\ Constant /\ SameFiles /\ UNCHANGED << idx, mishaps >>

OpenTransaction ==
    /\ Run("open", "mark_version") /\ txn' = "open"
    /\ Constant /\ UNCHANGED << at, versions, temps, prior, backupDir, backup, idx, sh, mishaps >>

MarkVersion ==
    /\ Run("mark_version", "publish_version") /\ Set("version", TRUE)
    /\ Constant /\ SameFiles /\ UNCHANGED << idx, mishaps >>

PublishVersion ==
    /\ Run("publish_version", "link_active")
    /\ versions' = versions \cup {sh.new} /\ temps' = temps \ {"staging"}
    /\ Constant /\ UNCHANGED << at, materials, idx, sh, mishaps >>

LinkActive ==
    /\ Run("link_active", IF sh.hadActive THEN "mark_detached" ELSE "check_active")
    /\ temps' = temps \cup {"active-next"}
    /\ Constant /\ UNCHANGED << at, versions, materials, idx, sh, mishaps >>

MarkDetached ==
    /\ Run("mark_detached", "detach") /\ Set("detached", TRUE)
    /\ Constant /\ SameFiles /\ UNCHANGED << idx, mishaps >>

Detach ==
    /\ Run("detach", "check_active")
    /\ prior' = at["active"] /\ Put("active", None)
    /\ Constant /\ UNCHANGED << versions, temps, txn, backupDir, backup, idx, sh, mishaps >>

CheckActive ==
    /\ pc = "check_active"
    /\ \/ at["active"] # None /\ Goto("finish") /\ UNCHANGED sh
       \/ at["active"] = None /\ Goto("switch") /\ Set("switched", TRUE)
    /\ Constant /\ SameFiles /\ UNCHANGED << idx, mishaps >>

Switch ==
    /\ Run("switch", "make_backup")
    /\ Put("active", sh.new) /\ temps' = temps \ {"active-next"}
    /\ Constant /\ UNCHANGED << versions, materials, idx, sh, mishaps >>

MakeBackup ==
    /\ Run("make_backup", "entry") /\ backupDir' = TRUE /\ idx' = 1
    /\ Constant /\ UNCHANGED << at, versions, temps, txn, prior, backup, sh, mishaps >>

Entry == Entries[idx]

CheckEntry ==
    /\ pc = "entry"
    /\ \/ at[Entry] = None /\ Goto("link_entry") /\ UNCHANGED sh
       \/ at[Entry] = "link" /\ Goto("finish") /\ UNCHANGED sh
       \/ at[Entry] \in {"file", "managed"} /\ Goto("move_entry") /\ Set("backed", sh.backed \cup {Entry})
    /\ Constant /\ SameFiles /\ UNCHANGED << idx, mishaps >>

MoveEntry ==
    /\ Run("move_entry", "link_entry")
    /\ backup' = [backup EXCEPT ![Entry] = at[Entry]] /\ Put(Entry, None)
    /\ Constant /\ UNCHANGED << versions, temps, txn, prior, backupDir, idx, sh, mishaps >>

LinkEntry ==
    /\ Run("link_entry", "mark_entry") /\ temps' = temps \cup {"entry-next"}
    /\ Constant /\ UNCHANGED << at, versions, materials, idx, sh, mishaps >>

MarkEntry ==
    /\ Run("mark_entry", "publish_entry") /\ Set("installed", sh.installed \cup {Entry})
    /\ Constant /\ SameFiles /\ UNCHANGED << idx, mishaps >>

PublishEntry ==
    /\ Run("publish_entry", IF idx < Len(Entries) THEN "entry" ELSE "check_launcher")
    /\ idx' = IF idx < Len(Entries) THEN idx + 1 ELSE idx
    /\ Put(Entry, "managed") /\ temps' = temps \ {"entry-next"}
    /\ Constant /\ UNCHANGED << versions, materials, sh, mishaps >>

CheckLauncher ==
    /\ pc = "check_launcher"
    /\ \/ at["launcher"] = "link" /\ Goto("finish") /\ UNCHANGED << sh, temps >>
       \/ ~sh.tmp /\ at["launcher"] # "link" /\ Goto("commit") /\ UNCHANGED << sh, temps >>
       \/ /\ sh.tmp /\ at["launcher"] = "file" /\ Goto("commit")
          /\ temps' = temps \ {"launcher-next"} /\ UNCHANGED sh
       \/ /\ sh.tmp /\ at["launcher"] = None /\ Goto("publish_launcher")
          /\ Set("launcher", TRUE) /\ UNCHANGED temps
    /\ Constant /\ UNCHANGED << at, versions, materials, idx, mishaps >>

PublishLauncher ==
    /\ Run("publish_launcher", "commit")
    /\ Put("launcher", "file") /\ temps' = temps \ {"launcher-next"}
    /\ Constant /\ UNCHANGED << versions, materials, idx, sh, mishaps >>

Commit ==
    /\ Run("commit", "mark_committed") /\ txn' = "committed"
    /\ Constant /\ UNCHANGED << at, versions, temps, prior, backupDir, backup, idx, sh, mishaps >>

MarkCommitted ==
    /\ Run("mark_committed", "drop_backup")
    /\ sh' = [sh EXCEPT !.committed = TRUE, !.version = FALSE]
    /\ Constant /\ SameFiles /\ UNCHANGED << idx, mishaps >>

\* rm -rf: everything goes, or some of it does and the command fails.
RemoveBackup(next, failing) ==
    /\ \/ backupDir' = FALSE /\ backup' = NoBackup /\ next
       \/ /\ \E gone \in SUBSET Names : backup' = [n \in Names |-> IF n \in gone THEN None ELSE backup[n]]
          /\ Mishap /\ UNCHANGED backupDir /\ failing
    /\ UNCHANGED << txn, prior >>

RemoveTransaction(next, failing) ==
    /\ \/ txn' = "none" /\ prior' = None /\ next
       \/ prior' \in {prior, None} /\ txn' \in {txn, "open"} /\ Mishap /\ failing
    /\ UNCHANGED << backupDir, backup >>

DropBackup ==
    /\ pc = "drop_backup"
    /\ RemoveBackup(Goto("drop_transaction") /\ NoMishap, Goto("finish"))
    /\ Constant /\ UNCHANGED << at, versions, temps, idx, sh >>

DropTransaction ==
    /\ pc = "drop_transaction"
    /\ RemoveTransaction(Goto("finish") /\ NoMishap, Goto("finish"))
    /\ Constant /\ UNCHANGED << at, versions, temps, idx, sh >>

-----------------------------------------------------------------------------
(* The trap.                                                               *)

Finish ==
    /\ pc = "finish"
    /\ Goto(IF sh.committed \/ txn = "committed" THEN "tidy" ELSE "undo_launcher")
    /\ Constant /\ SameFiles /\ UNCHANGED << idx, sh, mishaps >>

\* One removal or move of rollback: it is done, or it fails, or it is refused
\* because the machine is not as the shell's variables say.
Attempt(expected, done, undone, next) ==
    /\ \/ expected /\ done /\ NoMishap /\ UNCHANGED sh
       \/ expected /\ undone /\ Mishap /\ Set("failed", TRUE)
       \/ ~expected /\ undone /\ NoMishap /\ Set("failed", TRUE)
    /\ Goto(next)

Skip(unless, next) == ~unless /\ Goto(next) /\ NoMishap /\ UNCHANGED sh

UndoLauncher ==
    LET next == IF sh.installed = {} THEN "undo_active" ELSE "unlink_entries"
    IN  /\ pc = "undo_launcher"
        /\ \/ /\ sh.launcher
              /\ Attempt(at["launcher"] = "file", Put("launcher", None), UNCHANGED at, next)
           \/ Skip(sh.launcher, next) /\ UNCHANGED at
        /\ idx' = Len(Entries)
        /\ Constant /\ UNCHANGED << versions, temps, materials >>

\* The two loops over the entries, last entry first.
Loop(label, next) ==
    /\ pc = label
    /\ idx' = IF idx > 1 THEN idx - 1 ELSE Len(Entries)

UnlinkEntry ==
    LET next == IF idx > 1 THEN "unlink_entries" ELSE "restore_entries"
    IN  /\ Loop("unlink_entries", next)
        /\ \/ /\ Entry \in sh.installed /\ at[Entry] # None
              /\ Attempt(at[Entry] = "managed", Put(Entry, None), UNCHANGED at, next)
           \/ Skip(Entry \in sh.installed /\ at[Entry] # None, next) /\ UNCHANGED at
        /\ Constant /\ UNCHANGED << versions, temps, materials >>

RestoreEntry ==
    LET next == IF idx > 1 THEN "restore_entries" ELSE "undo_active"
    IN  /\ Loop("restore_entries", next)
        /\ \/ /\ Entry \in sh.backed
              /\ Attempt(at[Entry] = None /\ backup[Entry] # None,
                         Put(Entry, backup[Entry]) /\ backup' = [backup EXCEPT ![Entry] = None],
                         UNCHANGED << at, backup >>, next)
           \/ Skip(Entry \in sh.backed, next) /\ UNCHANGED << at, backup >>
        /\ Constant /\ UNCHANGED << versions, temps, txn, prior, backupDir >>

UndoActive ==
    LET mine == ~sh.failed /\ sh.switched
    IN  /\ pc = "undo_active"
        /\ \/ /\ mine
              /\ Attempt(at["active"] = sh.new, Put("active", None), UNCHANGED at, "restore_active")
           \/ Skip(mine, "restore_active") /\ UNCHANGED at
        /\ Constant /\ UNCHANGED << versions, temps, materials, idx >>

RestoreActive ==
    LET mine == ~sh.failed /\ sh.detached
    IN  /\ pc = "restore_active"
        /\ \/ /\ mine
              /\ Attempt(at["active"] = None /\ prior # None,
                         Put("active", prior) /\ prior' = None,
                         UNCHANGED << at, prior >>, "undo_version")
           \/ Skip(mine, "undo_version") /\ UNCHANGED << at, prior >>
        /\ Constant /\ UNCHANGED << versions, temps, txn, backupDir, backup, idx >>

UndoVersion ==
    LET mine == ~sh.failed /\ sh.version
    IN  /\ pc = "undo_version"
        /\ \/ /\ mine
              /\ Attempt(sh.new \in versions, versions' = versions \ {sh.new},
                         UNCHANGED versions, "undo_backup")
           \/ Skip(mine, "undo_backup") /\ UNCHANGED versions
        /\ Constant /\ UNCHANGED << at, temps, materials, idx >>

(* Mutant: the backup is removed although the rollback has failed.         *)
UndoBackup_Always ==
    /\ pc = "undo_backup"
    /\ \/ backupDir /\ RemoveBackup(NoMishap /\ UNCHANGED sh, Set("failed", TRUE)) /\ Goto("undo_transaction")
       \/ Skip(backupDir, "undo_transaction") /\ UNCHANGED materials
    /\ Constant /\ UNCHANGED << at, versions, temps, idx >>

UndoBackup ==
    LET mine == ~sh.failed /\ backupDir
    IN  /\ pc = "undo_backup"
        /\ \/ mine /\ RemoveBackup(NoMishap /\ UNCHANGED sh, Set("failed", TRUE)) /\ Goto("undo_transaction")
           \/ Skip(mine, "undo_transaction") /\ UNCHANGED materials
        /\ Constant /\ UNCHANGED << at, versions, temps, idx >>

(* Mutant: the transaction directory is removed although the rollback has  *)
(* failed.                                                                 *)
UndoTransaction_Always ==
    /\ pc = "undo_transaction"
    /\ \/ txn # "none" /\ RemoveTransaction(NoMishap /\ UNCHANGED sh, Set("failed", TRUE)) /\ Goto("tidy")
       \/ Skip(txn # "none", "tidy") /\ UNCHANGED materials
    /\ Constant /\ UNCHANGED << at, versions, temps, idx >>

UndoTransaction ==
    LET mine == ~sh.failed /\ txn # "none"
    IN  /\ pc = "undo_transaction"
        /\ \/ mine /\ RemoveTransaction(NoMishap /\ UNCHANGED sh, Set("failed", TRUE)) /\ Goto("tidy")
           \/ Skip(mine, "tidy") /\ UNCHANGED materials
        /\ Constant /\ UNCHANGED << at, versions, temps, idx >>

\* The stage of a failed rollback is kept, and a launcher.next that is not
\* this run's.
Tidy ==
    LET mine == (temps \ IF sh.failed THEN {"staging"} ELSE {})
                       \ IF sh.tmp THEN {} ELSE {"launcher-next"}
    IN  /\ Run("tidy", "idle")
        /\ \/ temps' = temps \ mine /\ NoMishap
           \/ \E gone \in SUBSET mine : gone # mine /\ temps' = temps \ gone /\ Mishap
        /\ Constant /\ UNCHANGED << at, versions, materials, idx, sh >>

-----------------------------------------------------------------------------
(* The surroundings.                                                       *)

Undoing == {"finish", "undo_launcher", "unlink_entries", "restore_entries", "undo_active",
            "restore_active", "undo_version", "undo_backup", "undo_transaction", "tidy"}

\* A command fails (set -e) or a signal is taken between two commands.
Stopped ==
    /\ pc \notin Undoing \cup {"idle"} /\ Mishap /\ Goto("finish")
    /\ Constant /\ SameFiles /\ UNCHANGED << idx, sh >>

\* A kill, the end of the machine, or a signal while the trap runs.
Killed ==
    /\ pc # "idle" /\ Mishap /\ Goto("idle")
    /\ Constant /\ SameFiles /\ UNCHANGED << idx, sh >>

\* Another program puts a file or a link where nothing stands.
Intrude ==
    /\ Mishap
    /\ \E p \in Places, c \in {"file", "link"} : at[p] = None /\ Put(p, c)
    /\ Constant /\ UNCHANGED << versions, temps, materials, pc, idx, sh >>

\* Until a person has recovered, every run refuses; or all versions are used.
Ended == pc = "idle" /\ UNCHANGED vars

Forward ==
    \/ Begin \/ PrepareLauncher \/ CheckTargets \/ OpenTransaction
    \/ MarkVersion \/ PublishVersion \/ LinkActive \/ MarkDetached \/ Detach \/ CheckActive \/ Switch
    \/ MakeBackup \/ CheckEntry \/ MoveEntry \/ LinkEntry \/ MarkEntry \/ PublishEntry
    \/ CheckLauncher \/ PublishLauncher \/ Commit \/ MarkCommitted \/ DropBackup \/ DropTransaction

Rollback ==
    \/ UndoLauncher \/ UnlinkEntry \/ RestoreEntry \/ UndoActive \/ RestoreActive
    \/ UndoVersion \/ UndoBackup \/ UndoTransaction

Next == Forward \/ Finish \/ Rollback \/ Tidy \/ Stopped \/ Killed \/ Intrude \/ Ended

Spec == Init /\ [][Next]_vars

-----------------------------------------------------------------------------
TypeOK ==
    /\ at \in [Places -> Contents] /\ versions \subseteq Versions /\ temps \subseteq Temps
    /\ txn \in {"none", "open", "committed"} /\ prior \in Contents
    /\ backupDir \in BOOLEAN /\ backup \in [Names -> Contents]
    /\ idx \in 1..Len(Entries) /\ mishaps \in 0..MaxMishaps
    /\ sh.backed \subseteq Names /\ sh.installed \subseteq Names

\* The first entry has been moved to the backup directory and no entry is
\* recorded as installed yet: rollback restores none and removes the directory.
Unrecorded(n) == n \in sh.backed /\ sh.installed = {}

Committed == sh.committed \/ txn = "committed"

(* As long as the installation is not committed, whatever stood before it  *)
(* still stands or is in the recovery materials, wherever the script       *)
(* stopped, failed, or was killed, in the middle of the rollback too: the  *)
(* link active and its version directory, and every entry (rollback).  The *)
(* code does not achieve this for the entry of Unrecorded.                 *)
FormerKept ==
    ~Committed =>
        /\ kept \subseteq versions
        /\ before["active"] \in Versions => before["active"] \in {at["active"], prior}
        /\ \A n \in Names :
             before[n] # None => before[n] \in {at[n], backup[n]} \/ Unrecorded(n)

Foreign == {"file", "link"}

\* What stands is what stood, or came from outside.
Former ==
    /\ versions = kept
    /\ \A p \in Places :
         \/ at[p] = before[p]
         \/ before[p] = None /\ at[p] \in Foreign
         \/ p \in Names /\ Unrecorded(p) /\ at[p] \in Foreign \cup {None}

Installed ==
    /\ at["active"] = sh.new /\ sh.new \in versions
    /\ \A n \in Names : at[n] = "managed"
    /\ at["launcher"] = "file"

(* When no installer runs and a next one would not refuse for an           *)
(* unfinished transaction, the machine has wholly the new installation if  *)
(* the last run committed, whatever failed afterwards, and wholly the      *)
(* former one if it did not: three entries, active, version and launcher   *)
(* configuration (finish, rollback and the loop over pending paths).       *)
AllOrNothing ==
    pc = "idle" /\ ~Pending => IF sh.committed THEN Installed ELSE Former
=============================================================================
