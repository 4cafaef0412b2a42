---------------------------- MODULE ProfileStore ----------------------------
(***************************************************************************)
(* Profile commands and logins of several processes that share one Config  *)
(* file and one keyring (internal/cli profiles.go, internal/config store.go*)
(* and credentials.go, internal/app service.go).                           *)
(*                                                                         *)
(* "profile add" looks at the Config without the lock, asks for the        *)
(* password, and then under the cross-process lock stores the password     *)
(* under a fresh reference and publishes the Config; what a failed publish *)
(* left in the keyring is deleted after the lock has been released.        *)
(* "profile remove" leaves the keyring alone.  A login loads the Config    *)
(* without the lock and reads the password much later, when the gateway    *)
(* asks for it.  Any file or keyring operation may fail, and a process may *)
(* die between any two steps, which releases the lock.                     *)
(*                                                                         *)
(* The migration journal that makes Update refuse to run is the subject of *)
(* MigrationTxn; here no migration is pending.                             *)
(***************************************************************************)
EXTENDS ProfileTypes

CONSTANTS
    MaxFaults,   \* failing file or keyring operations in a behaviour
    MaxCrashes   \* processes that die in a behaviour

ASSUME BoundsAssumption == MaxFaults \in Nat /\ MaxCrashes \in Nat

VARIABLES
    config,    \* the Config readers see
    lkg,       \* the last-known-good copy beside it
    keyring,   \* reference -> password, or None
    lock,      \* holder of the cross-process lock
    cmd,       \* the command of each process
    pc,        \* where each process is
    loaded,    \* the Config each process has loaded last
    stored,    \* keyringStored of each addition
    applied,   \* the commands whose Config has become visible (a ghost)
    got,       \* the password a login has read
    result,    \* what each command reported
    faults, crashes

shared == << config, lkg, keyring, lock >>
local  == << pc, loaded, stored, applied, got, result >>
vars   == << shared, cmd, local, faults, crashes >>

Init ==
    /\ config = EmptyConfig
    /\ lkg = EmptyConfig
    /\ keyring = [r \in Refs |-> None]
    /\ lock = None
    /\ cmd \in [Procs -> Commands]
    /\ pc = [p \in Procs |-> "start"]
    /\ loaded = [p \in Procs |-> EmptyConfig]
    /\ stored = [p \in Procs |-> FALSE]
    /\ applied = [p \in Procs |-> FALSE]
    /\ got = [p \in Procs |-> None]
    /\ result = [p \in Procs |-> "none"]
    /\ faults = 0
    /\ crashes = 0

-----------------------------------------------------------------------------
Goto(p, where) == pc' = [pc EXCEPT ![p] = where]

Report(p, what) == result' = [result EXCEPT ![p] = what] /\ Goto(p, "done")

(* Leave the critical section; the rest of the command runs without lock.  *)
Unlock(p) == lock' = None

Fail == faults < MaxFaults /\ faults' = faults + 1
Fine == UNCHANGED faults

IsAdd(p) == cmd[p].kind = "add"

(* Every command begins with a look at the Config; a removal looks only    *)
(* under the lock.                                                         *)
LoadFirst(p) ==
    /\ pc[p] = "start" /\ cmd[p].kind # "remove"
    /\ \/ /\ Fine
          /\ loaded' = [loaded EXCEPT ![p] = config]
          /\ IF Refuses(config, cmd[p])
             THEN Report(p, "failed")
             ELSE IF cmd[p].kind \in {"show", "query"}
                  THEN Report(p, "ok")
                  ELSE /\ UNCHANGED result
                       /\ Goto(p, IF IsAdd(p) THEN "prompt" ELSE "challenged")
       \/ /\ Fail
          /\ Report(p, "failed")
          /\ UNCHANGED loaded
    /\ UNCHANGED << shared, cmd, stored, applied, got, crashes >>

(* The password is asked for without the lock; the user may give up.       *)
PromptPassword(p) ==
    /\ pc[p] = "prompt"
    /\ \/ Goto(p, "waiting") /\ UNCHANGED result
       \/ cmd[p].ref # None /\ Report(p, "failed")
    /\ UNCHANGED << shared, cmd, loaded, stored, applied, got, faults, crashes >>

(* withMutationLock; a removal comes here directly.                        *)
Lock(p) ==
    /\ pc[p] = IF cmd[p].kind = "remove" THEN "start" ELSE "waiting"
    /\ lock = None
    /\ lock' = p
    /\ Goto(p, "locked")
    /\ UNCHANGED << config, lkg, keyring, cmd, loaded, stored, applied, got, result, faults, crashes >>

(* Mutant: the Config of the first look is used under the lock.            *)
LoadLocked_Mutant(p) ==
    /\ pc[p] = "locked"
    /\ IF Admits(loaded[p], cmd[p])
       THEN /\ Goto(p, IF IsAdd(p) /\ cmd[p].ref # None THEN "fresh" ELSE "preserve")
            /\ UNCHANGED << lock, result >>
       ELSE Report(p, "failed") /\ Unlock(p)
    /\ UNCHANGED << config, lkg, keyring, cmd, loaded, stored, applied, got, faults, crashes >>

(* Update loads again and the callback checks again.                       *)
LoadLocked(p) ==
    /\ pc[p] = "locked"
    /\ \/ /\ Fine
          /\ loaded' = [loaded EXCEPT ![p] = config]
          /\ IF Admits(config, cmd[p])
             THEN /\ Goto(p, IF IsAdd(p) /\ cmd[p].ref # None THEN "fresh" ELSE "preserve")
                  /\ UNCHANGED << lock, result >>
             ELSE Report(p, "failed") /\ Unlock(p)
       \/ /\ Fail
          /\ Report(p, "failed") /\ Unlock(p)
          /\ UNCHANGED loaded
    /\ UNCHANGED << config, lkg, keyring, cmd, stored, applied, got, crashes >>

-----------------------------------------------------------------------------
(* SetFreshKeyringPassword: look, store, read back.                        *)

(* Mutant: an occupied reference is overwritten.                           *)
CheckFresh_Mutant(p) ==
    /\ pc[p] = "fresh"
    /\ Goto(p, "set")
    /\ UNCHANGED << shared, cmd, loaded, stored, applied, got, result, faults, crashes >>

CheckFresh(p) ==
    /\ pc[p] = "fresh"
    /\ \/ /\ Fine /\ keyring[cmd[p].ref] = None
          /\ Goto(p, "set") /\ UNCHANGED << lock, result >>
       \/ /\ \/ Fine /\ keyring[cmd[p].ref] # None
             \/ Fail
          /\ Report(p, "failed") /\ Unlock(p)
    /\ UNCHANGED << config, lkg, keyring, cmd, loaded, stored, applied, got, crashes >>

(* Mutant: the arguments of Set are swapped.                               *)
SetKey_Swapped(p) ==
    /\ pc[p] = "set"
    /\ keyring' = [keyring EXCEPT ![cmd[p].ref] = cmd[p].ref]
    /\ Goto(p, "verify")
    /\ UNCHANGED << config, lkg, lock, cmd, loaded, stored, applied, got, result, faults, crashes >>

(* Mutant: an error of Set is taken to mean that nothing was stored.       *)
SetKey_Mutant(p) ==
    /\ pc[p] = "set"
    /\ \/ /\ Fine
          /\ keyring' = [keyring EXCEPT ![cmd[p].ref] = cmd[p].user]
          /\ Goto(p, "verify") /\ UNCHANGED << lock, result >>
       \/ /\ Fail
          /\ keyring' \in {keyring, [keyring EXCEPT ![cmd[p].ref] = cmd[p].user]}
          /\ Report(p, "failed") /\ Unlock(p)
    /\ UNCHANGED << config, lkg, cmd, loaded, stored, applied, got, crashes >>

(* A backend may store the password and still report an error.             *)
SetKey(p) ==
    /\ pc[p] = "set"
    /\ \/ /\ Fine
          /\ keyring' = [keyring EXCEPT ![cmd[p].ref] = cmd[p].user]
          /\ Goto(p, "verify")
       \/ /\ Fail
          /\ keyring' \in {keyring, [keyring EXCEPT ![cmd[p].ref] = cmd[p].user]}
          /\ Goto(p, "compensate")
    /\ UNCHANGED << config, lkg, lock, cmd, loaded, stored, applied, got, result, crashes >>

VerifyKey(p) ==
    /\ pc[p] = "verify"
    /\ \/ /\ Fine /\ keyring[cmd[p].ref] = cmd[p].user
          /\ stored' = [stored EXCEPT ![p] = TRUE]
          /\ Goto(p, "preserve")
       \/ /\ Fail \/ (Fine /\ keyring[cmd[p].ref] # cmd[p].user)
          /\ Goto(p, "compensate") /\ UNCHANGED stored
    /\ UNCHANGED << shared, cmd, loaded, applied, got, result, crashes >>

(* The uncertain entry is deleted while the lock is still held.            *)
Compensate(p) ==
    /\ pc[p] = "compensate"
    /\ \/ /\ Fine
          /\ keyring' = [keyring EXCEPT ![cmd[p].ref] = None]
          /\ Report(p, "failed")
       \/ /\ Fail
          /\ UNCHANGED keyring
          /\ Report(p, "cleanup_incomplete")
    /\ Unlock(p)
    /\ UNCHANGED << config, lkg, cmd, loaded, stored, applied, got, crashes >>

-----------------------------------------------------------------------------
(* locked.save: an invalid Config is refused; the copy of the old Config   *)
(* is replaced first, then the Config itself, and only the synchronisation *)
(* of the directory after that leaves the outcome uncertain.               *)

Abandon(p) ==
    /\ IF stored[p] THEN Goto(p, "cleanup") /\ UNCHANGED result ELSE Report(p, "failed")
    /\ Unlock(p)

PreserveOld(p) ==
    /\ pc[p] = "preserve"
    /\ \/ /\ Fine /\ Valid(Updated(loaded[p], cmd[p]))
          /\ lkg' = config
          /\ Goto(p, "replace") /\ UNCHANGED << lock, result >>
       \/ /\ Fail \/ (Fine /\ ~Valid(Updated(loaded[p], cmd[p])))
          /\ lkg' \in {lkg, config}
          /\ Abandon(p)
    /\ UNCHANGED << config, keyring, cmd, loaded, stored, applied, got, crashes >>

Replace(p) ==
    /\ pc[p] = "replace"
    /\ \/ /\ Fine
          /\ config' = Updated(loaded[p], cmd[p])
          /\ applied' = [applied EXCEPT ![p] = TRUE]
          /\ Goto(p, "sync") /\ UNCHANGED << lock, result >>
       \/ /\ Fail
          /\ UNCHANGED << config, applied >>
          /\ Abandon(p)
    /\ UNCHANGED << lkg, keyring, cmd, loaded, stored, got, crashes >>

(* Mutant: an unknown outcome is cleaned up like a failure.                *)
SyncDirectory_Mutant(p) ==
    /\ pc[p] = "sync"
    /\ \/ Fine /\ Report(p, "ok") /\ Unlock(p)
       \/ Fail /\ Abandon(p)
    /\ UNCHANGED << config, lkg, keyring, cmd, loaded, stored, applied, got, crashes >>

SyncDirectory(p) ==
    /\ pc[p] = "sync"
    /\ \/ Fine /\ Report(p, "ok")
       \/ Fail /\ Report(p, "durability_unknown")
    /\ Unlock(p)
    /\ UNCHANGED << config, lkg, keyring, cmd, loaded, stored, applied, got, crashes >>

(* resolveProfileCommitError: after the lock has been released.            *)
Cleanup(p) ==
    /\ pc[p] = "cleanup"
    /\ \/ /\ Fine
          /\ keyring' = [keyring EXCEPT ![cmd[p].ref] = None]
          /\ Report(p, "failed")
       \/ /\ Fail
          /\ UNCHANGED keyring
          /\ Report(p, "cleanup_incomplete")
    /\ UNCHANGED << config, lkg, lock, cmd, loaded, stored, applied, got, crashes >>

(* The gateway has asked for the password: only now is it read, from the   *)
(* profile resolved long before.                                           *)
Target(p) == Resolve(loaded[p], cmd[p].name, cmd[p].user)

ReadPassword(p) ==
    /\ pc[p] = "challenged"
    /\ \/ /\ Fine /\ Target(p).ref = None
          /\ got' = [got EXCEPT ![p] = Target(p).user]
          /\ Report(p, "ok")
       \/ /\ Fine /\ Target(p).ref # None
          /\ got' = [got EXCEPT ![p] = keyring[Target(p).ref]]
          /\ Report(p, IF keyring[Target(p).ref] = None THEN "no_password" ELSE "ok")
       \/ /\ Fail /\ UNCHANGED got
          /\ Report(p, "failed")
    /\ UNCHANGED << shared, cmd, loaded, stored, applied, crashes >>

(* Already online, or the session check refuses: no password is read.      *)
NoChallenge(p) ==
    /\ pc[p] = "challenged"
    /\ Report(p, "ok")
    /\ UNCHANGED << shared, cmd, loaded, stored, applied, got, faults, crashes >>

Crash(p) ==
    /\ pc[p] # "done" /\ crashes < MaxCrashes
    /\ crashes' = crashes + 1
    /\ Report(p, "crashed")
    /\ lock' = IF lock = p THEN None ELSE lock
    /\ UNCHANGED << config, lkg, keyring, cmd, loaded, stored, applied, got, faults >>

ProcStep(p) ==
    \/ LoadFirst(p) \/ PromptPassword(p) \/ Lock(p) \/ LoadLocked(p)
    \/ CheckFresh(p) \/ SetKey(p) \/ VerifyKey(p) \/ Compensate(p)
    \/ PreserveOld(p) \/ Replace(p) \/ SyncDirectory(p) \/ Cleanup(p) \/ ReadPassword(p) \/ NoChallenge(p)

Ended == (\A p \in Procs : pc[p] = "done") /\ UNCHANGED vars

Next == (\E p \in Procs : ProcStep(p) \/ Crash(p)) \/ Ended

Spec == Init /\ [][Next]_vars
-----------------------------------------------------------------------------
TypeOK ==
    /\ config \in Configs /\ lkg \in Configs
    /\ keyring \in [Refs -> Users \cup {None}]
    /\ lock \in Procs \cup {None}
    /\ cmd \in [Procs -> Commands]
    /\ pc \in [Procs -> {"start", "prompt", "challenged", "waiting", "locked", "fresh", "set",
                        "verify", "compensate", "preserve", "replace", "sync", "cleanup", "done"}]
    /\ loaded \in [Procs -> Configs]
    /\ stored \in [Procs -> BOOLEAN] /\ applied \in [Procs -> BOOLEAN]
    /\ got \in [Procs -> Users \cup {None}]
    /\ result \in [Procs -> {"none", "ok", "failed", "no_password", "durability_unknown",
                            "cleanup_incomplete", "crashed"}]
    /\ faults \in 0..MaxFaults /\ crashes \in 0..MaxCrashes

(* A reader that loads without the lock, at any moment and whatever failed *)
(* or died before, finds a Config it accepts in which every keyring        *)
(* profile has its own user's password behind its reference; so does one   *)
(* who falls back on the last-known-good copy.  (profiles.go stores the    *)
(* password before the Config is published, and keeps it when the outcome  *)
(* of the publication is unknown.)                                         *)
PublishedProfilesHavePasswords ==
    \A c \in {config, lkg} :
        /\ Valid(c)
        /\ \A n \in Names :
               Exists(c, n) /\ c.profiles[n].ref # None =>
                   keyring[c.profiles[n].ref] = c.profiles[n].user

(* A login reads the password long after it has resolved the profile, when *)
(* other processes may have removed the profile or reused its name or its  *)
(* reference: it still gets a password, and that of the user it logs in.   *)
LoginUsesOwnPassword ==
    \A p \in Procs :
        cmd[p].kind = "login" =>
            /\ result[p] # "no_password"
            /\ got[p] \in {None, IF result[p] = "ok" THEN Target(p).user ELSE None}

(* A password may stay in the keyring only where somebody can know of it:  *)
(* its addition took effect, is still running, died, or reported that the  *)
(* cleanup is incomplete.  One that reported a plain failure left none.    *)
SecretsAccountedFor ==
    \A r \in Refs :
        keyring[r] # None =>
            \E p \in Procs :
                /\ IsAdd(p) /\ cmd[p].ref = r /\ cmd[p].user = keyring[r]
                /\ \/ applied[p]
                   \/ pc[p] \in {"verify", "compensate", "preserve", "replace", "cleanup"}
                   \/ result[p] \in {"crashed", "cleanup_incomplete"}

(* The look without the lock, the prompt, the lock, the second look and    *)
(* the two renames of an addition or removal amount to one atomic change,  *)
(* and its report says whether the change happened (store.go Update,       *)
(* profiles.go commitProfileAddition and resolveProfileCommitError).       *)
Promise == INSTANCE AtomicProfiles WITH
    result <- [p \in Procs |-> IF result[p] = "no_password" THEN "failed" ELSE result[p]]

UpdatesAreAtomic == Promise!Spec
=============================================================================
