# TLA+ specifications of IPGW-Meta

IPGW-Meta is a command line tool and Go SDK that logs a machine in and out of a
campus network gateway, keeps profiles and credentials for it, migrates the profiles
of older tools, and installs itself in a versioned, reversible way. This directory
holds TLA+ models of its stateful parts, TLC configurations that check them on small
instances, and theorems that TLAPS proves for every value of the constants.

## Inventory

| Component | State it keeps | Operations | Hard behaviour | What makes it correct |
|---|---|---|---|---|
| Config store (`internal/config/store.go`, `store_lock_*.go`) | Config file, `.lkg` copy, lock file | `Load`, `Save`, `Update` | lock-free readers, failure between rename and directory sync | no lost update; a failed write never loses the last good Config |
| Config migration (`migration.go`, `migration_journal.go`) | journal with five phases, recovery snapshot, marker, backups, keyring entries, Config | preview, apply, recover, complete | crash or fault between any two operations; edits between preview and apply; recovery interrupted | all or nothing; no dangling reference, no orphaned secret; unknown state never overwritten |
| Credentials (`credentials.go`) | system keyring, private files, environment | resolve, set fresh, delete | keyring stores and reports failure | a reference that is used exists; a fresh one is not occupied |
| Profile commands (`internal/cli/profiles.go`) | keyring entry, then Config | add, remove, list | crash between the two writes; ambiguous commit; cleanup after unlock | no reader meets a profile whose secret was removed |
| SDK session (`auth.go`, `client.go`, `status.go`) | one token serialising session changes; gateway and CAS sessions | `Status`, `Login` (password, QR, switch), `Logout` | cancellation, lost replies, other account online, QR expiry, gateway settling slowly | never ends a session it was not asked to end; never reads credentials in a conflict; reports only verified states |
| AC-ID discovery (`auth.go`) | none beyond one walk of redirects | `discoverACID` | hostile or looping redirects | bounded; only a valid ID is used |
| CAS, Srun, JSON parsers (`internal/cas`, `internal/srun`, `internal/wirejson`) | none | pure functions | ambiguous pages | a failure page is never read as success |
| Application service, launcher (`internal/app`, `internal/launcher`) | chosen profile, executable | sequence SDK calls; exec | fallback order | the chosen mode is the configured one |
| Live gate state machine (`internal/livegate/runner.go`, `schema.go`) | steps recorded, owned-session flag, verdict | two suites, cleanup | timeouts, cancellation in cleanup, a candidate that lies or hangs | a session proven to be the run's own is released, another's is not touched; every recorded run is evidence the schema accepts |
| Live gate execution (`execute.go`, `candidate.go`, `process.go`, `stream_json.go`) | verified candidate, child process and its pipes | admit, verify before and after, run one command, read its reply | candidate replaced meanwhile; a reader that gives up before the writer | evidence names the bytes that ran; every invocation returns |
| Evidence publication (`bundle.go`, `bundle_publish_*.go`) | reservations, staging and final directories | publish, withdraw | competing publishers, failures, loss of power between directory syncs | what is visible is whole; what was reported stays; what failed is gone |
| Candidate pipeline (`internal/candidate`) | staging and output directory, seal | assemble, seal, verify, publish | files edited and directories exchanged meanwhile, two assemblers | what is published was right as a whole at one moment; nothing is replaced |
| Installers (`install.sh`, `install.ps1`) | version directory, active link, entries, launcher file, PATH, journal | install, roll back | failure at every step, unknown state | previous installation or new one, never a mixture |
| Release scripts (`scripts/`) | release metadata | promotion | out-of-order jobs | promotes only what was gated |
| CLI rendering, doc checker, dashboard stub, permission checks | none | formatting, static checks | - | - |

Interaction: a command of the CLI asks the application service, which loads the Config
through the store, resolves the credential of a profile and calls the SDK, which talks to the
gateway and the CAS over the guarded transport. `profile migrate` and the profile
commands share the store's mutation lock, an operating system file lock that dies with its
holder. The live gate runs the built command line tool as a child process.

## Modules

| Module | Models | Role |
|---|---|---|
| `AtomicMigration` | what a migration promises | abstract specification |
| `MigrationTxn` | apply, journal, rollback, completion, `Store.Update`, crashes and faults | detailed specification, properties |
| `MigrationTampered` | the same beside a person editing the Config | environment extension |
| `MigrationInvariant` | the invariant that every step of the migration preserves | definitions, checked by TLC and proved |
| `MigrationProofs` | that they do; safety theorems with and without hand edits; `MigrationTxn` implements `AtomicMigration` | proofs |
| `MCMigrationTxn` | symmetry for TLC | model-checking instance |
| `AtomicSession` | what the SDK promises about the gateway session | abstract specification |
| `SessionClient` | `Status`, `Login`, `Logout` of the SDK, the token, the gateway and the CAS | detailed specification, properties |
| `SessionProofs` | type invariant, mutual exclusion, safety theorems, refinement | proofs |
| `MCSessionClient` | requests and symmetry for TLC | model-checking instance |
| `AtomicProfiles` | what profile commands promise | abstract specification |
| `ProfileTypes` | Config values, choice of a profile, commands | shared by both |
| `ProfileStore` | profile commands and logins over Config, keyring and lock | detailed specification, properties, refinement |
| `ProfileProofs` | inductive invariant, safety theorems, refinement of `AtomicProfiles` | proofs |
| `LiveGateSchema` | what the evidence schema accepts (`schema.go`) | operators |
| `LiveGateObservations` | what a candidate's end is turned into: observation, classification, step (`process.go`, `runner.go`) | operators, uses the schema's sets |
| `LiveGate` | one run of the gate with the candidate, the session and the clock | composes the two above |
| `LiveGateProofs` | inductive invariant, safety theorems of `LiveGate` | proofs |
| `CandidateProcess` | one command of the gate: child, copier, waiter and streaming parser | detail of one `CandidateEnds` of `LiveGate` |
| `ProcessProofs` | two inductive invariants, safety theorems of `CandidateProcess` | proofs |
| `EvidenceBundle` | publication on a directory several gates share | detail of the `Publish` actions of `LiveGate` |
| `BundleProofs` | inductive invariant, safety theorems of `EvidenceBundle` | proofs |
| `CandidateSet` | assembly of a candidate set | detailed specification, properties |
| `CandidateProofs` | inductive invariant, safety theorems of `CandidateSet` | proofs |
| `Installer` | the transaction of `install.sh` with its trap | detailed specification, properties |
| `InstallerProofs` | inductive invariant, safety theorems of `Installer` | proofs |
| `MCProfileStore`, `MCLiveGate`, `MCCandidateProcess`, `MCEvidenceBundle`, `MCCandidateSet`, `MCInstaller` | commands, requests, replies, texts, symmetry for TLC | model-checking instances |

### MigrationTxn

Every file operation, keyring operation and lock operation of the code is one action, so a crash
may fall between any two. The variables are the artifacts on disk (`config`, `lkg`, `marker`,
`journal`, `snapshot`, `backups`), the migration references in the `keyring`, the `version` of the
legacy sources, the holder of the `lock`, and for each process where it is (`pc`), the
`plan` it previewed, the `txn` it applies, the `edit` it is about to write, the
`caller` of the recovery it is in, and the `outcome` it reported last.

| Code | Actions |
|---|---|
| `Store.Update`, `rejectPendingMigration`, `atomicWriteFile`, `preserveLastKnownGood` | `StartUpdate`, `LockUpdate`, `LoadForUpdate`, `PublishUpdate`, `Unlock` |
| `runMigrate`, `RecoverPendingMigration`, `inspectOrphanMigrationRecovery`, `BuildMigrationPlan`, first half of `applyMigration` | `StartMigrate`, `InspectJournal`, `InspectOrphan`, `LockRecover`, `UnlockRecover`, `BuildPlan`, `Precheck`, `LockApply` |
| `applyMigrationLocked` | `CheckApply`, `BeginJournal`, `WriteSnapshot`, `WriteBackup`, `AdvanceBackups`, `SetKey`, `AdvanceKeyring`, `WriteConfig`, `AdvanceConfig`, `WriteMarker`, `AdvanceMarker` |
| `recoverPendingMigration` | `EnterRecovery`, `LoadRecovery`, `RollbackMarker`, `RollbackConfig`, `RollbackKeyring`, `RollbackBackups`, `RemoveSnapshot`, `RemoveJournal` |
| `completeMigrationJournal` | `VerifyCommitted`, `CompleteSnapshot`, `CompleteJournal` |

A fallible operation ends in one of three `Fates`: done, refused without effect, or done and
reported as failed (`publishedWriteError`, a failed directory sync, a keyring that stores and
complains). `PublishUpdate` has a fourth, a failure between `.lkg` and the rename. `Crash` stops a
process anywhere, drops its lock, and may leave a file that was being created exclusively cut short.

Abstractions. The content of a Config is the set of profiles the user added plus the identity of the
transaction whose profiles it holds; equal digests are equal values. Removing a migrated profile
individually is not an edit. Random identities are drawn from those that nothing carries.
A transaction starts only without a marker, so the marker's recovery snapshot, which then never
exists, is left out. Exclusive writes that fail and cannot remove what they created either
(two faults in one call) are left out.

`HonestOutcome` is judged in the step that reports. "migrated" and "already migrated" need a finished transaction
over the previewed sources, "migrated" also the edits the preview showed, so that an apply over a Config or sources that
changed after the preview is caught. "rolled back" and the refusals of an apply need a clean machine. An
apply that could not begin may leave its journal, but one whose before image is the Config. An update that
was or may have been published (`publishedWriteError`) must be in the Config, one that failed must not.

### MigrationTampered

`HandEdit` adds or removes a profile, or deletes the Config, while a journal exists and no process holds
the lock. The Config is then `Foreign` when it is not what the recovery of that journal asks for: neither
image while a rollback is pending, or anything but the after image once the transaction is committed. The history variable
`image` is the Config the first foreign edit replaced, and `HandEdit` may put it back; the recovery then goes on.
`MarkerVouches`, `RollbackPossible` and the refinement do not survive hand edits and are not
claimed here; what the code promises instead is: a foreign Config stops every process before it writes anything
(`ForeignConfigUntouched`), and meanwhile whatever the replaced image needs is kept (`MaterialsKept`): the journal that accepts
it, the marker of a committed transaction, the secrets and backups of a published one and its snapshot while it can be rolled back.
An image that was put back where the Config had become the before image is left out: it is a third, older file by then, whose
secrets the recovery may have deleted. No dangling
reference, no orphaned secret and truthful outcomes are promised all the same; the theorems below extend them to hand edits.

### SessionClient

Goroutines call one `Client`. Every HTTP exchange is one action, and so is every step at which a call
waits or looks at its context, so another goroutine, the gateway, another device or a cancellation may come
between any two. The variables are the account online at the gateway (`session`), changes the gateway has
accepted and will make later (`late`), the content of the channel of `contextMutex` (`token`), the calls
whose context is done (`canceled`), and for each call where it is (`pc`), its request (`req`), the account
the gateway named last (`seen`), what it verifies (`goal`, `tries`), the account of its CAS ticket
(`ticket`), the time its QR code has left (`ttl`) and what it is about to return (`result`).

| Code | Actions |
|---|---|
| `validatePublicCall`, `LockContext`, argument checks, `Unlock` | `Call`, `EnterLock`, `TakeToken`, `AbandonLock`, `Recheck`, `Leave` |
| `Status`; the first status of `Login` and `Logout` | `ReadStatus`, `Preflight` |
| `logoutOnline`, `verifyStatus` | `SendLogout`, `Verify` |
| `discoverACID`, first CAS page | `Discover`, `OpenCAS` |
| `passwordLogin` | `FindKey`, `ReadCredential`, `PostForm` |
| `qrLogin`, `finishQRConfirmation` | `PromptQR`, `Poll`, `PollWait`, `ConfirmQR` |
| `finishActivation` | `Activate`, then `Verify` |

The gateway acts on a logout or an activation at once, later or never (`Effects`), and what the call learns of
it is independent: a reply may be lost after the effect, be cut short, claim success without one, or be
the refusal of a GET that `net/http` sent a second time. A slow gateway and an effect that comes after the call
has given up are the same thing (`Deliver`). `Other` is a session timeout or another device. `Cancel` is the
caller's context.

Abstractions. Pages and replies are the cases the code distinguishes; which page is which case belongs to the
parsers. A ticket is the account it was issued to; the CAS may issue one for any account where a browser session or a
phone decides, and for the requested account where a password does. An absent provider or
presenter is one that fails. A random generator that fails (error `internal`) and the protocol state store, which
`networkKey` keeps disabled, are left out. `ReadStatus` has no effect on the others and its answer is not kept.

### ProfileStore

Processes each run one command on a shared Config and keyring. The Config is a value readers see at once
(`config`), `lkg` its copy, `keyring` maps a reference to a password, `lock` is the holder of the mutation lock; per process
there is what it has `loaded`, whether it `stored` a secret, what it has `got` and what it reported.

| Code | Actions |
|---|---|
| `loadConfigFile` without the lock; the prompt | `LoadFirst`, `PromptPassword` |
| `withMutationLock`, `Update` | `Lock`, `LoadLocked`, `PreserveOld`, `Replace`, `SyncDirectory` |
| `SetFreshKeyringPassword` | `CheckFresh`, `SetKey`, `VerifyKey`, `Compensate` |
| `resolveProfileCommitError`, `DeleteKeyringPassword` | `Abandon`, `Cleanup` |
| `Service.Login`, `NewPasswordProvider` | `LoadFirst`, `Resolve`, `ReadPassword`, `NoChallenge` |

References come from the small set `Refs`, so two additions may draw the same one. Nobody outside changes the keyring and no
migration is pending (that is `MigrationTxn`). A failure reported as such leaves no secret behind; a crash, and the removal
of a profile, may leave one that nothing refers to, which `SecretsAccountedFor` states exactly. `UpdatesAreAtomic` is
the refinement: every command takes effect at one instant or never and what it reports agrees, ambiguous
publications (`ErrConfigPublishedDurabilityUnknown`) included.

### LiveGate, LiveGateObservations, LiveGateSchema

`LiveGate` walks `Execute` and `StateMachine.Run`: `Admit`, the profile check, one `InvokePrimary` and `PrimaryStep` (or `QRLoginEnded`,
`QRStatusShown`) per command, `InvokeCleanup` and `CleanupStep`, `VerifyAfter`, the three outcomes of publication, `Report`. Beside it
move the candidate (`CandidateEnds`, which may tell the truth about the session or give any reply of `Replies`, or never end), the
maintainer (`Cancel`), the cleanup deadline (`DeadlinePasses`) and whoever replaces the file (`ReplaceCandidate`, one-way because the
fingerprint includes the change time). `LiveGateObservations` is the pure path from a process's end to an evidence step;
`LiveGateSchema` is written from `schema.go` alone, so that `EvidenceAgreesWithSchema` compares two independent pieces of code.

The testbed is the run's own (`docs/operations/live-validation.md` line 119), so nobody else changes the session. What a candidate that
cannot be trusted does to the session is not claimed. An evidence step that finished before it started cannot occur
with a monotonic clock. Exit code 2 of the QR command in human mode is classified as unsupported and thus as a failed
suite, where a configuration error elsewhere is "blocked".

### CandidateProcess

`runJSONWithInput` starts the child, reads its standard output through two pipes and waits. `CandidateWrites`, `CandidateExits`,
`CandidateBreaks` are the child; `CopierReads`, `CopierEnds`, `CopierFails` the goroutine of `os/exec`; `WaitReturns`, `CloseWriter` the goroutine that
runs it; `ParserTakes`, `ParserAtLimit`, `ParserAtEnd`, `CloseReader`, `Conclude` the caller. The parser is the recursive descent of
`stream_json.go` as a stack machine over tokens of one byte; the decoder's read-ahead is abstracted. The projection
(`project`, `Misplaced`) remembers in `invalid` that the root was no object or that an envelope field (schema version, command, ok: the key "a" at the root) was not
a scalar of its type, and `parseErr` joins it with the parser's verdict, as `runJSONWithInput` does; what is wrong only inside the data or the error
of a reply ("b" at the root) is judged later, by `LiveGateObservations`. `OneDocument` and `Sees` say by positions, without the stack and without `invalid`,
what a whole document is and what is at a path; `ReadsOneWholeDocument` compares the two: a reply is read exactly when it is one whole document, an object, with an envelope field of the right
type or none. `JudgesWholeOutput` is the half of it that depends on the
interleaving: nothing is lost or reordered in the two pipes, only the whole output of a candidate that has ended is accepted, and it is read with that candidate's own exit
code and with what was seen at the root and in the envelope. `SeenStays` is the half that depends on the keys: no reply reads one way to a parser that keeps the first value and another way to one that
keeps the last.

`command.Run` also waits until the standard output is closed. The model assumes that the candidate leaves no descendant which holds it; the code sets no
`WaitDelay`, so such a descendant would hold the gate after the candidate was killed.

### EvidenceBundle

| Code | Actions |
|---|---|
| `ensureBundleLinuxDirectory` | `OpenFolder`, `MakeFolder`, `SyncFolder` |
| `publish`, `reserveBundleID` | `Start`, `Scan`, `Reserve`, `ProtectReservation`, `DropReservation` |
| `createBundleStagingDirectory` | `CreateStage`, `ProtectStage`, `DropStage`, `SyncStageDropped` |
| `publishReservedBundle`, `publishBundleDirectory` | `WriteFile`, `ReadBack`, `SyncStage`, `Commit`, `VerifyFinal`, `Release`, `SyncFinal` |
| its cleanup | `DropChecksums`, `SyncDropped`, `RemoveFinal`, `SyncRemoved`, `RemoveStage`, `RemoveReservation`, `SyncCleanup` |

`disk` is what a loss of power leaves for certain; `PowerLoss` may undo any change of a directory that was not synchronised since. The context is
consulted where the code does, and what it says is free. `FailureLeavesNoTrace` covers one failure and one failing operation of
the cleanup (`docs/evidence/README.md` line 197). Its second half is about everything else a failed publication made: `tidy` is lost
with the first thing that could not be removed, where the code notes it (`cleanupFailed`) and where it does not.

Observations. The errors of two cleanups are ignored: of a reservation that could not be protected (`DropReservation`) and of a staging
directory that could not (`DropStage`, after which the deferred cleanup knows no name to remove). The first also synchronises
nothing, so a loss of power may bring back a reservation that was removed, and its ID is then passed over for ever. The evidence
rules promise best effort for staging (line 192) and nothing for reservations; `FailureLeavesNoTrace` excepts exactly this.
A maker whose `fsync` of the folder fails removes the folder if it is empty, also when another publisher has synchronised it
meanwhile (`SyncFolder`, `"gone"`); whoever was about to reserve an ID in it fails.
`ensureBundleLinuxDirectory` opens a directory that is there without synchronising its entry. If another publisher has created the
candidate directory and not synchronised it yet, a bundle may be reported as published and be lost with the directory. No
document promises otherwise; `SuccessIsDurable` excepts exactly this case, and the violation without the exception has been seen.

### CandidateSet

A file is its content and a stamp that every write changes. `CheckInputs`, `MakeStage`, `WriteFile`, `Record`, then `Open`, `Seal`, `Read`, `Check` for each pass over
the stage and, after `Rename` and `Identity`, over the output; `SyncParent`, `Cleanup`. `Edit`, `Exchange` and a second assembler run beside it.

Observations: a failure after the rename reports an error and leaves the set at the output, which every consumer verifies again. A
directory with the same bytes that takes the output's place between the last seal and the last verification is accepted: the promise is
about content. Only the parent is synchronised after the rename; no durability is claimed. The edits considered
never produce another set that is consistent with its own manifest.

### Installer

One action per shell command that changes the machine or a variable that `finish` and `rollback` read: the marks (`MarkVersion`, `MarkDetached`,
`MarkEntry`, ...) and the moves they announce are separate. `at` is what stands at the three entries, `active` and the launcher configuration; `txn`,
`prior`, `backupDir`, `backup` are the recovery materials, `temps` the temporary paths, `sh` the shell variables. `Stopped` is a failing
command (`set -e`) or a first signal; `Killed` is a kill, the end of the machine, or a signal while the trap runs, which the script does
not survive; each command of the rollback may fail by itself (`Attempt`). `Intrude` lets another program put a file or link at an empty place,
which is what the rechecks of the script are for. A run that finds unfinished work refuses, which changes nothing and so is no action.
One installer runs at a time, and what intruders put there may be overwritten or removed: the checks and the moves are separate commands.

Observation: when the first existing entry has been moved to the backup directory (`install.sh` line 946) and the script fails or is
interrupted before line 950 records an entry as installed, `rollback` skips its loops over the entries because no entry is
installed, finds nothing failed, and removes the backup directory with the entry in it. `docs/operations/offline-install.md` line 62 asks
for recovery in reverse order, or to keep the materials. `Unrecorded` names the case, `FormerKept` and `AllOrNothing` except
it and nothing else; without the exception TLC shows the loss in 22 steps.

## Runs

| Run | Question | Bounds | Result |
|---|---|---|---|
| `migration_safety` | do the invariants, the truthfulness of outcomes and the refinement survive concurrency, a crash and a fault anywhere? | 2 processes, 1 edit, 2 secrets, 1 source with 2 versions, 2 transactions, 1 crash, 1 fault | holds, 620,142 states |
| `migration_recovery` | does a pending transaction end, under fairness? | 2 processes, 1 of everything else, 1 crash, 1 fault | holds, 199,480 states |
| `migration_tampered` | is a hand-edited Config left alone, and can the recovery be taken up once the edit is undone? | 1 process, 2 edits, 2 crashes, 1 fault, 2 hand edits | holds, 209,050 states |
| `session_serial` | does one goroutine change the session at a time, do results tell the truth, and is no session ended, begun or replaced unasked? | 3 calls, 2 accounts, 7 requests, 2 faults, 2 cancellations, no late effects, no others | holds, 970,998 states |
| `session_faulty` | does no call authenticate unless it last saw "offline", and does every call return? | 2 calls, 2 accounts, 2 requests, 1 fault, 1 cancellation, 1 late effect, 1 change by others | holds, 230,090 states |
| `profile_store` | does a reader ever meet a profile without its password or with another's, is every command atomic? | 3 processes, 2 names, users and references, 2 faults, 1 crash | holds, 1,033,173 states |
| `live_gate` | do runner and schema agree, is a proven session released, does evidence bind the candidate, does a canceled gate end? | both suites, each refusal, 17 replies of an untrusted candidate | holds, 91,583 states |
| `candidate_process` | does every invocation return, is the whole output judged and exactly one document, an object with a well-typed envelope, read, with no value replaced? | every text of 3 tokens, longer ones a token away from 5 samples, one nested too deep; limits 7 bytes, depth 2; pipe of 2 | holds, 265,566 states |
| `evidence_bundle` | is what is visible whole, what was reported durable, what failed gone? | 2 publishers, 2 IDs, 3 faults, 1 crash, 1 loss of power | holds, 757,484 states |
| `candidate_set` | was a set that is reported right as a whole at one moment; is nothing replaced? | 2 assemblers, 3 files, 2 edits or exchanges, 1 fault, 1 crash | holds, 2,346,340 states |
| `installer` | is what stood kept until the commit, and a machine open to a next run wholly old or new? | 3 versions, 3 mishaps (failures, signals, kills, intruders), every accepted initial machine | holds, 1,563,631 states |
| `migration_changed_sources` | are changed sources of a committed migration processed again? | 1 process, 2 versions | violated: see the finding below |

Why these bounds are enough to be interesting: two secrets let a transaction stop with one stored;
two transactions let a second one follow a rolled back first; two versions let the legacy
tool change its files between preview and apply; two processes let an edit or a second migrate run at
every point at which the lock is free; one crash and one fault let a rollback started by a fault be
itself interrupted and repeated.

`session_serial`: three calls let one hold the token, one wait for it and one give up waiting; two accounts make
conflicts and switches; two faults let a logout fail and the login after it too. Late effects and others are
off because the two properties are false with them, and the code cannot help it: the activation of a call that
failed minutes ago may take effect and displace the session of another account. `session_faulty` has them on and checks
what still holds. A QR code lives two polls in the first run and one in the second, so that it expires between polls,
before the first and never.

`profile_store`: three processes let two additions draw one reference while a third removes or logs in; two faults let the
compensation of a failed write fail too. `live_gate`: each reply is one kind the gate tells apart, and a
suite has one command at a time, so more replies of a kind add nothing. `candidate_process`: a pipe of two tokens fills, and limits of seven
and two are reached exactly, missed by one and exceeded. `evidence_bundle`: two IDs let one publisher collide and
still succeed, and one run out; three faults are a failure, a failing cleanup and one in the other publisher.
`candidate_set`: two edits are needed to restore what was changed between two looks. `installer`: three mishaps are a first signal, a failing
removal in the rollback and a second signal; three versions let an upgrade follow an installation.

Each property is broken by a mutation of the code's logic written beside the definition it
replaces (`Acquire_Shared`, `AdvanceKeyring_Early`, ...): a missing lock, a phase that advances early,
a rollback that leaves the marker, an artifact check that accepts anything.

Fairness (`migration_recovery`). Weak fairness of the steps of a running command: the operating
system keeps running it. Strong fairness of taking the lock: other commands may take it in between
but the kernel does not starve a waiter. Strong fairness of starting a migrate: the documented answer
to "recovery required" is to run it again. Crashes, faults, edits and the legacy tool are never
forced, and are bounded, so "eventually" means once they stop.

Fairness (`session_faulty`). Weak fairness of the steps of a call: each request has a timeout, each wait a timer,
and goroutines are scheduled. Strong fairness of taking the token: a Go channel serves its waiting senders in
turn. Making a call, canceling one, a late effect and others are never forced.

Fairness (`live_gate`). Weak fairness of the gate's steps, of the kill that `exec.CommandContext` sends when the context ends, and of the passing
of a deadline. A candidate need not end, nobody need cancel or replace anything. `CancelEndsTheGate` therefore rests on the
deadlines the code sets. Fairness (`candidate_process`). Weak fairness of the gate's goroutines, the kernel and the copier; the candidate may hang.
The other specifications state no fairness: only safety is claimed of them.

Finding. `docs/operations/config-migration.md` line 94 says that changed sources lead to a new preview;
`migration.go` line 472 refuses every migrate after that. `migration_changed_sources` shows the behaviour.

## Proofs

From `MigrationAssumption` alone (the three sentinel constants lie outside the sets they extend, the
bounds are naturals), with `TamperAssumption` (the number of hand edits is a natural) for `TSpec`, and for any number of processes,
profiles, secrets, sources, transactions and hand edits, in `MigrationProofs`:

| Theorem | Statement |
|---|---|
| `TypeCorrect` | `Spec => []TypeOK` |
| `Invariance` | `Spec => []IInv` |
| `CredentialsSafe` | `Spec => []NoDanglingCredential` |
| `NothingOrphaned` | `Spec => []SideEffectsOwned` |
| `MarkerSound` | `Spec => []MarkerVouches` |
| `RollbackAlwaysPossible` | `Spec => []RollbackPossible` |
| `OutcomesHonest` | `Spec => HonestOutcome` |
| `Refinement` | `Spec => AtomicMigrationSpec` |
| `TamperedInvariance` | `TSpec => []TInv` |
| `CredentialsSafeTampered` | `TSpec => []NoDanglingCredential` |
| `NothingOrphanedTampered` | `TSpec => []SideEffectsOwned` |
| `MaterialsSurvive` | `TSpec => []MaterialsKept` |
| `ForeignLeftAlone` | `TSpec => ForeignConfigUntouched` |
| `OutcomesHonestTampered` | `TSpec => HonestOutcome` |

None of the safety invariants is inductive: whether a rollback from phase `config` is possible depends on
what the process that wrote the journal had done when it stopped. The inductive invariant `IInv` is `SafeInv` with
`Undisturbed`, and `SafeInv` the types with four parts. `LockInv`: a process is in a locked section exactly when
it holds the lock. `DiskInv`: what the artifacts look like with no journal (`QuietInv`), with any readable one (`JournalInv`), with a
journal that can be rolled back (`PendingInv`: which secrets and backups exist, by
phase) and with one that is committed (`CommittedInv`). `HolderInv`: what the lock holder's position says
beyond that (which journal is its own, which image the Config is, which artifacts it has rolled back so far). `PlanInv`: what the holder
saw earlier and still relies on (the Config its edit was computed from, the preview as the before image of its journal, the
sources of the preview in its marker); `OutcomesHonest` rests on it. `LockInv` reduces each
step to the one process that holds the lock; `DiskInv` is what a crash leaves, and so what
recovery may rely on. `Undisturbed` adds that the Config is an image of the journal (`KnownImage`), the before image
only when no marker is left.

`SafeInv` does not ask which image the Config is, and that is what makes it inductive beside hand edits. It asks of the
Config only that it names no transaction but the journal's (`NamesInv`) and that one that names a pending transaction has the snapshot,
the secrets and the backups (`PendingInv`). Nobody holds the lock during an edit, so `HolderInv` and `PlanInv` are empty. A hand
writes no transaction into the Config unless it puts the image back, and for the image `ImageInv` says what `SafeInv` and `KnownImage` say
of a Config in place. `TInv` is the two together: the edit that makes the Config foreign replaces one that is known, later ones leave
`image` alone, and beside a foreign Config the program changes no file (`ForeignStep`) and makes none foreign (`KnownStep`).
`MaterialsSurvive` follows from `TInv`; `NoDanglingCredential`, `SideEffectsOwned` and the honesty of outcomes from `SafeInv` alone.
`ForeignLeftAlone` goes through the positions of the lock holder: each that writes an artifact knows that the Config is an image of the journal, which a
foreign one is not. `MarkerSound`, `RollbackAlwaysPossible` and `Refinement` need `Undisturbed`.
`Refinement` maps the initial state to the initial state and every step to an edit,
a commit or a stutter; the commit is the advance to `marker_verified`.

`IInv` was checked by TLC first (it is an invariant of `migration_safety`), and `TInv` on the instance of `migration_tampered`. Records built by the actions are
named (`NewJournal`, `Edited`, `FileOf`, `Saved`, ...) and lemmas at the start of `MigrationProofs` prove once what their fields are, so
that the step proofs treat them as opaque values.

From `SessionAssumption` alone (the sentinel constants lie outside the sets they extend, the bounds are
naturals) and for any number of goroutines, accounts and requests:

| Theorem | Statement |
|---|---|
| `SessionTypeCorrect` | `Spec => []TypeOK` |
| `MutualExclusion` | `Spec => []TokenAccounted` |
| `AuthenticationGuarded` | `Spec => []AuthenticatesWhenOffline` |
| `ResultsHonest` | `Alone => (Spec => []HonestResult)` |
| `SessionRefinement` | `Alone => (Spec => AtomicSessionSpec)` |

`Alone` is the condition of `session_serial` as an assumption on the constants: no late effects, no others. The type
invariant needs `Requested`, which says what a call at each position serves. `TokenAccounted` and
`AuthenticatesWhenOffline` are inductive beside it: a step either moves a call within or outside the critical section, or is
one of the few that cross its border. The last two rest on `Settled`: while a call is on its way to the CAS the
gateway is still offline, because only the one call inside the section can change it.

From the assumptions of `ProfileTypes` and `ProfileStore` (`None` is none of the names, users, references, processes
and profiles; the commands are of the forms the code has; the bounds are naturals), in `ProfileProofs`:

| Theorem | Statement |
|---|---|
| `ProfileInvariant` | `Spec => []IInv` |
| `ProfileTypeCorrect` | `Spec => []TypeOK` |
| `PublishedProfilesServed` | `Spec => []PublishedProfilesHavePasswords` |
| `LoginReadsOwnPassword` | `Spec => []LoginUsesOwnPassword` |
| `NoForgottenSecret` | `Spec => []SecretsAccountedFor` |
| `AtomicUpdates` | `Spec => UpdatesAreAtomic` |

That a visible profile has its password depends on what the writers between their two writes hold, and on what readers
have loaded and will use later. `ClaimsAreExclusive` is about the first: a process that has stored, or may have stored, a
secret is the only one with its reference, and no Config that anybody sees or has loaded names it, so its
compensation or cleanup takes nothing from anybody. `RecordedAreServed` extends the property to everything
loaded. `HolderIsCurrent`: between its second look and its rename the holder of the lock works on the Config everybody sees, which
also makes the refinement: the rename is the step of the atomic store, everything else stutters.

From the assumptions of `Installer` (a link to a version is told from `None` and from the other things at a place; the number of mishaps
is a natural), in `InstallerProofs`, for any set of versions and any number of mishaps:

| Theorem | Statement |
|---|---|
| `InstallerInvariant` | `Spec => []IInv` |
| `InstallerTypeCorrect` | `Spec => []TypeOK` |
| `FormerIsKept` | `Spec => []FormerKept` |
| `AllOrNothingHolds` | `Spec => []AllOrNothing` |

`IInv` says for each of the four things a run replaces what stands, what is in the materials and what the
shell variables know of it, at each command of the run and of the rollback. `EntryState(n, i)` does that for
the i-th entry, before, at and after the turn of the loop: an entry waits to be unlinked untouched, or with its former content in the
backup directory. The rollback commands go on after a failure; `sh.failed` then keeps the
journal, and each part promises its final state only under `~sh.failed`. The theorems carry the exception
`Unrecorded`, since the script has it.

From the assumptions of `EvidenceBundle` (`None`, `"absent"`, `"gone"` and `"kept"` are no publishers; the bounds are naturals), in
`BundleProofs`, for any number of publishers and sequence numbers:

| Theorem | Statement |
|---|---|
| `BundleInvariant` | `Spec => []IInv` |
| `BundleTypeCorrect` | `Spec => []TypeOK` |
| `VisibleBundles` | `Spec => []VisibleBundleIsWhole` |
| `SuccessStays` | `Spec => []SuccessIsDurable` |
| `NoTraceOfFailure` | `Spec => []FailureLeavesNoTrace` |

Each promise is about the directory as it is and as a loss of power may bring it back, so each part of `IInv` speaks of both, `disk` and the
rest. `Position` has what a publisher relies on while others run: its reservation is its own and the folder is there from the
reservation to the release, otherwise another publisher whose `SyncFolder` failed could take the folder away under it.
`Traces` says what a publisher that could remove everything still has at each position; `Resurfacing` is the reservation whose
removal was not synchronised. `Failures` counts: a bundle of a failed publication is still listed and whole only if the publication, the removal of the
checksums and the removal of the directory have all failed. Steps of others change at most the number of
failures (`Spared`), a loss of power is one of two cases (`RolledBack`, or `Emptied` with the folder).

From the assumptions of `CandidateSet` (`Other` and `None` are no assemblers, archives are told from the labels of `pc`; the
bounds are naturals), in `CandidateProofs`, for any number of assemblers and files:

| Theorem | Statement |
|---|---|
| `CandidateInvariant` | `Spec => []IInv` |
| `CandidateTypeCorrect` | `Spec => []TypeOK` |
| `VerifiedTogether` | `Spec => []VerifiedAtOneMoment` |
| `NoStageLeft` | `Spec => []StageIsTransient` |
| `OutputStays` | `Spec => OutputNeverReplaced` |

The argument for `VerifiedTogether` is `Witnessed`: stamps only grow, and a file was not written before it was read. So a file
that at the second look is as it was read has not changed at any time between, the turn between reading and looking included. While
a pass still has files to look at, the invariant says: if all of these are found as they were read, and the output
name still leads to the directory read, then the whole was right at the turn. At the end none is left, and
what remains is the conclusion.

In `LiveGateProofs`, from no assumption at all: for any set of requests and any set of replies an untrusted candidate may give:

| Theorem | Statement |
|---|---|
| `GateInvariant` | `Spec => []IInv` |
| `GateTypeCorrect` | `Spec => []TypeOK` |
| `RunnerAgreesWithSchema` | `Spec => []EvidenceAgreesWithSchema` |
| `ProvenIsReleased` | `Spec => []ProvenSessionIsReleased` |
| `EvidenceIsBound` | `Spec => []EvidenceBindsCandidate` |
| `ForeignIsKept` | `Spec => ForeignSessionKept` |

`PrefixPart` and `LoopPart` say what `steps` looks like at every point: the primary steps before `index`, each passed, then at most one that
did not (`Interrupted`), then the cleanup; `owned` and `finalOffline` are whether two of these steps have been reached. That
is what `schema.go` computes again from the list alone: `CutAtIndex` shows that it cuts the list at `index`, `PassedBeforeIndex`
that it finds the same reasons for a cleanup. `SessionPart` relates the run to the session it cannot see: under a
candidate that tells the truth a passed offline step means that it was offline, and a foreign one that the run has passed nothing.
`EvidencePart` carries the verdict of the second look at the candidate to the publication: a candidate replaced later
is not run any more. The lemmas `OfflineStep`, `StatusStep`, `PairRecords` and `CleanupRecords` are
about the path from a reply to a step, for every reply.

From the assumptions of `CandidateProcess` (the limits are naturals, the capacity of the pipe is a positive one, every output is a sequence of tokens), in `ProcessProofs`, for any set of
outputs, any limits and exit codes:

| Theorem | Statement |
|---|---|
| `ProcessInvariant` | `Spec => []IInv` |
| `ProcessTypeCorrect` | `Spec => []TypeOK` |
| `WholeOutputJudged` | `Spec => []JudgesWholeOutput` |
| `ReaderInvariant` | `Spec => []ReadInv` |
| `SeenIsKept` | `Spec => SeenStays` |

Four parties stop one after the other, and each may conclude something of those before it. `Copied`: the copier stops with everything copied
after the candidate has ended, or because nobody reads, and then the parser is through. `Waited`: the result of `Run` is that of the candidate that has ended, unless
something went wrong. `Accepts` is the step from there to the parser: the write end is closed only after the result is in, so an
end of the input with nothing on its way is the end of the output, and that a document was begun. `Concluded` is the step to the caller: read exactly when the parser accepted, the
exit code is one of the contract and the projection is not invalid. `Judged`, a part of `ReadInv`, says what that is in terms of what was seen: a document that has begun has a root, and the
projection is invalid exactly when the root seen is no object or the envelope field seen is no scalar of its type; the places are judged once because they are seen once. `WholeOutputJudged` combines
the two invariants. `Accounted` says what is on its way:
chunk and pipe together are what was written and not yet taken, so lemmas about sequences (`WrittenOnTheWay`, `CopiedOnTheWay`, `TakenOnTheWay`,
`NothingOnTheWay`) carry it through each step. `Unborn` covers a child that could not be started.

`SeenStays` rests on `FreshPath`: the place where a value begins is one where nothing has been seen. For that `ReadInv` relates what the gate has seen to the stack. `Noted`:
a key that waits for its value is among those its object has seen. `Seen`: a place that was seen belongs to an object that is past that key, or
is inside that member (`Past`), or to one that is complete. The parser refuses a key that its object has seen, and
an object that is complete is never opened again under the same key, so none of the three places the gate looks at is reached twice.

In `migration_safety` the types are part of `IInv`; those of `CandidateSet`, `CandidateProcess` and `Installer` are proved instead of
being an invariant of a run.

Every one of the inductive invariants above was checked by TLC on the instance of its run before it was proved. Labels of `pc` that a proof
mentions are written with underscores, the empty field of a reply has a name (`Blank`) and white space is the token `"_"`; the brackets have
names that proofs do not expand (`Object`, `Array`): the SMT backend of this prover accepts neither the empty string nor one that contains a space or a bracket.

Only model-checked: `RecoveryTerminates`, `CallsReturn`, `InvocationReturns` and `CancelEndsTheGate`, as liveness under fairness is out of
the prover's reach; and `ReadsOneWholeDocument`, which compares the parser with a definition by positions over data of any length and would need
induction over it. What it says of the pipes, the exit code and repeated keys is proved as `JudgesWholeOutput` and `SeenStays`.

## Plan

1. Done: the migration transaction with its abstract specification and proofs.
2. Done: `SessionClient`, the SDK's session changes, with an abstract session, its proofs and the refinement.
3. Done: `ProfileStore` with the atomic store of profiles it implements.
4. Done: the live gate (`LiveGate`, `CandidateProcess`, `EvidenceBundle`), the candidate pipeline (`CandidateSet`) and the
   transaction of `install.sh` (`Installer`).
5. Done: proofs for `ProfileStore` with its refinement, `Installer`, `EvidenceBundle`, `CandidateSet` and `LiveGate`.
6. Done: proofs of the migration beside hand edits, and of the child process and its streaming parser.

## Not modelled

- Rendering, terminal input, command line parsing and the launcher's choice: no state beyond one call.
- Permission bits, owners and ACLs, on Unix and Windows: each is one verdict of a system call.
- The Windows primitives (`bundle_publish_windows.go`, `publish_windows.go`) and `install.ps1`: the same promises with other
  system calls, PATH edits and exception handling instead of a trap; they need models of their own.
- HTML, JSON and YAML scanning, the legacy formats of migration sources, RSA encryption, archives and binary inspection: data, not control.
- `Store.Save`, which only tests call.
- Acquisition and verification of a bundle by the installer, promotion and release scripts, the documentation checker, the
  empty dashboard package, workflow files: sequential checks that end in accepting or refusing.
