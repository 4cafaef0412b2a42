--------------------------- MODULE EvidenceBundle ---------------------------
(***************************************************************************)
(* Publication of live-gate evidence (internal/livegate bundle.go and      *)
(* bundle_publish_linux.go).                                               *)
(*                                                                         *)
(* A publisher reserves the lowest free evidence ID, writes the three      *)
(* files of the bundle into a private staging directory, reads them back,  *)
(* synchronises the directory, renames it to its final name without        *)
(* replacing anything, verifies it there, releases the reservation and     *)
(* synchronises the parent.  Whatever fails after the rename takes the     *)
(* bundle back, checksums first.  Several publishers share the parent      *)
(* directory; an operation may fail, a publisher may die at any step, and  *)
(* the machine may lose power, after which a change of a directory that    *)
(* was not synchronised may be found undone.                               *)
(***************************************************************************)
EXTENDS Integers, FiniteSets

CONSTANTS
    Pubs,        \* publishers; each publishes once
    MaxSeq,      \* maxBundleSequence (999)
    None,
    MaxFaults,   \* failing operations
    MaxCrashes,  \* publishers that die
    MaxLosses    \* losses of power

ASSUME BoundsAssumption == {MaxSeq, MaxFaults, MaxCrashes, MaxLosses} \subseteq Nat

ASSUME NoneAssumption == None \notin Pubs

\* The maker of a folder is told from the other states of its entry.
ASSUME FolderAssumption == Pubs \cap {"absent", "gone", "kept"} = {}

Ids     == 1..MaxSeq
Nowhere == 0
Staged  == -1    \* under a random name of its own
Places  == Ids \cup {Nowhere, Staged}

Files  == {"evidence", "summary", "checksums"}
States == {"absent", "good", "bad"}   \* "bad": not the bytes that were written

VARIABLES
    place,      \* where the directory of each publisher is, an element of Places
    reserve,    \* holder of each reservation file
    files,      \* the files of each publisher's directory
    disk,       \* what of the three is on the disk for certain
    pc, seq,    \* progress of each publisher, the sequence number it tries
    published,  \* finalPublished
    tidy,       \* FALSE once something could not be removed, whether the code
                \* notes it (cleanupFailed) or ignores the error
    why,        \* why a publisher cleans up: "collision", "failed" or "cancelled"
    result,     \* what Publish returned, "none" before
    folder,     \* the entry of the candidate directory: "absent", "kept" on the disk,
                \* "gone" (removed, which is not on the disk for certain), or the
                \* publisher that made it and has not synchronised it
    lost,       \* the publisher whose unsynchronised folder a loss of power took
    faults, crashes, losses

directory == << place, reserve, files, disk >>
progress  == << pc, seq, published, tidy, why, result >>
rest      == << crashes, losses, folder, lost >>
counters  == << faults, rest >>
vars      == << directory, progress, counters >>

NoFiles == [f \in Files |-> "absent"]

Init ==
    /\ place = [p \in Pubs |-> Nowhere]
    /\ reserve = [i \in Ids |-> None]
    /\ files = [p \in Pubs |-> NoFiles]
    /\ disk = [place |-> place, reserve |-> reserve, files |-> files]
    /\ pc = [p \in Pubs |-> "start"]
    /\ seq = [p \in Pubs |-> 1]
    /\ published = [p \in Pubs |-> FALSE]
    /\ tidy = [p \in Pubs |-> TRUE]
    /\ why = [p \in Pubs |-> "none"]
    /\ result = [p \in Pubs |-> "none"]
    /\ folder \in {"absent", "kept"} /\ lost = None
    /\ faults = 0 /\ crashes = 0 /\ losses = 0

-----------------------------------------------------------------------------
Taken(i)  == \E p \in Pubs : place[p] = i
Whole(p)  == \A f \in Files : files[p][f] # "absent"

(* Mutant: only the presence of a file is verified.                        *)
Verified_Mutant(p, f) == files[p][f] # "absent"

(* verifyBundleFile reads back every byte; verifyCompleteStagingBundle     *)
(* does so for each of the three files.                                    *)
Verified(p, f) == files[p][f] = "good"

Intact(p) == \A f \in Files : Verified(p, f)

Goto(p, where) == pc' = [pc EXCEPT ![p] = where]

Return(p, what) == result' = [result EXCEPT ![p] = what] /\ Goto(p, "done")

TryNext(p) == seq' = [seq EXCEPT ![p] = @ + 1] /\ Goto(p, "scan")

(* The deferred cleanup of publishReservedBundle begins.                   *)
Abort(p, reason) ==
    /\ why' = [why EXCEPT ![p] = reason]
    /\ Goto(p, IF published[p] THEN "drop_checksums" ELSE "remove_stage")

Fail == faults < MaxFaults /\ faults' = faults + 1
Fine == UNCHANGED faults

(* syncDirectory of the candidate directory puts every entry on the disk,  *)
(* that of a bundle's directory its files.                                 *)
Present      == folder \notin {"absent", "gone"}
SyncParent   == Present /\ disk' = [disk EXCEPT !.place = place, !.reserve = reserve]
SyncFiles(p) == disk' = [disk EXCEPT !.files[p] = files[p]]

NoParent     == ~Present /\ Fine

Untidy(p) == tidy' = [tidy EXCEPT ![p] = FALSE]

-----------------------------------------------------------------------------
(* publish: the arguments, the candidate directory, then one round per     *)
(* sequence number.  Wherever the code looks at the context it may find it *)
(* cancelled; a cancellation between two looks has no effect of its own.   *)
Start(p) ==
    /\ pc[p] = "start"
    /\ \/ Fine /\ Return(p, "cancelled")
       \/ Fine /\ Goto(p, "folder") /\ UNCHANGED result
       \/ Fail /\ Return(p, "failed")
    /\ UNCHANGED << directory, seq, published, tidy, why, rest >>

(* ensureBundleLinuxDirectory for the candidate directory, whose parent    *)
(* stands.  One that is there is opened, whoever made it; one that is not  *)
(* is made, or found made meanwhile, and its entry synchronised.           *)
OpenFolder(p) ==
    /\ pc[p] = "folder"
    /\ \/ Fine /\ Goto(p, IF Present THEN "scan" ELSE "mkdir") /\ UNCHANGED result
       \/ Fail /\ Return(p, "failed")
    /\ UNCHANGED << directory, seq, published, tidy, why, rest >>

MakeFolder(p) ==
    /\ pc[p] = "mkdir"
    /\ \/ /\ Fine
          /\ IF Present THEN Goto(p, "sync_found") /\ UNCHANGED folder
                        ELSE Goto(p, "sync_made") /\ folder' = p
          /\ UNCHANGED result
       \/ Fail /\ Return(p, "failed") /\ UNCHANGED folder
    /\ UNCHANGED << directory, seq, published, tidy, why, crashes, losses, lost >>

Vacant == (\A q \in Pubs : place[q] = Nowhere) /\ \A i \in Ids : reserve[i] = None

(* The entry is synchronised, then opened and checked.  If synchronising   *)
(* fails its maker removes the folder, unless something is in it; whether  *)
(* another publisher has synchronised it meanwhile is not asked.           *)
SyncFolder(p) ==
    /\ pc[p] \in {"sync_made", "sync_found"}
    /\ \/ /\ folder' = IF Present THEN "kept" ELSE "absent"
          /\ \/ Fine /\ Present /\ Goto(p, "scan") /\ UNCHANGED result
             \/ (Fail \/ NoParent) /\ Return(p, "failed")
       \/ /\ Fail /\ Return(p, "failed")
          /\ \/ UNCHANGED folder
             \/ pc[p] = "sync_made" /\ Present /\ Vacant /\ folder' = "gone"
    /\ UNCHANGED << directory, seq, published, tidy, why, crashes, losses, lost >>

Scan(p) ==
    /\ pc[p] = "scan"
    /\ \/ /\ seq[p] > MaxSeq /\ Fine
          /\ Return(p, "failed") /\ UNCHANGED seq
       \/ /\ seq[p] \in Ids /\ Fine
          /\ Return(p, "cancelled") /\ UNCHANGED seq
       \/ /\ seq[p] \in Ids /\ Fine
          /\ IF Taken(seq[p]) THEN TryNext(p) ELSE Goto(p, "reserve") /\ UNCHANGED seq
          /\ UNCHANGED result
       \/ /\ seq[p] \in Ids /\ Fail
          /\ Return(p, "failed") /\ UNCHANGED seq
    /\ UNCHANGED << directory, published, tidy, why, rest >>

(* O_EXCL creates the reservation or tells that somebody holds it.         *)
Reserve(p) ==
    /\ pc[p] = "reserve"
    /\ \/ /\ Fine /\ Present /\ reserve[seq[p]] # None
          /\ TryNext(p) /\ UNCHANGED << reserve, result >>
       \/ /\ Fine /\ Present /\ reserve[seq[p]] = None
          /\ reserve' = [reserve EXCEPT ![seq[p]] = p]
          /\ Goto(p, "protect") /\ UNCHANGED << seq, result >>
       \/ /\ Fail \/ NoParent
          /\ Return(p, "failed") /\ UNCHANGED << reserve, seq >>
    /\ UNCHANGED << place, files, disk, published, tidy, why, rest >>

(* It is synchronised, closed, protected and verified.                     *)
ProtectReservation(p) ==
    /\ pc[p] = "protect"
    /\ \/ Fine /\ Goto(p, "stage")
       \/ Fail /\ Goto(p, "unreserve")
    /\ UNCHANGED << directory, seq, published, tidy, why, result, rest >>

(* reserveBundleID removes a reservation it could not protect, ignores     *)
(* whether it could, and synchronises nothing.                             *)
DropReservation(p) ==
    /\ pc[p] = "unreserve"
    /\ \/ Fine /\ reserve' = [reserve EXCEPT ![seq[p]] = None] /\ UNCHANGED tidy
       \/ Fail /\ Untidy(p) /\ UNCHANGED reserve
    /\ Return(p, "failed")
    /\ UNCHANGED << place, files, disk, seq, published, why, rest >>

(* publishReservedBundle looks again: the ID may have been published       *)
(* between the first look and the reservation.                             *)
CreateStage(p) ==
    /\ pc[p] = "stage"
    /\ \/ /\ Fine /\ Taken(seq[p])
          /\ Abort(p, "collision") /\ UNCHANGED << place, files, disk >>
       \/ /\ Fine /\ ~Taken(seq[p])
          /\ place' = [place EXCEPT ![p] = Staged]
          /\ files' = [files EXCEPT ![p] = NoFiles]
          /\ disk' = [disk EXCEPT !.files[p] = NoFiles]
          /\ Goto(p, "protect_stage") /\ UNCHANGED why
       \/ /\ Fail
          /\ Abort(p, "failed") /\ UNCHANGED << place, files, disk >>
    /\ UNCHANGED << reserve, seq, published, tidy, result, rest >>

(* The parent is synchronised, the staging directory opened, protected and *)
(* verified.                                                               *)
ProtectStage(p) ==
    /\ pc[p] = "protect_stage"
    /\ \/ Fine /\ SyncParent /\ Goto(p, "evidence")
       \/ Fail /\ (SyncParent \/ UNCHANGED disk) /\ Goto(p, "drop_stage")
    /\ UNCHANGED << place, reserve, files, seq, published, tidy, why, result, rest >>

(* createBundleStagingDirectory removes a directory it could not protect   *)
(* and synchronises the parent.  It ignores whether it could, and returns  *)
(* no name, so that the deferred cleanup has no staging directory to       *)
(* remove.                                                                 *)
DropStage(p) ==
    /\ pc[p] = "drop_stage"
    /\ \/ Fine /\ place' = [place EXCEPT ![p] = Nowhere] /\ UNCHANGED tidy
       \/ Fail /\ Untidy(p) /\ UNCHANGED place
    /\ Goto(p, "sync_stage_dropped")
    /\ UNCHANGED << reserve, files, disk, seq, published, why, result, rest >>

SyncStageDropped(p) ==
    /\ pc[p] = "sync_stage_dropped"
    /\ \/ Fine /\ SyncParent
       \/ Fail /\ UNCHANGED disk
    /\ why' = [why EXCEPT ![p] = "failed"]
    /\ Goto(p, "remove_reservation")
    /\ UNCHANGED << place, reserve, files, seq, published, tidy, result, rest >>

(* Each file is written and synchronised, and read back before the next,   *)
(* the checksums last.  A write may go wrong without an error.             *)
After == [evidence |-> "summary", summary |-> "checksums", checksums |-> "sync_stage"]

WriteFile(p) ==
    /\ pc[p] \in Files /\ files[p][pc[p]] = "absent"
    /\ \/ /\ Fine
          /\ files' = [files EXCEPT ![p][pc[p]] = "good"]
          /\ UNCHANGED << pc, why >>
       \/ /\ Fail
          /\ \/ Abort(p, "failed") /\ UNCHANGED files
             \/ files' = [files EXCEPT ![p][pc[p]] = "bad"] /\ UNCHANGED << pc, why >>
    /\ UNCHANGED << place, reserve, disk, seq, published, tidy, result, rest >>

ReadBack(p) ==
    /\ pc[p] \in Files /\ files[p][pc[p]] # "absent"
    /\ \/ Fine /\ Verified(p, pc[p]) /\ Goto(p, After[pc[p]]) /\ UNCHANGED why
       \/ (Fail \/ (Fine /\ ~Verified(p, pc[p]))) /\ Abort(p, "failed")
    /\ UNCHANGED << directory, seq, published, tidy, result, rest >>

(* Mutant: the staging directory itself is not synchronised.               *)
SyncStage_Mutant(p) ==
    /\ pc[p] = "sync_stage"
    /\ IF Intact(p) THEN Goto(p, "commit") /\ UNCHANGED why ELSE Abort(p, "failed")
    /\ UNCHANGED << directory, seq, published, tidy, result, counters >>

SyncStage(p) ==
    /\ pc[p] = "sync_stage"
    /\ \/ /\ Fine /\ Intact(p)
          /\ SyncFiles(p)
          /\ Goto(p, "commit") /\ UNCHANGED why
       \/ /\ Fail \/ (Fine /\ ~Intact(p))
          /\ Abort(p, "failed") /\ UNCHANGED disk
    /\ UNCHANGED << place, reserve, files, seq, published, tidy, result, rest >>

(* The last look at the context, then the rename, which is the commit      *)
(* point and replaces nothing.                                             *)
Commit(p) ==
    /\ pc[p] = "commit"
    /\ \/ /\ Fine
          /\ Abort(p, "cancelled") /\ UNCHANGED << place, published >>
       \/ /\ Fine
          /\ IF Taken(seq[p])
             THEN Abort(p, "collision") /\ UNCHANGED << place, published >>
             ELSE /\ place' = [place EXCEPT ![p] = seq[p]]
                  /\ published' = [published EXCEPT ![p] = TRUE]
                  /\ Goto(p, "verify") /\ UNCHANGED why
       \/ /\ Fail
          /\ Abort(p, "failed") /\ UNCHANGED << place, published >>
    /\ UNCHANGED << reserve, files, disk, seq, tidy, result, rest >>

VerifyFinal(p) ==
    /\ pc[p] = "verify"
    /\ \/ Fine /\ Intact(p) /\ Goto(p, "release") /\ UNCHANGED why
       \/ (Fail \/ (Fine /\ ~Intact(p))) /\ Abort(p, "failed")
    /\ UNCHANGED << directory, seq, published, tidy, result, rest >>

Release(p) ==
    /\ pc[p] = "release"
    /\ \/ /\ Fine
          /\ reserve' = [reserve EXCEPT ![seq[p]] = None]
          /\ Goto(p, "sync") /\ UNCHANGED why
       \/ Fail /\ Abort(p, "failed") /\ UNCHANGED reserve
    /\ UNCHANGED << place, files, disk, seq, published, tidy, result, rest >>

SyncFinal(p) ==
    /\ pc[p] = "sync"
    /\ \/ Fine /\ SyncParent /\ Return(p, "ok") /\ UNCHANGED why
       \/ Fail /\ Abort(p, "failed") /\ UNCHANGED << disk, result >>
    /\ UNCHANGED << place, reserve, files, seq, published, tidy, rest >>

-----------------------------------------------------------------------------
(* invalidatePublishedBundleWithOps acts on whatever bears the final name: *)
(* the checksums are removed, the removal synchronised, the directory      *)
(* removed, the parent synchronised.                                       *)
AtName(p) == {q \in Pubs : place[q] = seq[p]}

DropChecksums(p) ==
    /\ pc[p] = "drop_checksums"
    /\ \/ /\ Fine
          /\ files' = [q \in Pubs |-> IF q \in AtName(p) THEN [files[q] EXCEPT !["checksums"] = "absent"]
                                                        ELSE files[q]]
          /\ UNCHANGED tidy
       \/ Fail /\ Untidy(p) /\ UNCHANGED files
    /\ Goto(p, "sync_dropped")
    /\ UNCHANGED << place, reserve, disk, seq, published, why, result, rest >>

SyncDropped(p) ==
    /\ pc[p] = "sync_dropped"
    /\ \/ /\ Fine
          /\ disk' = [disk EXCEPT !.files = [q \in Pubs |-> IF q \in AtName(p) THEN files[q] ELSE @[q]]]
          /\ IF \E q \in AtName(p) : Whole(q) THEN Untidy(p) ELSE UNCHANGED tidy
       \/ Fail /\ Untidy(p) /\ UNCHANGED disk
    /\ Goto(p, "remove_final")
    /\ UNCHANGED << place, reserve, files, seq, published, why, result, rest >>

(* RemoveAll may give up after some of the files.                          *)
RemoveFinal(p) ==
    /\ pc[p] = "remove_final"
    /\ \/ /\ Fine
          /\ place' = [q \in Pubs |-> IF q \in AtName(p) THEN Nowhere ELSE place[q]]
          /\ UNCHANGED << files, tidy >>
       \/ /\ Fail /\ Untidy(p)
          /\ \E kept \in SUBSET Files :
                files' = [q \in Pubs |-> IF q \in AtName(p)
                                         THEN [f \in Files |-> IF f \in kept THEN files[q][f] ELSE "absent"]
                                         ELSE files[q]]
          /\ UNCHANGED place
    /\ Goto(p, "sync_removed")
    /\ UNCHANGED << reserve, disk, seq, published, why, result, rest >>

(* The final name must be gone; a new bundle there counts as a failure.    *)
SyncRemoved(p) ==
    /\ pc[p] = "sync_removed"
    /\ \/ /\ Fine /\ SyncParent
          /\ IF Taken(seq[p]) THEN Untidy(p) ELSE UNCHANGED tidy
       \/ (Fail \/ NoParent) /\ Untidy(p) /\ UNCHANGED disk
    /\ Goto(p, "remove_stage")
    /\ UNCHANGED << place, reserve, files, seq, published, why, result, rest >>

RemoveStage(p) ==
    /\ pc[p] = "remove_stage"
    /\ \/ /\ Fine
          /\ place' = [place EXCEPT ![p] = IF @ = Staged THEN Nowhere ELSE @]
          /\ UNCHANGED tidy
       \/ place[p] = Staged /\ Fail /\ Untidy(p) /\ UNCHANGED place
    /\ Goto(p, "remove_reservation")
    /\ UNCHANGED << reserve, files, disk, seq, published, why, result, rest >>

(* Mutant: a collision is not followed by the cleanup of the reservation.  *)
RemoveReservation_Mutant(p) ==
    /\ pc[p] = "remove_reservation"
    /\ reserve' = IF why[p] # "collision" /\ reserve[seq[p]] = p
                  THEN [reserve EXCEPT ![seq[p]] = None] ELSE reserve
    /\ Goto(p, "sync_cleanup")
    /\ UNCHANGED << place, files, disk, seq, published, tidy, why, result, counters >>

(* The reservation is removed unless the publisher has released it itself. *)
RemoveReservation(p) ==
    /\ pc[p] = "remove_reservation"
    /\ IF reserve[seq[p]] # p
       THEN Fine /\ UNCHANGED << reserve, tidy >>
       ELSE \/ Fine /\ reserve' = [reserve EXCEPT ![seq[p]] = None] /\ UNCHANGED tidy
            \/ Fail /\ Untidy(p) /\ UNCHANGED reserve
    /\ Goto(p, "sync_cleanup")
    /\ UNCHANGED << place, files, disk, seq, published, why, result, rest >>

(* Mutant: a collision ends the publication.                               *)
SyncCleanup_Mutant(p) ==
    /\ pc[p] = "sync_cleanup"
    /\ \/ Fine /\ SyncParent /\ UNCHANGED tidy
       \/ Fail /\ Untidy(p) /\ UNCHANGED disk
    /\ Return(p, why[p])
    /\ UNCHANGED << place, reserve, files, seq, published, why, rest >>

SyncCleanup(p) ==
    /\ pc[p] = "sync_cleanup"
    /\ \/ Fine /\ SyncParent /\ UNCHANGED tidy
       \/ (Fail \/ NoParent) /\ Untidy(p) /\ UNCHANGED disk
    /\ IF why[p] = "collision"
       THEN TryNext(p) /\ UNCHANGED result
       ELSE Return(p, why[p]) /\ UNCHANGED seq
    /\ UNCHANGED << place, reserve, files, published, why, rest >>

-----------------------------------------------------------------------------
Crash(p) ==
    /\ pc[p] \notin {"start", "done"} /\ crashes < MaxCrashes
    /\ crashes' = crashes + 1
    /\ Return(p, "crashed")
    /\ UNCHANGED << directory, seq, published, tidy, why, faults, losses, folder, lost >>

Die ==
    /\ pc' = [p \in Pubs |-> IF pc[p] = "start" THEN "start" ELSE "done"]
    /\ result' = [p \in Pubs |-> IF pc[p] \in {"start", "done"} THEN result[p] ELSE "crashed"]
    /\ losses < MaxLosses /\ losses' = losses + 1
    /\ UNCHANGED << seq, published, tidy, why, faults, crashes >>

(* Everything that runs dies.  An entry that has not been synchronised is  *)
(* found as it was or as it is; a name leads to one directory at most, and *)
(* to none if the candidate directory is not found.                        *)
PowerLoss ==
    /\ Die
    /\ place' \in {f \in [Pubs -> Places] : \A p \in Pubs : f[p] \in {place[p], disk.place[p]}}
    /\ \A p, q \in Pubs : p # q /\ place'[p] = place'[q] => place'[p] \notin Ids
    /\ reserve' \in {f \in [Ids -> Pubs \cup {None}] :
                        \A i \in Ids : f[i] \in {reserve[i], disk.reserve[i]}}
    /\ \E undone \in {u \in [Pubs -> SUBSET Files] :
                      \A p \in Pubs : \A f \in u[p] : disk.files[p][f] # files[p][f]} :
          files' = [p \in Pubs |-> [f \in Files |->
                        IF f \in undone[p] THEN disk.files[p][f] ELSE files[p][f]]]
    /\ disk' = [place |-> place', reserve |-> reserve', files |-> files']
    /\ folder' \in CASE Present -> {"kept"}
                     [] folder = "gone" -> {"absent", "kept"}
                     [] folder = "absent" -> {"absent"}
    /\ folder' = "absent" => /\ place' = [p \in Pubs |-> Nowhere]
                             /\ reserve' = [i \in Ids |-> None]
    /\ UNCHANGED lost

(* The entry of the candidate directory itself is found undone, and with   *)
(* it everything in the directory.  (That an empty older one of the name   *)
(* may be found instead is left out.)                                      *)
FolderLost ==
    /\ Die
    /\ folder \in Pubs
    /\ folder' = "absent" /\ lost' = folder
    /\ place' = [p \in Pubs |-> Nowhere]
    /\ reserve' = [i \in Ids |-> None]
    /\ files' = [p \in Pubs |-> NoFiles]
    /\ disk' = [place |-> place', reserve |-> reserve', files |-> files']

PubStep(p) ==
    \/ Start(p) \/ OpenFolder(p) \/ MakeFolder(p) \/ SyncFolder(p) \/ Scan(p)
    \/ Reserve(p) \/ ProtectReservation(p) \/ DropReservation(p)
    \/ CreateStage(p) \/ ProtectStage(p) \/ DropStage(p) \/ SyncStageDropped(p)
    \/ WriteFile(p) \/ ReadBack(p) \/ SyncStage(p)
    \/ Commit(p) \/ VerifyFinal(p) \/ Release(p) \/ SyncFinal(p)
    \/ DropChecksums(p) \/ SyncDropped(p) \/ RemoveFinal(p) \/ SyncRemoved(p)
    \/ RemoveStage(p) \/ RemoveReservation(p) \/ SyncCleanup(p)

Ended == (\A p \in Pubs : pc[p] = "done") /\ UNCHANGED vars

Next ==
    \/ \E p \in Pubs : PubStep(p) \/ Crash(p)
    \/ PowerLoss
    \/ FolderLost
    \/ Ended

Spec == Init /\ [][Next]_vars

-----------------------------------------------------------------------------
TypeOK ==
    /\ place \in [Pubs -> Places]
    /\ reserve \in [Ids -> Pubs \cup {None}]
    /\ files \in [Pubs -> [Files -> States]]
    /\ DOMAIN disk = {"place", "reserve", "files"}
    /\ seq \in [Pubs -> 1..(MaxSeq + 1)]
    /\ published \in [Pubs -> BOOLEAN] /\ tidy \in [Pubs -> BOOLEAN]
    /\ why \in [Pubs -> {"none", "collision", "failed", "cancelled"}]
    /\ result \in [Pubs -> {"none", "ok", "failed", "cancelled", "crashed"}]
    /\ folder \in {"absent", "gone", "kept"} \cup Pubs /\ lost \in Pubs \cup {None}
    /\ faults \in 0..MaxFaults /\ crashes \in 0..MaxCrashes /\ losses \in 0..MaxLosses

InCleanup(p) ==
    pc[p] \in {"drop_checksums", "sync_dropped", "remove_final", "sync_removed",
               "remove_stage", "remove_reservation", "sync_cleanup"}

(* Whoever lists the evidence of a candidate at any moment, also after a   *)
(* crash or a loss of power, finds under a final name the three files with *)
(* the bytes that were written; a directory that lacks one belongs to a    *)
(* publisher that is taking it back, has reported that it could not        *)
(* publish, or died (publishReservedBundle).                               *)
VisibleBundleIsWhole ==
    \A p \in Pubs :
        place[p] \in Ids =>
            \/ \A f \in Files : files[p][f] = "good"
            \/ ~Whole(p) /\ (InCleanup(p) \/ result[p] \in {"failed", "crashed"})

(* A bundle that was reported as published stays: no other publisher that  *)
(* cleans up, died or takes the same sequence number, and no loss of power *)
(* after the report, removes it, empties it or puts another in its place.  *)
(* One case is not covered by the code and excepted here: the candidate    *)
(* directory itself was lost, which another publisher had made and not yet *)
(* synchronised (ensureBundleLinuxDirectory opens what it finds).          *)
SuccessIsDurable ==
    \A p \in Pubs :
        result[p] = "ok" =>
            \/ place[p] = seq[p] /\ \A f \in Files : files[p][f] = "good"
            \/ lost \notin {None, p} /\ place[p] = Nowhere

\* The deferred cleanup of publishReservedBundle ran for its last ID.
Deferred(p) == why[p] \in {"failed", "cancelled"}

(* A publisher that reports failure or cancellation leaves no complete     *)
(* bundle, even if one operation of the cleanup fails besides the one that *)
(* caused it.  If nothing failed to be removed, in the deferred cleanup or *)
(* where the error is ignored, it leaves no entry in the candidate         *)
(* directory, its earlier collisions included, and no later loss of power  *)
(* brings one back.  One case is not covered by the code and excepted      *)
(* here: a reservation removed by reserveBundleID, which does not          *)
(* synchronise the removal, may be back after a loss of power.             *)
FailureLeavesNoTrace ==
    \A p \in Pubs :
        result[p] \in {"failed", "cancelled"} =>
            /\ faults <= 2 => ~(place[p] \in Ids /\ Whole(p))
            /\ tidy[p] => /\ place[p] = Nowhere
                          /\ \A i \in Ids : reserve[i] = p =>
                                i = seq[p] /\ ~Deferred(p) /\ losses > 0
=============================================================================
