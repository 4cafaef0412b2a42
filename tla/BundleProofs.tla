---------------------------- MODULE BundleProofs ----------------------------
(***************************************************************************)
(* Proofs about EvidenceBundle for any number of publishers, sequence      *)
(* numbers, failing operations, deaths and losses of power.                *)
(*                                                                         *)
(* The inductive invariant says for each publisher where its directory is, *)
(* what of it is on the disk, what it still holds, and how many operations *)
(* must have failed for it to be there: of the directory as it is, and of  *)
(* the directory as a loss of power may bring it back.                     *)
(***************************************************************************)
EXTENDS EvidenceBundle, TLAPS

Opening     == {"start", "folder", "mkdir", "sync_made", "sync_found"}
Early       == Opening \cup {"scan", "reserve"}
Reserving   == {"protect", "unreserve"}
Staging     == {"protect_stage", "drop_stage", "sync_stage_dropped"}
Writing     == Files \cup {"sync_stage", "commit"}
Final       == {"verify", "release", "sync"}
Withdrawing == {"drop_checksums", "sync_dropped", "remove_final"}
Cleaning    == {"remove_stage", "remove_reservation", "sync_cleanup"}
PCs == Early \cup Reserving \cup {"stage"} \cup Staging \cup Writing \cup Final
         \cup Withdrawing \cup {"sync_removed"} \cup Cleaning \cup {"done"}

Typed ==
  /\ TypeOK
  /\ disk \in [place : [Pubs -> Places], reserve : [Ids -> Pubs \cup {None}],
               files : [Pubs -> [Files -> States]]]
  /\ pc \in [Pubs -> PCs]

\* A name leads to one directory.
Distinct == \A p, q \in Pubs : p # q /\ place[p] = place[q] => place[p] \notin Ids

Listed(p) == place[p] \in Ids \/ disk.place[p] \in Ids

(* Progress, the place of the directory and what Publish returns.          *)
Position(p) ==
  /\ pc[p] = "done" <=> result[p] # "none"
  /\ pc[p] \notin Opening \cup {"scan", "done"} => seq[p] \in Ids
  /\ Listed(p) => published[p]
  /\ pc[p] \in Early \cup Reserving \cup {"stage"} \cup Staging \cup Writing => ~published[p]
  /\ pc[p] \in Final \cup Withdrawing \cup {"sync_removed"} => published[p]
  /\ pc[p] \in Writing \cup {"protect_stage", "drop_stage"} => place[p] = Staged
  /\ pc[p] \in Reserving \cup {"stage", "verify", "release"} \cup Staging \cup Writing =>
       reserve[seq[p]] = p /\ Present
  /\ pc[p] \in Final \cup Withdrawing => place[p] = seq[p] /\ Present
  /\ pc[p] \in Withdrawing \cup {"sync_removed"} \cup Cleaning =>
       why[p] # "none" /\ (published[p] => why[p] = "failed")
  /\ result[p] = "cancelled" => ~published[p]
  /\ folder = p => pc[p] = "sync_made" \/ result[p] \in {"failed", "crashed"}

AllGood(p) == \A f \in Files : files[p][f] = "good" /\ disk.files[p][f] = "good"

(* The bytes: of a published bundle files may be missing, none is wrong.   *)
Bytes(p) ==
  /\ pc[p] \in {"commit"} \cup Final => AllGood(p)
  /\ published[p] =>
       \A f \in Files : {files[p][f], disk.files[p][f]} \subseteq {"good", "absent"}

(* A success stays, unless the folder is lost that another publisher made. *)
Success(p) ==
  result[p] = "ok" =>
    \/ place[p] = seq[p] /\ disk.place[p] = seq[p] /\ AllGood(p)
    \/ lost \notin {None, p} /\ place[p] = Nowhere /\ disk.place[p] = Nowhere

Unreserved(p, i) == reserve[i] # p /\ disk.reserve[i] # p

NoEntry(p) == place[p] = Nowhere /\ disk.place[p] = Nowhere

\* A reservation removed without a synchronisation: a loss of power may bring it back.
Resurfacing(p, i) ==
  i = seq[p] /\ result[p] = "failed" /\ ~Deferred(p) /\ (reserve[i] = p => losses > 0)

(* What a publisher that could remove everything still has.                *)
Traces(p) ==
  tidy[p] =>
    /\ pc[p] \in Early \cup Reserving \cup {"stage"} => NoEntry(p)
    /\ result[p] \in {"failed", "cancelled"} => NoEntry(p)
    /\ pc[p] \in Early => \A i \in Ids : Unreserved(p, i)
    /\ result[p] \in {"failed", "cancelled"} =>
         \A i \in Ids : Unreserved(p, i) \/ Resurfacing(p, i)
    /\ pc[p] # "done" => \A i \in Ids \ {seq[p]} : Unreserved(p, i)
    /\ pc[p] \in Early \cup Reserving => ~Deferred(p)
    /\ pc[p] = "remove_stage" => place[p] \notin Ids
    /\ pc[p] \in {"sync_stage_dropped", "sync_removed", "remove_reservation", "sync_cleanup"} =>
         place[p] = Nowhere
    /\ pc[p] = "sync_cleanup" => \A i \in Ids : reserve[i] # p

\* A file is missing, and no loss of power brings it back.
Incomplete(p) == \E f \in Files : files[p][f] = "absent" /\ disk.files[p][f] = "absent"

(* How many operations have failed if the bundle is still there.           *)
Failures(p) ==
  /\ pc[p] \in Withdrawing \cup {"sync_removed"} => faults >= 1
  /\ pc[p] = "sync_dropped" => ~Whole(p) \/ faults >= 2
  /\ pc[p] \in {"remove_final", "sync_removed"} => Incomplete(p) \/ faults >= 2
  /\ pc[p] = "sync_removed" /\ (place[p] \in Ids \/ ~Present) =>
       Incomplete(p) \/ faults >= 3
  /\ pc[p] \in Cleaning \/ result[p] \in {"failed", "cancelled"} =>
       ~Listed(p) \/ Incomplete(p) \/ faults >= 3

PubInv(p) == Position(p) /\ Bytes(p) /\ Success(p) /\ Traces(p) /\ Failures(p)

IInv == Typed /\ Distinct /\ \A p \in Pubs : PubInv(p)

-----------------------------------------------------------------------------
(* Types.                                                                  *)

\* Sequence numbers are those of the evidence IDs, and one more.
LEMMA Numbers ==
  /\ {MaxSeq, MaxFaults, MaxCrashes, MaxLosses} \subseteq Nat
  /\ \A i \in Ids : i \in Int /\ i # Nowhere /\ i # Staged /\ i + 1 \in 1..(MaxSeq + 1)
  /\ Nowhere \notin Ids /\ Staged \notin Ids /\ Nowhere # Staged
  /\ \A i \in 1..(MaxSeq + 1) : i \in Int /\ (i \notin Ids => i > MaxSeq)
BY BoundsAssumption DEF Ids, Nowhere, Staged

\* The initial states have the types.
LEMMA TypedInit == Init => Typed
BY Numbers DEF Init, Typed, TypeOK, NoFiles, Files, States, Places, PCs, Early, Opening

\* A directory is at a place, the reservations are with publishers.
LEMMA PlaceType ==
  ASSUME Typed, NEW p \in Pubs, PubStep(p) \/ Crash(p), Position(p)
  PROVE  place' \in [Pubs -> Places] /\ reserve' \in [Ids -> Pubs \cup {None}]
<1>1. CASE Reserve(p)
  <2>1. place' = place
    BY <1>1 DEF Reserve
  <2>2. \/ reserve' = reserve
        \/ reserve' = [reserve EXCEPT ![seq[p]] = p]
    BY <1>1 DEF Reserve
  <2>3. reserve' \in [Ids -> Pubs \cup {None}]
    BY <2>2 DEF Typed, TypeOK
  <2> QED
    BY <2>1, <2>3 DEF Typed, TypeOK
<1>2. CASE CreateStage(p)
  BY <1>2, Numbers
     DEF CreateStage, Abort, Goto, Fail, Fine, directory, rest, Typed, TypeOK, Places
<1>3. CASE Commit(p)
  <2>1. seq[p] \in Ids
    BY <1>3 DEF Commit, Position, Opening
  <2> QED
    BY <1>3, <2>1, Numbers DEF Commit, rest, Typed, TypeOK, Places
<1>4. CASE Release(p)
  BY <1>4, Numbers
     DEF Release, Abort, Goto, Fail, Fine, directory, rest, Typed, TypeOK, Places
<1>5. CASE RemoveFinal(p)
  BY <1>5, Numbers
     DEF RemoveFinal, Goto, Untidy, Fail, Fine, directory, rest, Typed, TypeOK, Places
<1>6. CASE RemoveStage(p)
  BY <1>6, Numbers
     DEF RemoveStage, Goto, Untidy, Fail, Fine, directory, rest, Typed, TypeOK, Places
<1>7. CASE RemoveReservation(p)
  BY <1>7, Numbers
     DEF RemoveReservation, Goto, Untidy, Fail, Fine, directory, rest, Typed, TypeOK,
         Places
<1>8. CASE DropReservation(p)
  BY <1>8 DEF DropReservation, Typed, TypeOK
<1>9. CASE DropStage(p)
  BY <1>9 DEF DropStage, Typed, TypeOK, Places
<1> QED
  BY <1>1, <1>2, <1>3, <1>4, <1>5, <1>6, <1>7, <1>8, <1>9
     DEF PubStep, Start, OpenFolder, MakeFolder, SyncFolder, Scan, WriteFile,
         ProtectReservation, ProtectStage, SyncStageDropped, ReadBack, SyncStage,
         VerifyFinal, SyncFinal, DropChecksums, SyncDropped, SyncRemoved, SyncCleanup,
         Crash, directory, rest, Typed, TypeOK, Places

\* A file is absent, as written, or otherwise.
LEMMA FilesType ==
  ASSUME Typed, NEW p \in Pubs, PubStep(p) \/ Crash(p)
  PROVE  files' \in [Pubs -> [Files -> States]]
<1>1. CASE CreateStage(p)
  <2>1. NoFiles \in [Files -> States]
    BY DEF NoFiles, States
  <2>2. files' = [files EXCEPT ![p] = NoFiles] \/ files' = files
    BY <1>1 DEF CreateStage
  <2> QED
    BY <2>1, <2>2 DEF Typed, TypeOK
<1>2. CASE WriteFile(p)
  <2>1. \/ files' = [files EXCEPT ![p] = [files[p] EXCEPT ![pc[p]] = "good"]]
        \/ files' = [files EXCEPT ![p] = [files[p] EXCEPT ![pc[p]] = "bad"]]
        \/ files' = files
    BY <1>2 DEF WriteFile
  <2>2. /\ [files[p] EXCEPT ![pc[p]] = "good"] \in [Files -> States]
        /\ [files[p] EXCEPT ![pc[p]] = "bad"] \in [Files -> States]
    BY DEF Typed, TypeOK, States
  <2>3. files \in [Pubs -> [Files -> States]]
    BY DEF Typed, TypeOK
  <2> QED
    BY <2>1, <2>2, <2>3
<1>3. CASE DropChecksums(p)
  <2>1. \A q \in Pubs : [files[q] EXCEPT !["checksums"] = "absent"] \in [Files -> States]
    BY DEF Typed, TypeOK, States
  <2>2. files' = files
        \/ files' = [q \in Pubs |-> IF q \in AtName(p)
                                    THEN [files[q] EXCEPT !["checksums"] = "absent"]
                                    ELSE files[q]]
    BY <1>3 DEF DropChecksums
  <2>3. [q \in Pubs |-> IF q \in AtName(p) THEN [files[q] EXCEPT !["checksums"] = "absent"]
                                         ELSE files[q]] \in [Pubs -> [Files -> States]]
    BY <2>1 DEF Typed, TypeOK
  <2> QED
    BY <2>2, <2>3 DEF Typed, TypeOK
<1>4. CASE RemoveFinal(p)
  BY <1>4, Numbers
     DEF RemoveFinal, Goto, Untidy, Fail, Fine, directory, rest, Typed, TypeOK,
         States, NoFiles
<1> QED
  BY <1>1, <1>2, <1>3, <1>4
     DEF PubStep, Start, OpenFolder, MakeFolder, SyncFolder, Scan, Reserve, ReadBack,
         ProtectReservation, DropReservation, ProtectStage, DropStage, SyncStageDropped,
         SyncStage, Commit, VerifyFinal, Release, SyncFinal, SyncDropped, SyncRemoved,
         RemoveStage, RemoveReservation, SyncCleanup, Crash, directory, rest, Typed,
         TypeOK, States, NoFiles

\* The disk holds places, reservations and files.
LEMMA DiskType ==
  ASSUME Typed, NEW p \in Pubs, PubStep(p) \/ Crash(p), Position(p)
  PROVE  disk' \in [place : [Pubs -> Places], reserve : [Ids -> Pubs \cup {None}],
                    files : [Pubs -> [Files -> States]]]
<1>1. CASE CreateStage(p)
  <2>1. NoFiles \in [Files -> States]
    BY DEF NoFiles, States
  <2>2. [disk.files EXCEPT ![p] = NoFiles] \in [Pubs -> [Files -> States]]
    BY <2>1 DEF Typed
  <2>3. disk' = disk \/ disk' = [disk EXCEPT !.files = [disk.files EXCEPT ![p] = NoFiles]]
    BY <1>1 DEF CreateStage
  <2> QED
    BY <2>2, <2>3 DEF Typed
<1>2. CASE SyncStage(p)
  <2>1. disk' = disk \/ disk' = [disk EXCEPT !.files = [disk.files EXCEPT ![p] = files[p]]]
    BY <1>2 DEF SyncStage, SyncFiles
  <2>2. [disk.files EXCEPT ![p] = files[p]] \in [Pubs -> [Files -> States]]
    BY DEF Typed, TypeOK
  <2> QED
    BY <2>1, <2>2 DEF Typed
<1>3. CASE SyncFinal(p)
  BY <1>3, Numbers
     DEF SyncFinal, Abort, Return, Goto, SyncParent, Fail, Fine, directory, rest,
         Typed, TypeOK
<1>4. CASE SyncDropped(p)
  <2>1. \/ disk' = disk
        \/ disk' = [disk EXCEPT !.files =
                       [q \in Pubs |-> IF q \in AtName(p) THEN files[q] ELSE disk.files[q]]]
    BY <1>4 DEF SyncDropped
  <2>2. [q \in Pubs |-> IF q \in AtName(p) THEN files[q] ELSE disk.files[q]]
          \in [Pubs -> [Files -> States]]
    BY DEF Typed, TypeOK
  <2> QED
    BY <2>1, <2>2 DEF Typed
<1>5. CASE SyncRemoved(p)
  <2>1. disk' = disk \/ SyncParent
    BY <1>5 DEF SyncRemoved
  <2>2. disk' = disk \/ disk' = [disk EXCEPT !.place = place, !.reserve = reserve]
    BY <2>1 DEF SyncParent
  <2>3. /\ place \in [Pubs -> Places] /\ reserve \in [Ids -> Pubs \cup {None}]
    BY DEF Typed, TypeOK
  <2>4. disk \in [place : [Pubs -> Places], reserve : [Ids -> Pubs \cup {None}],
                 files : [Pubs -> [Files -> States]]]
    BY DEF Typed
  <2> QED
    BY <2>2, <2>3, <2>4
<1>6. CASE SyncCleanup(p)
  BY <1>6, Numbers
     DEF SyncCleanup, Goto, Untidy, SyncParent, NoParent, Present, TryNext, Return, Fail,
         Fine, directory, rest, Typed, TypeOK
<1>7. CASE ProtectStage(p) \/ SyncStageDropped(p)
  BY <1>7 DEF ProtectStage, SyncStageDropped, SyncParent, Typed, TypeOK
<1> QED
  BY <1>1, <1>2, <1>3, <1>4, <1>5, <1>6, <1>7
     DEF PubStep, Start, OpenFolder, MakeFolder, SyncFolder, Scan, Reserve, WriteFile,
         ProtectReservation, DropReservation, DropStage,
         ReadBack, Commit, VerifyFinal, Release, DropChecksums, RemoveFinal,
         RemoveStage, RemoveReservation, Crash, directory, rest, Typed, TypeOK

\* The progress of a publisher has the types.
LEMMA ProgressType ==
  ASSUME Typed, NEW p \in Pubs, PubStep(p) \/ Crash(p), Position(p)
  PROVE  /\ pc' \in [Pubs -> PCs] /\ seq' \in [Pubs -> 1..(MaxSeq + 1)]
         /\ published' \in [Pubs -> BOOLEAN] /\ tidy' \in [Pubs -> BOOLEAN]
         /\ why' \in [Pubs -> {"none", "collision", "failed", "cancelled"}]
         /\ result' \in [Pubs -> {"none", "ok", "failed", "cancelled", "crashed"}]
<1>1. CASE Start(p)
  BY <1>1, Numbers
     DEF Start, Return, Goto, Fail, Fine, directory, rest, Typed, TypeOK, PCs, Early,
         Opening, Reserving, Staging, Writing, Final, Withdrawing, Cleaning, Files, Position
<1>2. CASE OpenFolder(p)
  <2>1. /\ pc' \in {[pc EXCEPT ![p] = "done"], [pc EXCEPT ![p] = "scan"],
                   [pc EXCEPT ![p] = "mkdir"]}
        /\ result' \in {result, [result EXCEPT ![p] = "failed"]}
        /\ UNCHANGED << seq, published, tidy, why >>
    BY <1>2 DEF OpenFolder, Return, Goto
  <2>2. pc' \in [Pubs -> PCs]
    BY <2>1 DEF Typed, PCs, Early, Opening
  <2> QED
    BY <2>1, <2>2 DEF Typed, TypeOK
<1>3. CASE MakeFolder(p)
  <2>1. /\ pc' \in {[pc EXCEPT ![p] = "done"], [pc EXCEPT ![p] = "sync_found"],
                   [pc EXCEPT ![p] = "sync_made"]}
        /\ result' \in {result, [result EXCEPT ![p] = "failed"]}
        /\ UNCHANGED << seq, published, tidy, why >>
    BY <1>3 DEF MakeFolder, Return, Goto
  <2>2. pc' \in [Pubs -> PCs]
    BY <2>1 DEF Typed, PCs, Early, Opening
  <2> QED
    BY <2>1, <2>2 DEF Typed, TypeOK
<1>4. CASE SyncFolder(p)
  BY <1>4, Numbers
     DEF SyncFolder, Return, Goto, NoParent, Fail, Fine, directory, rest, Typed, TypeOK,
         PCs, Early, Opening, Reserving, Staging, Writing, Final, Withdrawing, Cleaning,
         Files, Position
<1>5. CASE Scan(p)
  <2>1. /\ pc' \in {[pc EXCEPT ![p] = "done"], [pc EXCEPT ![p] = "scan"],
                   [pc EXCEPT ![p] = "reserve"]}
        /\ seq' = seq \/ (seq[p] \in Ids /\ seq' = [seq EXCEPT ![p] = seq[p] + 1])
        /\ result' \in {result, [result EXCEPT ![p] = "failed"],
                          [result EXCEPT ![p] = "cancelled"]}
        /\ UNCHANGED << published, tidy, why >>
    BY <1>5 DEF Scan, Return, Goto, TryNext
  <2>7. pc' \in [Pubs -> PCs]
    BY <2>1 DEF Typed, PCs, Early
  <2>6. seq[p] \in Ids => seq[p] + 1 \in 1..(MaxSeq + 1)
    BY Numbers
  <2>8. seq' \in [Pubs -> 1..(MaxSeq + 1)]
    BY <2>1, <2>6 DEF Typed, TypeOK
  <2>9. result' \in [Pubs -> {"none", "ok", "failed", "cancelled", "crashed"}]
    BY <2>1 DEF Typed, TypeOK
  <2> QED
    BY <2>1, <2>7, <2>8, <2>9 DEF Typed, TypeOK
<1>6. CASE Reserve(p)
  <2>1. /\ pc' \in {[pc EXCEPT ![p] = "done"], [pc EXCEPT ![p] = "scan"],
                   [pc EXCEPT ![p] = "protect"]}
        /\ seq' = seq \/ seq' = [seq EXCEPT ![p] = seq[p] + 1]
        /\ result' \in {result, [result EXCEPT ![p] = "failed"]}
        /\ UNCHANGED << published, tidy, why >>
    BY <1>6 DEF Reserve, Return, Goto, TryNext
  <2>2. seq[p] \in Ids
    BY <1>6 DEF Reserve, Position, Opening
  <2>7. pc' \in [Pubs -> PCs]
    BY <2>1, <2>2 DEF Typed, PCs, Early, Reserving
  <2>6. seq[p] \in Ids => seq[p] + 1 \in 1..(MaxSeq + 1)
    BY Numbers
  <2>8. seq' \in [Pubs -> 1..(MaxSeq + 1)]
    BY <2>1, <2>2, <2>6 DEF Typed, TypeOK
  <2>9. result' \in [Pubs -> {"none", "ok", "failed", "cancelled", "crashed"}]
    BY <2>1, <2>2 DEF Typed, TypeOK
  <2> QED
    BY <2>1, <2>2, <2>7, <2>8, <2>9 DEF Typed, TypeOK
<1>7. CASE ProtectReservation(p)
  BY <1>7, Numbers
     DEF ProtectReservation, Goto, Fail, Fine, directory, rest, Typed, TypeOK, PCs,
         Early, Opening, Reserving, Staging, Writing, Final, Withdrawing, Cleaning, Files
<1>8. CASE DropReservation(p)
  BY <1>8, Numbers
     DEF DropReservation, Return, Goto, Untidy, Fail, Fine, directory, rest, Typed, TypeOK,
         PCs, Early, Opening, Reserving, Staging, Writing, Final, Withdrawing, Cleaning,
         Files
<1>9. CASE CreateStage(p)
  BY <1>9, Numbers
     DEF CreateStage, Abort, Goto, Fail, Fine, directory, rest, Typed, TypeOK, PCs,
         Early, Opening, Reserving, Staging, Writing, Final, Withdrawing, Cleaning, Files
<1>10. CASE ProtectStage(p)
  BY <1>10, Numbers
     DEF ProtectStage, Goto, SyncParent, Present, Fail, Fine, directory, rest, Typed,
         TypeOK, PCs, Early, Opening, Reserving, Staging, Writing, Final, Withdrawing,
         Cleaning, Files
<1>11. CASE DropStage(p)
  BY <1>11, Numbers
     DEF DropStage, Goto, Untidy, Fail, Fine, directory, rest, Typed, TypeOK, PCs,
         Early, Opening, Reserving, Staging, Writing, Final, Withdrawing, Cleaning, Files
<1>12. CASE SyncStageDropped(p)
  BY <1>12, Numbers
     DEF SyncStageDropped, Goto, SyncParent, Present, Fail, Fine, directory, rest, Typed,
         TypeOK, PCs, Early, Opening, Reserving, Staging, Writing, Final, Withdrawing,
         Cleaning, Files
<1>13. CASE WriteFile(p)
  BY <1>13, Numbers
     DEF WriteFile, Abort, Goto, Fail, Fine, directory, rest, Typed, TypeOK, PCs,
         Early, Opening, Reserving, Staging, Writing, Final, Withdrawing, Cleaning, Files
<1>14. CASE ReadBack(p)
  <2>1. After[pc[p]] \in PCs
    BY <1>14 DEF ReadBack, Files, After, PCs, Writing
  <2> QED
    BY <1>14, <2>1
       DEF ReadBack, Abort, Goto, directory, rest, Typed, TypeOK, PCs, Withdrawing, Cleaning
<1>15. CASE SyncStage(p)
  BY <1>15, Numbers
     DEF SyncStage, Abort, Goto, Intact, Verified, SyncFiles, Fail, Fine, directory, rest,
         Typed, TypeOK, PCs, Early, Opening, Reserving, Staging, Writing, Final,
         Withdrawing, Cleaning, Files
<1>16. CASE Commit(p)
  BY <1>16, Numbers
     DEF Commit, Abort, Goto, Fail, Fine, directory, rest, Typed, TypeOK, PCs, Early,
         Opening, Reserving, Staging, Writing, Final, Withdrawing, Cleaning, Files
<1>17. CASE VerifyFinal(p)
  BY <1>17, Numbers
     DEF VerifyFinal, Abort, Goto, Intact, Verified, Fail, Fine, directory, rest, Typed,
         TypeOK, PCs, Early, Opening, Reserving, Staging, Writing, Final, Withdrawing,
         Cleaning, Files
<1>18. CASE Release(p)
  BY <1>18, Numbers
     DEF Release, Abort, Goto, Fail, Fine, directory, rest, Typed, TypeOK, PCs, Early,
         Opening, Reserving, Staging, Writing, Final, Withdrawing, Cleaning, Files
<1>19. CASE SyncFinal(p)
  BY <1>19, Numbers
     DEF SyncFinal, Abort, Return, Goto, SyncParent, Fail, Fine, directory, rest, Typed,
         TypeOK, PCs, Early, Opening, Reserving, Staging, Writing, Final, Withdrawing,
         Cleaning, Files
<1>20. CASE DropChecksums(p)
  BY <1>20, Numbers
     DEF DropChecksums, Goto, Untidy, Fail, Fine, directory, rest, Typed, TypeOK, PCs,
         Early, Opening, Reserving, Staging, Writing, Final, Withdrawing, Cleaning, Files
<1>21. CASE SyncDropped(p)
  BY <1>21, Numbers
     DEF SyncDropped, Goto, Untidy, Fail, Fine, directory, rest, Typed, TypeOK, PCs,
         Early, Opening, Reserving, Staging, Writing, Final, Withdrawing, Cleaning, Files
<1>22. CASE RemoveFinal(p)
  BY <1>22, Numbers
     DEF RemoveFinal, Goto, Untidy, Fail, Fine, directory, rest, Typed, TypeOK, PCs,
         Early, Opening, Reserving, Staging, Writing, Final, Withdrawing, Cleaning, Files
<1>23. CASE SyncRemoved(p)
  BY <1>23, Numbers
     DEF SyncRemoved, Goto, Untidy, SyncParent, NoParent, Present, Fail, Fine, directory,
         rest, Typed, TypeOK, PCs, Early, Opening, Reserving, Staging, Writing, Final,
         Withdrawing, Cleaning, Files
<1>24. CASE RemoveStage(p)
  BY <1>24, Numbers
     DEF RemoveStage, Goto, Untidy, Fail, Fine, directory, rest, Typed, TypeOK, PCs,
         Early, Opening, Reserving, Staging, Writing, Final, Withdrawing, Cleaning, Files
<1>25. CASE RemoveReservation(p)
  BY <1>25, Numbers
     DEF RemoveReservation, Goto, Untidy, Fail, Fine, directory, rest, Typed, TypeOK, PCs,
         Early, Opening, Reserving, Staging, Writing, Final, Withdrawing, Cleaning, Files
<1>26. CASE SyncCleanup(p)
  <2>1. seq[p] \in Ids /\ why[p] \in {"collision", "failed", "cancelled"}
    BY <1>26 DEF SyncCleanup, Position, Opening, Cleaning, Typed, TypeOK
  <2>2. /\ pc' \in {[pc EXCEPT ![p] = "done"], [pc EXCEPT ![p] = "scan"]}
        /\ seq' = seq \/ seq' = [seq EXCEPT ![p] = seq[p] + 1]
        /\ result' = result \/ (why[p] # "collision" /\ result' = [result EXCEPT ![p] = why[p]])
        /\ tidy' \in {tidy, [tidy EXCEPT ![p] = FALSE]}
        /\ UNCHANGED << published, why >>
    BY <1>26 DEF SyncCleanup, Return, Goto, TryNext, Untidy
  <2>4. tidy' \in [Pubs -> BOOLEAN]
    BY <2>2 DEF Typed, TypeOK
  <2>7. pc' \in [Pubs -> PCs]
    BY <2>1, <2>2 DEF Typed, PCs, Early, Reserving
  <2>6. seq[p] \in Ids => seq[p] + 1 \in 1..(MaxSeq + 1)
    BY Numbers
  <2>8. seq' \in [Pubs -> 1..(MaxSeq + 1)]
    BY <2>1, <2>2, <2>6 DEF Typed, TypeOK
  <2>9. result' \in [Pubs -> {"none", "ok", "failed", "cancelled", "crashed"}]
    BY <2>1, <2>2 DEF Typed, TypeOK
  <2> QED
    BY <2>4, <2>1, <2>2, <2>7, <2>8, <2>9 DEF Typed, TypeOK
<1>27. CASE Crash(p)
  BY <1>27, Numbers
     DEF Crash, Return, Goto, directory, Typed, TypeOK, PCs, Early, Opening, Reserving,
         Staging, Writing, Final, Withdrawing, Cleaning, Files, Position
<1> QED
  BY <1>1, <1>2, <1>3, <1>4, <1>5, <1>6, <1>7, <1>8, <1>9, <1>10, <1>11, <1>12, <1>13,
     <1>14, <1>15, <1>16, <1>17, <1>18, <1>19, <1>20, <1>21, <1>22, <1>23, <1>24, <1>25,
     <1>26, <1>27
     DEF PubStep

\* The folder and the counters have the types.
LEMMA CountersType ==
  ASSUME Typed, NEW p \in Pubs, PubStep(p) \/ Crash(p)
  PROVE  /\ folder' \in {"absent", "gone", "kept"} \cup Pubs /\ lost' \in Pubs \cup {None}
         /\ faults' \in 0..MaxFaults /\ crashes' \in 0..MaxCrashes /\ losses' \in 0..MaxLosses
<1>1. CASE Start(p)
  BY <1>1, Numbers
     DEF Start, Return, Goto, Fail, Fine, directory, rest, Typed, TypeOK
<1>2. CASE OpenFolder(p)
  BY <1>2, Numbers
     DEF OpenFolder, Return, Goto, Fail, Fine, directory, rest, Typed, TypeOK
<1>3. CASE MakeFolder(p)
  BY <1>3, Numbers
     DEF MakeFolder, Return, Goto, Present, Fail, Fine, directory, rest, Typed, TypeOK
<1>4. CASE SyncFolder(p)
  BY <1>4, Numbers
     DEF SyncFolder, Return, Goto, Present, NoParent, Fail, Fine, directory, rest, Typed,
         TypeOK
<1>5. CASE Scan(p)
  BY <1>5, Numbers
     DEF Scan, Return, Goto, TryNext, Fail, Fine, directory, rest, Typed, TypeOK
<1>6. CASE Reserve(p)
  BY <1>6, Numbers
     DEF Reserve, Return, Goto, TryNext, NoParent, Fail, Fine, directory, rest, Typed,
         TypeOK
<1>7. CASE ProtectReservation(p)
  BY <1>7, Numbers
     DEF ProtectReservation, Goto, Fail, Fine, directory, rest, Typed, TypeOK
<1>8. CASE DropReservation(p)
  BY <1>8, Numbers
     DEF DropReservation, Return, Goto, Untidy, Fail, Fine, directory, rest, Typed,
         TypeOK
<1>9. CASE CreateStage(p)
  BY <1>9, Numbers
     DEF CreateStage, Abort, Goto, Fail, Fine, directory, rest, Typed, TypeOK
<1>10. CASE ProtectStage(p)
  BY <1>10, Numbers
     DEF ProtectStage, Goto, SyncParent, Present, Fail, Fine, directory, rest, Typed,
         TypeOK
<1>11. CASE DropStage(p)
  BY <1>11, Numbers
     DEF DropStage, Goto, Untidy, Fail, Fine, directory, rest, Typed, TypeOK
<1>12. CASE SyncStageDropped(p)
  BY <1>12, Numbers
     DEF SyncStageDropped, Goto, SyncParent, Present, Fail, Fine, directory, rest,
         Typed, TypeOK
<1>13. CASE WriteFile(p)
  BY <1>13, Numbers
     DEF WriteFile, Abort, Goto, Fail, Fine, directory, rest, Typed, TypeOK
<1>14. CASE ReadBack(p)
  BY <1>14, Numbers
     DEF ReadBack, Abort, Goto, Verified, After, Fail, Fine, directory, rest, Typed,
         TypeOK
<1>15. CASE SyncStage(p)
  BY <1>15, Numbers
     DEF SyncStage, Abort, Goto, Intact, Verified, SyncFiles, Fail, Fine, directory,
         rest, Typed, TypeOK
<1>16. CASE Commit(p)
  BY <1>16, Numbers
     DEF Commit, Abort, Goto, Fail, Fine, directory, rest, Typed, TypeOK
<1>17. CASE VerifyFinal(p)
  BY <1>17, Numbers
     DEF VerifyFinal, Abort, Goto, Intact, Verified, Fail, Fine, directory, rest,
         Typed, TypeOK
<1>18. CASE Release(p)
  BY <1>18, Numbers
     DEF Release, Abort, Goto, Fail, Fine, directory, rest, Typed, TypeOK
<1>19. CASE SyncFinal(p)
  BY <1>19, Numbers
     DEF SyncFinal, Abort, Return, Goto, SyncParent, Fail, Fine, directory, rest,
         Typed, TypeOK
<1>20. CASE DropChecksums(p)
  BY <1>20, Numbers
     DEF DropChecksums, Goto, Untidy, Fail, Fine, directory, rest, Typed, TypeOK
<1>21. CASE SyncDropped(p)
  BY <1>21, Numbers
     DEF SyncDropped, Goto, Untidy, Fail, Fine, directory, rest, Typed, TypeOK
<1>22. CASE RemoveFinal(p)
  BY <1>22, Numbers
     DEF RemoveFinal, Goto, Untidy, Fail, Fine, directory, rest, Typed, TypeOK
<1>23. CASE SyncRemoved(p)
  BY <1>23, Numbers
     DEF SyncRemoved, Goto, Untidy, SyncParent, NoParent, Present, Fail, Fine, directory,
         rest, Typed, TypeOK
<1>24. CASE RemoveStage(p)
  BY <1>24, Numbers
     DEF RemoveStage, Goto, Untidy, Fail, Fine, directory, rest, Typed, TypeOK
<1>25. CASE RemoveReservation(p)
  BY <1>25, Numbers
     DEF RemoveReservation, Goto, Untidy, Fail, Fine, directory, rest, Typed, TypeOK
<1>26. CASE SyncCleanup(p)
  BY <1>26, Numbers
     DEF SyncCleanup, Goto, Untidy, SyncParent, NoParent, Present, TryNext, Return, Fail,
         Fine, directory, rest, Typed, TypeOK
<1>27. CASE Crash(p)
  BY <1>27, Numbers
     DEF Crash, Return, Goto, directory, Typed, TypeOK
<1> QED
  BY <1>1, <1>2, <1>3, <1>4, <1>5, <1>6, <1>7, <1>8, <1>9, <1>10, <1>11, <1>12, <1>13,
     <1>14, <1>15, <1>16, <1>17, <1>18, <1>19, <1>20, <1>21, <1>22, <1>23, <1>24, <1>25,
     <1>26, <1>27
     DEF PubStep

\* Every step of a publisher, and its death, preserves the types.
LEMMA TypedStep ==
  ASSUME Typed, NEW p \in Pubs, Position(p), PubStep(p) \/ Crash(p)
  PROVE  Typed'
BY PlaceType, FilesType, DiskType, ProgressType, CountersType DEF Typed, TypeOK

-----------------------------------------------------------------------------
(* The other publishers.                                                   *)

(* A step of one publisher leaves another one alone, but for what it       *)
(* synchronises, for reservations that are gone, and for the folder.       *)
Spared(q) ==
  /\ UNCHANGED << pc[q], seq[q], published[q], tidy[q], why[q], result[q] >>
  /\ UNCHANGED << place[q], files[q], disk.files[q], lost, losses >>
  /\ disk'.place[q] \in {disk.place[q], place[q]}
  /\ \A i \in Ids : /\ reserve'[i] = q <=> reserve[i] = q
                    /\ disk'.reserve[i] = q => q \in {disk.reserve[i], reserve[i]}
  /\ faults' \in {faults, faults + 1} /\ (folder' = q => folder = q)
  /\ ~Present' => ~Present \/ (Vacant /\ faults' = faults + 1)

\* What bears the final name of a publisher that withdraws is its own bundle.
LEMMA NameIsOwn ==
  ASSUME NEW p \in Pubs, Typed, Distinct, Position(p), pc[p] \in Withdrawing
  PROVE  AtName(p) = {p}
BY Numbers DEF AtName, Distinct, Position, Withdrawing, Opening, Typed, TypeOK

\* No step of a publisher touches what another one has.
LEMMA OthersSpared ==
  ASSUME Typed, Distinct, NEW p \in Pubs, Position(p), NEW q \in Pubs \ {p},
         PubStep(p) \/ Crash(p)
  PROVE  Spared(q)
<1>1. CASE Start(p)
  BY <1>1, FolderAssumption, NoneAssumption
     DEF Start, Return, Goto, Fail, Fine, directory, rest, Typed, TypeOK, Spared, Present
<1>2. CASE OpenFolder(p)
  BY <1>2, FolderAssumption, NoneAssumption
     DEF OpenFolder, Return, Goto, Fail, Fine, directory, rest, Typed, TypeOK, Spared,
         Present
<1>3. CASE MakeFolder(p)
  BY <1>3, FolderAssumption, NoneAssumption
     DEF MakeFolder, Return, Goto, Fail, Fine, directory, rest, Typed, TypeOK, Spared,
         Present
<1>4. CASE SyncFolder(p)
  BY <1>4, FolderAssumption, NoneAssumption
     DEF SyncFolder, Return, Goto, NoParent, Fail, Fine, directory, rest, Typed, TypeOK,
         Spared, Present
<1>5. CASE Scan(p)
  BY <1>5, FolderAssumption, NoneAssumption
     DEF Scan, Return, Goto, TryNext, Fail, Fine, directory, rest, Typed, TypeOK,
         Spared, Present
<1>6. CASE Reserve(p)
  BY <1>6, FolderAssumption, NoneAssumption
     DEF Reserve, Return, Goto, TryNext, NoParent, Fail, Fine, directory, rest, Typed,
         TypeOK, Spared, Present
<1>7. CASE ProtectReservation(p)
  BY <1>7, FolderAssumption, NoneAssumption
     DEF ProtectReservation, Goto, Fail, Fine, directory, rest, Typed, TypeOK, Spared,
         Present
<1>8. CASE DropReservation(p)
  <2>1. seq[p] \in Ids /\ reserve[seq[p]] = p
    BY <1>8 DEF DropReservation, Position, Opening, Reserving
  <2>2. reserve' = reserve \/ reserve' = [reserve EXCEPT ![seq[p]] = None]
    BY <1>8 DEF DropReservation
  <2>3. \A i \in Ids : reserve'[i] = q <=> reserve[i] = q
    BY <2>1, <2>2, NoneAssumption DEF Typed, TypeOK
  <2> QED
    BY <1>8, <2>3
       DEF DropReservation, Return, Goto, Untidy, Fail, Fine, rest, Typed, TypeOK, Spared,
           Present
<1>9. CASE CreateStage(p)
  <2>1. disk' = disk \/ disk' = [disk EXCEPT !.files = [disk.files EXCEPT ![p] = NoFiles]]
    BY <1>9 DEF CreateStage
  <2>2. disk'.files[q] = disk.files[q] /\ disk'.place = disk.place /\ disk'.reserve = disk.reserve
    BY <2>1 DEF Typed
  <2> QED
    BY <1>9, <2>2 DEF CreateStage, Abort, Goto, Fail, Fine, rest, Typed, TypeOK, Spared,
                      Present
<1>10. CASE ProtectStage(p)
  BY <1>10, FolderAssumption, NoneAssumption
     DEF ProtectStage, Goto, SyncParent, Present, Fail, Fine, directory, rest, Typed,
         TypeOK, Spared, Present
<1>11. CASE DropStage(p)
  BY <1>11, FolderAssumption, NoneAssumption
     DEF DropStage, Goto, Untidy, Fail, Fine, directory, rest, Typed, TypeOK, Spared,
         Present
<1>12. CASE SyncStageDropped(p)
  BY <1>12, FolderAssumption, NoneAssumption
     DEF SyncStageDropped, Goto, SyncParent, Present, Fail, Fine, directory, rest,
         Typed, TypeOK, Spared, Present
<1>13. CASE WriteFile(p)
  BY <1>13, FolderAssumption, NoneAssumption
     DEF WriteFile, Abort, Goto, Fail, Fine, directory, rest, Typed, TypeOK, Spared, Present
<1>14. CASE ReadBack(p)
  BY <1>14, FolderAssumption, NoneAssumption
     DEF ReadBack, Abort, Goto, Verified, After, Fail, Fine, directory, rest, Typed,
         TypeOK, Spared, Present
<1>15. CASE SyncStage(p)
  <2>1. disk' = disk \/ disk' = [disk EXCEPT !.files = [disk.files EXCEPT ![p] = files[p]]]
    BY <1>15 DEF SyncStage, SyncFiles
  <2>2. disk'.files[q] = disk.files[q] /\ disk'.place = disk.place /\ disk'.reserve = disk.reserve
    BY <2>1 DEF Typed
  <2> QED
    BY <1>15, <2>2 DEF SyncStage, Abort, Goto, Fail, Fine, rest, Typed, TypeOK, Spared,
                       Present
<1>16. CASE Commit(p)
  BY <1>16, FolderAssumption, NoneAssumption
     DEF Commit, Abort, Goto, Fail, Fine, directory, rest, Typed, TypeOK, Spared, Present
<1>17. CASE VerifyFinal(p)
  BY <1>17, FolderAssumption, NoneAssumption
     DEF VerifyFinal, Abort, Goto, Intact, Verified, Fail, Fine, directory, rest,
         Typed, TypeOK, Spared, Present
<1>18. CASE Release(p)
  <2>1. seq[p] \in Ids /\ reserve[seq[p]] = p
    BY <1>18 DEF Release, Position, Opening
  <2>2. reserve' = reserve \/ reserve' = [reserve EXCEPT ![seq[p]] = None]
    BY <1>18 DEF Release
  <2>3. \A i \in Ids : reserve'[i] = q <=> reserve[i] = q
    BY <2>1, <2>2, NoneAssumption DEF Typed, TypeOK
  <2> QED
    BY <1>18, <2>3 DEF Release, Abort, Goto, Fail, Fine, rest, Typed, TypeOK, Spared,
                       Present
<1>19. CASE SyncFinal(p)
  BY <1>19, FolderAssumption, NoneAssumption
     DEF SyncFinal, Abort, Return, Goto, SyncParent, Fail, Fine, directory, rest,
         Typed, TypeOK, Spared, Present
<1>20. CASE DropChecksums(p)
  BY <1>20, FolderAssumption, NoneAssumption, NameIsOwn
     DEF DropChecksums, Goto, Untidy, Fail, Fine, directory, rest, Typed, TypeOK,
         Spared, Present, Withdrawing
<1>21. CASE SyncDropped(p)
  <2>1. disk' = disk
        \/ disk' = [disk EXCEPT !.files =
                       [r \in Pubs |-> IF r \in AtName(p) THEN files[r] ELSE disk.files[r]]]
    BY <1>21 DEF SyncDropped
  <2>2. q \notin AtName(p)
    BY <1>21, NameIsOwn DEF SyncDropped, Withdrawing
  <2>3. disk'.files[q] = disk.files[q] /\ disk'.place = disk.place /\ disk'.reserve = disk.reserve
    BY <2>1, <2>2 DEF Typed
  <2> QED
    BY <1>21, <2>3 DEF SyncDropped, Untidy, Goto, Fail, Fine, rest, Typed, TypeOK, Spared,
                       Present
<1>22. CASE RemoveFinal(p)
  BY <1>22, FolderAssumption, NoneAssumption, NameIsOwn
     DEF RemoveFinal, Goto, Untidy, Fail, Fine, directory, rest, Typed, TypeOK,
         Spared, Present, Withdrawing
<1>23. CASE SyncRemoved(p)
  BY <1>23, FolderAssumption, NoneAssumption
     DEF SyncRemoved, Goto, Untidy, SyncParent, NoParent, Present, Fail, Fine, directory,
         rest, Typed, TypeOK, Spared, Present
<1>24. CASE RemoveStage(p)
  BY <1>24, FolderAssumption, NoneAssumption
     DEF RemoveStage, Goto, Untidy, Fail, Fine, directory, rest, Typed, TypeOK, Spared,
         Present
<1>25. CASE RemoveReservation(p)
  BY <1>25, FolderAssumption, NoneAssumption
     DEF RemoveReservation, Goto, Untidy, Fail, Fine, directory, rest, Typed, TypeOK,
         Spared, Present
<1>26. CASE SyncCleanup(p)
  BY <1>26, FolderAssumption, NoneAssumption
     DEF SyncCleanup, Goto, Untidy, SyncParent, NoParent, Present, TryNext, Return, Fail,
         Fine, directory, rest, Typed, TypeOK, Spared, Present
<1>27. CASE Crash(p)
  BY <1>27, FolderAssumption, NoneAssumption
     DEF Crash, Return, Goto, directory, Typed, TypeOK, Spared, Present
<1> QED
  BY <1>1, <1>2, <1>3, <1>4, <1>5, <1>6, <1>7, <1>8, <1>9, <1>10, <1>11, <1>12, <1>13,
     <1>14, <1>15, <1>16, <1>17, <1>18, <1>19, <1>20, <1>21, <1>22, <1>23, <1>24, <1>25,
     <1>26, <1>27
     DEF PubStep

\* What is true of a publisher that is left alone stays true.
LEMMA SparedKeeps ==
  ASSUME Typed, Typed', NEW q \in Pubs, PubInv(q), Spared(q)
  PROVE  PubInv(q)'
<1>1. Position(q)'
  BY Numbers, NoneAssumption
     DEF PubInv, Spared, Position, Listed, Vacant, Early, Opening, Reserving, Staging,
         Writing, Final, Withdrawing, Cleaning, Files
<1>2. Bytes(q)'
  BY DEF PubInv, Spared, Bytes, AllGood
<1>3. Success(q)'
  BY DEF PubInv, Spared, Success, AllGood
<1>4. Traces(q)'
  BY DEF PubInv, Spared, Traces, NoEntry, Resurfacing, Deferred, Unreserved
<1>5. Failures(q)'
  BY DEF PubInv, Spared, Failures, Position, Present, Listed, Whole, Incomplete, Vacant,
         Typed, TypeOK
<1> QED
  BY <1>1, <1>2, <1>3, <1>4, <1>5 DEF PubInv

-----------------------------------------------------------------------------
(* What some steps do, in terms of their publisher.                        *)

\* Synchronising the parent puts every entry of it on the disk.
LEMMA ParentSynced ==
  ASSUME Typed, SyncParent
  PROVE  /\ disk'.place = place /\ disk'.reserve = reserve /\ disk'.files = disk.files
         /\ Present
BY DEF SyncParent, Typed

\* A success is reported when the directory has been synchronised.
FinalSynced(p) ==
  /\ pc[p] = "sync" /\ UNCHANGED << place, files, seq, published, lost, losses >>
  /\ disk'.files = disk.files
  /\ \/ pc'[p] = "done" /\ result'[p] = "ok" /\ disk'.place = place
     \/ result' = result

\* That is what the step does.
LEMMA SyncFinalEffect ==
  ASSUME Typed, NEW p \in Pubs, SyncFinal(p)
  PROVE  FinalSynced(p)
<1> USE DEF FinalSynced
<1>1. CASE Fine /\ SyncParent /\ Return(p, "ok") /\ UNCHANGED why
  BY <1>1, ParentSynced DEF SyncFinal, Return, Goto, rest, Typed, TypeOK
<1>2. CASE Fail /\ Abort(p, "failed") /\ UNCHANGED << disk, result >>
  BY <1>2 DEF SyncFinal, rest
<1> QED
  BY <1>1, <1>2 DEF SyncFinal

\* The staging directory is synchronised whole, or the publisher withdraws.
StageSynced(p) ==
  /\ pc[p] = "sync_stage" /\ disk'.place = disk.place /\ disk'.reserve = disk.reserve
  /\ UNCHANGED << place, reserve, files, seq, published, tidy, result, folder, lost, losses >>
  /\ \/ pc'[p] = "commit" /\ why' = why /\ Intact(p) /\ disk'.files[p] = files[p]
     \/ /\ why'[p] = "failed" /\ disk'.files = disk.files
        /\ pc'[p] = IF published[p] THEN "drop_checksums" ELSE "remove_stage"

\* That is what the step does.
LEMMA SyncStageEffect ==
  ASSUME Typed, NEW p \in Pubs, SyncStage(p)
  PROVE  StageSynced(p)
<1> USE DEF StageSynced
<1>1. CASE Intact(p) /\ SyncFiles(p) /\ Goto(p, "commit") /\ UNCHANGED why
  <2>1. disk' = [disk EXCEPT !.files = [disk.files EXCEPT ![p] = files[p]]]
    BY <1>1 DEF SyncFiles
  <2>2. /\ disk'.place = disk.place /\ disk'.reserve = disk.reserve
        /\ disk'.files[p] = files[p]
    BY <2>1 DEF Typed
  <2> QED
    BY <1>1, <2>2 DEF SyncStage, Goto, rest, Typed
<1>2. CASE Abort(p, "failed") /\ UNCHANGED disk
  BY <1>2 DEF SyncStage, Abort, Goto, rest, Typed, TypeOK
<1> QED
  BY <1>1, <1>2 DEF SyncStage

\* The parent is synchronised, or that fails, or something after it does.
StageProtected(p) ==
  /\ pc[p] = "protect_stage" /\ disk'.files = disk.files
  /\ UNCHANGED << place, reserve, files, seq, published, tidy, why, result >>
  /\ UNCHANGED << folder, lost, losses >> /\ faults' \in {faults, faults + 1}
  /\ pc'[p] \in {"evidence", "drop_stage"}
  /\ \/ disk'.place = place /\ disk'.reserve = reserve
     \/ disk' = disk

\* That is what the step does.
LEMMA ProtectStageEffect ==
  ASSUME Typed, NEW p \in Pubs, ProtectStage(p)
  PROVE  StageProtected(p)
<1>1. SyncParent \/ disk' = disk
  BY DEF ProtectStage
<1>2. /\ disk'.files = disk.files
      /\ \/ disk'.place = place /\ disk'.reserve = reserve
         \/ disk' = disk
  BY <1>1, ParentSynced
<1> QED
  BY <1>2 DEF ProtectStage, StageProtected, Goto, Fail, Fine, rest, Typed

\* The same of the synchronisation after the staging directory was dropped.
StageDropped(p) ==
  /\ pc[p] = "sync_stage_dropped" /\ disk'.files = disk.files
  /\ UNCHANGED << place, reserve, files, seq, published, tidy, result >>
  /\ UNCHANGED << folder, lost, losses >> /\ faults' \in {faults, faults + 1}
  /\ pc'[p] = "remove_reservation" /\ why'[p] = "failed"
  /\ \/ disk'.place = place /\ disk'.reserve = reserve
     \/ disk' = disk

\* That is what the step does.
LEMMA SyncStageDroppedEffect ==
  ASSUME Typed, NEW p \in Pubs, SyncStageDropped(p)
  PROVE  StageDropped(p)
<1>1. SyncParent \/ disk' = disk
  BY DEF SyncStageDropped
<1>2. /\ disk'.files = disk.files
      /\ \/ disk'.place = place /\ disk'.reserve = reserve
         \/ disk' = disk
  BY <1>1, ParentSynced
<1> QED
  BY <1>2 DEF SyncStageDropped, StageDropped, Goto, Fail, Fine, rest, Typed, TypeOK

\* The checksums go first, or the removal fails.
ChecksumsDropped(p) ==
  /\ pc[p] = "drop_checksums" /\ pc'[p] = "sync_dropped"
  /\ UNCHANGED << disk, place, reserve, seq, published, why, result, folder, lost, losses >>
  /\ \A f \in Files : files'[p][f] \in {files[p][f], "absent"}
  /\ \/ files'[p]["checksums"] = "absent" /\ faults' = faults /\ tidy' = tidy
     \/ faults' = faults + 1 /\ ~tidy'[p]

\* That is what the step does.
LEMMA DropChecksumsEffect ==
  ASSUME Typed, NEW p \in Pubs, AtName(p) = {p}, DropChecksums(p)
  PROVE  ChecksumsDropped(p)
<1> USE DEF ChecksumsDropped
<1>1. CASE Fine /\ tidy' = tidy
  <2>1. files' = [q \in Pubs |-> IF q = p THEN [files[q] EXCEPT !["checksums"] = "absent"]
                                         ELSE files[q]] \/ Fail
    BY <1>1 DEF DropChecksums, Fail, Fine
  <2> QED
    BY <1>1, <2>1 DEF DropChecksums, Goto, Fail, Fine, Untidy, rest, Typed, TypeOK, Files
<1>2. CASE Fail /\ Untidy(p) /\ UNCHANGED files
  BY <1>2 DEF DropChecksums, Goto, Fail, Untidy, rest, Typed, TypeOK
<1> QED
  BY <1>1, <1>2 DEF DropChecksums

\* What is left of the files is put on the disk, or that fails.
DropSynced(p) ==
  /\ pc[p] = "sync_dropped" /\ pc'[p] = "remove_final"
  /\ UNCHANGED << place, reserve, files, seq, published, why, result, folder, lost, losses >>
  /\ disk'.place = disk.place /\ disk'.reserve = disk.reserve
  /\ (tidy'[p] => tidy[p])
  /\ \/ disk'.files[p] = files[p] /\ faults' = faults
     \/ disk'.files = disk.files /\ faults' = faults + 1 /\ ~tidy'[p]

\* That is what the step does.
LEMMA SyncDroppedEffect ==
  ASSUME Typed, NEW p \in Pubs, AtName(p) = {p}, SyncDropped(p)
  PROVE  DropSynced(p)
<1> USE DEF DropSynced
<1>1. CASE Fine /\ disk' = [disk EXCEPT !.files = [q \in Pubs |-> IF q = p THEN files[q]
                                                                   ELSE disk.files[q]]]
  <2>1. /\ disk'.place = disk.place /\ disk'.reserve = disk.reserve
        /\ disk'.files[p] = files[p]
    BY <1>1 DEF Typed
  <2> QED
    BY <1>1, <2>1 DEF SyncDropped, Goto, Fail, Fine, Untidy, rest, Typed, TypeOK
<1>2. CASE Fail /\ Untidy(p) /\ UNCHANGED disk
  BY <1>2 DEF SyncDropped, Goto, Fail, Untidy, rest, Typed, TypeOK
<1> QED
  BY <1>1, <1>2 DEF SyncDropped

\* The directory goes, or some of its files do.
FinalRemoved(p) ==
  /\ pc[p] = "remove_final" /\ pc'[p] = "sync_removed"
  /\ UNCHANGED << disk, reserve, seq, published, why, result, folder, lost, losses >>
  /\ \A f \in Files : files'[p][f] \in {files[p][f], "absent"}
  /\ \/ place'[p] = Nowhere /\ faults' = faults /\ tidy' = tidy
     \/ place' = place /\ faults' = faults + 1 /\ ~tidy'[p]

\* That is what the step does.
LEMMA RemoveFinalEffect ==
  ASSUME Typed, NEW p \in Pubs, AtName(p) = {p}, RemoveFinal(p)
  PROVE  FinalRemoved(p)
<1> USE DEF FinalRemoved
<1>1. CASE Fine /\ UNCHANGED << files, tidy >>
           /\ place' = [q \in Pubs |-> IF q = p THEN Nowhere ELSE place[q]]
  BY <1>1 DEF RemoveFinal, Goto, Fine, rest, Typed, TypeOK
<1>2. CASE /\ Fail /\ Untidy(p) /\ UNCHANGED place
           /\ \E left \in SUBSET Files :
                 files' = [q \in Pubs |->
                             IF q = p THEN [f \in Files |-> IF f \in left THEN files[q][f]
                                                                          ELSE "absent"]
                                      ELSE files[q]]
  BY <1>2 DEF RemoveFinal, Goto, Fail, Untidy, rest, Typed, TypeOK
<1> QED
  BY <1>1, <1>2 DEF RemoveFinal

\* The removal is put on the disk, or that fails, or there is no folder.
RemovalSynced(p) ==
  /\ pc[p] = "sync_removed" /\ pc'[p] = "remove_stage"
  /\ UNCHANGED << place, reserve, files, seq, published, why, result, folder, lost, losses >>
  /\ disk'.files = disk.files /\ (tidy'[p] => tidy[p])
  /\ \/ /\ disk'.place = place /\ disk'.reserve = reserve /\ faults' = faults
        /\ Present
     \/ /\ disk' = disk /\ ~tidy'[p]
        /\ faults' = faults + 1 \/ (~Present /\ faults' = faults)

\* That is what the step does.
LEMMA SyncRemovedEffect ==
  ASSUME Typed, NEW p \in Pubs, SyncRemoved(p)
  PROVE  RemovalSynced(p)
<1> USE DEF RemovalSynced
<1>1. CASE Fine /\ SyncParent
  BY <1>1, ParentSynced DEF SyncRemoved, Goto, Fail, NoParent, Present, Fine, Untidy, rest,
                            Typed, TypeOK
<1>2. CASE (Fail \/ NoParent) /\ Untidy(p) /\ UNCHANGED disk
  BY <1>2 DEF SyncRemoved, Goto, Fail, NoParent, Present, Fine, Untidy, rest, Typed, TypeOK
<1> QED
  BY <1>1, <1>2 DEF SyncRemoved

\* The end of a cleanup: the next round after a collision, otherwise the return.
CleanupSynced(p) ==
  /\ pc[p] = "sync_cleanup"
  /\ UNCHANGED << place, reserve, files, published, why, folder, lost, losses >>
  /\ disk'.files = disk.files /\ faults' \in {faults, faults + 1}
  /\ \/ disk'.place = place /\ disk'.reserve = reserve /\ tidy' = tidy
     \/ disk' = disk /\ ~tidy'[p]
  /\ \/ /\ why[p] = "collision" /\ pc'[p] = "scan" /\ result' = result
        /\ seq'[p] = seq[p] + 1
     \/ /\ why[p] # "collision" /\ pc'[p] = "done" /\ result'[p] = why[p]
        /\ seq' = seq

\* That is what the step does.
LEMMA SyncCleanupEffect ==
  ASSUME Typed, NEW p \in Pubs, SyncCleanup(p)
  PROVE  CleanupSynced(p)
<1> USE DEF CleanupSynced
<1>1. /\ pc[p] = "sync_cleanup"
      /\ UNCHANGED << place, reserve, files, published, why, folder, lost, losses >>
      /\ \/ /\ why[p] = "collision" /\ pc'[p] = "scan" /\ result' = result
            /\ seq'[p] = seq[p] + 1
         \/ /\ why[p] # "collision" /\ pc'[p] = "done" /\ result'[p] = why[p]
            /\ seq' = seq
  BY DEF SyncCleanup, Goto, TryNext, Return, rest, Typed, TypeOK
<1>2. CASE Fine /\ SyncParent /\ UNCHANGED tidy
  BY <1>1, <1>2, ParentSynced DEF Fine
<1>3. CASE (Fail \/ NoParent) /\ Untidy(p) /\ UNCHANGED disk
  BY <1>1, <1>3 DEF Fail, NoParent, Present, Fine, Untidy, Typed, TypeOK
<1> QED
  BY <1>1, <1>2, <1>3 DEF SyncCleanup

\* Progress and place of the publisher agree after its step.
LEMMA OwnPosition ==
  ASSUME Typed, Typed', Distinct, NEW p \in Pubs, PubInv(p), PubStep(p) \/ Crash(p)
  PROVE  Position(p)'
<1>1. CASE Start(p)
  BY <1>1, Numbers, FolderAssumption, NoneAssumption
     DEF Start, Return, Goto, Fail, Fine, directory, rest, Typed, TypeOK, PubInv, Position,
         Present, Listed, Files, Early, Opening, Reserving, Staging, Writing, Final,
         Withdrawing, Cleaning
<1>2. CASE OpenFolder(p)
  BY <1>2, Numbers, FolderAssumption, NoneAssumption
     DEF OpenFolder, Return, Goto, Fail, Fine, directory, rest, Typed, TypeOK, PubInv,
         Position, Present, Listed, Files, Early, Opening, Reserving, Staging, Writing,
         Final, Withdrawing, Cleaning
<1>3. CASE MakeFolder(p)
  BY <1>3, Numbers, FolderAssumption, NoneAssumption
     DEF MakeFolder, Return, Goto, Fail, Fine, directory, rest, Typed, TypeOK, PubInv,
         Position, Present, Listed, Files, Early, Opening, Reserving, Staging, Writing,
         Final, Withdrawing, Cleaning
<1>4. CASE SyncFolder(p)
  BY <1>4, Numbers, FolderAssumption, NoneAssumption
     DEF SyncFolder, Return, Goto, NoParent, Fail, Fine, directory, rest, Typed, TypeOK,
         PubInv, Position, Present, Listed, Files, Early, Opening, Reserving, Staging,
         Writing, Final, Withdrawing, Cleaning
<1>5. CASE Scan(p)
  BY <1>5, Numbers, FolderAssumption, NoneAssumption
     DEF Scan, Return, Goto, TryNext, Fail, Fine, directory, rest, Typed, TypeOK, PubInv,
         Position, Present, Listed, Files, Early, Opening, Reserving, Staging, Writing,
         Final, Withdrawing, Cleaning
<1>6. CASE Reserve(p)
  BY <1>6, Numbers, FolderAssumption, NoneAssumption
     DEF Reserve, Return, Goto, TryNext, NoParent, Fail, Fine, directory, rest, Typed,
         TypeOK, PubInv, Position, Present, Listed, Files, Early, Opening, Reserving,
         Staging, Writing, Final, Withdrawing, Cleaning
<1>7. CASE ProtectReservation(p)
  BY <1>7, Numbers, FolderAssumption, NoneAssumption
     DEF ProtectReservation, Goto, Fail, Fine, directory, rest, Typed, TypeOK, PubInv,
         Position, Present, Listed, Files, Early, Opening, Reserving, Staging, Writing,
         Final, Withdrawing, Cleaning
<1>8. CASE DropReservation(p)
  BY <1>8, Numbers, FolderAssumption, NoneAssumption
     DEF DropReservation, Return, Goto, Untidy, Fail, Fine, directory, rest, Typed, TypeOK,
         PubInv, Position, Present, Listed, Files, Early, Opening, Reserving, Staging,
         Writing, Final, Withdrawing, Cleaning
<1>9. CASE CreateStage(p)
  BY <1>9, Numbers, FolderAssumption, NoneAssumption
     DEF CreateStage, Abort, Goto, Fail, Fine, directory, rest, Typed, TypeOK, PubInv,
         Position, Present, Listed, Files, Early, Opening, Reserving, Staging, Writing,
         Final, Withdrawing, Cleaning
<1>10. CASE ProtectStage(p)
  <2>1. StageProtected(p)
    BY <1>10, ProtectStageEffect
  <2> QED
    BY <2>1, Numbers, FolderAssumption, NoneAssumption
       DEF StageProtected, Present, Typed, TypeOK, PubInv, Position, Present, Listed,
           Files, Early, Opening, Reserving, Staging, Writing, Final, Withdrawing,
           Cleaning
<1>11. CASE DropStage(p)
  BY <1>11, Numbers, FolderAssumption, NoneAssumption
     DEF DropStage, Goto, Untidy, Fail, Fine, directory, rest, Typed, TypeOK, PubInv,
         Position, Present, Listed, Files, Early, Opening, Reserving, Staging, Writing,
         Final, Withdrawing, Cleaning
<1>12. CASE SyncStageDropped(p)
  <2>1. StageDropped(p)
    BY <1>12, SyncStageDroppedEffect
  <2> QED
    BY <2>1, Numbers, FolderAssumption, NoneAssumption
       DEF StageDropped, Present, Typed, TypeOK, PubInv, Position, Present, Listed,
           Files, Early, Opening, Reserving, Staging, Writing, Final, Withdrawing,
           Cleaning
<1>13. CASE WriteFile(p)
  BY <1>13, Numbers, FolderAssumption, NoneAssumption
     DEF WriteFile, Abort, Goto, Fail, Fine, directory, rest, Typed, TypeOK, PubInv,
         Position, Present, Listed, Files, Early, Opening, Reserving, Staging, Writing,
         Final, Withdrawing, Cleaning
<1>14. CASE ReadBack(p)
  BY <1>14, Numbers, FolderAssumption, NoneAssumption
     DEF ReadBack, Abort, Goto, Verified, After, Fail, Fine, directory, rest, Typed, TypeOK,
         PubInv, Position, Present, Listed, Files, Early, Opening, Reserving, Staging,
         Writing, Final, Withdrawing, Cleaning
<1>15. CASE SyncStage(p)
  <2>1. StageSynced(p)
    BY <1>15, SyncStageEffect
  <2> QED
    BY <2>1, Numbers, FolderAssumption
       DEF StageSynced, Typed, TypeOK, PubInv, Position, Present, Listed, Files, Early,
           Opening, Reserving, Staging, Writing, Final, Withdrawing, Cleaning
<1>16. CASE Commit(p)
  <2>1. CASE place' = [place EXCEPT ![p] = seq[p]] /\ Goto(p, "verify")
             /\ published' = [published EXCEPT ![p] = TRUE] /\ UNCHANGED why
    BY <1>16, <2>1, Numbers, FolderAssumption
       DEF Commit, Goto, rest, Typed, TypeOK, PubInv, Position, Present, Listed, Files,
           Early, Opening, Reserving, Staging, Writing, Final, Withdrawing, Cleaning
  <2>2. CASE UNCHANGED << place, published >>
    BY <1>16, <2>2, Numbers, FolderAssumption
       DEF Commit, Abort, Goto, rest, Typed, TypeOK, PubInv, Position, Present, Listed,
           Files, Early, Opening, Reserving, Staging, Writing, Final, Withdrawing, Cleaning
  <2> QED
    BY <1>16, <2>1, <2>2 DEF Commit, Abort
<1>17. CASE VerifyFinal(p)
  BY <1>17, Numbers, FolderAssumption, NoneAssumption
     DEF VerifyFinal, Abort, Goto, Intact, Verified, Fail, Fine, directory, rest, Typed,
         TypeOK, PubInv, Position, Present, Listed, Files, Early, Opening, Reserving,
         Staging, Writing, Final, Withdrawing, Cleaning
<1>18. CASE Release(p)
  BY <1>18, Numbers, FolderAssumption, NoneAssumption
     DEF Release, Abort, Goto, Fail, Fine, directory, rest, Typed, TypeOK, PubInv, Position,
         Present, Listed, Files, Early, Opening, Reserving, Staging, Writing, Final,
         Withdrawing, Cleaning
<1>19. CASE SyncFinal(p)
  BY <1>19, Numbers, FolderAssumption, NoneAssumption
     DEF SyncFinal, Abort, Return, Goto, SyncParent, Fail, Fine, directory, rest, Typed,
         TypeOK, PubInv, Position, Present, Listed, Files, Early, Opening, Reserving,
         Staging, Writing, Final, Withdrawing, Cleaning
<1>20. CASE DropChecksums(p)
  BY <1>20, Numbers, FolderAssumption, NoneAssumption, NameIsOwn
     DEF DropChecksums, Goto, Untidy, Fail, Fine, directory, rest, Typed, TypeOK, PubInv,
         Position, Present, Listed, Files, Early, Opening, Reserving, Staging, Writing,
         Final, Withdrawing, Cleaning
<1>21. CASE SyncDropped(p)
  BY <1>21, Numbers, FolderAssumption, NoneAssumption, NameIsOwn
     DEF SyncDropped, Goto, Untidy, Fail, Fine, directory, rest, Typed, TypeOK, PubInv,
         Position, Present, Listed, Files, Early, Opening, Reserving, Staging, Writing,
         Final, Withdrawing, Cleaning
<1>22. CASE RemoveFinal(p)
  BY <1>22, Numbers, FolderAssumption, NoneAssumption, NameIsOwn
     DEF RemoveFinal, Goto, Untidy, Fail, Fine, directory, rest, Typed, TypeOK, PubInv,
         Position, Present, Listed, Files, Early, Opening, Reserving, Staging, Writing,
         Final, Withdrawing, Cleaning
<1>23. CASE SyncRemoved(p)
  BY <1>23, Numbers, FolderAssumption, NoneAssumption
     DEF SyncRemoved, Goto, Untidy, SyncParent, NoParent, Present, Fail, Fine, directory,
         rest, Typed, TypeOK, PubInv, Position, Present, Listed, Files, Early, Opening,
         Reserving, Staging, Writing, Final, Withdrawing, Cleaning
<1>24. CASE RemoveStage(p)
  BY <1>24, Numbers, FolderAssumption, NoneAssumption
     DEF RemoveStage, Goto, Untidy, Fail, Fine, directory, rest, Typed, TypeOK, PubInv,
         Position, Present, Listed, Files, Early, Opening, Reserving, Staging, Writing,
         Final, Withdrawing, Cleaning
<1>25. CASE RemoveReservation(p)
  BY <1>25, Numbers, FolderAssumption, NoneAssumption
     DEF RemoveReservation, Goto, Untidy, Fail, Fine, directory, rest, Typed, TypeOK,
         PubInv, Position, Present, Listed, Files, Early, Opening, Reserving, Staging,
         Writing, Final, Withdrawing, Cleaning
<1>26. CASE SyncCleanup(p)
  <2>1. seq[p] \in Ids => seq'[p] \in 1..(MaxSeq + 1)
    BY DEF Typed, TypeOK
  <2>2. CleanupSynced(p)
    BY <1>26, SyncCleanupEffect
  <2> QED
    BY <2>1, <2>2, Numbers, FolderAssumption, NoneAssumption
       DEF CleanupSynced, Typed, TypeOK, PubInv, Position, Present, Listed, Files, Early,
           Opening, Reserving, Staging, Writing, Final, Withdrawing, Cleaning
<1>27. CASE Crash(p)
  BY <1>27, Numbers, FolderAssumption, NoneAssumption
     DEF Crash, Return, Goto, directory, Typed, TypeOK, PubInv, Position, Present, Listed,
         Files, Early, Opening, Reserving, Staging, Writing, Final, Withdrawing, Cleaning
<1> QED
  BY <1>1, <1>2, <1>3, <1>4, <1>5, <1>6, <1>7, <1>8, <1>9, <1>10, <1>11, <1>12, <1>13,
     <1>14, <1>15, <1>16, <1>17, <1>18, <1>19, <1>20, <1>21, <1>22, <1>23, <1>24, <1>25,
     <1>26, <1>27
     DEF PubStep

\* What it wrote is there until it withdraws it, and nothing else.
LEMMA OwnBytes ==
  ASSUME Typed, Typed', Distinct, NEW p \in Pubs, PubInv(p), PubStep(p) \/ Crash(p)
  PROVE  Bytes(p)'
<1>1. CASE Start(p)
  BY <1>1, Numbers
     DEF Start, Return, Goto, Fail, Fine, directory, rest, Typed, TypeOK, PubInv, Position,
         Present, Bytes, AllGood, Files, NoFiles, Listed, Early, Opening, Reserving,
         Staging, Writing, Final, Withdrawing, Cleaning
<1>2. CASE OpenFolder(p)
  BY <1>2, Numbers
     DEF OpenFolder, Return, Goto, Fail, Fine, directory, rest, Typed, TypeOK, PubInv,
         Position, Present, Bytes, AllGood, Files, NoFiles, Listed, Early, Opening,
         Reserving, Staging, Writing, Final, Withdrawing, Cleaning
<1>3. CASE MakeFolder(p)
  BY <1>3, Numbers
     DEF MakeFolder, Return, Goto, Fail, Fine, directory, rest, Typed, TypeOK, PubInv,
         Position, Present, Bytes, AllGood, Files, NoFiles, Listed, Early, Opening,
         Reserving, Staging, Writing, Final, Withdrawing, Cleaning
<1>4. CASE SyncFolder(p)
  BY <1>4, Numbers
     DEF SyncFolder, Return, Goto, NoParent, Fail, Fine, directory, rest, Typed, TypeOK,
         PubInv, Position, Present, Bytes, AllGood, Files, NoFiles, Listed, Early, Opening,
         Reserving, Staging, Writing, Final, Withdrawing, Cleaning
<1>5. CASE Scan(p)
  BY <1>5, Numbers
     DEF Scan, Return, Goto, TryNext, Fail, Fine, directory, rest, Typed, TypeOK, PubInv,
         Position, Present, Bytes, AllGood, Files, NoFiles, Listed, Early, Opening,
         Reserving, Staging, Writing, Final, Withdrawing, Cleaning
<1>6. CASE Reserve(p)
  BY <1>6, Numbers
     DEF Reserve, Return, Goto, TryNext, NoParent, Fail, Fine, directory, rest, Typed,
         TypeOK, PubInv, Position, Present, Bytes, AllGood, Files, NoFiles, Listed, Early,
         Opening, Reserving, Staging, Writing, Final, Withdrawing, Cleaning
<1>7. CASE ProtectReservation(p)
  BY <1>7, Numbers
     DEF ProtectReservation, Goto, Fail, Fine, directory, rest, Typed, TypeOK, PubInv,
         Position, Present, Bytes, AllGood, Files, NoFiles, Listed, Early, Opening,
         Reserving, Staging, Writing, Final, Withdrawing, Cleaning
<1>8. CASE DropReservation(p)
  BY <1>8, Numbers
     DEF DropReservation, Return, Goto, Untidy, Fail, Fine, directory, rest, Typed,
         TypeOK, PubInv, Position, Present, Bytes, AllGood, Files, NoFiles, Listed, Early,
         Opening, Reserving, Staging, Writing, Final, Withdrawing, Cleaning
<1>9. CASE CreateStage(p)
  BY <1>9, Numbers
     DEF CreateStage, Abort, Goto, Fail, Fine, directory, rest, Typed, TypeOK, PubInv,
         Position, Present, Bytes, AllGood, Files, NoFiles, Listed, Early, Opening,
         Reserving, Staging, Writing, Final, Withdrawing, Cleaning
<1>10. CASE ProtectStage(p)
  <2>1. StageProtected(p)
    BY <1>10, ProtectStageEffect
  <2> QED
    BY <2>1, Numbers
       DEF StageProtected, Present, Typed, TypeOK, PubInv, Position, Present, Bytes,
           AllGood, Files, NoFiles, Listed, Early, Opening, Reserving, Staging, Writing,
           Final, Withdrawing, Cleaning
<1>11. CASE DropStage(p)
  BY <1>11, Numbers
     DEF DropStage, Goto, Untidy, Fail, Fine, directory, rest, Typed, TypeOK, PubInv,
         Position, Present, Bytes, AllGood, Files, NoFiles, Listed, Early, Opening,
         Reserving, Staging, Writing, Final, Withdrawing, Cleaning
<1>12. CASE SyncStageDropped(p)
  <2>1. StageDropped(p)
    BY <1>12, SyncStageDroppedEffect
  <2> QED
    BY <2>1, Numbers
       DEF StageDropped, Present, Typed, TypeOK, PubInv, Position, Present, Bytes,
           AllGood, Files, NoFiles, Listed, Early, Opening, Reserving, Staging, Writing,
           Final, Withdrawing, Cleaning
<1>13. CASE WriteFile(p)
  BY <1>13, Numbers
     DEF WriteFile, Abort, Goto, Fail, Fine, directory, rest, Typed, TypeOK, PubInv,
         Position, Present, Bytes, AllGood, Files, NoFiles, Listed, Early, Opening,
         Reserving, Staging, Writing, Final, Withdrawing, Cleaning
<1>14. CASE ReadBack(p)
  BY <1>14, Numbers
     DEF ReadBack, Abort, Goto, Verified, After, Fail, Fine, directory, rest, Typed,
         TypeOK, PubInv, Position, Present, Bytes, AllGood, Files, NoFiles, Listed, Early,
         Opening, Reserving, Staging, Writing, Final, Withdrawing, Cleaning
<1>15. CASE SyncStage(p)
  BY <1>15, Numbers
     DEF SyncStage, Abort, Goto, Intact, Verified, SyncFiles, Fail, Fine, directory,
         rest, Typed, TypeOK, PubInv, Position, Present, Bytes, AllGood, Files, NoFiles,
         Listed, Early, Opening, Reserving, Staging, Writing, Final, Withdrawing, Cleaning
<1>16. CASE Commit(p)
  BY <1>16, Numbers
     DEF Commit, Abort, Goto, Fail, Fine, directory, rest, Typed, TypeOK, PubInv, Position,
         Present, Bytes, AllGood, Files, NoFiles, Listed, Early, Opening, Reserving,
         Staging, Writing, Final, Withdrawing, Cleaning
<1>17. CASE VerifyFinal(p)
  BY <1>17, Numbers
     DEF VerifyFinal, Abort, Goto, Intact, Verified, Fail, Fine, directory, rest,
         Typed, TypeOK, PubInv, Position, Present, Bytes, AllGood, Files, NoFiles, Listed,
         Early, Opening, Reserving, Staging, Writing, Final, Withdrawing, Cleaning
<1>18. CASE Release(p)
  BY <1>18, Numbers
     DEF Release, Abort, Goto, Fail, Fine, directory, rest, Typed, TypeOK, PubInv, Position,
         Present, Bytes, AllGood, Files, NoFiles, Listed, Early, Opening, Reserving,
         Staging, Writing, Final, Withdrawing, Cleaning
<1>19. CASE SyncFinal(p)
  <2>1. FinalSynced(p)
    BY <1>19, SyncFinalEffect
  <2>2. pc'[p] \in {"commit"} \cup Final => AllGood(p)'
    BY <2>1, <1>19 DEF FinalSynced, AllGood, PubInv, Bytes, Final
  <2> QED
    BY <2>1, <2>2 DEF FinalSynced, PubInv, Bytes
<1>20. CASE DropChecksums(p)
  BY <1>20, Numbers, NameIsOwn
     DEF DropChecksums, Goto, Untidy, Fail, Fine, directory, rest, Typed, TypeOK, PubInv,
         Position, Present, Bytes, AllGood, Files, NoFiles, Listed, Early, Opening,
         Reserving, Staging, Writing, Final, Withdrawing, Cleaning
<1>21. CASE SyncDropped(p)
  BY <1>21, Numbers, NameIsOwn
     DEF SyncDropped, Goto, Untidy, Fail, Fine, directory, rest, Typed, TypeOK, PubInv,
         Position, Present, Bytes, AllGood, Files, NoFiles, Listed, Early, Opening,
         Reserving, Staging, Writing, Final, Withdrawing, Cleaning
<1>22. CASE RemoveFinal(p)
  BY <1>22, Numbers, NameIsOwn
     DEF RemoveFinal, Goto, Untidy, Fail, Fine, directory, rest, Typed, TypeOK, PubInv,
         Position, Present, Bytes, AllGood, Files, NoFiles, Listed, Early, Opening,
         Reserving, Staging, Writing, Final, Withdrawing, Cleaning
<1>23. CASE SyncRemoved(p)
  <2>1. RemovalSynced(p)
    BY <1>23, SyncRemovedEffect
  <2> QED
    BY <2>1, Numbers
       DEF RemovalSynced, Typed, TypeOK, PubInv, Position, Present, Bytes, AllGood, Files,
           NoFiles, Listed, Early, Opening, Reserving, Staging, Writing, Final, Withdrawing,
           Cleaning
<1>24. CASE RemoveStage(p)
  BY <1>24, Numbers
     DEF RemoveStage, Goto, Untidy, Fail, Fine, directory, rest, Typed, TypeOK, PubInv,
         Position, Present, Bytes, AllGood, Files, NoFiles, Listed, Early, Opening,
         Reserving, Staging, Writing, Final, Withdrawing, Cleaning
<1>25. CASE RemoveReservation(p)
  BY <1>25, Numbers
     DEF RemoveReservation, Goto, Untidy, Fail, Fine, directory, rest, Typed, TypeOK,
         PubInv, Position, Present, Bytes, AllGood, Files, NoFiles, Listed, Early, Opening,
         Reserving, Staging, Writing, Final, Withdrawing, Cleaning
<1>26. CASE SyncCleanup(p)
  <2>1. CleanupSynced(p)
    BY <1>26, SyncCleanupEffect
  <2> QED
    BY <2>1, Numbers
       DEF CleanupSynced, Typed, TypeOK, PubInv, Position, Present, Bytes, AllGood, Files,
           NoFiles, Listed, Early, Opening, Reserving, Staging, Writing, Final, Withdrawing,
           Cleaning
<1>27. CASE Crash(p)
  BY <1>27, Numbers
     DEF Crash, Return, Goto, directory, Typed, TypeOK, PubInv, Position, Present, Bytes,
         AllGood, Files, NoFiles, Listed, Early, Opening, Reserving, Staging, Writing,
         Final, Withdrawing, Cleaning
<1> QED
  BY <1>1, <1>2, <1>3, <1>4, <1>5, <1>6, <1>7, <1>8, <1>9, <1>10, <1>11, <1>12, <1>13,
     <1>14, <1>15, <1>16, <1>17, <1>18, <1>19, <1>20, <1>21, <1>22, <1>23, <1>24, <1>25,
     <1>26, <1>27
     DEF PubStep

\* It reports a success when the bundle is on the disk.
LEMMA OwnSuccess ==
  ASSUME Typed, Typed', Distinct, NEW p \in Pubs, PubInv(p), PubStep(p) \/ Crash(p)
  PROVE  Success(p)'
<1>1. CASE Start(p)
  BY <1>1, Numbers
     DEF Start, Return, Goto, Fail, Fine, directory, rest, Typed, TypeOK, PubInv, Position,
         Present, Bytes, Success, AllGood, Files, Early, Opening, Reserving, Staging,
         Writing, Final, Withdrawing, Cleaning
<1>2. CASE OpenFolder(p)
  BY <1>2, Numbers
     DEF OpenFolder, Return, Goto, Fail, Fine, directory, rest, Typed, TypeOK, PubInv,
         Position, Present, Bytes, Success, AllGood, Files, Early, Opening, Reserving,
         Staging, Writing, Final, Withdrawing, Cleaning
<1>3. CASE MakeFolder(p)
  BY <1>3, Numbers
     DEF MakeFolder, Return, Goto, Fail, Fine, directory, rest, Typed, TypeOK, PubInv,
         Position, Present, Bytes, Success, AllGood, Files, Early, Opening, Reserving,
         Staging, Writing, Final, Withdrawing, Cleaning
<1>4. CASE SyncFolder(p)
  BY <1>4, Numbers
     DEF SyncFolder, Return, Goto, NoParent, Fail, Fine, directory, rest, Typed, TypeOK,
         PubInv, Position, Present, Bytes, Success, AllGood, Files, Early, Opening,
         Reserving, Staging, Writing, Final, Withdrawing, Cleaning
<1>5. CASE Scan(p)
  BY <1>5, Numbers
     DEF Scan, Return, Goto, TryNext, Fail, Fine, directory, rest, Typed, TypeOK, PubInv,
         Position, Present, Bytes, Success, AllGood, Files, Early, Opening, Reserving,
         Staging, Writing, Final, Withdrawing, Cleaning
<1>6. CASE Reserve(p)
  BY <1>6, Numbers
     DEF Reserve, Return, Goto, TryNext, NoParent, Fail, Fine, directory, rest, Typed,
         TypeOK, PubInv, Position, Present, Bytes, Success, AllGood, Files, Early, Opening,
         Reserving, Staging, Writing, Final, Withdrawing, Cleaning
<1>7. CASE ProtectReservation(p)
  BY <1>7, Numbers
     DEF ProtectReservation, Goto, Fail, Fine, directory, rest, Typed, TypeOK, PubInv,
         Position, Present, Bytes, Success, AllGood, Files, Early, Opening, Reserving,
         Staging, Writing, Final, Withdrawing, Cleaning
<1>8. CASE DropReservation(p)
  BY <1>8, Numbers
     DEF DropReservation, Return, Goto, Untidy, Fail, Fine, directory, rest, Typed, TypeOK,
         PubInv, Position, Present, Bytes, Success, AllGood, Files, Early, Opening,
         Reserving, Staging, Writing, Final, Withdrawing, Cleaning
<1>9. CASE CreateStage(p)
  BY <1>9, Numbers
     DEF CreateStage, Abort, Goto, Fail, Fine, directory, rest, Typed, TypeOK, PubInv,
         Position, Present, Bytes, Success, AllGood, Files, Early, Opening, Reserving,
         Staging, Writing, Final, Withdrawing, Cleaning
<1>10. CASE ProtectStage(p)
  <2>1. StageProtected(p)
    BY <1>10, ProtectStageEffect
  <2> QED
    BY <2>1, Numbers
       DEF StageProtected, Present, Typed, TypeOK, PubInv, Position, Present, Bytes,
           Success, AllGood, Files, Early, Opening, Reserving, Staging, Writing, Final,
           Withdrawing, Cleaning
<1>11. CASE DropStage(p)
  BY <1>11, Numbers
     DEF DropStage, Goto, Untidy, Fail, Fine, directory, rest, Typed, TypeOK, PubInv,
         Position, Present, Bytes, Success, AllGood, Files, Early, Opening, Reserving,
         Staging, Writing, Final, Withdrawing, Cleaning
<1>12. CASE SyncStageDropped(p)
  <2>1. StageDropped(p)
    BY <1>12, SyncStageDroppedEffect
  <2> QED
    BY <2>1, Numbers
       DEF StageDropped, Present, Typed, TypeOK, PubInv, Position, Present, Bytes,
           Success, AllGood, Files, Early, Opening, Reserving, Staging, Writing, Final,
           Withdrawing, Cleaning
<1>13. CASE WriteFile(p)
  BY <1>13, Numbers
     DEF WriteFile, Abort, Goto, Fail, Fine, directory, rest, Typed, TypeOK, PubInv,
         Position, Present, Bytes, Success, AllGood, Files, Early, Opening, Reserving,
         Staging, Writing, Final, Withdrawing, Cleaning
<1>14. CASE ReadBack(p)
  BY <1>14, Numbers
     DEF ReadBack, Abort, Goto, Verified, After, Fail, Fine, directory, rest, Typed, TypeOK,
         PubInv, Position, Present, Bytes, Success, AllGood, Files, Early, Opening,
         Reserving, Staging, Writing, Final, Withdrawing, Cleaning
<1>15. CASE SyncStage(p)
  BY <1>15, Numbers
     DEF SyncStage, Abort, Goto, Intact, Verified, SyncFiles, Fail, Fine, directory, rest,
         Typed, TypeOK, PubInv, Position, Present, Bytes, Success, AllGood, Files, Early,
         Opening, Reserving, Staging, Writing, Final, Withdrawing, Cleaning
<1>16. CASE Commit(p)
  BY <1>16, Numbers
     DEF Commit, Abort, Goto, Fail, Fine, directory, rest, Typed, TypeOK, PubInv, Position,
         Present, Bytes, Success, AllGood, Files, Early, Opening, Reserving, Staging,
         Writing, Final, Withdrawing, Cleaning
<1>17. CASE VerifyFinal(p)
  BY <1>17, Numbers
     DEF VerifyFinal, Abort, Goto, Intact, Verified, Fail, Fine, directory, rest,
         Typed, TypeOK, PubInv, Position, Present, Bytes, Success, AllGood, Files, Early,
         Opening, Reserving, Staging, Writing, Final, Withdrawing, Cleaning
<1>18. CASE Release(p)
  BY <1>18, Numbers
     DEF Release, Abort, Goto, Fail, Fine, directory, rest, Typed, TypeOK, PubInv, Position,
         Present, Bytes, Success, AllGood, Files, Early, Opening, Reserving, Staging,
         Writing, Final, Withdrawing, Cleaning
<1>19. CASE SyncFinal(p)
  <2>1. CASE Fine /\ SyncParent /\ Return(p, "ok") /\ UNCHANGED why
    <3>1. place[p] = seq[p] /\ AllGood(p)
      BY <1>19 DEF SyncFinal, PubInv, Position, Present, Bytes, Final
    <3>2. disk'.place = place /\ disk'.files = disk.files
      BY <2>1, ParentSynced
    <3> QED
      BY <1>19, <3>1, <3>2 DEF SyncFinal, Success, AllGood, rest
  <2>2. CASE Fail /\ Abort(p, "failed") /\ UNCHANGED << disk, result >>
    <3>1. result'[p] # "ok"
      BY <1>19, <2>2 DEF SyncFinal, PubInv, Position
    <3> QED
      BY <3>1 DEF Success
  <2> QED
    BY <1>19, <2>1, <2>2 DEF SyncFinal
<1>20. CASE DropChecksums(p)
  BY <1>20, Numbers, NameIsOwn
     DEF DropChecksums, Goto, Untidy, Fail, Fine, directory, rest, Typed, TypeOK, PubInv,
         Position, Present, Bytes, Success, AllGood, Files, Early, Opening, Reserving,
         Staging, Writing, Final, Withdrawing, Cleaning
<1>21. CASE SyncDropped(p)
  BY <1>21, Numbers, NameIsOwn
     DEF SyncDropped, Goto, Untidy, Fail, Fine, directory, rest, Typed, TypeOK, PubInv,
         Position, Present, Bytes, Success, AllGood, Files, Early, Opening, Reserving,
         Staging, Writing, Final, Withdrawing, Cleaning
<1>22. CASE RemoveFinal(p)
  BY <1>22, Numbers, NameIsOwn
     DEF RemoveFinal, Goto, Untidy, Fail, Fine, directory, rest, Typed, TypeOK, PubInv,
         Position, Present, Bytes, Success, AllGood, Files, Early, Opening, Reserving,
         Staging, Writing, Final, Withdrawing, Cleaning
<1>23. CASE SyncRemoved(p)
  <2>1. result'[p] # "ok"
    BY <1>23, SyncRemovedEffect DEF RemovalSynced, PubInv, Position
  <2> QED
    BY <2>1 DEF Success
<1>24. CASE RemoveStage(p)
  BY <1>24, Numbers
     DEF RemoveStage, Goto, Untidy, Fail, Fine, directory, rest, Typed, TypeOK, PubInv,
         Position, Present, Bytes, Success, AllGood, Files, Early, Opening, Reserving,
         Staging, Writing, Final, Withdrawing, Cleaning
<1>25. CASE RemoveReservation(p)
  BY <1>25, Numbers
     DEF RemoveReservation, Goto, Untidy, Fail, Fine, directory, rest, Typed, TypeOK,
         PubInv, Position, Present, Bytes, Success, AllGood, Files, Early, Opening,
         Reserving, Staging, Writing, Final, Withdrawing, Cleaning
<1>26. CASE SyncCleanup(p)
  <2>1. result'[p] # "ok"
    BY <1>26, SyncCleanupEffect DEF CleanupSynced, PubInv, Position, Typed, TypeOK
  <2> QED
    BY <2>1 DEF Success
<1>27. CASE Crash(p)
  BY <1>27, Numbers
     DEF Crash, Return, Goto, directory, Typed, TypeOK, PubInv, Position, Present, Bytes,
         Success, AllGood, Files, Early, Opening, Reserving, Staging, Writing, Final,
         Withdrawing, Cleaning
<1> QED
  BY <1>1, <1>2, <1>3, <1>4, <1>5, <1>6, <1>7, <1>8, <1>9, <1>10, <1>11, <1>12, <1>13,
     <1>14, <1>15, <1>16, <1>17, <1>18, <1>19, <1>20, <1>21, <1>22, <1>23, <1>24, <1>25,
     <1>26, <1>27
     DEF PubStep

\* It has removed what it made when it reports that it has not published.
LEMMA OwnTraces ==
  ASSUME Typed, Typed', Distinct, NEW p \in Pubs, PubInv(p), PubStep(p) \/ Crash(p)
  PROVE  Traces(p)'
<1>1. CASE Start(p)
  BY <1>1, Numbers, NoneAssumption
     DEF Start, Return, Goto, Fail, Fine, directory, rest, Typed, TypeOK, PubInv, Position,
         Present, Traces, NoEntry, Resurfacing, Deferred, Unreserved, Listed, Places, Files,
         Early, Opening, Reserving, Staging, Writing, Final, Withdrawing, Cleaning
<1>2. CASE OpenFolder(p)
  BY <1>2, Numbers, NoneAssumption
     DEF OpenFolder, Return, Goto, Fail, Fine, directory, rest, Typed, TypeOK, PubInv,
         Position, Present, Traces, NoEntry, Resurfacing, Deferred, Unreserved, Listed,
         Places, Files, Early, Opening, Reserving, Staging, Writing, Final, Withdrawing,
         Cleaning
<1>3. CASE MakeFolder(p)
  BY <1>3, Numbers, NoneAssumption
     DEF MakeFolder, Return, Goto, Fail, Fine, directory, rest, Typed, TypeOK, PubInv,
         Position, Present, Traces, NoEntry, Resurfacing, Deferred, Unreserved, Listed,
         Places, Files, Early, Opening, Reserving, Staging, Writing, Final, Withdrawing,
         Cleaning
<1>4. CASE SyncFolder(p)
  BY <1>4, Numbers, NoneAssumption
     DEF SyncFolder, Return, Goto, NoParent, Fail, Fine, directory, rest, Typed, TypeOK,
         PubInv, Position, Present, Traces, NoEntry, Resurfacing, Deferred, Unreserved,
         Listed, Places, Files, Early, Opening, Reserving, Staging, Writing, Final,
         Withdrawing, Cleaning
<1>5. CASE Scan(p)
  BY <1>5, Numbers, NoneAssumption
     DEF Scan, Return, Goto, TryNext, Fail, Fine, directory, rest, Typed, TypeOK, PubInv,
         Position, Present, Traces, NoEntry, Resurfacing, Deferred, Unreserved, Listed,
         Places, Files, Early, Opening, Reserving, Staging, Writing, Final, Withdrawing,
         Cleaning
<1>6. CASE Reserve(p)
  BY <1>6, Numbers, NoneAssumption
     DEF Reserve, Return, Goto, TryNext, NoParent, Fail, Fine, directory, rest, Typed,
         TypeOK, PubInv, Position, Present, Traces, NoEntry, Resurfacing, Deferred,
         Unreserved, Listed, Places, Files, Early, Opening, Reserving, Staging, Writing,
         Final, Withdrawing, Cleaning
<1>7. CASE ProtectReservation(p)
  BY <1>7, Numbers, NoneAssumption
     DEF ProtectReservation, Goto, Fail, Fine, directory, rest, Typed, TypeOK, PubInv,
         Position, Present, Traces, NoEntry, Resurfacing, Deferred, Unreserved, Listed,
         Places, Files, Early, Opening, Reserving, Staging, Writing, Final, Withdrawing,
         Cleaning
<1>8. CASE DropReservation(p)
  BY <1>8, Numbers, NoneAssumption
     DEF DropReservation, Return, Goto, Untidy, Fail, Fine, directory, rest, Typed, TypeOK,
         PubInv, Position, Present, Traces, NoEntry, Resurfacing, Deferred, Unreserved,
         Listed, Places, Files, Early, Opening, Reserving, Staging, Writing, Final,
         Withdrawing, Cleaning
<1>9. CASE CreateStage(p)
  BY <1>9, Numbers, NoneAssumption
     DEF CreateStage, Abort, Goto, Fail, Fine, directory, rest, Typed, TypeOK, PubInv,
         Position, Present, Traces, NoEntry, Resurfacing, Deferred, Unreserved, Listed,
         Places, Files, Early, Opening, Reserving, Staging, Writing, Final, Withdrawing,
         Cleaning
<1>10. CASE ProtectStage(p)
  <2>1. StageProtected(p)
    BY <1>10, ProtectStageEffect
  <2> QED
    BY <2>1, Numbers, NoneAssumption
       DEF StageProtected, Present, Typed, TypeOK, PubInv, Position, Present, Traces,
           NoEntry, Resurfacing, Deferred, Unreserved, Listed, Places, Files, Early,
           Opening, Reserving, Staging, Writing, Final, Withdrawing, Cleaning
<1>11. CASE DropStage(p)
  BY <1>11, Numbers, NoneAssumption
     DEF DropStage, Goto, Untidy, Fail, Fine, directory, rest, Typed, TypeOK, PubInv,
         Position, Present, Traces, NoEntry, Resurfacing, Deferred, Unreserved, Listed,
         Places, Files, Early, Opening, Reserving, Staging, Writing, Final, Withdrawing,
         Cleaning
<1>12. CASE SyncStageDropped(p)
  <2>1. StageDropped(p)
    BY <1>12, SyncStageDroppedEffect
  <2> QED
    BY <2>1, Numbers, NoneAssumption
       DEF StageDropped, Present, Typed, TypeOK, PubInv, Position, Present, Traces,
           NoEntry, Resurfacing, Deferred, Unreserved, Listed, Places, Files, Early,
           Opening, Reserving, Staging, Writing, Final, Withdrawing, Cleaning
<1>13. CASE WriteFile(p)
  BY <1>13, Numbers, NoneAssumption
     DEF WriteFile, Abort, Goto, Fail, Fine, directory, rest, Typed, TypeOK, PubInv,
         Position, Present, Traces, NoEntry, Resurfacing, Deferred, Unreserved, Listed,
         Places, Files, Early, Opening, Reserving, Staging, Writing, Final, Withdrawing,
         Cleaning
<1>14. CASE ReadBack(p)
  BY <1>14, Numbers, NoneAssumption
     DEF ReadBack, Abort, Goto, Verified, After, Fail, Fine, directory, rest, Typed, TypeOK,
         PubInv, Position, Present, Traces, NoEntry, Resurfacing, Deferred, Unreserved,
         Listed, Places, Files, Early, Opening, Reserving, Staging, Writing, Final,
         Withdrawing, Cleaning
<1>15. CASE SyncStage(p)
  <2>1. StageSynced(p)
    BY <1>15, SyncStageEffect
  <2> QED
    BY <2>1, Numbers, NoneAssumption
       DEF StageSynced, Typed, TypeOK, PubInv, Position, Present, Traces, NoEntry,
           Resurfacing, Deferred, Unreserved, Listed, Places, Files, Early, Opening,
           Reserving, Staging, Writing, Final, Withdrawing, Cleaning
<1>16. CASE Commit(p)
  BY <1>16, Numbers, NoneAssumption
     DEF Commit, Abort, Goto, Fail, Fine, directory, rest, Typed, TypeOK, PubInv, Position,
         Present, Traces, NoEntry, Resurfacing, Deferred, Unreserved, Listed, Places, Files,
         Early, Opening, Reserving, Staging, Writing, Final, Withdrawing, Cleaning
<1>17. CASE VerifyFinal(p)
  BY <1>17, Numbers, NoneAssumption
     DEF VerifyFinal, Abort, Goto, Intact, Verified, Fail, Fine, directory, rest, Typed,
         TypeOK, PubInv, Position, Present, Traces, NoEntry, Resurfacing, Deferred,
         Unreserved, Listed, Places, Files, Early, Opening, Reserving, Staging, Writing,
         Final, Withdrawing, Cleaning
<1>18. CASE Release(p)
  BY <1>18, Numbers, NoneAssumption
     DEF Release, Abort, Goto, Fail, Fine, directory, rest, Typed, TypeOK, PubInv, Position,
         Present, Traces, NoEntry, Resurfacing, Deferred, Unreserved, Listed, Places, Files,
         Early, Opening, Reserving, Staging, Writing, Final, Withdrawing, Cleaning
<1>19. CASE SyncFinal(p)
  BY <1>19, Numbers, NoneAssumption
     DEF SyncFinal, Abort, Return, Goto, SyncParent, Fail, Fine, directory, rest, Typed,
         TypeOK, PubInv, Position, Present, Traces, NoEntry, Resurfacing, Deferred,
         Unreserved, Listed, Places, Files, Early, Opening, Reserving, Staging, Writing,
         Final, Withdrawing, Cleaning
<1>20. CASE DropChecksums(p)
  <2>1. AtName(p) = {p}
    BY <1>20, NameIsOwn DEF DropChecksums, Withdrawing, PubInv
  <2>2. ChecksumsDropped(p)
    BY <1>20, <2>1, DropChecksumsEffect
  <2> QED
    BY <2>2, Numbers, NoneAssumption
       DEF ChecksumsDropped, Typed, TypeOK, PubInv, Position, Present, Traces, NoEntry,
           Resurfacing, Deferred, Unreserved, Listed, Places, Files, Early, Opening,
           Reserving, Staging, Writing, Final, Withdrawing, Cleaning
<1>21. CASE SyncDropped(p)
  <2>1. AtName(p) = {p}
    BY <1>21, NameIsOwn DEF SyncDropped, Withdrawing, PubInv
  <2>2. DropSynced(p)
    BY <1>21, <2>1, SyncDroppedEffect
  <2> QED
    BY <2>2, Numbers, NoneAssumption
       DEF DropSynced, Typed, TypeOK, PubInv, Position, Present, Traces, NoEntry,
           Resurfacing, Deferred, Unreserved, Listed, Places, Files, Early, Opening,
           Reserving, Staging, Writing, Final, Withdrawing, Cleaning
<1>22. CASE RemoveFinal(p)
  <2>1. AtName(p) = {p}
    BY <1>22, NameIsOwn DEF RemoveFinal, Withdrawing, PubInv
  <2>2. FinalRemoved(p)
    BY <1>22, <2>1, RemoveFinalEffect
  <2> QED
    BY <2>2, Numbers, NoneAssumption
       DEF FinalRemoved, Typed, TypeOK, PubInv, Position, Present, Traces, NoEntry,
           Resurfacing, Deferred, Unreserved, Listed, Places, Files, Early, Opening,
           Reserving, Staging, Writing, Final, Withdrawing, Cleaning
<1>23. CASE SyncRemoved(p)
  <2>1. RemovalSynced(p)
    BY <1>23, SyncRemovedEffect
  <2> QED
    BY <2>1, Numbers, NoneAssumption
       DEF RemovalSynced, Typed, TypeOK, PubInv, Position, Present, Traces, NoEntry,
           Resurfacing, Deferred, Unreserved, Listed, Places, Files, Early, Opening,
           Reserving, Staging, Writing, Final, Withdrawing, Cleaning
<1>24. CASE RemoveStage(p)
  BY <1>24, Numbers, NoneAssumption
     DEF RemoveStage, Goto, Untidy, Fail, Fine, directory, rest, Typed, TypeOK, PubInv,
         Position, Present, Traces, NoEntry, Resurfacing, Deferred, Unreserved, Listed,
         Places, Files, Early, Opening, Reserving, Staging, Writing, Final, Withdrawing,
         Cleaning
<1>25. CASE RemoveReservation(p)
  BY <1>25, Numbers, NoneAssumption
     DEF RemoveReservation, Goto, Untidy, Fail, Fine, directory, rest, Typed, TypeOK,
         PubInv, Position, Present, Traces, NoEntry, Resurfacing, Deferred, Unreserved,
         Listed, Places, Files, Early, Opening, Reserving, Staging, Writing, Final,
         Withdrawing, Cleaning
<1>26. CASE SyncCleanup(p)
  <2>1. CleanupSynced(p)
    BY <1>26, SyncCleanupEffect
  <2> QED
    BY <2>1, Numbers, NoneAssumption
       DEF CleanupSynced, Typed, TypeOK, PubInv, Position, Present, Traces, NoEntry,
           Resurfacing, Deferred, Unreserved, Listed, Places, Files, Early, Opening,
           Reserving, Staging, Writing, Final, Withdrawing, Cleaning
<1>27. CASE Crash(p)
  BY <1>27, Numbers, NoneAssumption
     DEF Crash, Return, Goto, directory, Typed, TypeOK, PubInv, Position, Present, Traces,
         NoEntry, Resurfacing, Deferred, Unreserved, Listed, Places, Files, Early, Opening,
         Reserving, Staging, Writing, Final, Withdrawing, Cleaning
<1> QED
  BY <1>1, <1>2, <1>3, <1>4, <1>5, <1>6, <1>7, <1>8, <1>9, <1>10, <1>11, <1>12, <1>13,
     <1>14, <1>15, <1>16, <1>17, <1>18, <1>19, <1>20, <1>21, <1>22, <1>23, <1>24, <1>25,
     <1>26, <1>27
     DEF PubStep

\* A bundle that is still there has cost three failures.
LEMMA OwnFailures ==
  ASSUME Typed, Typed', Distinct, NEW p \in Pubs, PubInv(p), PubStep(p) \/ Crash(p)
  PROVE  Failures(p)'
<1>1. CASE Start(p)
  BY <1>1, Numbers
     DEF Start, Return, Goto, Fail, Fine, directory, rest, Typed, TypeOK, PubInv, Position,
         Present, Bytes, AllGood, Failures, Listed, Whole, Incomplete, Files, Early,
         Opening, Reserving, Staging, Writing, Final, Withdrawing, Cleaning
<1>2. CASE OpenFolder(p)
  BY <1>2, Numbers
     DEF OpenFolder, Return, Goto, Fail, Fine, directory, rest, Typed, TypeOK, PubInv,
         Position, Present, Bytes, AllGood, Failures, Listed, Whole, Incomplete, Files,
         Early, Opening, Reserving, Staging, Writing, Final, Withdrawing, Cleaning
<1>3. CASE MakeFolder(p)
  BY <1>3, Numbers
     DEF MakeFolder, Return, Goto, Fail, Fine, directory, rest, Typed, TypeOK, PubInv,
         Position, Present, Bytes, AllGood, Failures, Listed, Whole, Incomplete, Files,
         Early, Opening, Reserving, Staging, Writing, Final, Withdrawing, Cleaning
<1>4. CASE SyncFolder(p)
  BY <1>4, Numbers
     DEF SyncFolder, Return, Goto, NoParent, Fail, Fine, directory, rest, Typed, TypeOK,
         PubInv, Position, Present, Bytes, AllGood, Failures, Listed, Whole, Incomplete,
         Files, Early, Opening, Reserving, Staging, Writing, Final, Withdrawing, Cleaning
<1>5. CASE Scan(p)
  BY <1>5, Numbers
     DEF Scan, Return, Goto, TryNext, Fail, Fine, directory, rest, Typed, TypeOK, PubInv,
         Position, Present, Bytes, AllGood, Failures, Listed, Whole, Incomplete, Files,
         Early, Opening, Reserving, Staging, Writing, Final, Withdrawing, Cleaning
<1>6. CASE Reserve(p)
  BY <1>6, Numbers
     DEF Reserve, Return, Goto, TryNext, NoParent, Fail, Fine, directory, rest, Typed,
         TypeOK, PubInv, Position, Present, Bytes, AllGood, Failures, Listed, Whole,
         Incomplete, Files, Early, Opening, Reserving, Staging, Writing, Final, Withdrawing,
         Cleaning
<1>7. CASE ProtectReservation(p)
  BY <1>7, Numbers
     DEF ProtectReservation, Goto, Fail, Fine, directory, rest, Typed, TypeOK, PubInv,
         Position, Present, Bytes, AllGood, Failures, Listed, Whole, Incomplete, Files,
         Early, Opening, Reserving, Staging, Writing, Final, Withdrawing, Cleaning
<1>8. CASE DropReservation(p)
  BY <1>8, Numbers
     DEF DropReservation, Return, Goto, Untidy, Fail, Fine, directory, rest, Typed, TypeOK,
         PubInv, Position, Present, Bytes, AllGood, Failures, Listed, Whole, Incomplete,
         Files, Early, Opening, Reserving, Staging, Writing, Final, Withdrawing, Cleaning
<1>9. CASE CreateStage(p)
  BY <1>9, Numbers
     DEF CreateStage, Abort, Goto, Fail, Fine, directory, rest, Typed, TypeOK, PubInv,
         Position, Present, Bytes, AllGood, Failures, Listed, Whole, Incomplete, Files,
         Early, Opening, Reserving, Staging, Writing, Final, Withdrawing, Cleaning
<1>10. CASE ProtectStage(p)
  <2>1. StageProtected(p)
    BY <1>10, ProtectStageEffect
  <2> QED
    BY <2>1, Numbers
       DEF StageProtected, Present, Typed, TypeOK, PubInv, Position, Present, Bytes,
           AllGood, Failures, Listed, Whole, Incomplete, Files, Early, Opening,
           Reserving, Staging, Writing, Final, Withdrawing, Cleaning
<1>11. CASE DropStage(p)
  BY <1>11, Numbers
     DEF DropStage, Goto, Untidy, Fail, Fine, directory, rest, Typed, TypeOK, PubInv,
         Position, Present, Bytes, AllGood, Failures, Listed, Whole, Incomplete, Files,
         Early, Opening, Reserving, Staging, Writing, Final, Withdrawing, Cleaning
<1>12. CASE SyncStageDropped(p)
  <2>1. StageDropped(p)
    BY <1>12, SyncStageDroppedEffect
  <2> QED
    BY <2>1, Numbers
       DEF StageDropped, Present, Typed, TypeOK, PubInv, Position, Present, Bytes,
           AllGood, Failures, Listed, Whole, Incomplete, Files, Early, Opening,
           Reserving, Staging, Writing, Final, Withdrawing, Cleaning
<1>13. CASE WriteFile(p)
  BY <1>13, Numbers
     DEF WriteFile, Abort, Goto, Fail, Fine, directory, rest, Typed, TypeOK, PubInv,
         Position, Present, Bytes, AllGood, Failures, Listed, Whole, Incomplete, Files,
         Early, Opening, Reserving, Staging, Writing, Final, Withdrawing, Cleaning
<1>14. CASE ReadBack(p)
  BY <1>14, Numbers
     DEF ReadBack, Abort, Goto, Verified, After, Fail, Fine, directory, rest, Typed, TypeOK,
         PubInv, Position, Present, Bytes, AllGood, Failures, Listed, Whole, Incomplete,
         Files, Early, Opening, Reserving, Staging, Writing, Final, Withdrawing, Cleaning
<1>15. CASE SyncStage(p)
  BY <1>15, Numbers
     DEF SyncStage, Abort, Goto, Intact, Verified, SyncFiles, Fail, Fine, directory, rest,
         Typed, TypeOK, PubInv, Position, Present, Bytes, AllGood, Failures, Listed, Whole,
         Incomplete, Files, Early, Opening, Reserving, Staging, Writing, Final, Withdrawing,
         Cleaning
<1>16. CASE Commit(p)
  BY <1>16, Numbers
     DEF Commit, Abort, Goto, Fail, Fine, directory, rest, Typed, TypeOK, PubInv, Position,
         Present, Bytes, AllGood, Failures, Listed, Whole, Incomplete, Files, Early,
         Opening, Reserving, Staging, Writing, Final, Withdrawing, Cleaning
<1>17. CASE VerifyFinal(p)
  BY <1>17, Numbers
     DEF VerifyFinal, Abort, Goto, Intact, Verified, Fail, Fine, directory, rest, Typed,
         TypeOK, PubInv, Position, Present, Bytes, AllGood, Failures, Listed, Whole,
         Incomplete, Files, Early, Opening, Reserving, Staging, Writing, Final, Withdrawing,
         Cleaning
<1>18. CASE Release(p)
  BY <1>18, Numbers
     DEF Release, Abort, Goto, Fail, Fine, directory, rest, Typed, TypeOK, PubInv, Position,
         Present, Bytes, AllGood, Failures, Listed, Whole, Incomplete, Files, Early,
         Opening, Reserving, Staging, Writing, Final, Withdrawing, Cleaning
<1>19. CASE SyncFinal(p)
  BY <1>19, Numbers
     DEF SyncFinal, Abort, Return, Goto, SyncParent, Fail, Fine, directory, rest, Typed,
         TypeOK, PubInv, Position, Present, Bytes, AllGood, Failures, Listed, Whole,
         Incomplete, Files, Early, Opening, Reserving, Staging, Writing, Final, Withdrawing,
         Cleaning
<1>20. CASE DropChecksums(p)
  <2>1. AtName(p) = {p}
    BY <1>20, NameIsOwn DEF DropChecksums, Withdrawing, PubInv
  <2>2. ChecksumsDropped(p)
    BY <1>20, <2>1, DropChecksumsEffect
  <2> QED
    BY <2>2, Numbers
       DEF ChecksumsDropped, Typed, TypeOK, PubInv, Position, Present, Bytes, AllGood,
           Failures, Present, Listed, Whole, Incomplete, Files, Early, Opening, Reserving,
           Staging, Writing, Final, Withdrawing, Cleaning
<1>21. CASE SyncDropped(p)
  <2>1. AtName(p) = {p}
    BY <1>21, NameIsOwn DEF SyncDropped, Withdrawing, PubInv
  <2>2. DropSynced(p)
    BY <1>21, <2>1, SyncDroppedEffect
  <2> QED
    BY <2>2, Numbers
       DEF DropSynced, Typed, TypeOK, PubInv, Position, Present, Bytes, AllGood, Failures,
           Listed, Whole, Incomplete, Files, Early, Opening, Reserving, Staging, Writing,
           Final, Withdrawing, Cleaning
<1>22. CASE RemoveFinal(p)
  <2>1. AtName(p) = {p}
    BY <1>22, NameIsOwn DEF RemoveFinal, Withdrawing, PubInv
  <2>2. FinalRemoved(p)
    BY <1>22, <2>1, RemoveFinalEffect
  <2> QED
    BY <2>2, Numbers
       DEF FinalRemoved, Typed, TypeOK, PubInv, Position, Present, Bytes, AllGood, Failures,
           Listed, Whole, Incomplete, Files, Early, Opening, Reserving, Staging, Writing,
           Final, Withdrawing, Cleaning
<1>23. CASE SyncRemoved(p)
  <2>1. RemovalSynced(p)
    BY <1>23, SyncRemovedEffect
  <2> QED
    BY <2>1, Numbers
       DEF RemovalSynced, Typed, TypeOK, PubInv, Position, Present, Bytes, AllGood,
           Failures, Listed, Whole, Incomplete, Files, Early, Opening, Reserving, Staging,
           Writing, Final, Withdrawing, Cleaning
<1>24. CASE RemoveStage(p)
  BY <1>24, Numbers
     DEF RemoveStage, Goto, Untidy, Fail, Fine, directory, rest, Typed, TypeOK, PubInv,
         Position, Present, Bytes, AllGood, Failures, Listed, Whole, Incomplete, Files,
         Early, Opening, Reserving, Staging, Writing, Final, Withdrawing, Cleaning
<1>25. CASE RemoveReservation(p)
  BY <1>25, Numbers
     DEF RemoveReservation, Goto, Untidy, Fail, Fine, directory, rest, Typed, TypeOK,
         PubInv, Position, Present, Bytes, AllGood, Failures, Listed, Whole, Incomplete,
         Files, Early, Opening, Reserving, Staging, Writing, Final, Withdrawing, Cleaning
<1>26. CASE SyncCleanup(p)
  <2>1. CleanupSynced(p)
    BY <1>26, SyncCleanupEffect
  <2> QED
    BY <2>1, Numbers
       DEF CleanupSynced, Typed, TypeOK, PubInv, Position, Present, Bytes, AllGood,
           Failures, Listed, Whole, Incomplete, Files, Early, Opening, Reserving, Staging,
           Writing, Final, Withdrawing, Cleaning
<1>27. CASE Crash(p)
  BY <1>27, Numbers
     DEF Crash, Return, Goto, directory, Typed, TypeOK, PubInv, Position, Present, Bytes,
         AllGood, Failures, Present, Listed, Whole, Incomplete, Files, Early, Opening,
         Reserving, Staging, Writing, Final, Withdrawing, Cleaning
<1> QED
  BY <1>1, <1>2, <1>3, <1>4, <1>5, <1>6, <1>7, <1>8, <1>9, <1>10, <1>11, <1>12, <1>13,
     <1>14, <1>15, <1>16, <1>17, <1>18, <1>19, <1>20, <1>21, <1>22, <1>23, <1>24, <1>25,
     <1>26, <1>27
     DEF PubStep

-----------------------------------------------------------------------------
(* Names, losses of power and the initial states.                          *)

\* No step gives two directories one name.
LEMMA DistinctStep ==
  ASSUME Typed, Typed', Distinct, NEW p \in Pubs, Position(p), PubStep(p) \/ Crash(p)
  PROVE  Distinct'
<1>1. \/ place' = place
      \/ /\ \A q \in Pubs : place'[q] \in {place[q], Nowhere, Staged}
      \/ /\ seq[p] \in Ids /\ ~Taken(seq[p]) /\ place' = [place EXCEPT ![p] = seq[p]]
  <2>1. CASE CreateStage(p)
    BY <2>1 DEF CreateStage, Typed, TypeOK
  <2>2. CASE Commit(p)
    <3>1. seq[p] \in Ids
      BY <2>2 DEF Commit, Position, Opening
    <3> QED
      BY <2>2, <3>1 DEF Commit
  <2>3. CASE RemoveFinal(p)
    BY <2>3 DEF RemoveFinal, Typed, TypeOK
  <2>4. CASE RemoveStage(p)
    BY <2>4 DEF RemoveStage, Typed, TypeOK
  <2>5. CASE DropStage(p)
    BY <2>5 DEF DropStage, Typed, TypeOK
  <2> QED
    BY <2>1, <2>2, <2>3, <2>4, <2>5
       DEF PubStep, Start, OpenFolder, MakeFolder, SyncFolder, Scan, Reserve, WriteFile,
           ProtectReservation, DropReservation, ProtectStage, SyncStageDropped,
           ReadBack, SyncStage, VerifyFinal, Release, SyncFinal, DropChecksums, SyncDropped,
           SyncRemoved, RemoveReservation, SyncCleanup, Crash, directory
<1>2. CASE place' = place
  BY <1>2 DEF Distinct
<1>3. CASE \A q \in Pubs : place'[q] \in {place[q], Nowhere, Staged}
  BY <1>3, Numbers DEF Distinct
<1>4. CASE seq[p] \in Ids /\ ~Taken(seq[p]) /\ place' = [place EXCEPT ![p] = seq[p]]
  BY <1>4 DEF Distinct, Taken, Typed, TypeOK
<1> QED
  BY <1>1, <1>2, <1>3, <1>4

\* The step of a publisher, or its death, preserves the invariant.
LEMMA PublisherStep ==
  ASSUME IInv, NEW p \in Pubs, PubStep(p) \/ Crash(p)
  PROVE  IInv'
<1>1. Typed /\ Distinct /\ PubInv(p) /\ Position(p)
  BY DEF IInv, PubInv
<1>2. Typed'
  BY <1>1, TypedStep
<1>3. Distinct'
  BY <1>1, <1>2, DistinctStep
<1>4. PubInv(p)'
  <2>1. Position(p)'
    BY <1>1, <1>2, OwnPosition
  <2>2. Bytes(p)'
    BY <1>1, <1>2, OwnBytes
  <2>3. Success(p)'
    BY <1>1, <1>2, OwnSuccess
  <2>4. Traces(p)'
    BY <1>1, <1>2, OwnTraces
  <2>5. Failures(p)'
    BY <1>1, <1>2, OwnFailures
  <2> QED
    BY <2>1, <2>2, <2>3, <2>4, <2>5 DEF PubInv
<1>5. ASSUME NEW q \in Pubs \ {p} PROVE PubInv(q)'
  <2>1. Spared(q)
    BY <1>1, OthersSpared
  <2>2. PubInv(q)
    BY DEF IInv
  <2> QED
    BY <1>1, <1>2, <2>1, <2>2, SparedKeeps
<1> QED
  BY <1>2, <1>3, <1>4, <1>5 DEF IInv

\* The initial states satisfy the invariant.
LEMMA InvariantInit == Init => IInv
<1> SUFFICES ASSUME Init PROVE IInv
  OBVIOUS
<1>1. Typed /\ Distinct
  BY TypedInit, Numbers DEF Init, Distinct
<1>2. ASSUME NEW p \in Pubs PROVE PubInv(p)
  <2>1. /\ place[p] = Nowhere /\ disk.place[p] = Nowhere
        /\ \A i \in Ids : Unreserved(p, i)
    BY NoneAssumption DEF Init, Unreserved
  <2>2. /\ pc[p] = "start" /\ result[p] = "none" /\ ~published[p]
        /\ why[p] = "none" /\ folder \in {"absent", "kept"}
    BY DEF Init
  <2>3. folder # p
    BY <2>2, FolderAssumption
  <2> QED
    BY <2>1, <2>2, <2>3, Numbers
       DEF PubInv, Position, Present, Bytes, Success, Traces, NoEntry, Resurfacing,
           Deferred, Failures, Present, Listed, Early, Opening, Reserving, Staging, Writing,
           Final, Withdrawing, Cleaning, Files
<1> QED
  BY <1>1, <1>2 DEF IInv

(* What everything that dies at once has in common: a publisher that has   *)
(* not started or has returned is left alone, another one is dead.         *)
Dead(p) ==
  /\ UNCHANGED << seq[p], published[p], tidy[p], why[p], faults >> /\ losses' > 0
  /\ \/ pc[p] \in {"start", "done"} /\ pc'[p] = pc[p] /\ result'[p] = result[p]
     \/ pc[p] \notin {"start", "done"} /\ pc'[p] = "done" /\ result'[p] = "crashed"

\* It happens to each of them.
LEMMA DieEffect ==
  ASSUME Typed, Die, NEW p \in Pubs
  PROVE  Dead(p)
BY Numbers DEF Die, Dead, Typed, TypeOK

\* Death of all keeps the types of what it changes.
LEMMA DieType ==
  ASSUME Typed, Die
  PROVE  /\ pc' \in [Pubs -> PCs]
         /\ result' \in [Pubs -> {"none", "ok", "failed", "cancelled", "crashed"}]
         /\ losses' \in 0..MaxLosses
         /\ UNCHANGED << seq, published, tidy, why, faults, crashes >>
<1>1. pc' \in [Pubs -> PCs]
  BY DEF Die, Typed, PCs, Early, Opening
<1>2. losses' \in 0..MaxLosses
  BY Numbers DEF Die, Typed, TypeOK
<1> QED
  BY <1>1, <1>2 DEF Die, Typed, TypeOK

(* After a loss of power an entry is as it was or as it was on the disk,   *)
(* and on the disk as it is.                                               *)
RolledBack(p) ==
  /\ place'[p] \in {place[p], disk.place[p]} /\ disk'.place = place'
  /\ \A i \in Ids : reserve'[i] \in {reserve[i], disk.reserve[i]}
  /\ disk'.reserve = reserve'
  /\ \A f \in Files : files'[p][f] \in {files[p][f], disk.files[p][f]}
  /\ disk'.files = files' /\ lost' = lost /\ folder' # p

\* So it is for every publisher.
LEMMA PowerLossEffect ==
  ASSUME Typed, PowerLoss, NEW p \in Pubs
  PROVE  RolledBack(p)
<1>1. place'[p] \in {place[p], disk.place[p]}
  BY DEF PowerLoss
<1>2. \A i \in Ids : reserve'[i] \in {reserve[i], disk.reserve[i]}
  BY DEF PowerLoss
<1>3. \A f \in Files : files'[p][f] \in {files[p][f], disk.files[p][f]}
  BY DEF PowerLoss
<1>4. disk'.place = place' /\ disk'.reserve = reserve' /\ disk'.files = files'
  BY DEF PowerLoss
<1>5. lost' = lost /\ folder' # p
  BY FolderAssumption DEF PowerLoss, Present
<1> QED
  BY <1>1, <1>2, <1>3, <1>4, <1>5 DEF RolledBack

\* A loss of power preserves the types, and that a name leads to one directory.
LEMMA PowerLossType ==
  ASSUME Typed, PowerLoss
  PROVE  Typed' /\ Distinct'
<1>1. place' \in [Pubs -> Places] /\ reserve' \in [Ids -> Pubs \cup {None}]
  BY DEF PowerLoss
<1>2. files' \in [Pubs -> [Files -> States]]
  <2>1. PICK undone \in [Pubs -> SUBSET Files] :
          files' = [p \in Pubs |-> [f \in Files |->
                      IF f \in undone[p] THEN disk.files[p][f] ELSE files[p][f]]]
    BY DEF PowerLoss
  <2>2. /\ disk.files \in [Pubs -> [Files -> States]]
        /\ files \in [Pubs -> [Files -> States]]
    BY DEF Typed, TypeOK
  <2> QED
    BY <2>1, <2>2
<1>3. disk' = [place |-> place', reserve |-> reserve', files |-> files']
  BY DEF PowerLoss
<1>4. /\ disk' \in [place : [Pubs -> Places], reserve : [Ids -> Pubs \cup {None}],
                    files : [Pubs -> [Files -> States]]]
      /\ DOMAIN disk' = {"place", "reserve", "files"}
  BY <1>1, <1>2, <1>3
<1>5. folder' \in {"absent", "kept"} /\ lost' = lost /\ Die
  BY DEF PowerLoss, Present
<1>6. Typed'
  BY <1>1, <1>2, <1>4, <1>5, DieType DEF Typed, TypeOK
<1>7. Distinct'
  BY DEF PowerLoss, Distinct
<1> QED
  BY <1>6, <1>7

\* What is true of a publisher is true of it after a loss of power.
LEMMA PowerLossKeeps ==
  ASSUME Typed, PowerLoss, NEW p \in Pubs, PubInv(p)
  PROVE  PubInv(p)'
<1>1. RolledBack(p) /\ Dead(p)
  BY PowerLossEffect, DieEffect DEF PowerLoss
<1>2. Position(p)'
  BY <1>1 DEF RolledBack, Dead, PubInv, Position, Present, Listed, Early, Opening,
              Reserving, Staging, Writing, Final, Withdrawing, Cleaning, Files
<1>3. Bytes(p)'
  BY <1>1 DEF RolledBack, Dead, PubInv, Bytes, Final
<1>4. Success(p)'
  BY <1>1 DEF RolledBack, Dead, PubInv, Success, AllGood
<1>5. Traces(p)'
  BY <1>1 DEF RolledBack, Dead, PubInv, Position, Traces, NoEntry, Resurfacing, Deferred,
              Unreserved, Early, Opening, Reserving
<1>6. Failures(p)'
  BY <1>1 DEF RolledBack, Dead, PubInv, Position, Failures, Present, Listed, Incomplete,
              Withdrawing, Cleaning
<1> QED
  BY <1>2, <1>3, <1>4, <1>5, <1>6 DEF PubInv

\* When the folder is lost, everything in it is.
Emptied(p) ==
  /\ place'[p] = Nowhere /\ disk'.place = place'
  /\ \A i \in Ids : reserve'[i] = None
  /\ disk'.reserve = reserve'
  /\ \A f \in Files : files'[p][f] = "absent"
  /\ disk'.files = files' /\ lost' = folder /\ folder \in Pubs /\ folder' = "absent"

\* So it is for every publisher.
LEMMA FolderLostEffect ==
  ASSUME Typed, FolderLost, NEW p \in Pubs
  PROVE  Emptied(p)
BY DEF FolderLost, Emptied, NoFiles

\* The loss of the folder preserves the types, and that a name leads to one directory.
LEMMA FolderLostType ==
  ASSUME Typed, FolderLost
  PROVE  Typed' /\ Distinct'
<1>1. place' \in [Pubs -> Places] /\ reserve' \in [Ids -> Pubs \cup {None}]
  BY DEF FolderLost, Places
<1>2. files' \in [Pubs -> [Files -> States]]
  <2>1. NoFiles \in [Files -> States]
    BY DEF NoFiles, States
  <2> QED
    BY <2>1 DEF FolderLost
<1>3. disk' = [place |-> place', reserve |-> reserve', files |-> files']
  BY DEF FolderLost
<1>4. /\ disk' \in [place : [Pubs -> Places], reserve : [Ids -> Pubs \cup {None}],
                    files : [Pubs -> [Files -> States]]]
      /\ DOMAIN disk' = {"place", "reserve", "files"}
  BY <1>1, <1>2, <1>3
<1>5. folder' = "absent" /\ lost' \in Pubs /\ Die
  BY DEF FolderLost
<1>6. Typed'
  BY <1>1, <1>2, <1>4, <1>5, DieType DEF Typed, TypeOK
<1>7. Distinct'
  BY Numbers DEF FolderLost, Distinct
<1> QED
  BY <1>6, <1>7

\* What is true of a publisher is true of it after the loss of the folder.
LEMMA FolderLostKeeps ==
  ASSUME Typed, FolderLost, NEW p \in Pubs, PubInv(p)
  PROVE  PubInv(p)'
<1>1. Emptied(p) /\ Dead(p)
  BY FolderLostEffect, DieEffect DEF FolderLost
<1>2. Position(p)'
  BY <1>1, Numbers, FolderAssumption
     DEF Emptied, Dead, PubInv, Position, Present, Listed, Early, Opening, Reserving,
         Staging, Writing, Final, Withdrawing, Cleaning, Files
<1>3. Bytes(p)'
  BY <1>1 DEF Emptied, Dead, PubInv, Bytes, Final
<1>4. Success(p)'
  BY <1>1, NoneAssumption DEF Emptied, Dead, PubInv, Position, Success
<1>5. Traces(p)'
  BY <1>1, NoneAssumption DEF Emptied, Dead, PubInv, Position, Traces, NoEntry, Resurfacing,
                              Deferred, Unreserved, Early, Opening, Reserving
<1>6. Failures(p)'
  BY <1>1, Numbers DEF Emptied, Dead, PubInv, Position, Failures, Present, Listed,
                       Withdrawing, Cleaning
<1> QED
  BY <1>2, <1>3, <1>4, <1>5, <1>6 DEF PubInv

-----------------------------------------------------------------------------
(* The theorems.                                                           *)

\* No step violates the invariant.
LEMMA InvariantStep ==
  ASSUME IInv, [Next]_vars
  PROVE  IInv'
<1>1. CASE \E p \in Pubs : PubStep(p) \/ Crash(p)
  BY <1>1, PublisherStep
<1>2. CASE PowerLoss
  <2>1. Typed' /\ Distinct'
    BY <1>2, PowerLossType DEF IInv
  <2>2. \A p \in Pubs : PubInv(p)'
    BY <1>2, PowerLossKeeps DEF IInv
  <2> QED
    BY <2>1, <2>2 DEF IInv
<1>3. CASE FolderLost
  <2>1. Typed' /\ Distinct'
    BY <1>3, FolderLostType DEF IInv
  <2>2. \A p \in Pubs : PubInv(p)'
    BY <1>3, FolderLostKeeps DEF IInv
  <2> QED
    BY <2>1, <2>2 DEF IInv
<1>4. CASE UNCHANGED vars
  <2>1. /\ Typed' <=> Typed
        /\ Distinct' <=> Distinct
        /\ \A p \in Pubs : PubInv(p)' <=> PubInv(p)
    BY <1>4 DEF vars, directory, progress, counters, rest, Typed, TypeOK, Distinct, PubInv,
                Position, Present, Bytes, Success, Traces, NoEntry, Resurfacing, Deferred,
                Failures, Present, Listed, Whole, AllGood, Incomplete, Unreserved
  <2> QED
    BY <2>1 DEF IInv
<1> QED
  BY <1>1, <1>2, <1>3, <1>4 DEF Next, Ended

(* The inductive invariant, for publishers that reserve, write, commit,    *)
(* withdraw and die in any order, and for every loss of power              *)
(* (publishReservedBundle and its deferred cleanup).                       *)
THEOREM BundleInvariant == Spec => []IInv
BY InvariantInit, InvariantStep, PTL DEF Spec

\* The variables of a publication keep their types.
THEOREM BundleTypeCorrect == Spec => []TypeOK
<1>1. IInv => TypeOK
  BY DEF IInv, Typed
<1> QED
  BY <1>1, BundleInvariant, PTL

(* Whoever looks finds whole bundles under the final names, or the remains *)
(* of one that is being taken back or whose publisher failed or died: the  *)
(* checksums are gone before anything else is, also after a loss of power. *)
THEOREM VisibleBundles == Spec => []VisibleBundleIsWhole
<1>1. ASSUME IInv, NEW p \in Pubs, place[p] \in Ids
      PROVE  \/ \A f \in Files : files[p][f] = "good"
             \/ ~Whole(p) /\ (InCleanup(p) \/ result[p] \in {"failed", "crashed"})
  <2>1. Typed /\ Position(p) /\ Bytes(p) /\ Success(p)
    BY <1>1 DEF IInv, PubInv
  <2>2. published[p]
    BY <1>1, <2>1 DEF Position, Listed
  <2>3. Whole(p) => \A f \in Files : files[p][f] = "good"
    BY <2>1, <2>2 DEF Bytes, Whole
  <2>4. CASE pc[p] \in Final \/ result[p] = "ok"
    BY <1>1, <2>1, <2>4, Numbers DEF Bytes, Success, AllGood
  <2>5. CASE pc[p] \notin Final /\ pc[p] # "done"
    BY <2>1, <2>2, <2>3, <2>5
       DEF Typed, PCs, Position, InCleanup, Early, Opening, Reserving, Staging, Writing,
           Final, Files, Withdrawing, Cleaning
  <2>6. CASE pc[p] = "done" /\ result[p] # "ok"
    BY <2>1, <2>2, <2>3, <2>6 DEF Position, Typed, TypeOK
  <2> QED
    BY <2>4, <2>5, <2>6
<1>2. IInv => VisibleBundleIsWhole
  BY <1>1 DEF VisibleBundleIsWhole
<1> QED
  BY <1>2, BundleInvariant, PTL

(* A bundle that was reported as published stays, whatever the others do   *)
(* and however often power is lost, but for the folder another publisher   *)
(* made (publishReservedBundle, ensureBundleLinuxDirectory).               *)
THEOREM SuccessStays == Spec => []SuccessIsDurable
<1>1. IInv => SuccessIsDurable
  BY DEF IInv, PubInv, Success, AllGood, SuccessIsDurable
<1> QED
  BY <1>1, BundleInvariant, PTL

(* A publisher that reports a failure or a cancellation leaves no complete *)
(* bundle unless three operations failed, and no entry at all if nothing   *)
(* failed to be removed, but for a reservation that reserveBundleID has    *)
(* removed without synchronising and a loss of power has brought back      *)
(* (invalidatePublishedBundleWithOps, the deferred cleanup of              *)
(* publishReservedBundle, createBundleStagingDirectory).                   *)
THEOREM NoTraceOfFailure == Spec => []FailureLeavesNoTrace
<1>1. ASSUME IInv, NEW p \in Pubs, result[p] \in {"failed", "cancelled"}
      PROVE  /\ faults <= 2 => ~(place[p] \in Ids /\ Whole(p))
             /\ tidy[p] => /\ place[p] = Nowhere
                           /\ \A i \in Ids : reserve[i] = p =>
                                 i = seq[p] /\ ~Deferred(p) /\ losses > 0
  <2>1. Typed /\ Traces(p) /\ Failures(p)
    BY <1>1 DEF IInv, PubInv
  <2>2. ~Listed(p) \/ Incomplete(p) \/ faults >= 3
    BY <1>1, <2>1 DEF Failures
  <2>3. faults <= 2 => ~(place[p] \in Ids /\ Whole(p))
    BY <2>1, <2>2 DEF Listed, Incomplete, Whole, Typed, TypeOK
  <2>4. tidy[p] => /\ place[p] = Nowhere
                   /\ \A i \in Ids : reserve[i] = p =>
                         i = seq[p] /\ ~Deferred(p) /\ losses > 0
    BY <1>1, <2>1 DEF Traces, NoEntry, Resurfacing, Unreserved
  <2> QED
    BY <2>3, <2>4
<1>2. IInv => FailureLeavesNoTrace
  BY <1>1 DEF FailureLeavesNoTrace
<1> QED
  BY <1>2, BundleInvariant, PTL
=============================================================================
