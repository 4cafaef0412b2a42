---------------------------- MODULE CandidateSet ----------------------------
(***************************************************************************)
(* Assembly of a candidate set (internal/candidate assemble.go, seal.go,   *)
(* snapshot.go, directory.go, verify.go, publish.go, publish_linux.go).    *)
(*                                                                         *)
(* Assemble writes the set into a private sibling of the output directory, *)
(* opens and hashes every file of it (the seal), verifies the set, checks  *)
(* the seal once more, renames the directory to its final name without     *)
(* replacing anything, and then checks the identity of the directory, the  *)
(* seal and the whole set again under the final name.  Meanwhile other     *)
(* processes may edit the files or exchange the directory, and another     *)
(* Assemble may aim at the same output.                                    *)
(*                                                                         *)
(* A file is its content and a stamp (inode, modification and change       *)
(* time): every write, also one that restores the old content, gives it a  *)
(* new stamp.                                                              *)
(***************************************************************************)
EXTENDS Naturals

CONSTANTS
    Asms,        \* the processes that assemble
    Other,       \* a directory that somebody else puts under a name in use
    None,        \* no directory
    Archives,    \* the release archives
    Plain,       \* the installers and test tools
    Sums,        \* the manifests and checksum files, written last
    MaxEdits,    \* edits and exchanges by other processes
    MaxFaults,   \* failing operations
    MaxCrashes   \* processes that die

ASSUME BoundsAssumption == {MaxEdits, MaxFaults, MaxCrashes} \subseteq Nat

ASSUME NamesAssumption == Other # None /\ {Other, None} \cap Asms = {}

\* What an assembler is at, besides the archive it reads back.
Labels == {"start", "mkdir", "write", "open", "seal", "check_seal", "open_stage", "read_stage",
           "check_stage", "source", "rename", "identity", "reseal", "open_output",
           "read_output", "check_output", "sync", "cleanup", "done"}

ASSUME ArchivesAssumption == Archives \cap Labels = {}

Payload == Archives \cup Plain
Files   == Payload \cup {Sums}
Dirs    == Asms \cup {Other}    \* the directory an assembler made bears its name

Absent  == 0
Written == 1    \* what an assembler wrote
Edited  == 2    \* anything else

VARIABLES
    file,       \* content and stamp of the files of each directory
    stage,      \* the directory under the staging name of each assembler
    output,     \* the directory under OutputDir
    pc,
    recorded,   \* the content of each file according to manifest and checksums
    sealed,     \* the directory each seal has open, and what it saw
    walk,       \* the same for the verification under way
    todo,       \* the files the present pass has still to look at
    moment,     \* whether the set was right when the last verification turned (a ghost)
    tidy,       \* FALSE if the staging directory could not be removed
    result,
    edits, faults, crashes

names  == << stage, output >>
local  == << recorded, sealed, walk, todo, moment, tidy, result >>
vars   == << file, names, pc, local, edits, faults, crashes >>

NoFiles == [f \in Files |-> [v |-> Absent, t |-> 0]]

NoView == [dir |-> None, saw |-> NoFiles]

Init ==
    /\ file = [d \in Dirs |-> IF d = Other THEN [f \in Files |-> [v |-> Written, t |-> 0]]
                                           ELSE NoFiles]
    /\ stage = [a \in Asms |-> None]
    /\ output \in {None, Other}
    /\ pc = [a \in Asms |-> "start"]
    /\ recorded = [a \in Asms |-> [f \in Files |-> Written]]
    /\ sealed = [a \in Asms |-> NoView]
    /\ walk = [a \in Asms |-> NoView]
    /\ todo = [a \in Asms |-> {}]
    /\ moment = [a \in Asms |-> FALSE]
    /\ tidy = [a \in Asms |-> TRUE]
    /\ result = [a \in Asms |-> "none"]
    /\ edits = 0 /\ faults = 0 /\ crashes = 0

-----------------------------------------------------------------------------
Goto(a, where) == pc' = [pc EXCEPT ![a] = where]

Fail == faults < MaxFaults /\ faults' = faults + 1
Fine == UNCHANGED faults

(* Whatever goes wrong once the staging directory exists goes through the  *)
(* deferred removal of it.                                                 *)
Abort(a) == Goto(a, "cleanup")

(* A pass looks at every file once.                                        *)
Begin(a, where) == Goto(a, where) /\ todo' = [todo EXCEPT ![a] = Files]

(* Mutant: what has been opened is taken to be still the same.             *)
Unchanged_Mutant(view, f) == TRUE

(* regularSnapshot.unchanged: the content and the stamp are those seen.    *)
Unchanged(view, f) == file[view.dir][f] = view.saw[f]

(* verifyCandidate: manifest, checksums and files agree with each other.   *)
Consistent(a, saw) == \A f \in Files : saw[f].v = recorded[a][f]

-----------------------------------------------------------------------------
(* The arguments, the sources in Git and the inputs; the output must not   *)
(* exist.                                                                  *)
CheckInputs(a) ==
    /\ pc[a] = "start"
    /\ \/ /\ Fine /\ output = None
          /\ Goto(a, "mkdir") /\ UNCHANGED result
       \/ /\ Fail \/ (Fine /\ output # None)
          /\ Goto(a, "done") /\ result' = [result EXCEPT ![a] = "failed"]
    /\ UNCHANGED << file, names, recorded, sealed, walk, todo, moment, tidy, edits, crashes >>

MakeStage(a) ==
    /\ pc[a] = "mkdir"
    /\ \/ /\ Fine
          /\ stage' = [stage EXCEPT ![a] = a]
          /\ Begin(a, "write") /\ UNCHANGED result
       \/ /\ Fail
          /\ Goto(a, "done") /\ result' = [result EXCEPT ![a] = "failed"]
          /\ UNCHANGED << stage, todo >>
    /\ UNCHANGED << file, output, recorded, sealed, walk, moment, tidy, edits, crashes >>

(* The payload in any order, manifest and checksums last.  Files are       *)
(* created exclusively, so a directory exchanged for one that has them     *)
(* already makes the write fail.                                           *)
WriteFile(a) ==
    /\ pc[a] = "write"
    /\ \E f \in IF todo[a] \cap Payload # {} THEN todo[a] \cap Payload ELSE todo[a] :
          \/ /\ Fine /\ file[stage[a]][f].v = Absent
             /\ file' = [file EXCEPT ![stage[a]][f] = [v |-> Written, t |-> @.t + 1]]
             /\ todo' = [todo EXCEPT ![a] = @ \ {f}]
             /\ Goto(a, IF f = Sums THEN "open" ELSE IF f \in Archives THEN f ELSE "write")
          \/ /\ Fail \/ (Fine /\ file[stage[a]][f].v # Absent)
             /\ Abort(a) /\ UNCHANGED << file, todo >>
    /\ UNCHANGED << names, recorded, sealed, walk, moment, tidy, result, edits, crashes >>

(* metadataFile reads an archive back and records what it finds; the other *)
(* files are recorded as they were in memory.                              *)
Record(a) ==
    /\ pc[a] \in Archives
    /\ \/ /\ Fine
          /\ recorded' = [recorded EXCEPT ![a][pc[a]] = file[stage[a]][pc[a]].v]
          /\ Goto(a, "write")
       \/ Fail /\ Abort(a) /\ UNCHANGED recorded
    /\ UNCHANGED << file, names, sealed, walk, todo, moment, tidy, result, edits, crashes >>

-----------------------------------------------------------------------------
(* A pass opens the directory by its name and then every file through the  *)
(* open directory: the seal once, the verification before and after the    *)
(* rename.                                                                 *)
Named(a) == IF pc[a] \in {"open_output", "check_output", "reseal"} THEN output ELSE stage[a]

Inward == [open |-> "seal", open_stage |-> "read_stage", open_output |-> "read_output"]

Open(a) ==
    /\ pc[a] \in DOMAIN Inward
    /\ \/ /\ Fine /\ Named(a) # None
          /\ IF pc[a] = "open"
             THEN sealed' = [sealed EXCEPT ![a] = [dir |-> Named(a), saw |-> NoFiles]] /\ UNCHANGED walk
             ELSE walk' = [walk EXCEPT ![a] = [dir |-> Named(a), saw |-> NoFiles]] /\ UNCHANGED sealed
          /\ Begin(a, Inward[pc[a]])
       \/ /\ Fail \/ (Fine /\ Named(a) = None)
          /\ Abort(a) /\ UNCHANGED << sealed, walk, todo >>
    /\ UNCHANGED << file, names, recorded, moment, tidy, result, edits, crashes >>

Seal(a) ==
    /\ pc[a] = "seal"
    /\ \E f \in todo[a] :
          /\ sealed' = [sealed EXCEPT ![a].saw[f] = file[sealed[a].dir][f]]
          /\ IF todo[a] = {f} THEN Begin(a, "check_seal")
             ELSE todo' = [todo EXCEPT ![a] = @ \ {f}] /\ UNCHANGED pc
    /\ UNCHANGED << file, names, recorded, walk, moment, tidy, result, edits, faults, crashes >>

(* After the last file has been read the contents are compared with        *)
(* manifest and checksums; after the rename the result must also be that   *)
(* of the first verification.                                              *)
Read(a) ==
    /\ pc[a] \in {"read_stage", "read_output"}
    /\ \E f \in todo[a] :
          /\ walk' = [walk EXCEPT ![a].saw[f] = file[walk[a].dir][f]]
          /\ IF todo[a] # {f} THEN todo' = [todo EXCEPT ![a] = @ \ {f}] /\ UNCHANGED << pc, moment >>
             ELSE /\ moment' = [moment EXCEPT ![a] =
                                   /\ Consistent(a, file[walk[a].dir])
                                   /\ walk[a].dir = IF pc[a] = "read_stage" THEN stage[a] ELSE output]
                  /\ IF Consistent(a, walk'[a].saw)
                     THEN Begin(a, IF pc[a] = "read_stage" THEN "check_stage" ELSE "check_output")
                     ELSE Abort(a) /\ UNCHANGED todo
    /\ UNCHANGED << file, names, recorded, sealed, tidy, result, edits, faults, crashes >>

(* Every snapshot, and in the end the name, must still be what was opened: *)
(* the first seal, the verification of the stage, the seal before and      *)
(* after the rename, and the verification of the output.                   *)
View(a) == IF pc[a] \in {"check_stage", "check_output"} THEN walk[a] ELSE sealed[a]

Onward == [check_seal |-> "open_stage", check_stage |-> "source", source |-> "rename",
           reseal |-> "open_output", check_output |-> "sync"]

Check(a) ==
    /\ pc[a] \in DOMAIN Onward
    /\ IF todo[a] = {}
       THEN IF Named(a) = View(a).dir
            THEN Begin(a, Onward[pc[a]])
            ELSE Abort(a) /\ UNCHANGED todo
       ELSE \E f \in todo[a] :
               IF Unchanged(View(a), f)
               THEN todo' = [todo EXCEPT ![a] = @ \ {f}] /\ UNCHANGED pc
               ELSE Abort(a) /\ UNCHANGED todo
    /\ UNCHANGED << file, names, recorded, sealed, walk, moment, tidy, result, edits, faults, crashes >>

-----------------------------------------------------------------------------
(* Mutant: the staging directory counts as published before the rename is  *)
(* known to have succeeded.                                                *)
Rename_Mutant(a) ==
    /\ pc[a] = "rename"
    /\ \/ /\ Fine /\ output = None /\ stage[a] # None
          /\ output' = stage[a]
          /\ stage' = [stage EXCEPT ![a] = None]
          /\ Goto(a, "identity") /\ UNCHANGED result
       \/ /\ Fail \/ (Fine /\ (output # None \/ stage[a] = None))
          /\ Goto(a, "done") /\ result' = [result EXCEPT ![a] = "failed"]
          /\ UNCHANGED names
    /\ UNCHANGED << file, recorded, sealed, walk, todo, moment, tidy, edits, crashes >>

(* renameat2 with RENAME_NOREPLACE moves whatever bears the staging name;  *)
(* the identity is looked at right after.                                  *)
Rename(a) ==
    /\ pc[a] = "rename"
    /\ \/ /\ Fine /\ output = None /\ stage[a] # None
          /\ output' = stage[a]
          /\ stage' = [stage EXCEPT ![a] = None]
          /\ Goto(a, "identity")
       \/ /\ Fail \/ (Fine /\ (output # None \/ stage[a] = None))
          /\ Abort(a) /\ UNCHANGED names
    /\ UNCHANGED << file, local, edits, crashes >>

Identity(a) ==
    /\ pc[a] = "identity"
    /\ IF output = sealed[a].dir THEN Begin(a, "reseal") ELSE Abort(a) /\ UNCHANGED todo
    /\ UNCHANGED << file, names, recorded, sealed, walk, moment, tidy, result, edits, faults, crashes >>

SyncParent(a) ==
    /\ pc[a] = "sync"
    /\ \/ Fine /\ Goto(a, "done") /\ result' = [result EXCEPT ![a] = "ok"]
       \/ Fail /\ Abort(a) /\ UNCHANGED result
    /\ UNCHANGED << file, names, recorded, sealed, walk, todo, moment, tidy, edits, crashes >>

(* Mutant: the output of a failed publication is removed as well.          *)
Cleanup_Mutant(a) ==
    /\ pc[a] = "cleanup"
    /\ stage' = [stage EXCEPT ![a] = None]
    /\ output' = None
    /\ Goto(a, "done") /\ result' = [result EXCEPT ![a] = "failed"]
    /\ UNCHANGED << file, recorded, sealed, walk, todo, moment, tidy, edits, faults, crashes >>

(* RemoveAll of the staging name; its error is ignored.  A directory that  *)
(* has been renamed already is left where it is.                           *)
Cleanup(a) ==
    /\ pc[a] = "cleanup"
    /\ \/ /\ Fine
          /\ stage' = [stage EXCEPT ![a] = None] /\ UNCHANGED tidy
       \/ /\ stage[a] # None /\ Fail
          /\ tidy' = [tidy EXCEPT ![a] = FALSE] /\ UNCHANGED stage
    /\ Goto(a, "done") /\ result' = [result EXCEPT ![a] = "failed"]
    /\ UNCHANGED << file, output, recorded, sealed, walk, todo, moment, edits, crashes >>

-----------------------------------------------------------------------------
(* Other processes.                                                        *)
Edit(d, f) ==
    /\ edits < MaxEdits /\ edits' = edits + 1
    /\ file[d][f].v # Absent
    /\ file' = [file EXCEPT ![d][f] = [v |-> IF @.v = Written THEN Edited ELSE Written, t |-> @.t + 1]]
    /\ UNCHANGED << names, pc, local, faults, crashes >>

Exchange ==
    /\ edits < MaxEdits /\ edits' = edits + 1
    /\ output # Other /\ \A a \in Asms : stage[a] # Other
    /\ \/ output' = Other /\ UNCHANGED stage
       \/ \E a \in Asms : stage[a] # None /\ stage' = [stage EXCEPT ![a] = Other] /\ UNCHANGED output
    /\ UNCHANGED << file, pc, local, faults, crashes >>

Crash(a) ==
    /\ pc[a] # "done" /\ crashes < MaxCrashes
    /\ crashes' = crashes + 1
    /\ Goto(a, "done") /\ result' = [result EXCEPT ![a] = "crashed"]
    /\ UNCHANGED << file, names, recorded, sealed, walk, todo, moment, tidy, edits, faults >>

AsmStep(a) ==
    \/ CheckInputs(a) \/ MakeStage(a) \/ WriteFile(a) \/ Record(a)
    \/ Open(a) \/ Seal(a) \/ Read(a) \/ Check(a)
    \/ Rename(a) \/ Identity(a) \/ SyncParent(a) \/ Cleanup(a)

Ended == (\A a \in Asms : pc[a] = "done") /\ UNCHANGED vars

Next ==
    \/ \E a \in Asms : AsmStep(a) \/ Crash(a)
    \/ \E d \in Dirs, f \in Files : Edit(d, f)
    \/ Exchange
    \/ Ended

Spec == Init /\ [][Next]_vars

-----------------------------------------------------------------------------
Views == [dir : Dirs \cup {None}, saw : [Files -> [v : 0..2, t : 0..(MaxEdits + 1)]]]

TypeOK ==
    /\ file \in [Dirs -> [Files -> [v : 0..2, t : 0..(MaxEdits + 1)]]]
    /\ stage \in [Asms -> Dirs \cup {None}] /\ output \in Dirs \cup {None}
    /\ recorded \in [Asms -> [Files -> 0..2]]
    /\ sealed \in [Asms -> Views] /\ walk \in [Asms -> Views]
    /\ todo \in [Asms -> SUBSET Files]
    /\ moment \in [Asms -> BOOLEAN] /\ tidy \in [Asms -> BOOLEAN]
    /\ result \in [Asms -> {"none", "ok", "failed", "crashed"}]
    /\ edits \in 0..MaxEdits /\ faults \in 0..MaxFaults /\ crashes \in 0..MaxCrashes

(* The files are read one after the other while others may change them,    *)
(* back and forth and under an exchanged name.  If Assemble succeeds there *)
(* was nevertheless one moment, after the rename, at which the directory   *)
(* under the output name held all of the files together as manifest and    *)
(* checksums record them (verifyCandidate: every file is read, then every  *)
(* file is looked at again).                                               *)
VerifiedAtOneMoment == \A a \in Asms : result[a] = "ok" => moment[a]

(* Of two Assembles with the same output at most one gets it, and neither  *)
(* a failing one nor its cleanup touches what stands there.                *)
OutputNeverReplaced ==
    [][(\E a \in Asms : AsmStep(a)) /\ output # None => output' = output]_vars

(* An Assemble that returns leaves no staging directory, wherever it       *)
(* stopped and whoever had exchanged it, unless the removal itself failed  *)
(* (the deferred RemoveAll of assembleCandidate).                          *)
StageIsTransient ==
    \A a \in Asms : result[a] \in {"ok", "failed"} /\ tidy[a] => stage[a] = None
=============================================================================
