-------------------------- MODULE CandidateProofs --------------------------
(***************************************************************************)
(* Proofs about CandidateSet for any number of assemblers and of files,    *)
(* and for any number of edits, exchanges, failures and deaths.            *)
(*                                                                         *)
(* That a verified set was right at one moment rests on the stamps: a file *)
(* that is found as it was read has not been written in between, because a *)
(* write moves its stamp and no write moves it back.  The inductive        *)
(* invariant says so of the files that have still to be looked at again.   *)
(***************************************************************************)
EXTENDS CandidateSet, TLAPS

Typed == TypeOK /\ pc \in [Asms -> Labels \cup Archives]

\* A stamp counts the writes: one by the assembler, the others are edits.
Stamps ==
  \A d \in Dirs, f \in Files :
     file[d][f].t <= edits + 1 /\ (file[d][f].v = Absent => file[d][f].t = 0)

Walking == {"read_stage", "check_stage", "read_output", "check_output"}
Sealing == {"seal", "check_seal"}
Renamed == {"identity", "reseal", "open_output", "read_output", "check_output", "sync"}

(* The directories an assembler is at work in are there, its stage is gone *)
(* before and after; under the output name stands what it verifies, or     *)
(* what somebody has exchanged it for, and that stays.                     *)
Position(a) ==
  /\ pc[a] = "done" <=> result[a] # "none"
  /\ pc[a] \in {"write"} \cup Archives => stage[a] # None
  /\ pc[a] \in {"start", "mkdir"} \cup Renamed => stage[a] = None
  /\ result[a] \in {"ok", "failed"} /\ tidy[a] => stage[a] = None
  /\ pc[a] \in Walking => walk[a].dir # None
  /\ pc[a] \in Sealing => sealed[a].dir # None
  /\ pc[a] \in {"read_output", "check_output"} => output \in {walk[a].dir, Other}

(* No file was written earlier than it was read; and if what is still to   *)
(* be looked at is found as it was read, all of it was right at the turn.  *)
Witnessed(a) ==
  /\ walk[a].dir # None =>
       \A f \in Files : walk[a].saw[f].t <= file[walk[a].dir][f].t
  /\ /\ pc[a] = "check_output" /\ output = walk[a].dir
     /\ \A f \in todo[a] : file[walk[a].dir][f] = walk[a].saw[f]
     => moment[a]
  /\ pc[a] = "sync" \/ result[a] = "ok" => moment[a]

IInv == Typed /\ Stamps /\ \A a \in Asms : Position(a) /\ Witnessed(a)


-----------------------------------------------------------------------------
(* Types.                                                                  *)

\* What the constants are.
LEMMA Constants ==
  /\ MaxEdits \in Nat /\ MaxFaults \in Nat /\ MaxCrashes \in Nat
  /\ None \notin Dirs /\ Other \in Dirs /\ Asms \subseteq Dirs /\ Other \notin Asms
BY BoundsAssumption, NamesAssumption DEF Dirs

\* An unread view has the type of a view.
LEMMA NoFilesType ==
  /\ NoFiles \in [Files -> [v : 0..2, t : 0..(MaxEdits + 1)]]
  /\ \A f \in Files : NoFiles[f].v = Absent /\ NoFiles[f].t = 0
BY Constants DEF NoFiles, Absent

\* The initial states have the types, and the stamps are those of no write.
LEMMA TypedInit == Init => Typed /\ Stamps
<1> SUFFICES ASSUME Init PROVE Typed /\ Stamps
  OBVIOUS
<1>1. file \in [Dirs -> [Files -> [v : 0..2, t : 0..(MaxEdits + 1)]]]
  <2>1. [f \in Files |-> [v |-> Written, t |-> 0]] \in [Files -> [v : 0..2, t : 0..(MaxEdits + 1)]]
    BY Constants DEF Written
  <2> QED
    BY <2>1, NoFilesType DEF Init
<1>2. Stamps
  BY NoFilesType DEF Init, Stamps, Written, Absent
<1>3. NoView \in Views
  BY NoFilesType DEF NoView, Views
<1>4. recorded \in [Asms -> [Files -> 0..2]]
  BY DEF Init, Written
<1> QED
  BY <1>1, <1>2, <1>3, <1>4, Constants DEF Init, Typed, TypeOK, Labels

\* A write gives a file a content and the next stamp.
Rewritten(d, f, c) == file' = [file EXCEPT ![d] = [file[d] EXCEPT ![f] = [v |-> c, t |-> file[d][f].t + 1]]]

\* It moves the stamp of that file alone.
LEMMA RewrittenEffect ==
  ASSUME Typed, NEW d \in Dirs, NEW f \in Files, NEW c \in 0..2, Rewritten(d, f, c),
         file[d][f].t + 1 \in 0..(MaxEdits + 1)
  PROVE  /\ file' \in [Dirs -> [Files -> [v : 0..2, t : 0..(MaxEdits + 1)]]]
         /\ \A e \in Dirs, g \in Files :
               IF e = d /\ g = f THEN file'[e][g].v = c /\ file'[e][g].t = file[e][g].t + 1
                                ELSE file'[e][g] = file[e][g]
<1>1. file \in [Dirs -> [Files -> [v : 0..2, t : 0..(MaxEdits + 1)]]]
  BY DEF Typed, TypeOK
<1>2. [v |-> c, t |-> file[d][f].t + 1] \in [v : 0..2, t : 0..(MaxEdits + 1)]
  OBVIOUS
<1>3. [file[d] EXCEPT ![f] = [v |-> c, t |-> file[d][f].t + 1]]
        \in [Files -> [v : 0..2, t : 0..(MaxEdits + 1)]]
  BY <1>1, <1>2
<1> QED
  BY <1>1, <1>2, <1>3 DEF Rewritten

\* The assembler writes a file that was absent, in the directory under its name.
LEMMA WriteFileEffect ==
  ASSUME Typed, NEW a \in Asms, WriteFile(a), Position(a)
  PROVE  /\ stage[a] \in Dirs
         /\ \/ file' = file
            \/ \E f \in Files : file[stage[a]][f].v = Absent /\ Rewritten(stage[a], f, Written)
<1>1. stage[a] \in Dirs
  BY DEF WriteFile, Position, Typed, TypeOK
<1>2. PICK f \in Files :
        \/ file' = file
        \/ /\ file[stage[a]][f].v = Absent
           /\ file' = [file EXCEPT ![stage[a]][f] = [v |-> Written, t |-> @.t + 1]]
  BY DEF WriteFile, Payload, Typed, TypeOK
<1> QED
  BY <1>1, <1>2 DEF Rewritten

\* What somebody edits gets another content.
LEMMA EditEffect ==
  ASSUME Typed, NEW d \in Dirs, NEW f \in Files, Edit(d, f)
  PROVE  /\ file[d][f].v # Absent /\ edits' = edits + 1 /\ edits' <= MaxEdits
         /\ UNCHANGED << names, pc, local, faults, crashes >>
         /\ \E c \in {Written, Edited} : Rewritten(d, f, c)
<1>1. /\ file[d][f].v # Absent /\ edits' = edits + 1 /\ edits < MaxEdits
      /\ UNCHANGED << names, pc, local, faults, crashes >>
  BY DEF Edit
<1>2. edits' <= MaxEdits
  BY <1>1, Constants DEF Typed, TypeOK
<1>3. Rewritten(d, f, IF file[d][f].v = Written THEN Edited ELSE Written)
  BY DEF Edit, Rewritten
<1> QED
  BY <1>1, <1>2, <1>3

\* Files and stamps after a step of an assembler.
LEMMA FilesStep ==
  ASSUME Typed, Stamps, NEW a \in Asms, Position(a), AsmStep(a) \/ Crash(a)
  PROVE  /\ file' \in [Dirs -> [Files -> [v : 0..2, t : 0..(MaxEdits + 1)]]]
         /\ edits' = edits /\ Stamps'
         /\ \A d \in Dirs, f \in Files : \/ file'[d][f] = file[d][f]
                                         \/ file'[d][f].t = file[d][f].t + 1
<1>1. CASE WriteFile(a) /\ file' # file
  <2>1. PICK f \in Files : file[stage[a]][f].v = Absent /\ Rewritten(stage[a], f, Written)
    BY <1>1, WriteFileEffect
  <2>2. stage[a] \in Dirs
    BY <1>1, WriteFileEffect
  <2>3. file[stage[a]][f].t = 0 /\ 0 + 1 \in 0..(MaxEdits + 1) /\ Written \in 0..2
    BY <2>1, <2>2, Constants DEF Stamps, Written
  <2>4. /\ file' \in [Dirs -> [Files -> [v : 0..2, t : 0..(MaxEdits + 1)]]]
        /\ \A e \in Dirs, g \in Files :
              IF e = stage[a] /\ g = f
              THEN file'[e][g].v = Written /\ file'[e][g].t = file[e][g].t + 1
              ELSE file'[e][g] = file[e][g]
    BY <2>1, <2>2, <2>3, RewrittenEffect
  <2>5. edits' = edits /\ edits \in Nat
    BY <1>1 DEF WriteFile, Typed, TypeOK
  <2> QED
    BY <2>3, <2>4, <2>5 DEF Stamps, Written, Absent
<1>2. CASE file' = file
  <2>1. edits' = edits
    BY DEF AsmStep, CheckInputs, MakeStage, WriteFile, Record, Open, Seal, Read, Check, Rename,
           Identity, SyncParent, Cleanup, Crash
  <2> QED
    BY <1>2, <2>1 DEF Stamps, Typed, TypeOK
<1> QED
  BY <1>1, <1>2
     DEF AsmStep, CheckInputs, MakeStage, Record, Open, Seal, Read, Check, Rename, Identity,
         SyncParent, Cleanup, Crash


\* What bears the names is a directory or nothing.
LEMMA NamesType ==
  ASSUME Typed, NEW a \in Asms, AsmStep(a) \/ Crash(a)
  PROVE  stage' \in [Asms -> Dirs \cup {None}] /\ output' \in Dirs \cup {None}
<1>1. CASE MakeStage(a)
  BY <1>1, Constants DEF MakeStage, Typed, TypeOK
<1>2. CASE Rename(a)
  BY <1>2 DEF Rename, names, Typed, TypeOK
<1>3. CASE Cleanup(a)
  BY <1>3 DEF Cleanup, Typed, TypeOK
<1> QED
  BY <1>1, <1>2, <1>3
     DEF AsmStep, CheckInputs, WriteFile, Record, Open, Seal, Read, Check, Identity,
         SyncParent, Crash, names, local, Typed, TypeOK

\* What was recorded and seen are files.
LEMMA ViewsType ==
  ASSUME Typed, NEW a \in Asms, Position(a), AsmStep(a) \/ Crash(a)
  PROVE  recorded' \in [Asms -> [Files -> 0..2]] /\ sealed' \in [Asms -> Views]
         /\ walk' \in [Asms -> Views]
<1>0. /\ file \in [Dirs -> [Files -> [v : 0..2, t : 0..(MaxEdits + 1)]]]
      /\ sealed \in [Asms -> Views] /\ walk \in [Asms -> Views]
      /\ stage[a] \in Dirs \cup {None} /\ output \in Dirs \cup {None}
  BY DEF Typed, TypeOK
<1>1. CASE Record(a)
  <2>1. \/ recorded' = recorded
        \/ recorded' = [recorded EXCEPT ![a] = [recorded[a] EXCEPT
                           ![pc[a]] = file[stage[a]][pc[a]].v]]
    BY <1>1 DEF Record
  <2>2. pc[a] \in Files /\ stage[a] \in Dirs
    BY <1>1 DEF Record, Position, Files, Payload, Typed, TypeOK
  <2>3. [recorded[a] EXCEPT ![pc[a]] = file[stage[a]][pc[a]].v] \in [Files -> 0..2]
    BY <1>0, <2>2 DEF Typed, TypeOK
  <2> QED
    BY <1>1, <2>1, <2>3 DEF Record, Typed, TypeOK
<1>2. CASE Open(a)
  <2>1. Named(a) # None => [dir |-> Named(a), saw |-> NoFiles] \in Views
    BY <1>0, NoFilesType DEF Named, Views
  <2>2. /\ recorded' = recorded
        /\ sealed' = sealed \/ (/\ Named(a) # None
                               /\ sealed' = [sealed EXCEPT ![a] = [dir |-> Named(a), saw |-> NoFiles]])
        /\ walk' = walk \/ (/\ Named(a) # None
                           /\ walk' = [walk EXCEPT ![a] = [dir |-> Named(a), saw |-> NoFiles]])
    BY <1>2 DEF Open
  <2> QED
    BY <2>1, <2>2 DEF Typed, TypeOK
<1>3. CASE Seal(a)
  <2>1. PICK f \in Files :
          sealed' = [sealed EXCEPT ![a] = [sealed[a] EXCEPT !.saw =
                       [sealed[a].saw EXCEPT ![f] = file[sealed[a].dir][f]]]]
    BY <1>3 DEF Seal, Typed, TypeOK
  <2>2. sealed[a].dir \in Dirs
    BY <1>0, <1>3 DEF Seal, Position, Sealing, Views
  <2>3. [sealed[a].saw EXCEPT ![f] = file[sealed[a].dir][f]]
          \in [Files -> [v : 0..2, t : 0..(MaxEdits + 1)]]
    BY <1>0, <2>2 DEF Views
  <2>4. [sealed[a] EXCEPT !.saw = [sealed[a].saw EXCEPT ![f] = file[sealed[a].dir][f]]] \in Views
    BY <1>0, <2>3 DEF Views
  <2>5. sealed' \in [Asms -> Views]
    BY <1>0, <2>1, <2>4
  <2> QED
    BY <1>3, <2>5 DEF Seal, Typed, TypeOK
<1>4. CASE Read(a)
  <2>1. PICK f \in Files :
          walk' = [walk EXCEPT ![a] = [walk[a] EXCEPT !.saw =
                       [walk[a].saw EXCEPT ![f] = file[walk[a].dir][f]]]]
    BY <1>4 DEF Read, Typed, TypeOK
  <2>2. walk[a].dir \in Dirs
    BY <1>0, <1>4 DEF Read, Position, Walking, Views
  <2>3. [walk[a].saw EXCEPT ![f] = file[walk[a].dir][f]]
          \in [Files -> [v : 0..2, t : 0..(MaxEdits + 1)]]
    BY <1>0, <2>2 DEF Views
  <2>4. [walk[a] EXCEPT !.saw = [walk[a].saw EXCEPT ![f] = file[walk[a].dir][f]]] \in Views
    BY <1>0, <2>3 DEF Views
  <2>5. walk' \in [Asms -> Views]
    BY <1>0, <2>1, <2>4
  <2> QED
    BY <1>4, <2>5 DEF Read, Typed, TypeOK
<1> QED
  BY <1>1, <1>2, <1>3, <1>4
     DEF AsmStep, CheckInputs, MakeStage, WriteFile, Check, Rename, Identity,
         SyncParent, Cleanup, Crash, names, local, Typed, TypeOK

\* An assembler goes to a step it has a name for.
LEMMA StepType ==
  ASSUME Typed, NEW a \in Asms, AsmStep(a) \/ Crash(a)
  PROVE  pc' = pc \/ \E x \in Labels \cup Archives : pc' = [pc EXCEPT ![a] = x]
<1>1. CASE CheckInputs(a)
  BY <1>1
     DEF CheckInputs, Goto, Fail, Fine, names, local, Labels
<1>2. CASE MakeStage(a)
  BY <1>2
     DEF MakeStage, Goto, Begin, Fail, Fine, names, local, Labels
<1>3. CASE WriteFile(a)
  BY <1>3
     DEF WriteFile, Goto, Abort, Fail, Fine, names, local, Labels
<1>4. CASE Record(a)
  BY <1>4
     DEF Record, Goto, Abort, Fail, Fine, names, local, Labels
<1>5. CASE Open(a)
  <2>1. pc[a] \in DOMAIN Inward => Inward[pc[a]] \in Labels
    BY DEF Inward, Labels
  <2> QED
    BY <1>5, <2>1 DEF Open, Begin, Goto, Abort, Labels
<1>6. CASE Seal(a)
  BY <1>6
     DEF Seal, Goto, Begin, names, local, Labels
<1>7. CASE Read(a)
  BY <1>7
     DEF Read, Goto, Begin, Abort, names, local, Labels
<1>8. CASE Check(a)
  <2>1. pc[a] \in DOMAIN Onward => Onward[pc[a]] \in Labels
    BY DEF Onward, Labels
  <2> QED
    BY <1>8, <2>1 DEF Check, Begin, Goto, Abort, Labels
<1>9. CASE Rename(a)
  BY <1>9
     DEF Rename, Goto, Abort, Fail, Fine, names, local, Labels
<1>10. CASE Identity(a)
  BY <1>10
     DEF Identity, Goto, Begin, Abort, names, local, Labels
<1>11. CASE SyncParent(a)
  BY <1>11
     DEF SyncParent, Goto, Abort, Fail, Fine, names, local, Labels
<1>12. CASE Cleanup(a)
  BY <1>12
     DEF Cleanup, Goto, Fail, Fine, names, local, Labels
<1>13. CASE Crash(a)
  BY <1>13
     DEF Crash, Goto, names, local, Labels
<1> QED
  BY <1>1, <1>2, <1>3, <1>4, <1>5, <1>6, <1>7, <1>8, <1>9, <1>10, <1>11, <1>12, <1>13
     DEF AsmStep

\* The progress of an assembler has the types.
LEMMA ProgressType ==
  ASSUME Typed, NEW a \in Asms, AsmStep(a) \/ Crash(a)
  PROVE  /\ pc' \in [Asms -> Labels \cup Archives] /\ todo' \in [Asms -> SUBSET Files]
         /\ moment' \in [Asms -> BOOLEAN] /\ tidy' \in [Asms -> BOOLEAN]
         /\ result' \in [Asms -> {"none", "ok", "failed", "crashed"}]
         /\ faults' \in 0..MaxFaults /\ crashes' \in 0..MaxCrashes
<1>1. pc' \in [Asms -> Labels \cup Archives]
  BY StepType DEF Typed
<1>2. todo' = todo \/ \E s \in SUBSET Files : todo' = [todo EXCEPT ![a] = s]
  BY
     DEF AsmStep, CheckInputs, MakeStage, WriteFile, Record, Open, Seal, Read, Check,
         Rename, Identity, SyncParent, Cleanup, Crash, Begin, local, Typed, TypeOK
<1>3. todo' \in [Asms -> SUBSET Files]
  BY <1>2 DEF Typed, TypeOK
<1>4. moment' \in [Asms -> BOOLEAN]
  <2>1. CASE Read(a)
    BY <2>1 DEF Read, Typed, TypeOK
  <2> QED
    BY <2>1
       DEF AsmStep, CheckInputs, MakeStage, WriteFile, Record, Open, Seal, Check,
           Rename, Identity, SyncParent, Cleanup, Crash, local, Typed, TypeOK
<1>5. tidy' \in [Asms -> BOOLEAN]
  BY
     DEF AsmStep, CheckInputs, MakeStage, WriteFile, Record, Open, Seal, Read, Check,
         Rename, Identity, SyncParent, Cleanup, Crash, local, Typed, TypeOK
<1>6. result' \in [Asms -> {"none", "ok", "failed", "crashed"}]
  BY
     DEF AsmStep, CheckInputs, MakeStage, WriteFile, Record, Open, Seal, Read, Check,
         Rename, Identity, SyncParent, Cleanup, Crash, local, Typed, TypeOK
<1>7. faults' \in 0..MaxFaults /\ crashes' \in 0..MaxCrashes
  <2>1. faults' = faults \/ Fail
    BY
       DEF AsmStep, CheckInputs, MakeStage, WriteFile, Record, Open, Seal, Read,
           Check, Rename, Identity, SyncParent, Cleanup, Crash, Fine
  <2>2. crashes' = crashes \/ (crashes < MaxCrashes /\ crashes' = crashes + 1)
    BY
       DEF AsmStep, CheckInputs, MakeStage, WriteFile, Record, Open, Seal, Read,
           Check, Rename, Identity, SyncParent, Cleanup, Crash
  <2> QED
    BY <2>1, <2>2, Constants DEF Fail, Typed, TypeOK
<1> QED
  BY <1>1, <1>3, <1>4, <1>5, <1>6, <1>7

\* Every step of an assembler, and its death, preserves the types.
LEMMA TypedStep ==
  ASSUME Typed, Stamps, NEW a \in Asms, Position(a), AsmStep(a) \/ Crash(a)
  PROVE  Typed'
<1>1. edits' = edits /\ file' \in [Dirs -> [Files -> [v : 0..2, t : 0..(MaxEdits + 1)]]]
  BY FilesStep
<1> QED
  BY <1>1, NamesType, ViewsType, ProgressType DEF Typed, TypeOK


-----------------------------------------------------------------------------
(* What a step of one leaves of the others.                                *)

(* What other assemblers and other processes do to an assembler: they may  *)
(* exchange its stage, take or exchange the output, and write files.       *)
Disturbed(b) ==
  /\ UNCHANGED << pc[b], sealed[b], walk[b], todo[b], moment[b], tidy[b], result[b] >>
  /\ stage'[b] = stage[b] \/ (stage[b] # None /\ stage'[b] = Other)
  /\ output' = output \/ output = None \/ (output # Other /\ output' = Other)
  /\ \A d \in Dirs, f \in Files : \/ file'[d][f] = file[d][f]
                                  \/ file'[d][f].t = file[d][f].t + 1

\* An assembler does no more to another one.
LEMMA OthersDisturbed ==
  ASSUME Typed, Stamps, NEW a \in Asms, Position(a), NEW b \in Asms \ {a}, AsmStep(a) \/ Crash(a)
  PROVE  Disturbed(b)
<1>1. \A d \in Dirs, f \in Files : \/ file'[d][f] = file[d][f]
                                  \/ file'[d][f].t = file[d][f].t + 1
  BY FilesStep
<1>2. pc'[b] = pc[b]
  BY StepType DEF Typed
<1>3. UNCHANGED << sealed[b], walk[b], todo[b], moment[b], tidy[b], result[b] >>
  BY
     DEF AsmStep, CheckInputs, MakeStage, WriteFile, Record, Open, Seal, Read, Check,
         Rename, Identity, SyncParent, Cleanup, Crash, Begin, local, Typed, TypeOK
<1>4. stage'[b] = stage[b] /\ (output' = output \/ output = None)
  BY
     DEF AsmStep, CheckInputs, MakeStage, WriteFile, Record, Open, Seal, Read, Check,
         Rename, Identity, SyncParent, Cleanup, Crash, names, Typed, TypeOK
<1> QED
  BY <1>1, <1>2, <1>3, <1>4 DEF Disturbed

\* Nor does somebody who edits a file.
LEMMA EditDisturbs ==
  ASSUME Typed, Stamps, NEW d \in Dirs, NEW f \in Files, Edit(d, f)
  PROVE  Typed' /\ Stamps' /\ \A b \in Asms : Disturbed(b)
<1>1. PICK c \in {Written, Edited} : Rewritten(d, f, c)
  BY EditEffect
<1>2. /\ file[d][f].v # Absent /\ edits' = edits + 1 /\ edits' <= MaxEdits
      /\ UNCHANGED << names, pc, local, faults, crashes >>
  BY EditEffect
<1>3. /\ file[d][f].t \in 0..(MaxEdits + 1) /\ edits \in 0..MaxEdits
      /\ file[d][f].t <= edits + 1 /\ c \in 0..2 /\ c # Absent
  BY <1>1 DEF Stamps, Typed, TypeOK, Written, Edited, Absent
<1>4. file[d][f].t + 1 \in 0..(MaxEdits + 1)
  BY <1>2, <1>3, Constants
<1>5. /\ file' \in [Dirs -> [Files -> [v : 0..2, t : 0..(MaxEdits + 1)]]]
      /\ \A e \in Dirs, g \in Files :
            IF e = d /\ g = f THEN file'[e][g].v = c /\ file'[e][g].t = file[e][g].t + 1
                             ELSE file'[e][g] = file[e][g]
  BY <1>1, <1>3, <1>4, RewrittenEffect
<1>6. Stamps'
  <2> SUFFICES ASSUME NEW e \in Dirs, NEW g \in Files
               PROVE  file'[e][g].t <= edits' + 1
                      /\ (file'[e][g].v = Absent => file'[e][g].t = 0)
    BY DEF Stamps
  <2>1. /\ file[e][g].t <= edits + 1 /\ (file[e][g].v = Absent => file[e][g].t = 0)
        /\ file[e][g].t \in Nat
    BY DEF Stamps, Typed, TypeOK
  <2> QED
    BY <1>2, <1>3, <1>5, <2>1
<1>7. edits' \in 0..MaxEdits
  BY <1>2, <1>3
<1>8. Typed'
  BY <1>2, <1>5, <1>7 DEF Typed, TypeOK, names, local
<1>9. ASSUME NEW b \in Asms PROVE Disturbed(b)
  BY <1>2, <1>5 DEF Disturbed, names, local
<1> QED
  BY <1>6, <1>8, <1>9

\* Nor somebody who exchanges a directory.
LEMMA ExchangeDisturbs ==
  ASSUME Typed, Stamps, Exchange
  PROVE  Typed' /\ Stamps' /\ \A b \in Asms : Disturbed(b)
<1>1. edits' \in 0..MaxEdits /\ edits' = edits + 1 /\ edits \in Nat
  BY Constants DEF Exchange, Typed, TypeOK
<1>2. stage' \in [Asms -> Dirs \cup {None}] /\ output' \in Dirs \cup {None}
  BY Constants DEF Exchange, Typed, TypeOK
<1>3. Typed'
  BY <1>1, <1>2 DEF Exchange, Typed, TypeOK, local
<1>4. Stamps'
  BY <1>1 DEF Exchange, Stamps, Typed, TypeOK
<1>5. ASSUME NEW b \in Asms PROVE Disturbed(b)
  BY DEF Exchange, Disturbed, local, Typed, TypeOK
<1> QED
  BY <1>3, <1>4, <1>5

\* What is true of an assembler stays true.
LEMMA DisturbedKeeps ==
  ASSUME Typed, Typed', NEW b \in Asms, Position(b), Witnessed(b), Disturbed(b)
  PROVE  Position(b)' /\ Witnessed(b)'
<1>1. Position(b)'
  BY Constants DEF Disturbed, Position, Renamed, Walking, Sealing, Typed, TypeOK
<1>2. walk'[b].dir # None => \A f \in Files : walk'[b].saw[f].t <= file'[walk'[b].dir][f].t
  <2> SUFFICES ASSUME walk[b].dir # None, NEW f \in Files
               PROVE  walk[b].saw[f].t <= file'[walk[b].dir][f].t
    BY DEF Disturbed
  <2>1. walk[b].dir \in Dirs /\ walk[b].saw[f].t \in Nat /\ file[walk[b].dir][f].t \in Nat
    BY DEF Typed, TypeOK, Views
  <2>2. walk[b].saw[f].t <= file[walk[b].dir][f].t
    BY DEF Witnessed
  <2> QED
    BY <2>1, <2>2 DEF Disturbed
<1>3. ASSUME pc'[b] = "check_output", output' = walk'[b].dir,
             \A f \in todo'[b] : file'[walk'[b].dir][f] = walk'[b].saw[f]
      PROVE  moment'[b]
  <2>1. pc[b] = "check_output" /\ walk'[b] = walk[b] /\ todo'[b] = todo[b] /\ moment'[b] = moment[b]
    BY <1>3 DEF Disturbed
  <2>2. walk[b].dir \in Dirs /\ output \in {walk[b].dir, Other} /\ todo[b] \subseteq Files
    BY <2>1 DEF Position, Walking, Typed, TypeOK, Views
  <2>3. output = walk[b].dir
    BY <1>3, <2>1, <2>2, Constants DEF Disturbed
  <2>4. ASSUME NEW f \in todo[b] PROVE file[walk[b].dir][f] = walk[b].saw[f]
    <3>1. file'[walk[b].dir][f] = walk[b].saw[f] /\ f \in Files
      BY <1>3, <2>1, <2>2
    <3>2. walk[b].saw[f].t \in Nat /\ file[walk[b].dir][f].t \in Nat
      BY <2>2, <3>1 DEF Typed, TypeOK, Views
    <3>3. walk[b].saw[f].t <= file[walk[b].dir][f].t
      BY <2>2, <3>1, Constants DEF Witnessed
    <3> QED
      BY <2>2, <3>1, <3>2, <3>3 DEF Disturbed
  <2> QED
    BY <2>1, <2>3, <2>4 DEF Witnessed
<1>4. pc'[b] = "sync" \/ result'[b] = "ok" => moment'[b]
  BY DEF Disturbed, Witnessed
<1> QED
  BY <1>1, <1>2, <1>3, <1>4 DEF Witnessed


-----------------------------------------------------------------------------
(* The assembler that takes the step.                                      *)

\* The labels are told from each other and from the archives.
LEMMA ArchiveSteps == \A x \in Archives : x \notin Labels
BY ArchivesAssumption

\* Its directories are there, or gone, after its step.
LEMMA OwnPosition ==
  ASSUME Typed, Typed', Stamps, NEW a \in Asms, Position(a), Witnessed(a), AsmStep(a) \/ Crash(a)
  PROVE  Position(a)'
<1>1. CASE CheckInputs(a)
  BY <1>1, Constants, ArchiveSteps
     DEF CheckInputs, Goto, Fail, Fine, names, local, Typed, TypeOK, Position,
         Renamed, Walking, Sealing, Labels
<1>2. CASE MakeStage(a)
  BY <1>2, Constants, ArchiveSteps
     DEF MakeStage, Goto, Begin, Fail, Fine, names, local, Typed, TypeOK, Position,
         Renamed, Walking, Sealing, Labels
<1>3. CASE WriteFile(a)
  BY <1>3, Constants, ArchiveSteps
     DEF WriteFile, Goto, Abort, Fail, Fine, names, local, Typed, TypeOK, Position,
         Renamed, Walking, Sealing, Labels
<1>4. CASE Record(a)
  BY <1>4, Constants, ArchiveSteps
     DEF Record, Goto, Abort, Fail, Fine, names, local, Typed, TypeOK, Position,
         Renamed, Walking, Sealing, Labels
<1>5. CASE Open(a)
  <2>1. CASE Abort(a) /\ UNCHANGED << sealed, walk, todo >>
    BY <1>5, <2>1, ArchiveSteps
       DEF Open, Inward, Abort, Goto, names, Typed, TypeOK, Position, Renamed, Walking, Sealing, Labels
  <2>2. CASE Named(a) # None /\ Begin(a, Inward[pc[a]])
    <3>1. /\ pc[a] \in DOMAIN Inward /\ pc'[a] = Inward[pc[a]]
          /\ UNCHANGED << names, tidy, result >> /\ Named(a) \in Dirs
      BY <1>5, <2>2 DEF Open, Begin, Goto, Named, Typed, TypeOK
    <3>2. CASE pc[a] = "open"
      <4>1. sealed'[a].dir = Named(a) /\ walk' = walk
        BY <1>5, <2>2, <3>2 DEF Open, Abort, Begin, Goto, Inward, Typed, TypeOK
      <4> QED
        BY <3>1, <3>2, <4>1, Constants, ArchiveSteps
           DEF Inward, names, Typed, TypeOK, Position, Renamed, Walking, Sealing, Labels
    <3>3. CASE pc[a] # "open"
      <4>1. walk'[a].dir = Named(a) /\ sealed' = sealed
        BY <1>5, <2>2, <3>3 DEF Open, Abort, Begin, Goto, Inward, Typed, TypeOK
      <4> QED
        BY <3>1, <3>3, <4>1, Constants, ArchiveSteps
           DEF Inward, Named, names, Typed, TypeOK, Position, Renamed, Walking, Sealing, Labels
    <3> QED
      BY <3>2, <3>3
  <2> QED
    BY <1>5, <2>1, <2>2 DEF Open
<1>6. CASE Seal(a)
  BY <1>6, Constants, ArchiveSteps
     DEF Seal, Goto, Begin, names, local, Typed, TypeOK, Position, Renamed, Walking,
         Sealing, Labels
<1>7. CASE Read(a)
  BY <1>7, Constants, ArchiveSteps
     DEF Read, Goto, Begin, Abort, names, local, Typed, TypeOK, Position, Renamed,
         Walking, Sealing, Labels
<1>8. CASE Check(a)
  <2>1. \/ pc' = pc \/ pc'[a] = "cleanup"
        \/ /\ pc[a] \in DOMAIN Onward /\ pc'[a] = Onward[pc[a]]
    BY <1>8 DEF Check, Begin, Goto, Abort, Typed
  <2>2. UNCHANGED << names, sealed, walk, tidy, result >> /\ pc[a] \in DOMAIN Onward
    BY <1>8 DEF Check
  <2> QED
    BY <2>1, <2>2, ArchiveSteps DEF Onward, names, Typed, TypeOK, Position, Renamed, Walking, Sealing, Labels
<1>9. CASE Rename(a)
  BY <1>9, Constants, ArchiveSteps
     DEF Rename, Goto, Abort, Fail, Fine, names, local, Typed, TypeOK, Position,
         Renamed, Walking, Sealing, Labels
<1>10. CASE Identity(a)
  BY <1>10, Constants, ArchiveSteps
     DEF Identity, Goto, Begin, Abort, names, local, Typed, TypeOK, Position, Renamed,
         Walking, Sealing, Labels
<1>11. CASE SyncParent(a)
  BY <1>11, Constants, ArchiveSteps
     DEF SyncParent, Goto, Abort, Fail, Fine, names, local, Typed, TypeOK, Position,
         Renamed, Walking, Sealing, Labels
<1>12. CASE Cleanup(a)
  BY <1>12, Constants, ArchiveSteps
     DEF Cleanup, Goto, Fail, Fine, names, local, Typed, TypeOK, Position, Renamed,
         Walking, Sealing, Labels
<1>13. CASE Crash(a)
  BY <1>13, Constants, ArchiveSteps
     DEF Crash, Goto, names, local, Typed, TypeOK, Position, Renamed, Walking,
         Sealing, Labels
<1> QED
  BY <1>1, <1>2, <1>3, <1>4, <1>5, <1>6, <1>7, <1>8, <1>9, <1>10, <1>11, <1>12, <1>13
     DEF AsmStep


\* No file was written earlier than it was read, also by its own step.
LEMMA OwnReading ==
  ASSUME Typed, Typed', Stamps, NEW a \in Asms, Position(a), Witnessed(a), AsmStep(a) \/ Crash(a)
  PROVE  walk'[a].dir # None => \A f \in Files : walk'[a].saw[f].t <= file'[walk'[a].dir][f].t
<1> SUFFICES ASSUME walk'[a].dir # None, NEW f \in Files
             PROVE  walk'[a].saw[f].t <= file'[walk'[a].dir][f].t
  OBVIOUS
<1>1. /\ walk[a] \in Views /\ walk'[a] \in Views /\ walk'[a].dir \in Dirs
      /\ \A d \in Dirs : file[d][f].t \in Nat /\ file'[d][f].t \in Nat
  BY DEF Typed, TypeOK, Views
<1>2. \A d \in Dirs : file[d][f].t <= file'[d][f].t
  BY <1>1, FilesStep
<1>3. CASE walk'[a].dir = walk[a].dir /\ walk'[a].saw[f] = walk[a].saw[f]
  <2>1. walk[a].saw[f].t <= file[walk[a].dir][f].t /\ walk[a].saw[f].t \in Nat
    BY <1>1, <1>3, Constants DEF Witnessed, Views
  <2> QED
    BY <1>1, <1>2, <1>3, <2>1
<1>4. CASE Open(a) /\ walk' # walk
  <2>1. walk'[a].saw = NoFiles
    BY <1>4 DEF Open, Typed, TypeOK
  <2>2. walk'[a].saw[f].t = 0
    BY <2>1, NoFilesType
  <2> QED
    BY <1>1, <2>2
<1>5. CASE Read(a)
  <2>1. PICK g \in todo[a] :
          walk' = [walk EXCEPT ![a] = [walk[a] EXCEPT !.saw =
                     [walk[a].saw EXCEPT ![g] = file[walk[a].dir][g]]]]
    BY <1>5 DEF Read
  <2>2. file' = file
    BY <1>5 DEF Read
  <2>3. walk'[a].dir = walk[a].dir /\ walk'[a].saw = [walk[a].saw EXCEPT ![g] = file[walk[a].dir][g]]
    BY <1>1, <2>1 DEF Typed, TypeOK, Views
  <2>4. CASE f = g
    BY <1>1, <2>2, <2>3, <2>4 DEF Views
  <2>5. CASE f # g
    BY <1>1, <1>3, <2>3, <2>5 DEF Views
  <2> QED
    BY <2>4, <2>5
<1>6. CASE walk' = walk
  BY <1>3, <1>6
<1> QED
  BY <1>4, <1>5, <1>6
     DEF AsmStep, CheckInputs, MakeStage, WriteFile, Record, Seal, Check, Rename, Identity, SyncParent, Cleanup, Crash, local

\* When the last file has been read, a set that is found right and unchanged was right.
LEMMA TurnIsWitnessed ==
  ASSUME Typed, Typed', NEW a \in Asms, Read(a), Position(a), pc'[a] = "check_output",
         output' = walk'[a].dir, \A f \in todo'[a] : file'[walk'[a].dir][f] = walk'[a].saw[f]
  PROVE  moment'[a]
<1>1. pc[a] \in {"read_stage", "read_output"} /\ UNCHANGED << file, names, recorded >>
  BY DEF Read
<1>2. PICK g \in todo[a] :
        /\ walk' = [walk EXCEPT ![a].saw[g] = file[walk[a].dir][g]]
        /\ IF todo[a] # {g} THEN UNCHANGED << pc, moment >>
           ELSE /\ moment' = [moment EXCEPT ![a] =
                                 /\ Consistent(a, file[walk[a].dir])
                                 /\ walk[a].dir = IF pc[a] = "read_stage" THEN stage[a] ELSE output]
                /\ IF Consistent(a, walk'[a].saw)
                   THEN Begin(a, IF pc[a] = "read_stage" THEN "check_stage" ELSE "check_output")
                   ELSE Abort(a) /\ UNCHANGED todo
  BY DEF Read
<1>3. todo[a] = {g}
  BY <1>1, <1>2
<1>4. pc[a] = "read_output" /\ Consistent(a, walk'[a].saw) /\ todo'[a] = Files
  BY <1>1, <1>2, <1>3 DEF Begin, Goto, Abort, Typed, TypeOK
<1>5. walk'[a].dir = walk[a].dir /\ output' = output
  <2>1. walk' = [walk EXCEPT ![a] = [walk[a] EXCEPT !.saw =
                    [walk[a].saw EXCEPT ![g] = file[walk[a].dir][g]]]]
    BY <1>2
  <2>2. walk'[a].dir = walk[a].dir
    BY <2>1 DEF Typed, TypeOK, Views
  <2> QED
    BY <1>1, <2>2 DEF names
<1>6. Consistent(a, file[walk[a].dir])
  BY <1>1, <1>4, <1>5 DEF Consistent
<1>7. moment'[a] = (Consistent(a, file[walk[a].dir]) /\ walk[a].dir = output)
  BY <1>2, <1>3, <1>4 DEF Typed, TypeOK
<1> QED
  BY <1>5, <1>6, <1>7

\* What has been looked at again was as it was read.
LEMMA OwnWitnessed ==
  ASSUME Typed, Typed', Stamps, NEW a \in Asms, Position(a), Witnessed(a), AsmStep(a) \/ Crash(a)
  PROVE  Witnessed(a)'
<1>1. walk'[a].dir # None => \A f \in Files : walk'[a].saw[f].t <= file'[walk'[a].dir][f].t
  BY OwnReading
<1>2. ASSUME pc'[a] = "check_output", output' = walk'[a].dir,
             \A f \in todo'[a] : file'[walk'[a].dir][f] = walk'[a].saw[f]
      PROVE  moment'[a]
  <2>1. CASE Read(a)
    BY <1>2, <2>1, TurnIsWitnessed
  <2>2. CASE Check(a)
    <3>1. UNCHANGED << file, names, walk, moment >>
      BY <2>2 DEF Check
    <3>2. PICK f \in todo[a] : /\ pc' = pc /\ todo' = [todo EXCEPT ![a] = @ \ {f}]
                             /\ Unchanged(View(a), f)
      BY <1>2, <2>2 DEF Check, Begin, Goto, Abort, Onward, Typed
    <3>3. pc[a] = "check_output" /\ View(a) = walk[a]
      BY <1>2, <3>2 DEF View
    <3>4. \A g \in todo[a] : file[walk[a].dir][g] = walk[a].saw[g]
      BY <1>2, <3>1, <3>2, <3>3 DEF Unchanged, Typed, TypeOK
    <3>5. output = walk[a].dir
      BY <1>2, <3>1 DEF names
    <3> QED
      BY <3>1, <3>3, <3>4, <3>5 DEF Witnessed
  <2>3. ASSUME ~Read(a), ~Check(a) PROVE pc'[a] # "check_output"
    BY <2>3, ArchiveSteps
       DEF AsmStep, CheckInputs, MakeStage, WriteFile, Record, Open, Seal, Rename,
           Identity, SyncParent, Cleanup, Crash, Goto, Begin, Abort, Inward, Labels,
           Typed, TypeOK
  <2> QED
    BY <1>2, <2>1, <2>2, <2>3
<1>3. pc'[a] = "sync" \/ result'[a] = "ok" => moment'[a]
  <2>1. CASE Check(a)
    <3>1. UNCHANGED << file, names, walk, moment, result >>
      BY <2>1 DEF Check
    <3>2. CASE pc'[a] = "sync"
      <4>1. pc[a] = "check_output" /\ todo[a] = {} /\ output = walk[a].dir
        BY <2>1, <3>2 DEF Check, Begin, Goto, Abort, Onward, View, Named, Typed
      <4> QED
        BY <3>1, <4>1 DEF Witnessed
    <3> QED
      BY <3>1, <3>2 DEF Witnessed
  <2>2. CASE Read(a)
    <3>1. result' = result /\ pc[a] # "done" /\ result[a] = "none"
      BY <2>2 DEF Read, Position, Typed, TypeOK
    <3>2. pc'[a] # "sync"
      BY <2>2 DEF Read, Begin, Goto, Abort, Typed
    <3> QED
      BY <3>1, <3>2
  <2>3. CASE SyncParent(a)
    BY <2>3 DEF SyncParent, Goto, Abort, Witnessed, Typed, TypeOK
  <2>4. CASE moment' = moment /\ ~Check(a) /\ ~SyncParent(a)
    <3>1. pc'[a] = "sync" => pc[a] = "sync"
      BY <2>4, ArchiveSteps
         DEF AsmStep, CheckInputs, MakeStage, WriteFile, Record, Open, Seal, Read,
             Rename, Identity, Cleanup, Crash, Goto, Begin, Abort, Inward, Labels,
             Typed, TypeOK
    <3>2. result'[a] = "ok" => result[a] = "ok"
      BY <2>4
         DEF AsmStep, CheckInputs, MakeStage, WriteFile, Record, Open, Seal, Read,
             Rename, Identity, Cleanup, Crash, local, Typed, TypeOK
    <3> QED
      BY <2>4, <3>1, <3>2 DEF Witnessed
  <2> QED
    BY <2>1, <2>2, <2>3, <2>4
       DEF AsmStep, CheckInputs, MakeStage, WriteFile, Record, Open, Seal, Rename,
           Identity, Cleanup, Crash, local
<1> QED
  BY <1>1, <1>2, <1>3 DEF Witnessed

-----------------------------------------------------------------------------
(* The theorems.                                                           *)

\* The initial states satisfy the invariant.
LEMMA InvariantInit == Init => IInv
<1> SUFFICES ASSUME Init PROVE IInv
  OBVIOUS
<1>1. Typed /\ Stamps
  BY TypedInit
<1>2. ASSUME NEW a \in Asms PROVE Position(a) /\ Witnessed(a)
  <2>1. /\ pc[a] = "start" /\ result[a] = "none" /\ stage[a] = None /\ walk[a].dir = None
    BY DEF Init, NoView
  <2> QED
    BY <2>1, ArchiveSteps DEF Position, Witnessed, Walking, Sealing, Renamed, Labels
<1> QED
  BY <1>1, <1>2 DEF IInv

\* The step of an assembler, or its death, preserves the invariant.
LEMMA AssemblerStep ==
  ASSUME IInv, NEW a \in Asms, AsmStep(a) \/ Crash(a)
  PROVE  IInv'
<1>1. Typed /\ Stamps /\ Position(a) /\ Witnessed(a)
  BY DEF IInv
<1>2. Typed' /\ Stamps'
  BY <1>1, TypedStep, FilesStep
<1>3. Position(a)' /\ Witnessed(a)'
  BY <1>1, <1>2, OwnPosition, OwnWitnessed
<1>4. ASSUME NEW b \in Asms \ {a} PROVE Position(b)' /\ Witnessed(b)'
  <2>1. Disturbed(b)
    BY <1>1, OthersDisturbed
  <2>2. Position(b) /\ Witnessed(b)
    BY DEF IInv
  <2> QED
    BY <1>1, <1>2, <2>1, <2>2, DisturbedKeeps
<1> QED
  BY <1>2, <1>3, <1>4 DEF IInv

\* No step violates the invariant.
LEMMA InvariantStep ==
  ASSUME IInv, [Next]_vars
  PROVE  IInv'
<1>1. CASE \E a \in Asms : AsmStep(a) \/ Crash(a)
  BY <1>1, AssemblerStep
<1>2. CASE (\E d \in Dirs, f \in Files : Edit(d, f)) \/ Exchange
  <2>1. Typed' /\ Stamps' /\ \A b \in Asms : Disturbed(b)
    BY <1>2, EditDisturbs, ExchangeDisturbs DEF IInv
  <2> QED
    BY <2>1, DisturbedKeeps DEF IInv
<1>3. CASE UNCHANGED vars
  <2>1. /\ Typed' <=> Typed
        /\ Stamps' <=> Stamps
        /\ \A a \in Asms : (Position(a)' <=> Position(a)) /\ (Witnessed(a)' <=> Witnessed(a))
    BY <1>3 DEF vars, names, local, Typed, TypeOK, Stamps, Position, Witnessed
  <2> QED
    BY <2>1 DEF IInv
<1> QED
  BY <1>1, <1>2, <1>3 DEF Next, Ended

(* The inductive invariant, for assemblers with one output, and others who *)
(* edit files and exchange directories, in any order (Assemble).           *)
THEOREM CandidateInvariant == Spec => []IInv
BY InvariantInit, InvariantStep, PTL DEF Spec

\* The variables of an assembly keep their types.
THEOREM CandidateTypeCorrect == Spec => []TypeOK
<1>1. IInv => TypeOK
  BY DEF IInv, Typed
<1> QED
  BY <1>1, CandidateInvariant, PTL

(* A set that Assemble reports was complete and right at one moment after  *)
(* the rename, although its files are read one after the other while       *)
(* others write them (verifyCandidate, regularSnapshot.unchanged).         *)
THEOREM VerifiedTogether == Spec => []VerifiedAtOneMoment
<1>1. IInv => VerifiedAtOneMoment
  BY DEF IInv, Witnessed, VerifiedAtOneMoment
<1> QED
  BY <1>1, CandidateInvariant, PTL

(* An Assemble that returns leaves no stage, unless its removal failed     *)
(* (the deferred RemoveAll of assembleCandidate).                          *)
THEOREM NoStageLeft == Spec => []StageIsTransient
<1>1. IInv => StageIsTransient
  BY DEF IInv, Position, StageIsTransient
<1> QED
  BY <1>1, CandidateInvariant, PTL

(* What stands under the output name is neither replaced nor removed by an *)
(* assembler (renameat2 with RENAME_NOREPLACE).                            *)
THEOREM OutputStays == Spec => OutputNeverReplaced
<1>1. ASSUME NEW a \in Asms, AsmStep(a), output # None
      PROVE  output' = output
  BY <1>1 DEF AsmStep, CheckInputs, MakeStage, WriteFile, Record, Open, Seal, Read, Check, Rename,
              Identity, SyncParent, Cleanup, names, local
<1>2. [Next]_vars => [(\E a \in Asms : AsmStep(a)) /\ output # None => output' = output]_vars
  BY <1>1
<1> QED
  BY <1>2, PTL DEF Spec, OutputNeverReplaced
=============================================================================
