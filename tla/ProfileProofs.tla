--------------------------- MODULE ProfileProofs ---------------------------
(***************************************************************************)
(* Proofs about ProfileStore for any number of processes, names, users,    *)
(* references and commands, and any number of faults and crashes.          *)
(***************************************************************************)
EXTENDS ProfileStore, FiniteSetTheorems, TLAPS

-----------------------------------------------------------------------------
(* Commands and the Configs made from them.                                *)

\* An addition names a profile, its user and its reference.
LEMMA AddCommand ==
  ASSUME NEW c \in Commands, c.kind = "add"
  PROVE  c.name \in Names /\ c.user \in Users /\ c.ref \in Refs \cup {None}
BY CommandsAssumption DEF AllCommands

\* A removal names a profile.
LEMMA RemoveCommand ==
  ASSUME NEW c \in Commands, c.kind = "remove"
  PROVE  c.name \in Names
BY CommandsAssumption DEF AllCommands

\* What an addition or a removal makes of a Config is a Config.
LEMMA UpdatedType ==
  ASSUME NEW c \in Configs, NEW command \in Commands, IsUpdate(command)
  PROVE  Updated(c, command) \in Configs
<1>1. CASE command.kind = "add"
  BY <1>1, AddCommand DEF Updated, Added, Configs, Profiles
<1>2. CASE command.kind = "remove"
  BY <1>2, RemoveCommand DEF Updated, Removed, Configs
<1> QED
  BY <1>1, <1>2 DEF IsUpdate

\* Each profile of an updated Config was there before, or is the one added.
LEMMA UpdatedProfiles ==
  ASSUME NEW c \in Configs, NEW command \in Commands, IsUpdate(command),
         NEW n \in Names, Exists(Updated(c, command), n)
  PROVE  \/ Exists(c, n) /\ Updated(c, command).profiles[n] = c.profiles[n]
         \/ /\ command.kind = "add" /\ n = command.name
            /\ Updated(c, command).profiles[n] = [user |-> command.user, ref |-> command.ref]
<1>1. CASE command.kind = "add"
  BY <1>1, AddCommand DEF Updated, Added, Configs, Exists
<1>2. CASE command.kind = "remove"
  BY <1>2, RemoveCommand DEF Updated, Removed, Configs, Exists
<1> QED
  BY <1>1, <1>2 DEF IsUpdate

\* The default of an updated Config exists: save never refuses an update.
LEMMA UpdatedValid ==
  ASSUME NEW c \in Configs, NEW command \in Commands, IsUpdate(command), Valid(c)
  PROVE  Valid(Updated(c, command))
<1>1. CASE command.kind = "add"
  <2>1. [user |-> command.user, ref |-> command.ref] # None
    BY <1>1, AddCommand, NoneAssumption DEF Profiles
  <2>2. command.name \in Names
    BY <1>1, AddCommand
  <2> QED
    BY <1>1, <2>1, <2>2 DEF Updated, Added, Configs, Exists, Valid
<1>2. CASE command.kind = "remove"
  BY <1>2, RemoveCommand DEF Updated, Removed, Configs, Exists, Valid
<1> QED
  BY <1>1, <1>2 DEF IsUpdate

\* A login resolves to a profile of the Config it has loaded.
LEMMA ResolveProfile ==
  ASSUME NEW c \in Configs, NEW name, NEW user, Resolve(c, name, user) # None
  PROVE  \E n \in Names : Exists(c, n) /\ Resolve(c, name, user) = c.profiles[n]
<1>1. CASE ProfileNamed(c, name) # None /\ user \in {None, ProfileNamed(c, name).user}
  BY <1>1 DEF Resolve, ProfileNamed, Exists
<1>2. CASE ~(ProfileNamed(c, name) # None /\ user \in {None, ProfileNamed(c, name).user})
  <2>1. Cardinality(Matches(c, user)) = 1
        /\ Resolve(c, name, user) = c.profiles[CHOOSE n \in Matches(c, user) : TRUE]
    BY <1>2 DEF Resolve
  <2>2. Matches(c, user) # {}
    BY <2>1, FS_EmptySet
  <2>3. (CHOOSE n \in Matches(c, user) : TRUE) \in Matches(c, user)
    BY <2>2
  <2> QED
    BY <2>1, <2>3 DEF Matches
<1> QED
  BY <1>1, <1>2

\* An existing profile has a user, and None is neither a profile nor a user.
LEMMA ExistingProfile ==
  ASSUME NEW c \in Configs, NEW n \in Names, Exists(c, n)
  PROVE  c.profiles[n] \in Profiles /\ c.profiles[n].user \in Users
BY DEF Exists, Configs, Profiles

-----------------------------------------------------------------------------
(* The inductive invariant.                                                *)

Adding    == {"prompt", "waiting", "fresh", "set", "verify", "compensate", "cleanup"}
KeySteps  == {"fresh", "set", "verify", "compensate", "cleanup"}
Publishing == {"preserve", "replace"}
Decided   == {"fresh", "set", "verify", "compensate"} \cup Publishing
Holding   == {"locked", "sync"} \cup Decided

(* Where a process is tells what its command is, whether it holds the lock *)
(* and whether it has reported.                                            *)
Position(p) ==
  /\ pc[p] \in Adding => IsAdd(p)
  /\ pc[p] \in KeySteps => cmd[p].ref # None
  /\ pc[p] \in Holding => IsUpdate(cmd[p]) /\ lock = p
  /\ lock = p => pc[p] \in Holding
  /\ pc[p] = "challenged" => cmd[p].kind = "login" /\ Target(p) # None
  /\ pc[p] = "done" <=> result[p] # "none"
  /\ stored[p] => IsAdd(p) /\ cmd[p].ref # None

Typed == TypeOK /\ \A p \in Procs : Position(p)

(* Between its second look and its rename the holder of the lock works on  *)
(* the Config that everybody sees.                                         *)
HolderIsCurrent ==
  \A p \in Procs : pc[p] \in Decided => loaded[p] = config /\ Admits(config, cmd[p])

(* A Config has taken effect at most once, just before its command reports *)
(* that, and a command that reports a failure has changed nothing.         *)
ReportsTruly ==
  \A p \in Procs :
    /\ applied[p] => IsUpdate(cmd[p]) /\ pc[p] \in {"sync", "done"}
    /\ pc[p] = "sync" => applied[p]

(* p has put the password of its user behind its reference, or may have,   *)
(* and no Config names that reference yet.                                 *)
Claims(p) ==
  /\ IsAdd(p) /\ cmd[p].ref # None
  /\ pc[p] \in {"verify", "compensate", "preserve", "replace", "cleanup"}

Behind(p) == keyring[cmd[p].ref]

(* What a Config that somebody can see or has loaded says of the keyring.  *)
Served(c) ==
  /\ Valid(c)
  /\ \A n \in Names :
       Exists(c, n) /\ c.profiles[n].ref # None =>
         keyring[c.profiles[n].ref] = c.profiles[n].user

Recorded == {config, lkg} \cup {loaded[p] : p \in Procs}

Uses(c, r) == \E n \in Names : Exists(c, n) /\ c.profiles[n].ref = r

ClaimsAreExclusive ==
  \A p \in Procs :
    /\ pc[p] = "set" => Behind(p) = None
    /\ Claims(p) => Behind(p) = cmd[p].user \/ (pc[p] = "compensate" /\ Behind(p) = None)
    /\ pc[p] \in Publishing /\ IsAdd(p) /\ cmd[p].ref # None => stored[p]
    /\ Claims(p) => \A c \in Recorded : ~Uses(c, cmd[p].ref)
    /\ Claims(p) => \A q \in Procs \ {p} : Claims(q) => cmd[q].ref # cmd[p].ref

RecordedAreServed == \A c \in Recorded : Served(c)

KeyInv == ClaimsAreExclusive /\ RecordedAreServed

(* What a login has read is the password of the profile it had resolved.   *)
ReadOwn ==
  \A p \in Procs :
    /\ result[p] # "no_password"
    /\ got[p] # None =>
         cmd[p].kind = "login" /\ result[p] = "ok" /\ got[p] = Target(p).user

IInv == Typed /\ HolderIsCurrent /\ ReportsTruly /\ KeyInv /\ ReadOwn /\ SecretsAccountedFor

-----------------------------------------------------------------------------
(* Types and positions.                                                    *)

\* What a login has resolved is a profile of the Config it has loaded.
LEMMA TargetProfile ==
  ASSUME TypeOK, NEW p \in Procs, Target(p) # None
  PROVE  /\ \E n \in Names : Exists(loaded[p], n) /\ Target(p) = loaded[p].profiles[n]
         /\ Target(p) \in Profiles
<1>1. loaded[p] \in Configs
  BY DEF TypeOK
<1>2. \E n \in Names : Exists(loaded[p], n) /\ Target(p) = loaded[p].profiles[n]
  BY <1>1, ResolveProfile DEF Target
<1> QED
  BY <1>1, <1>2, ExistingProfile

\* The initial states have the types.
LEMMA TypedInit == Init => Typed
BY NoneAssumption, BoundsAssumption
   DEF Init, Typed, TypeOK, Position, Adding, KeySteps, Holding, Decided, Publishing,
       IsAdd, IsUpdate, Target, Configs, EmptyConfig

\* Every step preserves the types.
LEMMA TypedStep == ASSUME Typed, [Next]_vars PROVE Typed'
<1>1. ASSUME NEW p \in Procs, LoadFirst(p) PROVE Typed'
  <2>1. cmd[p].kind \in {"add", "show", "query", "login"}
    BY <1>1, CommandsAssumption
       DEF LoadFirst, Typed, TypeOK, AllCommands
  <2> QED
    BY <1>1, <2>1, BoundsAssumption
       DEF LoadFirst, Goto, Report, Fail, Fine, Refuses, Typed, TypeOK, Position,
           Adding, KeySteps, Holding, Decided, Publishing, IsAdd, IsUpdate, Target,
           shared
<1>2. ASSUME NEW p \in Procs, PromptPassword(p) PROVE Typed'
  BY <1>2, NoneAssumption, BoundsAssumption
     DEF PromptPassword, Goto, Report, Typed, TypeOK, Position, Adding, KeySteps,
         Holding, Decided, Publishing, IsAdd, IsUpdate, Target, shared
<1>3. ASSUME NEW p \in Procs, Lock(p) PROVE Typed'
  BY <1>3, NoneAssumption, BoundsAssumption
     DEF Lock, Goto, Typed, TypeOK, Position, Adding, KeySteps, Holding, Decided,
         Publishing, IsAdd, IsUpdate, Target, shared
<1>4. ASSUME NEW p \in Procs, LoadLocked(p) PROVE Typed'
  BY <1>4, NoneAssumption, BoundsAssumption
     DEF LoadLocked, Goto, Report, Unlock, Fail, Fine, Typed, TypeOK, Position,
         Adding, KeySteps, Holding, Decided, Publishing, IsAdd, IsUpdate, Target,
         shared
<1>5. ASSUME NEW p \in Procs, CheckFresh(p) PROVE Typed'
  BY <1>5, NoneAssumption, BoundsAssumption
     DEF CheckFresh, Goto, Report, Unlock, Fail, Fine, Typed, TypeOK, Position,
         Adding, KeySteps, Holding, Decided, Publishing, IsAdd, IsUpdate, Target,
         shared
<1>6. ASSUME NEW p \in Procs, SetKey(p) PROVE Typed'
  <2>1. cmd[p].user \in Users
    BY <1>6, AddCommand
       DEF SetKey, Typed, TypeOK, Position, Adding, IsAdd
  <2> QED
    BY <1>6, <2>1, BoundsAssumption
       DEF SetKey, Goto, Fail, Fine, Typed, TypeOK, Position, Adding, KeySteps,
           Holding, Decided, Publishing, IsAdd, IsUpdate, Target, shared
<1>7. ASSUME NEW p \in Procs, VerifyKey(p) PROVE Typed'
  <2>1. stored' \in [Procs -> BOOLEAN]
    BY <1>7, Zenon
       DEF VerifyKey, Typed, TypeOK
  <2>2. TypeOK'
    BY <1>7, <2>1, BoundsAssumption
       DEF VerifyKey, Goto, Fail, Fine, Typed, TypeOK, shared
  <2>3. ASSUME NEW q \in Procs PROVE Position(q)'
    BY <1>7
       DEF VerifyKey, Goto, Typed, TypeOK, Position, Adding, KeySteps, Holding,
           Decided, Publishing, IsAdd, IsUpdate, Target, shared
  <2> QED
    BY <2>2, <2>3
       DEF Typed
<1>8. ASSUME NEW p \in Procs, Compensate(p) PROVE Typed'
  BY <1>8, NoneAssumption, BoundsAssumption
     DEF Compensate, Goto, Report, Unlock, Fail, Fine, Typed, TypeOK, Position,
         Adding, KeySteps, Holding, Decided, Publishing, IsAdd, IsUpdate, Target,
         shared
<1>9. ASSUME NEW p \in Procs, PreserveOld(p) PROVE Typed'
  BY <1>9, NoneAssumption, BoundsAssumption
     DEF PreserveOld, Abandon, Goto, Report, Unlock, Fail, Fine, Typed, TypeOK,
         Position, Adding, KeySteps, Holding, Decided, Publishing, IsAdd, IsUpdate,
         Target, shared
<1>10. ASSUME NEW p \in Procs, Replace(p) PROVE Typed'
  <2>1. Updated(loaded[p], cmd[p]) \in Configs
    BY <1>10, UpdatedType
       DEF Replace, Typed, TypeOK, Position, Holding, Decided, Publishing
  <2>2. applied' \in [Procs -> BOOLEAN]
    BY <1>10, Zenon
       DEF Replace, Typed, TypeOK
  <2>3. TypeOK'
    BY <1>10, <2>1, <2>2, BoundsAssumption
       DEF Replace, Abandon, Goto, Report, Unlock, Fail, Fine, Typed, TypeOK, shared
  <2>4. ASSUME NEW q \in Procs PROVE Position(q)'
    BY <1>10, NoneAssumption
       DEF Replace, Abandon, Goto, Report, Unlock, Typed, TypeOK, Position, Adding,
           KeySteps, Holding, Decided, Publishing, IsAdd, Target
  <2> QED
    BY <2>3, <2>4
       DEF Typed
<1>11. ASSUME NEW p \in Procs, SyncDirectory(p) PROVE Typed'
  BY <1>11, NoneAssumption, BoundsAssumption
     DEF SyncDirectory, Goto, Report, Unlock, Fail, Fine, Typed, TypeOK, Position,
         Adding, KeySteps, Holding, Decided, Publishing, IsAdd, IsUpdate, Target,
         shared
<1>12. ASSUME NEW p \in Procs, Cleanup(p) PROVE Typed'
  BY <1>12, NoneAssumption, BoundsAssumption
     DEF Cleanup, Goto, Report, Fail, Fine, Typed, TypeOK, Position, Adding, KeySteps,
         Holding, Decided, Publishing, IsAdd, IsUpdate, Target, shared
<1>13. ASSUME NEW p \in Procs, ReadPassword(p) PROVE Typed'
  <2>1. Target(p).user \in Users /\ Target(p).ref \in Refs \cup {None}
    BY <1>13, TargetProfile
       DEF ReadPassword, Typed, TypeOK, Position, Profiles
  <2>2. Target(p).ref # None => keyring[Target(p).ref] \in Users \cup {None}
    BY <2>1
       DEF Typed, TypeOK
  <2>3. TypeOK'
    BY <1>13, <2>1, <2>2, BoundsAssumption
       DEF ReadPassword, Goto, Report, Fail, Fine, Typed, TypeOK, shared
  <2>4. ASSUME NEW q \in Procs PROVE Position(q)'
    BY <1>13
       DEF ReadPassword, Goto, Report, Typed, TypeOK, Position, Adding, KeySteps,
           Holding, Decided, Publishing, IsAdd, Target, shared
  <2> QED
    BY <2>3, <2>4
       DEF Typed
<1>14. ASSUME NEW p \in Procs, NoChallenge(p) PROVE Typed'
  BY <1>14, NoneAssumption, BoundsAssumption
     DEF NoChallenge, Goto, Report, Typed, TypeOK, Position, Adding, KeySteps,
         Holding, Decided, Publishing, IsAdd, IsUpdate, Target, shared
<1>15. ASSUME NEW p \in Procs, Crash(p) PROVE Typed'
  BY <1>15, NoneAssumption, BoundsAssumption
     DEF Crash, Goto, Report, Typed, TypeOK, Position, Adding, KeySteps, Holding,
         Decided, Publishing, IsAdd, IsUpdate, Target, shared
<1>16. ASSUME UNCHANGED vars PROVE Typed'
  BY <1>16
     DEF vars, shared, local, Typed, TypeOK, Position, Adding, KeySteps, Holding,
         Decided, Publishing, IsAdd, IsUpdate, Target
<1> QED
  BY <1>1, <1>2, <1>3, <1>4, <1>5, <1>6, <1>7, <1>8, <1>9, <1>10, <1>11, <1>12, <1>13, <1>14, <1>15, <1>16
     DEF Next, ProcStep, Ended

-----------------------------------------------------------------------------
(* The holder of the lock.                                                 *)

\* Nobody has loaded a Config at first.
LEMMA HolderInit == Init => HolderIsCurrent
BY DEF Init, HolderIsCurrent, Decided, Publishing

\* Only the holder of the lock replaces the Config, and it has loaded it.
LEMMA HolderStep == ASSUME Typed, HolderIsCurrent, [Next]_vars PROVE HolderIsCurrent'
<1>1. ASSUME NEW p \in Procs, LoadFirst(p) PROVE HolderIsCurrent'
  BY <1>1
     DEF LoadFirst, Goto, Report, Fail, Fine, HolderIsCurrent, Typed, TypeOK,
         Position, Holding, Decided, Publishing, shared, Adding
<1>2. ASSUME NEW p \in Procs, PromptPassword(p) PROVE HolderIsCurrent'
  BY <1>2
     DEF PromptPassword, Goto, Report, HolderIsCurrent, Typed, TypeOK, Position,
         Holding, Decided, Publishing, shared
<1>3. ASSUME NEW p \in Procs, Lock(p) PROVE HolderIsCurrent'
  BY <1>3
     DEF Lock, Goto, HolderIsCurrent, Typed, TypeOK, Position, Holding, Decided,
         Publishing, shared
<1>4. ASSUME NEW p \in Procs, LoadLocked(p) PROVE HolderIsCurrent'
  BY <1>4
     DEF LoadLocked, Goto, Report, Unlock, Fail, Fine, HolderIsCurrent, Typed, TypeOK,
         Position, Holding, Decided, Publishing, shared
<1>5. ASSUME NEW p \in Procs, CheckFresh(p) PROVE HolderIsCurrent'
  BY <1>5
     DEF CheckFresh, Goto, Report, Unlock, Fail, Fine, HolderIsCurrent, Typed, TypeOK,
         Position, Holding, Decided, Publishing, shared
<1>6. ASSUME NEW p \in Procs, SetKey(p) PROVE HolderIsCurrent'
  BY <1>6
     DEF SetKey, Goto, Fail, Fine, HolderIsCurrent, Typed, TypeOK, Position, Holding,
         Decided, Publishing, shared
<1>7. ASSUME NEW p \in Procs, VerifyKey(p) PROVE HolderIsCurrent'
  BY <1>7
     DEF VerifyKey, Goto, Fail, Fine, HolderIsCurrent, Typed, TypeOK, Position,
         Holding, Decided, Publishing, shared
<1>8. ASSUME NEW p \in Procs, Compensate(p) PROVE HolderIsCurrent'
  BY <1>8
     DEF Compensate, Goto, Report, Unlock, Fail, Fine, HolderIsCurrent, Typed, TypeOK,
         Position, Holding, Decided, Publishing, shared
<1>9. ASSUME NEW p \in Procs, PreserveOld(p) PROVE HolderIsCurrent'
  BY <1>9
     DEF PreserveOld, Abandon, Goto, Report, Unlock, Fail, Fine, HolderIsCurrent,
         Typed, TypeOK, Position, Holding, Decided, Publishing, shared
<1>10. ASSUME NEW p \in Procs, Replace(p) PROVE HolderIsCurrent'
  BY <1>10
     DEF Replace, Abandon, Goto, Report, Unlock, Fail, Fine, HolderIsCurrent, Typed,
         TypeOK, Position, Holding, Decided, Publishing, shared
<1>11. ASSUME NEW p \in Procs, SyncDirectory(p) PROVE HolderIsCurrent'
  BY <1>11
     DEF SyncDirectory, Goto, Report, Unlock, Fail, Fine, HolderIsCurrent, Typed,
         TypeOK, Position, Holding, Decided, Publishing, shared
<1>12. ASSUME NEW p \in Procs, Cleanup(p) PROVE HolderIsCurrent'
  BY <1>12
     DEF Cleanup, Goto, Report, Fail, Fine, HolderIsCurrent, Typed, TypeOK, Position,
         Holding, Decided, Publishing, shared
<1>13. ASSUME NEW p \in Procs, ReadPassword(p) PROVE HolderIsCurrent'
  BY <1>13
     DEF ReadPassword, Goto, Report, Fail, Fine, HolderIsCurrent, Typed, TypeOK,
         Position, Holding, Decided, Publishing, shared
<1>14. ASSUME NEW p \in Procs, NoChallenge(p) PROVE HolderIsCurrent'
  BY <1>14
     DEF NoChallenge, Goto, Report, HolderIsCurrent, Typed, TypeOK, Position, Holding,
         Decided, Publishing, shared
<1>15. ASSUME NEW p \in Procs, Crash(p) PROVE HolderIsCurrent'
  BY <1>15
     DEF Crash, Goto, Report, HolderIsCurrent, Typed, TypeOK, Position, Holding,
         Decided, Publishing, shared
<1>16. ASSUME UNCHANGED vars PROVE HolderIsCurrent'
  BY <1>16
     DEF vars, shared, local, HolderIsCurrent, Typed, TypeOK, Position, Holding,
         Decided, Publishing
<1> QED
  BY <1>1, <1>2, <1>3, <1>4, <1>5, <1>6, <1>7, <1>8, <1>9, <1>10, <1>11, <1>12, <1>13, <1>14, <1>15, <1>16
     DEF Next, ProcStep, Ended


\* Nothing is reported at first.
LEMMA ReportsInit == Init => ReportsTruly
BY DEF Init, ReportsTruly

\* A command is applied by its rename, and reported in the next step.
LEMMA ReportsStep == ASSUME Typed, ReportsTruly, [Next]_vars PROVE ReportsTruly'
<1>1. ASSUME NEW p \in Procs, LoadFirst(p) PROVE ReportsTruly'
  BY <1>1
     DEF LoadFirst, Goto, Report, Fail, Fine, ReportsTruly, Typed, TypeOK, Position,
         Holding, Decided, Publishing, shared
<1>2. ASSUME NEW p \in Procs, PromptPassword(p) PROVE ReportsTruly'
  BY <1>2
     DEF PromptPassword, Goto, Report, ReportsTruly, Typed, TypeOK, Position, Holding,
         Decided, Publishing, shared
<1>3. ASSUME NEW p \in Procs, Lock(p) PROVE ReportsTruly'
  BY <1>3
     DEF Lock, Goto, ReportsTruly, Typed, TypeOK, Position, Holding, Decided,
         Publishing, shared
<1>4. ASSUME NEW p \in Procs, LoadLocked(p) PROVE ReportsTruly'
  BY <1>4
     DEF LoadLocked, Goto, Report, Unlock, Fail, Fine, ReportsTruly, Typed, TypeOK,
         Position, Holding, Decided, Publishing, shared
<1>5. ASSUME NEW p \in Procs, CheckFresh(p) PROVE ReportsTruly'
  BY <1>5
     DEF CheckFresh, Goto, Report, Unlock, Fail, Fine, ReportsTruly, Typed, TypeOK,
         Position, Holding, Decided, Publishing, shared
<1>6. ASSUME NEW p \in Procs, SetKey(p) PROVE ReportsTruly'
  BY <1>6
     DEF SetKey, Goto, Fail, Fine, ReportsTruly, Typed, TypeOK, Position, Holding,
         Decided, Publishing, shared
<1>7. ASSUME NEW p \in Procs, VerifyKey(p) PROVE ReportsTruly'
  BY <1>7
     DEF VerifyKey, Goto, Fail, Fine, ReportsTruly, Typed, TypeOK, Position, Holding,
         Decided, Publishing, shared
<1>8. ASSUME NEW p \in Procs, Compensate(p) PROVE ReportsTruly'
  BY <1>8
     DEF Compensate, Goto, Report, Unlock, Fail, Fine, ReportsTruly, Typed, TypeOK,
         Position, Holding, Decided, Publishing, shared
<1>9. ASSUME NEW p \in Procs, PreserveOld(p) PROVE ReportsTruly'
  BY <1>9
     DEF PreserveOld, Abandon, Goto, Report, Unlock, Fail, Fine, ReportsTruly, Typed,
         TypeOK, Position, Holding, Decided, Publishing, shared
<1>10. ASSUME NEW p \in Procs, Replace(p) PROVE ReportsTruly'
  BY <1>10
     DEF Replace, Abandon, Goto, Report, Unlock, Fail, Fine, ReportsTruly, Typed,
         TypeOK, Position, Holding, Decided, Publishing, shared
<1>11. ASSUME NEW p \in Procs, SyncDirectory(p) PROVE ReportsTruly'
  BY <1>11
     DEF SyncDirectory, Goto, Report, Unlock, Fail, Fine, ReportsTruly, Typed, TypeOK,
         Position, Holding, Decided, Publishing, shared
<1>12. ASSUME NEW p \in Procs, Cleanup(p) PROVE ReportsTruly'
  BY <1>12
     DEF Cleanup, Goto, Report, Fail, Fine, ReportsTruly, Typed, TypeOK, Position,
         Holding, Decided, Publishing, shared
<1>13. ASSUME NEW p \in Procs, ReadPassword(p) PROVE ReportsTruly'
  BY <1>13
     DEF ReadPassword, Goto, Report, Fail, Fine, ReportsTruly, Typed, TypeOK,
         Position, Holding, Decided, Publishing, shared
<1>14. ASSUME NEW p \in Procs, NoChallenge(p) PROVE ReportsTruly'
  BY <1>14
     DEF NoChallenge, Goto, Report, ReportsTruly, Typed, TypeOK, Position, Holding,
         Decided, Publishing, shared
<1>15. ASSUME NEW p \in Procs, Crash(p) PROVE ReportsTruly'
  BY <1>15
     DEF Crash, Goto, Report, ReportsTruly, Typed, TypeOK, Position, Holding, Decided,
         Publishing, shared
<1>16. ASSUME UNCHANGED vars PROVE ReportsTruly'
  BY <1>16
     DEF vars, shared, local, ReportsTruly, Typed, TypeOK, Position, Holding, Decided,
         Publishing
<1> QED
  BY <1>1, <1>2, <1>3, <1>4, <1>5, <1>6, <1>7, <1>8, <1>9, <1>10, <1>11, <1>12, <1>13, <1>14, <1>15, <1>16
     DEF Next, ProcStep, Ended

-----------------------------------------------------------------------------
(* References and what is behind them.                                     *)

\* A Config some process or file holds is a Config.
LEMMA RecordedType == ASSUME TypeOK, NEW c \in Recorded PROVE c \in Configs
BY DEF TypeOK, Recorded

\* Every step but the rename only passes on Configs there were.
LEMMA RecordedKept ==
  ASSUME Typed, NEW p \in Procs, ProcStep(p) \/ Crash(p), pc[p] # "replace"
  PROVE  Recorded' \subseteq Recorded
<1>1. CASE LoadFirst(p)
  BY <1>1
     DEF LoadFirst, Typed, TypeOK, Recorded, shared
<1>2. CASE PromptPassword(p)
  BY <1>2
     DEF PromptPassword, Typed, TypeOK, Recorded, shared
<1>3. CASE Lock(p)
  BY <1>3
     DEF Lock, Typed, TypeOK, Recorded, shared
<1>4. CASE LoadLocked(p)
  BY <1>4
     DEF LoadLocked, Typed, TypeOK, Recorded, shared
<1>5. CASE CheckFresh(p)
  BY <1>5
     DEF CheckFresh, Typed, TypeOK, Recorded, shared
<1>6. CASE SetKey(p)
  BY <1>6
     DEF SetKey, Typed, TypeOK, Recorded, shared
<1>7. CASE VerifyKey(p)
  BY <1>7
     DEF VerifyKey, Typed, TypeOK, Recorded, shared
<1>8. CASE Compensate(p)
  BY <1>8
     DEF Compensate, Typed, TypeOK, Recorded, shared
<1>9. CASE PreserveOld(p)
  BY <1>9
     DEF PreserveOld, Typed, TypeOK, Recorded, shared
<1>10. CASE SyncDirectory(p)
  BY <1>10
     DEF SyncDirectory, Typed, TypeOK, Recorded, shared
<1>11. CASE Cleanup(p)
  BY <1>11
     DEF Cleanup, Typed, TypeOK, Recorded, shared
<1>12. CASE ReadPassword(p)
  BY <1>12
     DEF ReadPassword, Typed, TypeOK, Recorded, shared
<1>13. CASE NoChallenge(p)
  BY <1>13
     DEF NoChallenge, Typed, TypeOK, Recorded, shared
<1>14. CASE Crash(p)
  BY <1>14
     DEF Crash, Typed, TypeOK, Recorded, shared
<1> QED
  BY <1>1, <1>2, <1>3, <1>4, <1>5, <1>6, <1>7, <1>8, <1>9, <1>10, <1>11, <1>12, <1>13, <1>14
     DEF ProcStep, Replace

\* The rename makes a new one, from the Config that everybody sees.
LEMMA RecordedReplaced ==
  ASSUME Typed, HolderIsCurrent, NEW p \in Procs, Replace(p)
  PROVE  Recorded' \subseteq Recorded \cup {Updated(config, cmd[p])}
BY DEF Replace, HolderIsCurrent, Decided, Publishing, Typed, TypeOK, Recorded

\* A password comes to a reference with nothing behind it, and goes only from
\* the reference of an addition that has failed.
KeyChange(p, r) ==
  /\ cmd[p].ref = r
  /\ \/ pc[p] = "set" /\ keyring[r] = None /\ keyring'[r] = cmd[p].user
     \/ Claims(p) /\ keyring'[r] = None /\ pc'[p] = "done"

\* A keyring entry changes only through SetKey and DeleteKey of its process.
LEMMA KeyringStep ==
  ASSUME Typed, ClaimsAreExclusive, [Next]_vars
  PROVE  \A r \in Refs : keyring'[r] = keyring[r] \/ \E p \in Procs : KeyChange(p, r)
<1>1. ASSUME NEW p \in Procs, SetKey(p)
      PROVE  \A r \in Refs : keyring'[r] = keyring[r] \/ KeyChange(p, r)
  BY <1>1 DEF SetKey, Typed, TypeOK, ClaimsAreExclusive, Behind, KeyChange
<1>2. ASSUME NEW p \in Procs, Compensate(p) \/ Cleanup(p)
      PROVE  \A r \in Refs : keyring'[r] = keyring[r] \/ KeyChange(p, r)
  BY <1>2
     DEF Compensate, Cleanup, Report, Goto, Typed, TypeOK, Position, Adding, KeySteps,
         Claims, KeyChange
<1>3. ASSUME keyring' = keyring
      PROVE  \A r \in Refs : keyring'[r] = keyring[r]
  BY <1>3
<1>4. ASSUME NEW p \in Procs, ProcStep(p) \/ Crash(p)
      PROVE  SetKey(p) \/ Compensate(p) \/ Cleanup(p) \/ keyring' = keyring
  BY <1>4
     DEF ProcStep, LoadFirst, PromptPassword, Lock, LoadLocked, CheckFresh, VerifyKey,
         PreserveOld, Replace, SyncDirectory, ReadPassword, NoChallenge, Crash, shared
<1> QED
  BY <1>1, <1>2, <1>3, <1>4 DEF Next, Ended, vars, shared

\* No step takes away the password of a profile that somebody can see.
LEMMA ServedStep ==
  ASSUME Typed, KeyInv, [Next]_vars, NEW c \in Recorded
  PROVE  Served(c)'
<1>1. Served(c) /\ c \in Configs
  BY RecordedType DEF KeyInv, RecordedAreServed, Typed
<1>2. ASSUME NEW n \in Names, Exists(c, n), c.profiles[n].ref # None
      PROVE  keyring'[c.profiles[n].ref] = c.profiles[n].user
  <2> DEFINE r == c.profiles[n].ref
  <2>1. r \in Refs /\ c.profiles[n].user \in Users
    BY <1>1, <1>2, ExistingProfile DEF Profiles
  <2>2. keyring[r] = c.profiles[n].user
    BY <1>1, <1>2 DEF Served
  <2>3. Uses(c, r)
    BY <1>2 DEF Uses
  <2>4. ASSUME NEW p \in Procs PROVE ~KeyChange(p, r)
    BY <2>1, <2>2, <2>3, NoneAssumption
       DEF KeyChange, KeyInv, ClaimsAreExclusive
  <2> QED
    BY <2>1, <2>2, <2>4, KeyringStep DEF KeyInv
<1> QED
  BY <1>1, <1>2 DEF Served

\* Every step preserves that the keyring serves the recorded references.
LEMMA RecordedServedStep ==
  ASSUME Typed, HolderIsCurrent, KeyInv, [Next]_vars
  PROVE  RecordedAreServed'
<1>1. ASSUME NEW p \in Procs, Replace(p), NEW c, c = Updated(config, cmd[p])
      PROVE  Served(c)'
  <2>1. config \in Configs /\ Served(config) /\ cmd[p] \in Commands /\ IsUpdate(cmd[p])
    BY <1>1
       DEF Replace, KeyInv, RecordedAreServed, Recorded, Typed, TypeOK, Position, Holding,
           Decided, Publishing
  <2>2. Valid(c)
    BY <1>1, <2>1, UpdatedValid DEF Served
  <2>3. ASSUME NEW n \in Names, Exists(c, n), c.profiles[n].ref # None
        PROVE  keyring[c.profiles[n].ref] = c.profiles[n].user
    <3>1. CASE Exists(config, n) /\ c.profiles[n] = config.profiles[n]
      BY <2>1, <2>3, <3>1 DEF Served
    <3>2. CASE /\ cmd[p].kind = "add"
               /\ c.profiles[n] = [user |-> cmd[p].user, ref |-> cmd[p].ref]
      BY <1>1, <2>3, <3>2
         DEF Replace, KeyInv, ClaimsAreExclusive, Claims, Behind, IsAdd
    <3> QED
      BY <1>1, <2>1, <2>3, <3>1, <3>2, UpdatedProfiles
  <2> QED
    BY <1>1, <2>2, <2>3 DEF Served, Replace
<1>2. ASSUME NEW p \in Procs, ProcStep(p) \/ Crash(p) PROVE RecordedAreServed'
  <2>1. CASE pc[p] # "replace"
    BY <1>2, <2>1, RecordedKept, ServedStep DEF RecordedAreServed, Next
  <2>2. CASE Replace(p)
    BY <1>1, <1>2, <2>2, RecordedReplaced, ServedStep DEF RecordedAreServed, Next
  <2>3. CASE Crash(p)
    BY <1>2, <2>3, ServedStep
       DEF Crash, Recorded, RecordedAreServed, Next
  <2> QED
    BY <1>2, <2>1, <2>2, <2>3
       DEF ProcStep, LoadFirst, PromptPassword, Lock, LoadLocked, CheckFresh, SetKey,
           VerifyKey, Compensate, PreserveOld, SyncDirectory, Cleanup, ReadPassword,
           NoChallenge
<1>3. ASSUME UNCHANGED vars PROVE RecordedAreServed'
  BY <1>3 DEF vars, shared, local, KeyInv, RecordedAreServed, Recorded, Served
<1> QED
  BY <1>2, <1>3 DEF Next, Ended

\* Nobody else has a claim to the reference an addition has found fresh.
LEMMA FreshUnclaimed ==
  ASSUME Typed, ClaimsAreExclusive, NEW p \in Procs, NEW q \in Procs \ {p},
         pc[p] = "set", Claims(q)
  PROVE  cmd[q].ref # cmd[p].ref
<1>1. Behind(p) = None /\ lock = p
  BY DEF ClaimsAreExclusive, Typed, Position, Holding, Decided
<1>2. pc[q] # "compensate"
  BY <1>1 DEF Typed, Position, Holding, Decided
<1>3. Behind(q) = cmd[q].user /\ cmd[q].user \in Users
  BY <1>2, AddCommand DEF ClaimsAreExclusive, Claims, IsAdd, Typed, TypeOK
<1> QED
  BY <1>1, <1>3, NoneAssumption DEF Behind

\* No step of one process disturbs what another has put behind its reference.
LEMMA OthersKept ==
  ASSUME Typed, ClaimsAreExclusive, NEW p \in Procs, ProcStep(p) \/ Crash(p),
         NEW q \in Procs \ {p}
  PROVE  /\ cmd' = cmd /\ pc'[q] = pc[q] /\ stored'[q] = stored[q]
         /\ pc[q] = "set" => Behind(q)' = None
         /\ Claims(q) => Behind(q)' = Behind(q)
<1>1. CASE LoadFirst(p)
  BY <1>1
     DEF LoadFirst, Goto, Report, Typed, TypeOK, Behind, ClaimsAreExclusive, shared
<1>2. CASE PromptPassword(p)
  BY <1>2
     DEF PromptPassword, Goto, Report, Typed, TypeOK, Behind, ClaimsAreExclusive,
         shared
<1>3. CASE Lock(p)
  BY <1>3
     DEF Lock, Goto, Typed, TypeOK, Behind, ClaimsAreExclusive, shared
<1>4. CASE LoadLocked(p)
  BY <1>4
     DEF LoadLocked, Goto, Report, Typed, TypeOK, Behind, ClaimsAreExclusive, shared
<1>5. CASE CheckFresh(p)
  BY <1>5
     DEF CheckFresh, Goto, Report, Typed, TypeOK, Behind, ClaimsAreExclusive, shared
<1>6. CASE SetKey(p)
  <2>1. pc[q] # "set" /\ (Claims(q) => cmd[q].ref # cmd[p].ref)
    BY <1>6, FreshUnclaimed
       DEF SetKey, Typed, Position, Holding, Decided
  <2>2. Claims(q) => cmd[q].ref \in Refs
    BY AddCommand DEF Claims, IsAdd, Typed, TypeOK
  <2>3. Claims(q) => Behind(q)' = Behind(q)
    BY <1>6, <2>1, <2>2 DEF SetKey, Typed, TypeOK, Behind
  <2> QED
    BY <1>6, <2>1, <2>3 DEF SetKey, Goto, Typed, TypeOK
<1>7. CASE VerifyKey(p)
  BY <1>7
     DEF VerifyKey, Goto, Typed, TypeOK, Behind, ClaimsAreExclusive, shared
<1>8. CASE Compensate(p)
  <2>1. Claims(p)
    BY <1>8 DEF Compensate, Claims, Typed, Position, Adding, KeySteps
  <2>2. Claims(q) => cmd[q].ref # cmd[p].ref
    BY <2>1 DEF ClaimsAreExclusive
  <2>3. Claims(q) => cmd[q].ref \in Refs
    BY AddCommand DEF Claims, IsAdd, Typed, TypeOK
  <2>4. pc[q] = "set" => keyring[cmd[q].ref] = None /\ cmd[q].ref \in Refs
    BY AddCommand
       DEF ClaimsAreExclusive, Behind, Typed, TypeOK, Position, Adding, KeySteps, IsAdd
  <2>5. keyring' \in {keyring, [keyring EXCEPT ![cmd[p].ref] = None]} /\ cmd' = cmd
    BY <1>8 DEF Compensate
  <2>6. /\ pc[q] = "set" => Behind(q)' = None
        /\ Claims(q) => Behind(q)' = Behind(q)
    BY <2>2, <2>3, <2>4, <2>5 DEF Typed, TypeOK, Behind
  <2> QED
    BY <1>8, <2>6 DEF Compensate, Report, Goto, Typed, TypeOK
<1>9. CASE PreserveOld(p)
  BY <1>9
     DEF PreserveOld, Abandon, Goto, Report, Typed, TypeOK, Behind,
         ClaimsAreExclusive, shared
<1>10. CASE Replace(p)
  BY <1>10
     DEF Replace, Abandon, Goto, Report, Typed, TypeOK, Behind, ClaimsAreExclusive,
         shared
<1>11. CASE SyncDirectory(p)
  BY <1>11
     DEF SyncDirectory, Goto, Report, Typed, TypeOK, Behind, ClaimsAreExclusive,
         shared
<1>12. CASE Cleanup(p)
  <2>1. Claims(p)
    BY <1>12 DEF Cleanup, Claims, Typed, Position, Adding, KeySteps
  <2>2. Claims(q) => cmd[q].ref # cmd[p].ref
    BY <2>1 DEF ClaimsAreExclusive
  <2>3. Claims(q) => cmd[q].ref \in Refs
    BY AddCommand DEF Claims, IsAdd, Typed, TypeOK
  <2>4. pc[q] = "set" => keyring[cmd[q].ref] = None /\ cmd[q].ref \in Refs
    BY AddCommand
       DEF ClaimsAreExclusive, Behind, Typed, TypeOK, Position, Adding, KeySteps, IsAdd
  <2>5. keyring' \in {keyring, [keyring EXCEPT ![cmd[p].ref] = None]} /\ cmd' = cmd
    BY <1>12 DEF Cleanup
  <2>6. /\ pc[q] = "set" => Behind(q)' = None
        /\ Claims(q) => Behind(q)' = Behind(q)
    BY <2>2, <2>3, <2>4, <2>5 DEF Typed, TypeOK, Behind
  <2> QED
    BY <1>12, <2>6 DEF Cleanup, Report, Goto, Typed, TypeOK
<1>13. CASE ReadPassword(p)
  BY <1>13
     DEF ReadPassword, Goto, Report, Typed, TypeOK, Behind, ClaimsAreExclusive, shared
<1>14. CASE NoChallenge(p)
  BY <1>14
     DEF NoChallenge, Goto, Report, Typed, TypeOK, Behind, ClaimsAreExclusive, shared
<1>15. CASE Crash(p)
  BY <1>15
     DEF Crash, Goto, Report, Typed, TypeOK, Behind, ClaimsAreExclusive, shared
<1> QED
  BY <1>1, <1>2, <1>3, <1>4, <1>5, <1>6, <1>7, <1>8, <1>9, <1>10, <1>11, <1>12, <1>13, <1>14, <1>15
     DEF ProcStep

\* The same of its own entry: what a process has stored it knows of until the
\* Config is published or the entry deleted.
LEMMA OwnKept ==
  ASSUME Typed, ClaimsAreExclusive, NEW p \in Procs, ProcStep(p) \/ Crash(p)
  PROVE  /\ pc'[p] = "set" => Behind(p)' = None
         /\ Claims(p)' =>
              /\ Behind(p)' = cmd[p].user \/ (pc'[p] = "compensate" /\ Behind(p)' = None)
              /\ Claims(p) \/ pc[p] = "set"
              /\ pc'[p] # "sync"
         /\ pc'[p] \in Publishing /\ IsAdd(p) /\ cmd[p].ref # None => stored'[p]
<1>1. CASE LoadFirst(p)
  BY <1>1
     DEF LoadFirst, Goto, Report, Typed, TypeOK, Behind, ClaimsAreExclusive, shared,
         Claims, IsAdd, Publishing, Position, KeySteps, Adding
<1>2. CASE PromptPassword(p)
  BY <1>2
     DEF PromptPassword, Goto, Report, Typed, TypeOK, Behind, ClaimsAreExclusive,
         shared, Claims, IsAdd, Publishing, Position, KeySteps, Adding
<1>3. CASE Lock(p)
  BY <1>3
     DEF Lock, Goto, Typed, TypeOK, Behind, ClaimsAreExclusive, shared, Claims, IsAdd,
         Publishing, Position, KeySteps, Adding
<1>4. CASE LoadLocked(p)
  BY <1>4
     DEF LoadLocked, Goto, Report, Typed, TypeOK, Behind, ClaimsAreExclusive, shared,
         Claims, IsAdd, Publishing, Position, KeySteps, Adding
<1>5. CASE CheckFresh(p)
  BY <1>5
     DEF CheckFresh, Goto, Report, Typed, TypeOK, Behind, ClaimsAreExclusive, shared,
         Claims, IsAdd, Publishing, Position, KeySteps, Adding
<1>6. CASE SetKey(p)
  <2>1. IsAdd(p) /\ cmd[p].ref \in Refs
    BY <1>6, AddCommand DEF SetKey, Typed, TypeOK, Position, Adding, KeySteps, IsAdd
  <2>2. /\ cmd' = cmd /\ pc'[p] \in {"verify", "compensate"}
        /\ keyring' \in {keyring, [keyring EXCEPT ![cmd[p].ref] = cmd[p].user]}
        /\ pc'[p] = "verify" => keyring' = [keyring EXCEPT ![cmd[p].ref] = cmd[p].user]
    BY <1>6 DEF SetKey, Goto, Typed, TypeOK
  <2>3. keyring[cmd[p].ref] = None
    BY <1>6 DEF SetKey, ClaimsAreExclusive, Behind
  <2>4. Behind(p)' = cmd[p].user \/ (pc'[p] = "compensate" /\ Behind(p)' = None)
    BY <2>1, <2>2, <2>3 DEF Behind, Typed, TypeOK
  <2> QED
    BY <1>6, <2>2, <2>4 DEF SetKey, Publishing
<1>7. CASE VerifyKey(p)
  BY <1>7
     DEF VerifyKey, Goto, Typed, TypeOK, Behind, ClaimsAreExclusive, shared, Claims,
         IsAdd, Publishing, Position, KeySteps, Adding
<1>8. CASE Compensate(p)
  BY <1>8
     DEF Compensate, Goto, Report, Typed, TypeOK, Behind, ClaimsAreExclusive, shared,
         Claims, IsAdd, Publishing, Position, KeySteps, Adding
<1>9. CASE PreserveOld(p)
  BY <1>9
     DEF PreserveOld, Abandon, Goto, Report, Typed, TypeOK, Behind,
         ClaimsAreExclusive, shared, Claims, IsAdd, Publishing, Position, KeySteps,
         Adding
<1>10. CASE Replace(p)
  BY <1>10
     DEF Replace, Abandon, Goto, Report, Typed, TypeOK, Behind, ClaimsAreExclusive,
         shared, Claims, IsAdd, Publishing, Position, KeySteps, Adding
<1>11. CASE SyncDirectory(p)
  BY <1>11
     DEF SyncDirectory, Goto, Report, Typed, TypeOK, Behind, ClaimsAreExclusive,
         shared, Claims, IsAdd, Publishing, Position, KeySteps, Adding
<1>12. CASE Cleanup(p)
  BY <1>12
     DEF Cleanup, Goto, Report, Typed, TypeOK, Behind, ClaimsAreExclusive, shared,
         Claims, IsAdd, Publishing, Position, KeySteps, Adding
<1>13. CASE ReadPassword(p)
  BY <1>13
     DEF ReadPassword, Goto, Report, Typed, TypeOK, Behind, ClaimsAreExclusive,
         shared, Claims, IsAdd, Publishing, Position, KeySteps, Adding
<1>14. CASE NoChallenge(p)
  BY <1>14
     DEF NoChallenge, Goto, Report, Typed, TypeOK, Behind, ClaimsAreExclusive, shared,
         Claims, IsAdd, Publishing, Position, KeySteps, Adding
<1>15. CASE Crash(p)
  BY <1>15
     DEF Crash, Goto, Report, Typed, TypeOK, Behind, ClaimsAreExclusive, shared,
         Claims, IsAdd, Publishing, Position, KeySteps, Adding
<1> QED
  BY <1>1, <1>2, <1>3, <1>4, <1>5, <1>6, <1>7, <1>8, <1>9, <1>10, <1>11, <1>12, <1>13, <1>14, <1>15
     DEF ProcStep


\* Every step preserves that no two commands claim a reference.
LEMMA ClaimsStep ==
  ASSUME Typed, HolderIsCurrent, KeyInv, [Next]_vars
  PROVE  ClaimsAreExclusive'
<1>1. ASSUME NEW p \in Procs, ProcStep(p) \/ Crash(p) PROVE ClaimsAreExclusive'
  <2>1. cmd' = cmd
    BY <1>1
       DEF ProcStep, LoadFirst, PromptPassword, Lock, LoadLocked, CheckFresh, SetKey,
           VerifyKey, Compensate, PreserveOld, Replace, SyncDirectory, Cleanup,
           ReadPassword, NoChallenge, Crash
  <2>2. ASSUME NEW q \in Procs
        PROVE  /\ pc'[q] = "set" => Behind(q)' = None
               /\ Claims(q)' => \/ Behind(q)' = cmd'[q].user
                                \/ pc'[q] = "compensate" /\ Behind(q)' = None
               /\ pc'[q] \in Publishing /\ (IsAdd(q) /\ cmd[q].ref # None)' => stored'[q]
    BY <1>1, <2>1, <2>2, OwnKept, OthersKept
       DEF KeyInv, ClaimsAreExclusive, Claims, IsAdd
  <2>3. ASSUME NEW q \in Procs, Claims(q)' PROVE Claims(q) \/ (pc[q] = "set" /\ q = p)
    BY <1>1, <2>1, <2>3, OwnKept, OthersKept
       DEF KeyInv, ClaimsAreExclusive, Claims, IsAdd
  <2>4. ASSUME NEW q \in Procs, Claims(q)', NEW c \in Recorded'
        PROVE  ~Uses(c, cmd[q].ref)
    <3>1. CASE c \in Recorded /\ Claims(q)
      BY <3>1 DEF KeyInv, ClaimsAreExclusive
    <3>2. CASE c \in Recorded /\ pc[q] = "set"
      <4>1. Behind(q) = None /\ c \in Configs /\ Served(c)
        BY <3>2, RecordedType
           DEF KeyInv, ClaimsAreExclusive, RecordedAreServed, Typed
      <4>2. ASSUME NEW n \in Names, Exists(c, n), c.profiles[n].ref = cmd[q].ref
            PROVE  FALSE
        <5>1. c.profiles[n].user \in Users
          BY <4>1, <4>2, ExistingProfile
        <5>2. cmd[q].ref # None
          BY <3>2 DEF Typed, Position, KeySteps
        <5> QED
          BY <4>1, <4>2, <5>1, <5>2, NoneAssumption DEF Served, Behind
      <4> QED
        BY <4>2 DEF Uses
    <3>3. CASE c \notin Recorded
      <4>1. Replace(p) /\ c = Updated(config, cmd[p]) /\ pc'[p] = "sync"
        <5>1. pc[p] = "replace"
          BY <1>1, <2>4, <3>3, RecordedKept
        <5>2. ~Crash(p)
          BY <2>4, <3>3 DEF Crash, Recorded
        <5>3. Replace(p)
          BY <1>1, <5>1, <5>2
             DEF ProcStep, LoadFirst, PromptPassword, Lock, LoadLocked, CheckFresh,
                 SetKey, VerifyKey, Compensate, PreserveOld, SyncDirectory, Cleanup,
                 ReadPassword, NoChallenge
        <5>4. config' # config \/ UNCHANGED << config, lkg, loaded >>
          BY <5>3 DEF Replace
        <5>5. pc'[p] = "sync" \/ UNCHANGED << config, lkg, loaded >>
          BY <5>3 DEF Replace, Goto, Typed, TypeOK
        <5> QED
          BY <2>4, <3>3, <5>3, <5>5, RecordedReplaced DEF Recorded
      <4>2. Claims(q) /\ q # p /\ config \in Configs /\ cmd[p] \in Commands /\ IsUpdate(cmd[p])
        BY <2>3, <2>4, <4>1
           DEF Replace, Claims, Typed, TypeOK, Position, Holding, Decided, Publishing
      <4>3. ~Uses(config, cmd[q].ref) /\ cmd[q].ref # None
        BY <4>2 DEF KeyInv, ClaimsAreExclusive, Recorded, Claims
      <4>4. cmd[p].kind = "add" => cmd[p].ref # cmd[q].ref
        BY <4>1, <4>2, <4>3
           DEF KeyInv, ClaimsAreExclusive, Claims, Replace, IsAdd
      <4>5. ASSUME NEW n \in Names, Exists(c, n), c.profiles[n].ref = cmd[q].ref
            PROVE  FALSE
        <5>1. \/ Exists(config, n) /\ c.profiles[n] = config.profiles[n]
              \/ /\ cmd[p].kind = "add"
                 /\ c.profiles[n] = [user |-> cmd[p].user, ref |-> cmd[p].ref]
          BY <4>1, <4>2, <4>5, UpdatedProfiles
        <5> QED
          BY <4>3, <4>4, <4>5, <5>1 DEF Uses
      <4> QED
        BY <4>5 DEF Uses
    <3> QED
      BY <2>3, <2>4, <3>1, <3>2, <3>3
  <2>5. ASSUME NEW q \in Procs, NEW s \in Procs \ {q}, Claims(q)', Claims(s)'
        PROVE  cmd[q].ref # cmd[s].ref
    <3>1. CASE Claims(q) /\ Claims(s)
      BY <3>1 DEF KeyInv, ClaimsAreExclusive
    <3> QED
      BY <2>3, <2>5, <3>1, FreshUnclaimed DEF KeyInv
  <2> QED
    BY <2>1, <2>2, <2>4, <2>5 DEF ClaimsAreExclusive
<1>2. ASSUME UNCHANGED vars PROVE ClaimsAreExclusive'
  BY <1>2
     DEF vars, shared, local, KeyInv, ClaimsAreExclusive, Claims, Behind, IsAdd,
         Recorded, Publishing
<1> QED
  BY <1>1, <1>2 DEF Next, Ended

\* No reference is claimed and none is recorded at first.
LEMMA KeyInit == Init => KeyInv
BY NoneAssumption
   DEF Init, KeyInv, ClaimsAreExclusive, Claims, Publishing, RecordedAreServed,
       Recorded, Served, Valid, Exists, EmptyConfig

-----------------------------------------------------------------------------
(* Whose password is in the keyring.                                       *)

\* Somebody can know of the password p has stored.
Knows(p) ==
  \/ applied[p]
  \/ pc[p] \in {"verify", "compensate", "preserve", "replace", "cleanup"}
  \/ result[p] \in {"crashed", "cleanup_incomplete"}

\* What another process knows of keyring and Config stays as it is.
LEMMA OthersKnow ==
  ASSUME Typed, NEW p \in Procs, ProcStep(p) \/ Crash(p), NEW q \in Procs \ {p}
  PROVE  cmd' = cmd /\ Knows(q)' = Knows(q)
<1>1. CASE LoadFirst(p)
  BY <1>1
     DEF LoadFirst, Goto, Report, Typed, TypeOK, Knows
<1>2. CASE PromptPassword(p)
  BY <1>2
     DEF PromptPassword, Goto, Report, Typed, TypeOK, Knows
<1>3. CASE Lock(p)
  BY <1>3
     DEF Lock, Goto, Typed, TypeOK, Knows
<1>4. CASE LoadLocked(p)
  BY <1>4
     DEF LoadLocked, Goto, Report, Typed, TypeOK, Knows
<1>5. CASE CheckFresh(p)
  BY <1>5
     DEF CheckFresh, Goto, Report, Typed, TypeOK, Knows
<1>6. CASE SetKey(p)
  BY <1>6
     DEF SetKey, Goto, Typed, TypeOK, Knows
<1>7. CASE VerifyKey(p)
  BY <1>7
     DEF VerifyKey, Goto, Typed, TypeOK, Knows
<1>8. CASE Compensate(p)
  BY <1>8
     DEF Compensate, Goto, Report, Typed, TypeOK, Knows
<1>9. CASE PreserveOld(p)
  BY <1>9
     DEF PreserveOld, Abandon, Goto, Report, Typed, TypeOK, Knows
<1>10. CASE Replace(p)
  BY <1>10
     DEF Replace, Abandon, Goto, Report, Typed, TypeOK, Knows
<1>11. CASE SyncDirectory(p)
  BY <1>11
     DEF SyncDirectory, Goto, Report, Typed, TypeOK, Knows
<1>12. CASE Cleanup(p)
  BY <1>12
     DEF Cleanup, Goto, Report, Typed, TypeOK, Knows
<1>13. CASE ReadPassword(p)
  BY <1>13
     DEF ReadPassword, Goto, Report, Typed, TypeOK, Knows
<1>14. CASE NoChallenge(p)
  BY <1>14
     DEF NoChallenge, Goto, Report, Typed, TypeOK, Knows
<1>15. CASE Crash(p)
  BY <1>15
     DEF Crash, Goto, Report, Typed, TypeOK, Knows
<1> QED
  BY <1>1, <1>2, <1>3, <1>4, <1>5, <1>6, <1>7, <1>8, <1>9, <1>10, <1>11, <1>12, <1>13, <1>14, <1>15
     DEF ProcStep

\* An addition that ends without an effect and without saying that something may
\* be left has deleted the password.
LEMMA OwnKnown ==
  ASSUME Typed, ReportsTruly, ClaimsAreExclusive, NEW p \in Procs,
         ProcStep(p) \/ Crash(p), IsAdd(p), cmd[p].ref \in Refs, Knows(p)
  PROVE  Knows(p)' \/ keyring'[cmd[p].ref] = None
<1>1. CASE LoadFirst(p)
  BY <1>1
     DEF LoadFirst, Goto, Report, Typed, TypeOK, Knows, Position
<1>2. CASE PromptPassword(p)
  BY <1>2
     DEF PromptPassword, Goto, Report, Typed, TypeOK, Knows, Position
<1>3. CASE Lock(p)
  BY <1>3
     DEF Lock, Goto, Typed, TypeOK, Knows, Position
<1>4. CASE LoadLocked(p)
  BY <1>4
     DEF LoadLocked, Goto, Report, Typed, TypeOK, Knows, Position
<1>5. CASE CheckFresh(p)
  BY <1>5
     DEF CheckFresh, Goto, Report, Typed, TypeOK, Knows, Position
<1>6. CASE SetKey(p)
  BY <1>6
     DEF SetKey, Goto, Typed, TypeOK, Knows, Position
<1>7. CASE VerifyKey(p)
  BY <1>7
     DEF VerifyKey, Goto, Typed, TypeOK, Knows, Position
<1>8. CASE Compensate(p)
  BY <1>8
     DEF Compensate, Goto, Report, Typed, TypeOK, Knows, Position
<1>9. CASE PreserveOld(p)
  BY <1>9, NoneAssumption
     DEF PreserveOld, Abandon, Goto, Report, Typed, TypeOK, Knows, Position,
         ClaimsAreExclusive, Publishing
<1>10. CASE Replace(p)
  BY <1>10, NoneAssumption
     DEF Replace, Abandon, Goto, Report, Typed, TypeOK, Knows, Position,
         ClaimsAreExclusive, Publishing
<1>11. CASE SyncDirectory(p)
  BY <1>11
     DEF SyncDirectory, Goto, Report, Typed, TypeOK, Knows, Position, ReportsTruly
<1>12. CASE Cleanup(p)
  BY <1>12
     DEF Cleanup, Goto, Report, Typed, TypeOK, Knows, Position
<1>13. CASE ReadPassword(p)
  BY <1>13
     DEF ReadPassword, Goto, Report, Typed, TypeOK, Knows, Position
<1>14. CASE NoChallenge(p)
  BY <1>14
     DEF NoChallenge, Goto, Report, Typed, TypeOK, Knows, Position
<1>15. CASE Crash(p)
  BY <1>15
     DEF Crash, Goto, Report, Typed, TypeOK, Knows, Position
<1> QED
  BY <1>1, <1>2, <1>3, <1>4, <1>5, <1>6, <1>7, <1>8, <1>9, <1>10, <1>11, <1>12, <1>13, <1>14, <1>15
     DEF ProcStep

\* Every step preserves that each keyring entry is accounted for.
LEMMA SecretsStep ==
  ASSUME Typed, ReportsTruly, KeyInv, SecretsAccountedFor, [Next]_vars
  PROVE  SecretsAccountedFor'
<1>1. ASSUME NEW p \in Procs, ProcStep(p) \/ Crash(p), NEW r \in Refs, keyring'[r] # None
      PROVE  \E q \in Procs :
               IsAdd(q)' /\ cmd'[q].ref = r /\ cmd'[q].user = keyring'[r] /\ Knows(q)'
  <2>1. cmd' = cmd
    BY <1>1
       DEF ProcStep, LoadFirst, PromptPassword, Lock, LoadLocked, CheckFresh, SetKey,
           VerifyKey, Compensate, PreserveOld, Replace, SyncDirectory, Cleanup,
           ReadPassword, NoChallenge, Crash
  <2>2. CASE keyring'[r] = keyring[r]
    <3>1. PICK q \in Procs : IsAdd(q) /\ cmd[q].ref = r /\ cmd[q].user = keyring[r] /\ Knows(q)
      BY <1>1, <2>2 DEF SecretsAccountedFor, Knows
    <3>2. Knows(q)'
      BY <1>1, <3>1, OthersKnow, OwnKnown DEF KeyInv
    <3> QED
      BY <2>1, <2>2, <3>1, <3>2 DEF IsAdd
  <2>3. CASE SetKey(p) /\ keyring'[r] # keyring[r]
    <3>1. IsAdd(p) /\ cmd[p].ref = r /\ cmd[p].user = keyring'[r]
      BY <2>3 DEF SetKey, Typed, TypeOK, Position, Adding
    <3>2. Knows(p)'
      BY <2>3 DEF SetKey, Goto, Knows, Typed, TypeOK
    <3> QED
      BY <2>1, <3>1, <3>2 DEF IsAdd
  <2>4. CASE ~SetKey(p)
    BY <1>1, <2>2, <2>4
       DEF ProcStep, LoadFirst, PromptPassword, Lock, LoadLocked, CheckFresh,
           VerifyKey, Compensate, PreserveOld, Replace, SyncDirectory, Cleanup,
           ReadPassword, NoChallenge, Crash, Typed, TypeOK, shared
  <2> QED
    BY <2>2, <2>3, <2>4
<1>2. ASSUME UNCHANGED vars PROVE SecretsAccountedFor'
  BY <1>2 DEF vars, shared, local, SecretsAccountedFor, IsAdd
<1> QED
  BY <1>1, <1>2 DEF Next, Ended, SecretsAccountedFor, Knows

\* The keyring is empty at first.
LEMMA SecretsInit == Init => SecretsAccountedFor
BY DEF Init, SecretsAccountedFor

-----------------------------------------------------------------------------
(* What a login has read.                                                  *)

\* Nobody has logged in at first.
LEMMA ReadOwnInit == Init => ReadOwn
BY DEF Init, ReadOwn

\* When the gateway asks for the password, that of the resolved profile is there.
LEMMA ChallengeAnswered ==
  ASSUME Typed, RecordedAreServed, NEW p \in Procs, pc[p] = "challenged",
         Target(p).ref # None
  PROVE  keyring[Target(p).ref] = Target(p).user /\ Target(p).user # None
<1>1. PICK n \in Names : Exists(loaded[p], n) /\ Target(p) = loaded[p].profiles[n]
  BY TargetProfile DEF Typed, Position
<1>2. Served(loaded[p]) /\ loaded[p] \in Configs
  BY DEF RecordedAreServed, Recorded, Typed, TypeOK
<1> QED
  BY <1>1, <1>2, ExistingProfile, NoneAssumption DEF Served

\* Every step preserves that a login reads the password of its own profile.
LEMMA ReadOwnStep == ASSUME Typed, RecordedAreServed, ReadOwn, [Next]_vars PROVE ReadOwn'
<1>1. ASSUME NEW p \in Procs, LoadFirst(p) PROVE ReadOwn'
  BY <1>1
     DEF LoadFirst, Goto, Report, Fail, Fine, ReadOwn, Typed, TypeOK, Position, Target
<1>2. ASSUME NEW p \in Procs, PromptPassword(p) PROVE ReadOwn'
  BY <1>2
     DEF PromptPassword, Goto, Report, ReadOwn, Typed, TypeOK, Position, Target
<1>3. ASSUME NEW p \in Procs, Lock(p) PROVE ReadOwn'
  BY <1>3
     DEF Lock, Goto, ReadOwn, Typed, TypeOK, Position, Target
<1>4. ASSUME NEW p \in Procs, LoadLocked(p) PROVE ReadOwn'
  BY <1>4
     DEF LoadLocked, Goto, Report, Unlock, Fail, Fine, ReadOwn, Typed, TypeOK,
         Position, Target
<1>5. ASSUME NEW p \in Procs, CheckFresh(p) PROVE ReadOwn'
  BY <1>5
     DEF CheckFresh, Goto, Report, Unlock, Fail, Fine, ReadOwn, Typed, TypeOK,
         Position, Target
<1>6. ASSUME NEW p \in Procs, SetKey(p) PROVE ReadOwn'
  BY <1>6
     DEF SetKey, Goto, Fail, Fine, ReadOwn, Typed, TypeOK, Position, Target
<1>7. ASSUME NEW p \in Procs, VerifyKey(p) PROVE ReadOwn'
  BY <1>7
     DEF VerifyKey, Goto, Fail, Fine, ReadOwn, Typed, TypeOK, Position, Target
<1>8. ASSUME NEW p \in Procs, Compensate(p) PROVE ReadOwn'
  BY <1>8
     DEF Compensate, Goto, Report, Unlock, Fail, Fine, ReadOwn, Typed, TypeOK,
         Position, Target
<1>9. ASSUME NEW p \in Procs, PreserveOld(p) PROVE ReadOwn'
  BY <1>9
     DEF PreserveOld, Abandon, Goto, Report, Unlock, Fail, Fine, ReadOwn, Typed,
         TypeOK, Position, Target
<1>10. ASSUME NEW p \in Procs, Replace(p) PROVE ReadOwn'
  BY <1>10
     DEF Replace, Abandon, Goto, Report, Unlock, Fail, Fine, ReadOwn, Typed, TypeOK,
         Position, Target
<1>11. ASSUME NEW p \in Procs, SyncDirectory(p) PROVE ReadOwn'
  BY <1>11
     DEF SyncDirectory, Goto, Report, Unlock, Fail, Fine, ReadOwn, Typed, TypeOK,
         Position, Target
<1>12. ASSUME NEW p \in Procs, Cleanup(p) PROVE ReadOwn'
  BY <1>12
     DEF Cleanup, Goto, Report, Fail, Fine, ReadOwn, Typed, TypeOK, Position, Target
<1>13. ASSUME NEW p \in Procs, ReadPassword(p) PROVE ReadOwn'
  <2>1. cmd[p].kind = "login"
    BY <1>13 DEF ReadPassword, Typed, Position
  <2>2. Target(p).ref # None => keyring[Target(p).ref] = Target(p).user /\ keyring[Target(p).ref] # None
    BY <1>13, ChallengeAnswered DEF ReadPassword
  <2>3. ASSUME NEW q \in Procs PROVE Target(q)' = Target(q)
    BY <1>13 DEF ReadPassword, Target
  <2> QED
    BY <1>13, <2>1, <2>2, <2>3
       DEF ReadPassword, Report, Goto, ReadOwn, Typed, TypeOK, Position
<1>14. ASSUME NEW p \in Procs, NoChallenge(p) PROVE ReadOwn'
  BY <1>14
     DEF NoChallenge, Goto, Report, ReadOwn, Typed, TypeOK, Position, Target
<1>15. ASSUME NEW p \in Procs, Crash(p) PROVE ReadOwn'
  BY <1>15
     DEF Crash, Goto, Report, ReadOwn, Typed, TypeOK, Position, Target
<1>16. ASSUME UNCHANGED vars PROVE ReadOwn'
  BY <1>16
     DEF vars, shared, local, ReadOwn, Typed, TypeOK, Position, Target
<1> QED
  BY <1>1, <1>2, <1>3, <1>4, <1>5, <1>6, <1>7, <1>8, <1>9, <1>10, <1>11, <1>12, <1>13, <1>14, <1>15, <1>16
     DEF Next, ProcStep, Ended

-----------------------------------------------------------------------------
(* The invariants.                                                         *)

\* The initial states satisfy the inductive invariant.
LEMMA IInvInit == Init => IInv
BY TypedInit, HolderInit, ReportsInit, KeyInit, ReadOwnInit, SecretsInit DEF IInv

\* Every step preserves the inductive invariant.
LEMMA IInvStep == ASSUME IInv, [Next]_vars PROVE IInv'
<1>1. Typed' /\ HolderIsCurrent' /\ ReportsTruly'
  BY TypedStep, HolderStep, ReportsStep DEF IInv
<1>2. KeyInv'
  BY RecordedServedStep, ClaimsStep DEF IInv, KeyInv
<1>3. ReadOwn' /\ SecretsAccountedFor'
  BY ReadOwnStep, SecretsStep DEF IInv, KeyInv
<1> QED
  BY <1>1, <1>2, <1>3 DEF IInv

\* The inductive invariant holds in every reachable state.
THEOREM ProfileInvariant == Spec => []IInv
<1> QED
  BY IInvInit, IInvStep, PTL DEF Spec

\* Every variable keeps its type.
THEOREM ProfileTypeCorrect == Spec => []TypeOK
<1>1. IInv => TypeOK
  BY DEF IInv, Typed
<1> QED
  BY <1>1, ProfileInvariant, PTL

\* Whoever loads the Config without the lock, or falls back on the copy of the
\* last one, finds a valid Config all of whose keyring profiles have the password
\* of their own user, whatever failed or died (profiles.go, credentials.go).
THEOREM PublishedProfilesServed == Spec => []PublishedProfilesHavePasswords
<1>1. IInv => PublishedProfilesHavePasswords
  BY DEF IInv, KeyInv, RecordedAreServed, Recorded, Served, PublishedProfilesHavePasswords
<1> QED
  BY <1>1, ProfileInvariant, PTL

\* A login never misses the password of the profile it resolved before the
\* network was asked, and never reads that of another user (service.go).
THEOREM LoginReadsOwnPassword == Spec => []LoginUsesOwnPassword
<1>1. IInv => LoginUsesOwnPassword
  BY DEF IInv, ReadOwn, Typed, TypeOK, LoginUsesOwnPassword
<1> QED
  BY <1>1, ProfileInvariant, PTL

\* A password nobody can know of is not left in the keyring.
THEOREM NoForgottenSecret == Spec => []SecretsAccountedFor
<1>1. IInv => SecretsAccountedFor
  BY DEF IInv
<1> QED
  BY <1>1, ProfileInvariant, PTL

-----------------------------------------------------------------------------
(* Each addition or removal is one change.                                 *)

Reported == [p \in Procs |-> IF result[p] = "no_password" THEN "failed" ELSE result[p]]

\* What the promise calls reported is the result of the command.
LEMMA ReportedIsResult == ASSUME Typed, ReadOwn PROVE Reported = result
BY DEF Typed, TypeOK, ReadOwn, Reported

\* The promise speaks of the same Configs and commands.
LEMMA PromiseOperators ==
  /\ Promise!EmptyConfig = EmptyConfig
  /\ \A command : Promise!IsUpdate(command) <=> IsUpdate(command)
  /\ \A c, command : Promise!Admits(c, command) <=> Admits(c, command)
  /\ \A c, command : Promise!Updated(c, command) = Updated(c, command)
BY DEF Promise!EmptyConfig, EmptyConfig, Promise!IsUpdate, IsUpdate, Promise!Admits, Admits,
       Promise!Exists, Exists, Promise!Updated, Updated, Promise!Added, Added,
       Promise!Removed, Removed

\* The initial states are the promise's.
LEMMA PromiseInit == Init => Promise!Init
<1>1. Init => Reported = [p \in Procs |-> "none"]
  BY DEF Init, Reported
<1> QED
  BY <1>1, PromiseOperators DEF Init, Promise!Init, Reported

Truthful(p, r) ==
  \/ r = "crashed"
  \/ ~IsUpdate(cmd[p]) /\ r \in {"ok", "failed"}
  \/ IsUpdate(cmd[p]) /\ applied[p] /\ r \in {"ok", "durability_unknown"}
  \/ IsUpdate(cmd[p]) /\ ~applied[p] /\ r \in {"failed", "cleanup_incomplete"}

\* What a command may say: that it happened if it has, that it failed if not.
LEMMA TruthfulReport ==
  ASSUME IInv, NEW p \in Procs, ProcStep(p) \/ Crash(p), ~Replace(p) \/ ~applied'[p],
         ReadOwn'
  PROVE  /\ UNCHANGED << config, cmd, applied >>
         /\ \/ result' = result
            \/ /\ result[p] = "none"
               /\ \E r : Truthful(p, r) /\ result' = [result EXCEPT ![p] = r]
<1>1. CASE LoadFirst(p)
  BY <1>1
     DEF LoadFirst, Goto, Report, IInv, Typed, TypeOK, Position, Adding, Holding,
         Decided, Publishing, ReportsTruly, IsUpdate, IsAdd, Truthful, shared
<1>2. CASE PromptPassword(p)
  BY <1>2
     DEF PromptPassword, Goto, Report, IInv, Typed, TypeOK, Position, Adding, Holding,
         Decided, Publishing, ReportsTruly, IsUpdate, IsAdd, Truthful, shared
<1>3. CASE Lock(p)
  BY <1>3
     DEF Lock, Goto, IInv, Typed, TypeOK, Position, Adding, Holding, Decided,
         Publishing, ReportsTruly, IsUpdate, IsAdd, Truthful, shared
<1>4. CASE LoadLocked(p)
  BY <1>4
     DEF LoadLocked, Goto, Report, IInv, Typed, TypeOK, Position, Adding, Holding,
         Decided, Publishing, ReportsTruly, IsUpdate, IsAdd, Truthful, shared
<1>5. CASE CheckFresh(p)
  BY <1>5
     DEF CheckFresh, Goto, Report, IInv, Typed, TypeOK, Position, Adding, Holding,
         Decided, Publishing, ReportsTruly, IsUpdate, IsAdd, Truthful, shared
<1>6. CASE SetKey(p)
  BY <1>6
     DEF SetKey, Goto, IInv, Typed, TypeOK, Position, Adding, Holding, Decided,
         Publishing, ReportsTruly, IsUpdate, IsAdd, Truthful, shared
<1>7. CASE VerifyKey(p)
  BY <1>7
     DEF VerifyKey, Goto, IInv, Typed, TypeOK, Position, Adding, Holding, Decided,
         Publishing, ReportsTruly, IsUpdate, IsAdd, Truthful, shared
<1>8. CASE Compensate(p)
  BY <1>8
     DEF Compensate, Goto, Report, IInv, Typed, TypeOK, Position, Adding, Holding,
         Decided, Publishing, ReportsTruly, IsUpdate, IsAdd, Truthful, shared
<1>9. CASE PreserveOld(p)
  BY <1>9
     DEF PreserveOld, Abandon, Goto, Report, IInv, Typed, TypeOK, Position, Adding,
         Holding, Decided, Publishing, ReportsTruly, IsUpdate, IsAdd, Truthful, shared
<1>10. CASE Replace(p)
  BY <1>10
     DEF Replace, Abandon, Goto, Report, IInv, Typed, TypeOK, Position, Adding,
         Holding, Decided, Publishing, ReportsTruly, IsUpdate, IsAdd, Truthful, shared
<1>11. CASE SyncDirectory(p)
  BY <1>11
     DEF SyncDirectory, Goto, Report, IInv, Typed, TypeOK, Position, Adding, Holding,
         Decided, Publishing, ReportsTruly, IsUpdate, IsAdd, Truthful, shared
<1>12. CASE Cleanup(p)
  BY <1>12
     DEF Cleanup, Goto, Report, IInv, Typed, TypeOK, Position, Adding, Holding,
         Decided, Publishing, ReportsTruly, IsUpdate, IsAdd, Truthful, shared
<1>13. CASE ReadPassword(p)
  BY <1>13
     DEF ReadPassword, Goto, Report, IInv, Typed, TypeOK, Position, Adding, Holding,
         Decided, Publishing, ReportsTruly, IsUpdate, IsAdd, Truthful, shared, ReadOwn
<1>14. CASE NoChallenge(p)
  BY <1>14
     DEF NoChallenge, Goto, Report, IInv, Typed, TypeOK, Position, Adding, Holding,
         Decided, Publishing, ReportsTruly, IsUpdate, IsAdd, Truthful, shared
<1>15. CASE Crash(p)
  BY <1>15
     DEF Crash, Goto, Report, IInv, Typed, TypeOK, Position, Adding, Holding, Decided,
         Publishing, ReportsTruly, IsUpdate, IsAdd, Truthful, shared
<1> QED
  BY <1>1, <1>2, <1>3, <1>4, <1>5, <1>6, <1>7, <1>8, <1>9, <1>10, <1>11, <1>12, <1>13, <1>14, <1>15
     DEF ProcStep

\* A step of a command is the change of the promise, its report, or invisible.
LEMMA PromiseStep ==
  ASSUME IInv, IInv', [Next]_vars
  PROVE  [Promise!Next]_(Promise!vars)
<1>1. Reported = result /\ Reported' = result'
  BY ReportedIsResult DEF IInv, Reported, Typed, TypeOK, ReadOwn
<1>2. ASSUME NEW p \in Procs, Replace(p), applied'[p] PROVE Promise!Apply(p)
  <2>1. /\ IsUpdate(cmd[p]) /\ ~applied[p] /\ result[p] = "none"
        /\ loaded[p] = config /\ Admits(config, cmd[p])
    BY <1>2
       DEF Replace, IInv, Typed, TypeOK, Position, Holding, Decided, Publishing,
           ReportsTruly, HolderIsCurrent
  <2>2. /\ config' = Updated(loaded[p], cmd[p])
        /\ applied' = [applied EXCEPT ![p] = TRUE]
        /\ cmd' = cmd /\ result' = result
    BY <1>2, <2>1 DEF Replace
  <2> QED
    BY <1>1, <2>1, <2>2, PromiseOperators DEF Promise!Apply, Reported
<1>3. ASSUME NEW p \in Procs, ProcStep(p) \/ Crash(p), ~Replace(p) \/ ~applied'[p]
      PROVE  Promise!Report(p) \/ UNCHANGED Promise!vars
  <2>1. \A r : Truthful(p, r) => r \in Promise!Outcomes(p)
    BY PromiseOperators DEF Truthful, Promise!Outcomes
  <2> QED
    BY <1>1, <1>3, <2>1, TruthfulReport DEF Promise!Report, Promise!vars, Reported, IInv
<1>4. ASSUME UNCHANGED vars PROVE UNCHANGED Promise!vars
  BY <1>4 DEF vars, shared, local, Promise!vars
<1>5. ASSUME NEW p \in Procs, ProcStep(p) \/ Crash(p) PROVE [Promise!Next]_(Promise!vars)
  BY <1>2, <1>3, <1>5 DEF Promise!Next
<1> QED
  BY <1>4, <1>5 DEF Next, Ended

\* An addition or a removal takes effect at one instant, on the Config of that
\* instant, and its report says whether it has (store.go Update, profiles.go).
THEOREM AtomicUpdates == Spec => UpdatesAreAtomic
<1>1. Init => Promise!Init
  BY PromiseInit
<1>2. IInv /\ IInv' /\ [Next]_vars => [Promise!Next]_(Promise!vars)
  BY PromiseStep
<1> QED
  BY <1>1, <1>2, ProfileInvariant, PTL DEF Spec, UpdatesAreAtomic, Promise!Spec
=============================================================================
