--------------------------- MODULE LiveGateProofs ---------------------------
(***************************************************************************)
(* Proofs about LiveGate for any set of requests and any set of replies of *)
(* a candidate that cannot be trusted.                                     *)
(*                                                                         *)
(* The inductive invariant says what has been recorded at each point of    *)
(* the run: the primary steps before index, each passed, then at most one  *)
(* that did not, then the cleanup.  What the session is follows from that  *)
(* and from what a candidate that tells the truth can have replied.        *)
(***************************************************************************)
EXTENDS LiveGate, TLAPS

Loop    == {"primary", "pair"}
Closing == {"publish", "committed"}
PCs == {"admit", "profile", "cleanup", "after", "done"} \cup Loop \cup Closing

Actions == {"profile", "qr_login"} \cup StatusActions \cup LoginActions \cup LogoutActions

\* The steps evidence may contain.
Steps == {s \in [name : StepNames, exit : CommandExits, code : ErrorCodes \cup {NoCode},
                 result : Results] : ValidStep(s)}

Primary == PrimarySteps(request.suite)

Typed ==
  /\ session \in {"offline", "expected", "foreign"}
  /\ file \in {"verified", "replaced"} /\ ctx \in {"live", "canceled"}
  /\ pc \in PCs
  /\ command = [action |-> command.action, reply |-> command.reply]
  /\ index \in 1..(Len(Primary) + 1) /\ cleanups \in 0..2
  /\ steps \in Seq(Steps)
  /\ trusted \in BOOLEAN /\ tainted \in BOOLEAN /\ late \in BOOLEAN /\ owned \in BOOLEAN
  /\ finalOffline \in BOOLEAN /\ canceled \in BOOLEAN /\ err \in BOOLEAN
  /\ exit \in {NoExit, 0, 10, 11, 12, 13, 14, 130}

(* Which command may be under way.                                         *)
CommandPart ==
  /\ command.action = "none" => command = NoCommand
  /\ pc \notin {"profile", "cleanup"} \cup Loop => command = NoCommand
  /\ pc = "profile" => command.action \in {"none", "profile"}
  /\ pc = "primary" => command.action \in {"none", Action(Primary[index])}
  /\ pc = "pair" => command.action \in {"none", "status_online"}
  /\ pc = "cleanup" => command.action \in {"none", Action(CleanupSteps[cleanups + 1])}

Reached(name) == \E i \in 1..(index - 1) : Primary[i] = name

\* The session is the run's own and has not been seen offline again.
Due == owned /\ ~finalOffline

(* The primary steps before index have passed, and nothing recorded after  *)
(* them can be taken for one of them.                                      *)
PrefixPart ==
  /\ index - 1 <= Len(steps)
  /\ \A i \in 1..(index - 1) : steps[i].name = Primary[i] /\ steps[i].result = "pass"
  /\ \A i \in DOMAIN steps :
       i >= index /\ steps[i].result = "pass" =>
         \E j \in 1..2 : steps[i].name = CleanupSteps[j]
  /\ owned <=> Reached("status_online")
  /\ finalOffline <=> Reached("final_status_offline")

\* The step at index did not pass, and what follows it is the cleanup.
Interrupted ==
  /\ index <= Len(Primary) /\ Len(steps) = index + cleanups
  /\ steps[index].name = Primary[index] /\ steps[index].result # "pass"
  /\ \A i \in 1..cleanups : steps[index + i].name = CleanupSteps[i]

LoopPart ==
  /\ pc \in {"admit", "profile"} => index = 1
  /\ pc \in {"admit", "profile"} \cup Loop =>
       Len(steps) = index - 1 /\ cleanups = 0 /\ ~canceled /\ ~err
  /\ pc \notin {"admit", "done"} => validMatrix(request)
  /\ pc \in Loop => index <= Len(Primary)
  /\ pc = "pair" => index = 2 /\ request.suite # "password_core"
  /\ pc = "cleanup" => Due /\ cleanups < 2
  /\ pc \in {"cleanup", "after"} /\ ~canceled /\ ~err =>
       \/ Interrupted
       \/ pc = "after" /\ index = Len(Primary) + 1 /\ Len(steps) = Len(Primary) /\ cleanups = 0
  /\ pc \in {"after", "done"} \cup Closing => cleanups = IF Due THEN 2 ELSE 0

(* What a candidate that tells the truth has let the run know.             *)
SessionPart ==
  trusted =>
    /\ /\ command.action \in StatusActions
       /\ command.reply.exit = 0 /\ command.reply.session = "offline"
       => session = "offline"
    /\ finalOffline => session = "offline"
    /\ session = "foreign" => index = 1

Evidence == buildLiveGateEvidence(RunResult)

EvidencePart ==
  /\ tainted => file = "replaced"
  /\ pc \in Closing => ~tainted /\ ValidEvidence(Evidence)
  /\ pc = "committed" => bundle = Evidence
  /\ pc \notin {"committed", "done"} => bundle = NoBundle
  /\ pc # "done" => exit = NoExit
  /\ EvidenceBindsCandidate

IInv == Typed /\ CommandPart /\ PrefixPart /\ LoopPart /\ SessionPart /\ EvidencePart

-----------------------------------------------------------------------------
(* The tables of steps and commands.                                       *)

\* The two primary sequences.
LEMMA Tables ==
  ASSUME NEW suite
  PROVE  /\ suite = "password_core" =>
              /\ Len(PrimarySteps(suite)) = 7
              /\ PrimarySteps(suite)[1] = "initial_status_offline"
              /\ PrimarySteps(suite)[2] = "login_logged_in"
              /\ PrimarySteps(suite)[3] = "status_online"
              /\ PrimarySteps(suite)[4] = "second_login_already_online"
              /\ PrimarySteps(suite)[5] = "logout_logged_out"
              /\ PrimarySteps(suite)[6] = "final_status_offline"
              /\ PrimarySteps(suite)[7] = "second_logout_already_offline"
         /\ suite # "password_core" =>
              /\ Len(PrimarySteps(suite)) = 5
              /\ PrimarySteps(suite)[1] = "initial_status_offline"
              /\ PrimarySteps(suite)[2] = "qr_login_logged_in"
              /\ PrimarySteps(suite)[3] = "status_online"
              /\ PrimarySteps(suite)[4] = "logout_logged_out"
              /\ PrimarySteps(suite)[5] = "final_status_offline"
BY DEF PrimarySteps

\* The two cleanup steps.
LEMMA CleanupTable ==
  /\ Len(CleanupSteps) = 2
  /\ CleanupSteps[1] = "cleanup_logout" /\ CleanupSteps[2] = "cleanup_status_offline"
BY DEF CleanupSteps

\* Every step has a name the schema knows, and no primary step one of the cleanup.
LEMMA Names ==
  /\ Len(Primary) \in {5, 7}
  /\ \A i \in 1..Len(Primary) :
       Primary[i] \in StepNames /\ Primary[i] \notin {CleanupSteps[1], CleanupSteps[2]}
  /\ CleanupSteps[1] \in StepNames /\ CleanupSteps[2] \in StepNames
<1>1. {"initial_status_offline", "login_logged_in", "status_online",
       "second_login_already_online", "logout_logged_out", "final_status_offline",
       "second_logout_already_offline", "qr_login_logged_in", "cleanup_logout",
       "cleanup_status_offline"} \subseteq StepNames
  BY DEF StepNames, PrimarySteps, CleanupSteps
<1>2. CASE request.suite = "password_core"
  <2>1. Len(Primary) = 7
    BY <1>2, Tables DEF Primary
  <2>2. \A i \in 1..7 : i \in {1, 2, 3, 4, 5, 6, 7}
    OBVIOUS
  <2> QED
    BY <1>1, <1>2, <2>1, <2>2, Tables, CleanupTable DEF Primary
<1>3. CASE request.suite # "password_core"
  <2>1. Len(Primary) = 5
    BY <1>3, Tables DEF Primary
  <2>2. \A i \in 1..5 : i \in {1, 2, 3, 4, 5}
    OBVIOUS
  <2> QED
    BY <1>1, <1>3, <2>1, <2>2, Tables, CleanupTable DEF Primary
<1> QED
  BY <1>2, <1>3

\* Where the two steps are that say whose the session is.
LEMMA Milestones ==
  ASSUME NEW n \in 1..(Len(Primary) + 1)
  PROVE  /\ (\E i \in 1..(n - 1) : Primary[i] = "status_online") <=> n > 3
         /\ (\E i \in 1..(n - 1) : Primary[i] = "final_status_offline")
              <=> n > (IF request.suite = "password_core" THEN 6 ELSE 5)
<1>1. CASE request.suite = "password_core"
  <2>0. Len(Primary) = 7
    BY <1>1, Tables DEF Primary
  <2>1. Len(Primary) = 7 /\ n \in 1..8
    BY <2>0
  <2>2. \A i \in 1..7 : /\ Primary[i] = "status_online" <=> i = 3
                        /\ Primary[i] = "final_status_offline" <=> i = 6
    BY <1>1, Tables DEF Primary
  <2>3. \A i \in 1..(n - 1) : i \in 1..7
    BY <2>1
  <2>4. (n > 3 => 3 \in 1..(n - 1)) /\ (n > 6 => 6 \in 1..(n - 1))
    BY <2>1
  <2> QED
    BY <1>1, <2>1, <2>2, <2>3, <2>4
<1>2. CASE request.suite # "password_core"
  <2>0. Len(Primary) = 5
    BY <1>2, Tables DEF Primary
  <2>1. Len(Primary) = 5 /\ n \in 1..6
    BY <2>0
  <2>2. \A i \in 1..5 : /\ Primary[i] = "status_online" <=> i = 3
                        /\ Primary[i] = "final_status_offline" <=> i = 5
    BY <1>2, Tables DEF Primary
  <2>3. \A i \in 1..(n - 1) : i \in 1..5
    BY <2>1
  <2>4. (n > 3 => 3 \in 1..(n - 1)) /\ (n > 5 => 5 \in 1..(n - 1))
    BY <2>1
  <2> QED
    BY <1>2, <2>1, <2>2, <2>3, <2>4
<1> QED
  BY <1>1, <1>2

\* The command of each step.
LEMMA ActionTable ==
  /\ Action("initial_status_offline") = "initial_status"
  /\ Action("login_logged_in") = "password_login"
  /\ Action("qr_login_logged_in") = "qr_login"
  /\ Action("status_online") = "status_online"
  /\ Action("second_login_already_online") = "second_password_login"
  /\ Action("logout_logged_out") = "logout"
  /\ Action("final_status_offline") = "final_status"
  /\ Action("second_logout_already_offline") = "second_logout"
  /\ Action("cleanup_logout") = "cleanup_logout"
  /\ Action("cleanup_status_offline") = "cleanup_status"
BY DEF Action

\* The commands, one by one.
LEMMA ActionNames ==
  /\ Actions = {"profile", "qr_login", "initial_status", "status_online", "final_status",
                "cleanup_status", "password_login", "second_password_login", "logout",
                "second_logout", "cleanup_logout"}
  /\ "none" \notin Actions
BY DEF Actions, StatusActions, LoginActions, LogoutActions

\* What the commands of the primary steps are.
LEMMA Commands ==
  ASSUME NEW i \in 1..Len(Primary)
  PROVE  /\ Action(Primary[i]) \in Actions
         /\ i = 1 => Action(Primary[i]) = "initial_status"
         /\ i = 7 => Action(Primary[i]) = "second_logout"
         /\ Action(Primary[i]) = "qr_login" =>
              i = 2 /\ request.suite # "password_core" /\ Primary[i] = "qr_login_logged_in"
         /\ Primary[i] = "final_status_offline" => Action(Primary[i]) = "final_status"
         /\ Primary[i] = "initial_status_offline" => Action(Primary[i]) = "initial_status"
<1>1. CASE request.suite = "password_core"
  <2>1. Len(Primary) = 7
    BY <1>1, Tables DEF Primary
  <2>2. i \in {1, 2, 3, 4, 5, 6, 7}
    BY <2>1
  <2> QED
    BY <1>1, <2>2, Tables, ActionTable, ActionNames DEF Primary
<1>2. CASE request.suite # "password_core"
  <2>1. Len(Primary) = 5
    BY <1>2, Tables DEF Primary
  <2>2. i \in {1, 2, 3, 4, 5}
    BY <2>1
  <2> QED
    BY <1>2, <2>2, Tables, ActionTable, ActionNames DEF Primary
<1> QED
  BY <1>1, <1>2

-----------------------------------------------------------------------------
(* Replies, observations and steps.                                        *)

\* Only the product's exit codes go with an error code.
LEMMA ErrorExit ==
  ASSUME NEW exitCode, NEW code, validExitError(exitCode, code)
  PROVE  exitCode \in CommandExits /\ exitCode # 0 /\ code \in ErrorCodes
<1>1. exitCode \in {1, 2, 3, 4, 5, 6, 7, 130}
  BY DEF validExitError, CodesOfExit
<1>2. exitCode \in CommandExits
  BY <1>1 DEF CommandExits
<1>3. code \in CodesOfExit(exitCode)
  BY DEF validExitError
<1> QED
  BY <1>1, <1>2, <1>3 DEF ErrorCodes

\* Every exit code of a failing command goes with an error code.
LEMMA DefaultCode ==
  ASSUME NEW exitCode \in CommandExits, exitCode # 0
  PROVE  validExitError(exitCode, defaultProcessErrorCode(exitCode))
<1>1. exitCode \in {1, 2, 3, 4, 5, 6, 7, 130}
  BY DEF CommandExits
<1>2. CASE exitCode = 2
  BY <1>2 DEF validExitError, defaultProcessErrorCode, CodesOfExit
<1>3. CASE exitCode # 2
  <2>1. \E c : c \in CodesOfExit(exitCode)
    BY <1>1 DEF CodesOfExit
  <2>2. (CHOOSE c \in CodesOfExit(exitCode) : TRUE) \in CodesOfExit(exitCode)
    BY <2>1
  <2> QED
    BY <1>3, <2>2 DEF validExitError, defaultProcessErrorCode
<1> QED
  BY <1>2, <1>3

\* What an observation that is not a fault was made from.
LEMMA Observed ==
  ASSUME NEW action, action # "qr_login", NEW reply, ~Observe(action, reply).fault
  PROVE  \/ /\ reply.exit = 0 /\ SuccessFields(action, reply)
            /\ Observe(action, reply) = successObservation(action, reply)
         \/ /\ validExitError(reply.exit, reply.code)
            /\ Observe(action, reply) = FailedWith(reply.exit, reply.code)
<1>1. Fault.fault
  BY DEF Fault
<1>2. Observe(action, reply) # Fault
  BY <1>1
<1> QED
  BY <1>2 DEF Observe

\* A failed command makes a step that did not pass.
LEMMA FailedStep ==
  ASSUME NEW name \in StepNames, NEW exitCode, NEW code, validExitError(exitCode, code)
  PROVE  LET step == stepFromObservation(name, FailedWith(exitCode, code))
         IN  step \in Steps /\ step.name = name /\ step.result # "pass"
<1> DEFINE obs == FailedWith(exitCode, code)
<1>1. exitCode \in CommandExits /\ exitCode # 0 /\ code \in ErrorCodes
  BY ErrorExit
<1>2. obs.exit = exitCode /\ obs.code = code
  BY DEF FailedWith, Fault
<1>3. classifyCommandFailure(obs) \in {"blocked", "fail"}
  BY DEF classifyCommandFailure
<1>4. stepFromObservation(name, obs)
        = [name |-> name, exit |-> exitCode, code |-> code,
           result |-> classifyCommandFailure(obs)]
  BY <1>1, <1>2 DEF stepFromObservation
<1> HIDE DEF obs
<1>5. classifyCommandFailure(obs) \in Results
  BY <1>3 DEF Results
<1> QED
  BY <1>1, <1>3, <1>4, <1>5 DEF Steps, ValidStep, obs

\* A step the runner has checked is one evidence may contain.
LEMMA CheckedStep ==
  ASSUME NEW name, NEW obs, ValidStep(stepFromObservation(name, obs))
  PROVE  stepFromObservation(name, obs) \in Steps
         /\ stepFromObservation(name, obs).name = name
<1> DEFINE step == stepFromObservation(name, obs)
<1>1. PICK result : step = [name |-> name, exit |-> obs.exit, code |-> obs.code,
                            result |-> result]
  BY DEF stepFromObservation
<1>2. step.exit \in CommandExits
  <2>1. CASE step.exit = 0
    BY <2>1 DEF CommandExits
  <2>2. CASE step.exit # 0
    BY <2>2, ErrorExit DEF ValidStep
  <2> QED
    BY <2>1, <2>2
<1> HIDE DEF step
<1>3. ValidStep(step)
  BY DEF step
<1>4. step.name \in StepNames /\ step.result \in Results /\ step.code \in ErrorCodes \cup {NoCode}
  BY <1>3 DEF ValidStep
<1> QED
  BY <1>1, <1>2, <1>3, <1>4 DEF Steps, step

-----------------------------------------------------------------------------
(* What a candidate that tells the truth may do.                           *)

\* What a true end of a command tells of the session before and after it.
LEMMA Truth ==
  ASSUME NEW action \in Actions, NEW s \in {"offline", "expected", "foreign"},
         NEW end \in TrueEnds(action, s)
  PROVE  /\ end[2] \in {"offline", "expected", "foreign"}
         /\ end[2] = "foreign" => s = "foreign"
         /\ s = "foreign" /\ action \notin LogoutActions => end[2] = "foreign"
         /\ s = "offline" /\ action \notin {"password_login", "qr_login"} => end[2] = "offline"
         /\ /\ action \in StatusActions
            /\ end[1].exit = 0 /\ end[1].session = "offline"
            => end[2] = "offline"
<1>1. CASE action = "profile"
  <2>1. end = << Success("offline", "expected", NoField), s >>
    BY <1>1 DEF TrueEnds, StatusActions, LoginActions, LogoutActions
  <2>2. end[2] = s
    BY <2>1
  <2> QED
    BY <1>1, <2>2 DEF StatusActions
<1>2. CASE action \in StatusActions
  <2>1. \/ end = << Success(Reported(s), User(s), NoField), s >>
        \/ end = << Success("unknown", Blank, NoField), s >>
        \/ end = << NetworkFailure, s >>
    BY <1>2 DEF TrueEnds, StatusActions, LoginActions, LogoutActions
  <2>2. end[2] = s
    BY <2>1
  <2>3. end[1] \in {Success(Reported(s), User(s), NoField), Success("unknown", Blank, NoField),
                    NetworkFailure}
    BY <2>1
  <2>4. NetworkFailure.exit = 3 /\ Success("unknown", Blank, NoField).session = "unknown"
        /\ Success(Reported(s), User(s), NoField).session = Reported(s)
    BY DEF NetworkFailure, Failure, Success
  <2>5. end[1].exit = 0 /\ end[1].session = "offline" => Reported(s) = "offline"
    BY <2>3, <2>4
  <2>6. Reported(s) = "offline" => s = "offline"
    BY DEF Reported
  <2> QED
    BY <2>2, <2>5, <2>6
<1>3. CASE action \in LoginActions \cup {"qr_login"}
  <2>1. CASE s # "offline"
    <3>1. \/ end = << Failure(5, "session_conflict"), s >>
          \/ end = << Success("online", "expected", "already_online"), s >>
      BY <1>3, <2>1 DEF TrueEnds, LoginActions, LogoutActions, StatusActions
    <3>2. end[2] = s
      BY <3>1
    <3> QED
      BY <1>3, <2>1, <3>2 DEF LoginActions, StatusActions
  <2>2. CASE s = "offline" /\ action = "second_password_login"
    <3>1. end[2] = s
      BY <2>2 DEF TrueEnds, LoginActions, StatusActions
    <3> QED
      BY <2>2, <3>1 DEF StatusActions
  <2>3. CASE s = "offline" /\ action # "second_password_login"
    <3>1. action \in {"password_login", "qr_login"}
      BY <1>3, <2>3 DEF LoginActions
    <3>2. end[2] \in {s, "expected"}
      BY <2>3, <3>1 DEF TrueEnds, LoginActions, StatusActions
    <3> QED
      BY <2>3, <3>1, <3>2 DEF StatusActions
  <2> QED
    BY <2>1, <2>2, <2>3
<1>4. CASE action \in LogoutActions
  <2>1. CASE s = "offline"
    <3>1. end[2] = s
      BY <1>4, <2>1 DEF TrueEnds, LogoutActions, LoginActions, StatusActions
    <3> QED
      BY <2>1, <3>1
  <2>2. CASE s # "offline"
    <3>1. end[2] \in {s, "offline"}
      BY <1>4, <2>2 DEF TrueEnds, LogoutActions, LoginActions, StatusActions
    <3> QED
      BY <1>4, <2>2, <3>1 DEF LogoutActions, StatusActions
  <2> QED
    BY <2>1, <2>2
<1> QED
  BY <1>1, <1>2, <1>3, <1>4 DEF Actions

\* The command under way is one the product has.
LEMMA Running ==
  ASSUME Typed, CommandPart, LoopPart, command.action # "none"
  PROVE  /\ command.action \in Actions
         /\ pc \in {"profile", "cleanup"} \cup Loop
         /\ pc = "cleanup" =>
              command.action = Action(CleanupSteps[cleanups + 1]) /\ cleanups + 1 \in {1, 2}
<1>1. pc \in {"profile", "cleanup"} \cup Loop
  BY DEF CommandPart, NoCommand
<1>2. pc = "cleanup" =>
        command.action = Action(CleanupSteps[cleanups + 1]) /\ cleanups + 1 \in {1, 2}
  BY DEF CommandPart, LoopPart, Typed
<1>3. pc = "cleanup" => command.action \in Actions
  BY <1>2, CleanupTable, ActionTable, ActionNames
<1>4. pc = "primary" => command.action \in Actions
  <2>1. pc = "primary" => index \in 1..Len(Primary)
    BY Names DEF Typed, LoopPart, Loop
  <2> QED
    BY <2>1, Commands DEF CommandPart
<1> QED
  BY <1>1, <1>2, <1>3, <1>4, ActionNames DEF CommandPart, Loop

(* When the candidate ends, by itself or killed, only the reply and the    *)
(* session change.                                                         *)
LEMMA CandidateTruth ==
  ASSUME Typed, CommandPart, PrefixPart, LoopPart, SessionPart,
         CandidateEnds \/ CandidateKilled
  PROVE  SessionPart' /\ session' \in {"offline", "expected", "foreign"}
<1>1. /\ Underway /\ UNCHANGED << gateVars, runVars, file, ctx, pc, late, bundle, exit >>
      /\ \/ \E end \in Ends(command.action) :
               command' = [command EXCEPT !.reply = end[1]] /\ session' = end[2]
         \/ /\ command' = [command EXCEPT !.reply = Killed]
            /\ session' = session \/ \E end \in Ends(command.action) : session' = end[2]
  BY DEF CandidateEnds, CandidateKilled
<1>2. command.action \in Actions /\ pc \in {"profile", "cleanup"} \cup Loop
  BY <1>1, Running DEF Underway
<1>3. command'.action = command.action /\ trusted' = trusted /\ index' = index
      /\ finalOffline' = finalOffline
  BY <1>1 DEF Typed, gateVars, runVars
<1>4. CASE ~trusted
  <2>1. session' = session
    BY <1>1, <1>4 DEF Ends
  <2> QED
    BY <1>3, <1>4, <2>1 DEF SessionPart, Typed
<1>5. CASE trusted /\ session' = session /\ command' = [command EXCEPT !.reply = Killed]
  <2>1. command'.reply.exit # 0
    BY <1>5 DEF Killed, NoExit, Typed
  <2> QED
    BY <1>3, <1>5, <2>1 DEF SessionPart, Typed
<1>6. ASSUME trusted, NEW end \in TrueEnds(command.action, session), session' = end[2],
             command'.reply = end[1] \/ command'.reply = Killed
      PROVE  SessionPart' /\ session' \in {"offline", "expected", "foreign"}
  <2>1. /\ session' \in {"offline", "expected", "foreign"}
        /\ session' = "foreign" => session = "foreign"
        /\ session = "offline" /\ command.action \notin {"password_login", "qr_login"}
              => session' = "offline"
        /\ /\ command.action \in StatusActions
           /\ end[1].exit = 0 /\ end[1].session = "offline"
           => session' = "offline"
    BY <1>2, <1>6, Truth DEF Typed
  <2>2. Killed.exit # 0
    BY DEF Killed, NoExit
  <2>3. finalOffline => session' = "offline"
    <3> SUFFICES ASSUME finalOffline PROVE session' = "offline"
      OBVIOUS
    <3>1. session = "offline" /\ index > 5
      <4>1. session = "offline" /\ Reached("final_status_offline")
        BY <1>6 DEF SessionPart, PrefixPart
      <4>2. index \in 1..(Len(Primary) + 1)
        BY DEF Typed
      <4>3. index > 5 \/ index > 6
        BY <4>1, <4>2, Milestones DEF Reached
      <4>4. index \in Nat
        BY <4>2
      <4> QED
        BY <4>1, <4>3, <4>4
    <3>2. pc = "primary"
      BY <1>2, <3>1 DEF LoopPart, Due, Loop
    <3>3. index \in 1..Len(Primary) /\ index \in {6, 7} /\ Len(Primary) = 7
      BY <3>1, <3>2, Names DEF LoopPart, Loop, Typed
    <3>4. command.action = Action(Primary[index])
      BY <1>2, <3>2, ActionNames DEF CommandPart
    <3>5. Action(Primary[index]) \notin {"password_login", "qr_login"}
      <4>1. request.suite = "password_core"
        BY <3>3, Tables DEF Primary
      <4> QED
        BY <4>1, <3>3, Tables, ActionTable DEF Primary
    <3> QED
      BY <2>1, <3>1, <3>4, <3>5
  <2> QED
    BY <1>3, <1>6, <2>1, <2>2, <2>3 DEF SessionPart
<1> QED
  <2>1. CASE trusted
    <3>1. command' = [command EXCEPT !.reply = Killed] => command'.reply = Killed
      BY DEF Typed
    <3>2. \A end : command' = [command EXCEPT !.reply = end[1]] => command'.reply = end[1]
      BY DEF Typed
    <3> QED
      BY <1>1, <1>5, <1>6, <2>1, <3>1, <3>2 DEF Ends
  <2> QED
    BY <1>4, <2>1

-----------------------------------------------------------------------------
(* The primary sequence.                                                   *)

\* A step that says "offline" and passed was made from a reply that says so.
LEMMA OfflineStep ==
  ASSUME NEW name \in {"initial_status_offline", "final_status_offline"}, NEW reply,
         ~Observe(Action(name), reply).fault,
         stepFromObservation(name, Observe(Action(name), reply)).result = "pass"
  PROVE  reply.exit = 0 /\ reply.session = "offline"
<1> DEFINE obs == Observe(Action(name), reply)
<1>1. Action(name) \in {"initial_status", "final_status"}
  BY ActionTable
<1>2. \/ reply.exit = 0 /\ SuccessFields(Action(name), reply)
         /\ obs = successObservation(Action(name), reply)
      \/ validExitError(reply.exit, reply.code) /\ obs = FailedWith(reply.exit, reply.code)
  <2>1. Action(name) # "qr_login"
    BY <1>1
  <2> QED
    BY <2>1, Observed
<1> HIDE DEF obs
<1>3. CASE validExitError(reply.exit, reply.code) /\ obs = FailedWith(reply.exit, reply.code)
  <2>1. name \in StepNames
    BY DEF StepNames, PrimarySteps, CleanupSteps
  <2> QED
    BY <1>3, <2>1, FailedStep DEF obs
<1>4. CASE reply.exit = 0 /\ SuccessFields(Action(name), reply)
             /\ obs = successObservation(Action(name), reply)
  <2>1. obs.exit = 0 /\ obs.session = reply.session /\ reply.session \in Sessions
    BY <1>4 DEF successObservation, SuccessFields
  <2>2. classifySuccessfulObservation(Action(name), obs) = "pass"
    BY <2>1 DEF stepFromObservation, obs
  <2>3. \/ classifyInitial(obs) = "pass"
        \/ classifyOffline(obs) = "pass"
    BY <1>1, <2>2 DEF classifySuccessfulObservation, LogoutActions
  <2>4. obs.session = "offline"
    BY <2>1, <2>3 DEF classifyInitial, classifyOffline, Sessions
  <2> QED
    BY <1>4, <2>1, <2>4
<1> QED
  BY <1>2, <1>3, <1>4

\* The status that proves a terminal login makes one valid step.
LEMMA StatusStep ==
  ASSUME NEW reply, ~Observe("status_online", reply).fault
  PROVE  LET status == QRStatusStep(Observe("status_online", reply))
         IN  status \in Steps /\ status.name = "status_online"
<1> DEFINE obs == Observe("status_online", reply)
<1> DEFINE step == stepFromObservation("status_online", obs)
<1>1. "status_online" \in StepNames
  BY DEF StepNames, PrimarySteps, CleanupSteps
<1>2. \/ /\ reply.exit = 0 /\ SuccessFields("status_online", reply)
         /\ obs = successObservation("status_online", reply)
      \/ validExitError(reply.exit, reply.code) /\ obs = FailedWith(reply.exit, reply.code)
  BY Observed
<1> HIDE DEF obs
<1>3. CASE validExitError(reply.exit, reply.code) /\ obs = FailedWith(reply.exit, reply.code)
  <2>1. step \in Steps /\ step.name = "status_online"
    BY <1>1, <1>3, FailedStep
  <2>2. obs.exit = reply.exit /\ reply.exit # 0
    BY <1>3, ErrorExit DEF FailedWith, Fault
  <2> QED
    BY <2>1, <2>2 DEF QRStatusStep, obs
<1>4. CASE reply.exit = 0 /\ obs = successObservation("status_online", reply)
  <2>1. obs.exit = 0 /\ obs.code = NoCode
    BY <1>4 DEF successObservation
  <2>2. classifySuccessfulObservation("status_online", obs) \in Results
    BY DEF classifySuccessfulObservation, LogoutActions, classifyOnline, Results
  <2>3. step = [name |-> "status_online", exit |-> 0, code |-> NoCode,
                result |-> classifySuccessfulObservation("status_online", obs)]
    BY <2>1, ActionTable DEF stepFromObservation
  <2>4. PICK result \in Results :
          QRStatusStep(obs) = [name |-> "status_online", exit |-> 0, code |-> NoCode,
                               result |-> result]
    BY <2>2, <2>3 DEF QRStatusStep, Results
  <2> QED
    BY <1>1, <2>4 DEF Steps, ValidStep, CommandExits, obs
<1> QED
  BY <1>2, <1>3, <1>4

(* What may be recorded: the step at index, or the pair that passed.       *)
Recordable(recorded) ==
  /\ recorded \in Seq(Steps) /\ Len(recorded) \in 1..2
  /\ index + Len(recorded) <= Len(Primary) + 1
  /\ \A i \in 1..Len(recorded) : recorded[i].name = Primary[index + i - 1]
  /\ Len(recorded) = 2 => \A i \in 1..2 : recorded[i].result = "pass"
  /\ \A i \in 1..Len(recorded) :
       /\ trusted /\ recorded[i].result = "pass"
       /\ recorded[i].name \in {"initial_status_offline", "final_status_offline"}
       => session = "offline"

\* One valid step with the name at index may be recorded.
LEMMA OneStep ==
  ASSUME Typed, LoopPart, pc \in Loop, NEW step \in Steps, step.name = Primary[index],
         /\ trusted /\ step.result = "pass"
         /\ step.name \in {"initial_status_offline", "final_status_offline"}
         => session = "offline"
  PROVE  Recordable(<< step >>)
<1>1. << step >> \in Seq(Steps) /\ Len(<< step >>) = 1 /\ << step >>[1] = step
  OBVIOUS
<1>2. index + 1 <= Len(Primary) + 1 /\ index + 1 - 1 = index
  BY Names DEF LoopPart, Typed
<1> QED
  BY <1>1, <1>2 DEF Recordable

\* A primary command is recorded, or the loop ends for a fault.
LEMMA PrimaryRecords ==
  ASSUME Typed, CommandPart, LoopPart, SessionPart, PrimaryStep
  PROVE  StopFaulty \/ \E recorded : Recordable(recorded) /\ Record(recorded)
<1> DEFINE name == Primary[index]
           obs  == Observe(Action(name), command.reply)
           step == stepFromObservation(name, obs)
<1>1. pc = "primary" /\ index \in 1..Len(Primary)
  BY Names DEF PrimaryStep, LoopPart, Loop, Typed
<1>2. command.action = Action(name) /\ Action(name) # "qr_login"
  BY <1>1 DEF PrimaryStep, Answered, CommandPart
<1>3. IF obs.fault \/ ~ValidStep(step) THEN StopFaulty ELSE Record(<< step >>)
  BY <1>2 DEF PrimaryStep, Primary
<1> HIDE DEF obs
<1>4. ASSUME ~obs.fault, ValidStep(step)
      PROVE  Recordable(<< step >>)
  <2>1. step \in Steps /\ step.name = name
    BY <1>4, CheckedStep
  <2>2. ASSUME trusted, step.result = "pass",
               name \in {"initial_status_offline", "final_status_offline"}
        PROVE  session = "offline"
    <3>1. command.reply.exit = 0 /\ command.reply.session = "offline"
      BY <1>4, <2>2, OfflineStep DEF obs
    <3>2. command.action \in StatusActions
      BY <1>2, <2>2, ActionTable DEF StatusActions
    <3> QED
      BY <2>2, <3>1, <3>2 DEF SessionPart
  <2> QED
    BY <1>1, <2>1, <2>2, OneStep DEF Loop
<1> QED
  BY <1>3, <1>4

\* So is a terminal login that failed; one that succeeded awaits its proof.
LEMMA LoginRecords ==
  ASSUME Typed, CommandPart, LoopPart, SessionPart, QRLoginEnded
  PROVE  \/ StopFaulty \/ \E recorded : Recordable(recorded) /\ Record(recorded)
         \/ /\ index = 2 /\ request.suite # "password_core" /\ pc' = "pair"
            /\ UNCHANGED << index, steps, owned, finalOffline, canceled, err >>
<1> DEFINE obs == Observe("qr_login", command.reply)
<1>1. pc = "primary" /\ index \in 1..Len(Primary)
  BY Names DEF QRLoginEnded, LoopPart, Loop, Typed
<1>2. index = 2 /\ request.suite # "password_core" /\ Primary[index] = "qr_login_logged_in"
  BY <1>1, Commands DEF QRLoginEnded, Answered, CommandPart
<1>3. obs = executeQR(command.reply.exit)
  BY DEF Observe
<1> HIDE DEF obs
<1>4. \/ obs.fault /\ StopFaulty
      \/ /\ ~obs.fault /\ obs.exit # 0
         /\ Record(<< stepFromObservation("qr_login_logged_in", obs) >>)
      \/ /\ ~obs.fault /\ obs.exit = 0 /\ pc' = "pair"
         /\ UNCHANGED << index, steps, owned, finalOffline, canceled, err >>
  <2>1. obs.fault \in BOOLEAN
    BY <1>3 DEF executeQR, Fault, FailedWith
  <2> QED
    BY <2>1 DEF QRLoginEnded, obs
<1>5. ASSUME ~obs.fault, obs.exit # 0
      PROVE  Recordable(<< stepFromObservation("qr_login_logged_in", obs) >>)
  <2>1. command.reply.exit \in CommandExits /\ command.reply.exit # 0
    BY <1>3, <1>5 DEF executeQR, Fault, FailedWith
  <2>2. obs = FailedWith(command.reply.exit, defaultProcessErrorCode(command.reply.exit))
    BY <1>3, <2>1 DEF executeQR
  <2>3. "qr_login_logged_in" \in StepNames
    BY <1>1, <1>2, Names
  <2>4. LET step == stepFromObservation("qr_login_logged_in", obs)
        IN  step \in Steps /\ step.name = "qr_login_logged_in" /\ step.result # "pass"
    BY <2>1, <2>2, <2>3, DefaultCode, FailedStep
  <2> QED
    BY <1>1, <1>2, <2>4, OneStep DEF Loop
<1> QED
  BY <1>2, <1>4, <1>5

\* So is the status that was to prove a terminal login, with the login.
LEMMA PairRecords ==
  ASSUME Typed, CommandPart, LoopPart, SessionPart, QRStatusShown
  PROVE  StopFaulty \/ \E recorded : Recordable(recorded) /\ Record(recorded)
<1> DEFINE obs == Observe("status_online", command.reply)
           status == QRStatusStep(obs)
           login  == [status EXCEPT !.name = "qr_login_logged_in"]
<1>1. pc = "pair" /\ index = 2 /\ request.suite # "password_core"
  BY DEF QRStatusShown, LoopPart
<1>2. Len(Primary) = 5 /\ Primary[2] = "qr_login_logged_in" /\ Primary[3] = "status_online"
  BY <1>1, Tables DEF Primary
<1>3. IF obs.fault THEN StopFaulty ELSE Record(QRPairSteps(status))
  BY DEF QRStatusShown
<1> HIDE DEF obs
<1>4. ASSUME ~obs.fault
      PROVE  Recordable(QRPairSteps(status))
  <2>1. status \in Steps /\ status.name = "status_online"
    BY <1>4, StatusStep DEF obs
  <2> HIDE DEF status
  <2>2. "qr_login_logged_in" \in StepNames
    BY <1>2, Names
  <2>3. /\ login \in Steps /\ login.name = "qr_login_logged_in"
        /\ login.result = status.result
    BY <2>1, <2>2 DEF Steps, ValidStep
  <2> HIDE DEF login
  <2>4. CASE status.result = "pass"
    <3>1. QRPairSteps(status) = << login, status >>
      BY <2>4 DEF QRPairSteps, login
    <3>2. << login, status >> \in Seq(Steps)
      BY <2>1, <2>3
    <3>3. \A i \in 1..2 : /\ << login, status >>[i].name = Primary[index + i - 1]
                          /\ << login, status >>[i].result = "pass"
      BY <1>1, <1>2, <2>1, <2>3, <2>4
    <3>4. \A i \in 1..2 : << login, status >>[i].name
                            \notin {"initial_status_offline", "final_status_offline"}
      BY <2>1, <2>3
    <3> QED
      BY <1>1, <1>2, <3>1, <3>2, <3>3, <3>4 DEF Recordable
  <2>5. CASE status.result # "pass"
    <3>1. QRPairSteps(status) = << login >>
      BY <2>5 DEF QRPairSteps, login
    <3> QED
      BY <1>1, <1>2, <2>3, <2>5, <3>1, OneStep DEF Loop
  <2> QED
    BY <2>4, <2>5
<1> QED
  BY <1>3, <1>4

\* What is appended does not move what was there.
LEMMA Appended ==
  ASSUME NEW s \in Seq(Steps), NEW t \in Seq(Steps)
  PROVE  /\ s \o t \in Seq(Steps) /\ Len(s \o t) = Len(s) + Len(t)
         /\ \A i \in 1..Len(s) : (s \o t)[i] = s[i]
         /\ \A i \in 1..Len(t) : (s \o t)[Len(s) + i] = t[i]
         /\ Len(s) \in Nat /\ Len(t) \in Nat
         /\ DOMAIN s = 1..Len(s) /\ DOMAIN t = 1..Len(t)
         /\ DOMAIN (s \o t) = 1..(Len(s) + Len(t))
OBVIOUS

\* The types of what a primary step changes.
LoopTypes ==
  /\ steps \in Seq(Steps) /\ index \in 1..(Len(Primary) + 1)
  /\ owned \in BOOLEAN /\ finalOffline \in BOOLEAN /\ canceled \in BOOLEAN /\ err \in BOOLEAN
  /\ pc \in {"primary", "cleanup", "after"}

\* Recording what passed moves on.
LEMMA PassesKeep ==
  ASSUME Typed, PrefixPart, LoopPart, pc \in Loop, UNCHANGED << request, cleanups >>,
         NEW recorded, Recordable(recorded), Record(recorded),
         \A i \in 1..Len(recorded) : recorded[i].result = "pass"
  PROVE  /\ LoopTypes' /\ PrefixPart' /\ LoopPart'
         /\ index' = index + Len(recorded)
         /\ owned' => index' > 3
<1>1. Primary' = Primary
  BY DEF Primary
<1>2. /\ Len(Primary) \in {5, 7} /\ index \in 1..Len(Primary)
      /\ Len(steps) = index - 1 /\ cleanups = 0 /\ ~canceled /\ ~err /\ validMatrix(request)
  BY Names DEF Typed, LoopPart, Loop
<1>3. /\ recorded \in Seq(Steps) /\ Len(recorded) \in 1..2
      /\ index + Len(recorded) <= Len(Primary) + 1
      /\ \A i \in 1..Len(recorded) : recorded[i].name = Primary[index + i - 1]
      /\ DOMAIN recorded = 1..Len(recorded)
  BY DEF Recordable
<1>4. /\ steps' = steps \o recorded /\ index' = index + Len(recorded)
      /\ canceled' = canceled /\ err' = err
      /\ pc' = IF index' > Len(Primary) THEN "after" ELSE "primary"
  BY <1>3 DEF Record, Primary
<1>5. steps \in Seq(Steps)
  BY DEF Typed
<1>6. /\ steps' \in Seq(Steps) /\ Len(steps') = index' - 1 /\ DOMAIN steps' = 1..(index' - 1)
      /\ \A i \in 1..(index - 1) : steps'[i] = steps[i]
      /\ \A i \in 1..Len(recorded) : steps'[index - 1 + i] = recorded[i]
  <2>1. /\ steps \o recorded \in Seq(Steps)
        /\ Len(steps \o recorded) = Len(steps) + Len(recorded)
        /\ DOMAIN (steps \o recorded) = 1..(Len(steps) + Len(recorded))
        /\ \A i \in 1..Len(steps) : (steps \o recorded)[i] = steps[i]
        /\ \A i \in 1..Len(recorded) : (steps \o recorded)[Len(steps) + i] = recorded[i]
    BY <1>3, <1>5, Appended
  <2>2. Len(steps) + Len(recorded) = index' - 1
    BY <1>2, <1>3, <1>4
  <2> QED
    BY <1>2, <1>4, <2>1, <2>2
<1>7. index' \in 1..(Len(Primary) + 1)
  BY <1>2, <1>3, <1>4
<1>8. \A i \in 1..(index' - 1) : steps'[i].name = Primary[i] /\ steps'[i].result = "pass"
  <2> SUFFICES ASSUME NEW i \in 1..(index' - 1)
               PROVE  steps'[i].name = Primary[i] /\ steps'[i].result = "pass"
    OBVIOUS
  <2>1. CASE i < index
    BY <2>1, <1>2, <1>6 DEF PrefixPart
  <2>2. CASE i >= index
    <3>1. i - index + 1 \in 1..Len(recorded)
      BY <2>2, <1>2, <1>3, <1>4
    <3>2. steps'[i] = recorded[i - index + 1]
      <4>1. index - 1 + (i - index + 1) = i
        BY <1>2, <2>2
      <4> QED
        BY <3>1, <1>6, <4>1
    <3>3. index + (i - index + 1) - 1 = i
      BY <1>2, <2>2
    <3> QED
      BY <1>3, <3>1, <3>2, <3>3
  <2> QED
    BY <1>2, <2>1, <2>2
<1>9. ASSUME NEW name
      PROVE  (Reached(name) \/ StepPassed(recorded, name)) <=> Reached(name)'
  <2>1. StepPassed(recorded, name) <=> \E i \in 1..Len(recorded) : Primary[index + i - 1] = name
    BY <1>3 DEF StepPassed
  <2>2. ASSUME NEW i \in 1..Len(recorded), Primary[index + i - 1] = name
        PROVE  Reached(name)'
    <3>1. /\ index \in Nat \ {0} /\ Len(recorded) \in Nat
          /\ index' = index + Len(recorded)
      BY <1>2, <1>3, <1>4
    <3>2. index + i - 1 \in 1..(index' - 1)
      BY <3>1
    <3> QED
      BY <2>2, <3>2, <1>1 DEF Reached
  <2>3. ASSUME Reached(name)
        PROVE  Reached(name)'
    <3>1. \A i \in 1..(index - 1) : i \in 1..(index' - 1)
      BY <1>2, <1>3, <1>4
    <3> QED
      BY <2>3, <3>1, <1>1 DEF Reached
  <2>4. ASSUME NEW i \in 1..(index' - 1), Primary[i] = name
        PROVE  Reached(name) \/ StepPassed(recorded, name)
    <3>1. CASE i < index
      <4>1. i \in 1..(index - 1)
        BY <3>1, <1>2
      <4> QED
        BY <4>1, <2>4 DEF Reached
    <3>2. CASE i >= index
      <4>1. i - index + 1 \in 1..Len(recorded) /\ index + (i - index + 1) - 1 = i
        BY <3>2, <1>2, <1>3, <1>4
      <4> QED
        BY <4>1, <2>1, <2>4
    <3> QED
      BY <1>2, <3>1, <3>2
  <2> QED
    BY <2>1, <2>2, <2>3, <2>4, <1>1 DEF Reached
<1>10. /\ owned' = (owned \/ StepPassed(recorded, "status_online"))
       /\ finalOffline' = (finalOffline \/ StepPassed(recorded, "final_status_offline"))
  BY DEF Record
<1>11. /\ owned' <=> Reached("status_online")'
       /\ finalOffline' <=> Reached("final_status_offline")'
       /\ owned' \in BOOLEAN /\ finalOffline' \in BOOLEAN
  BY <1>9, <1>10 DEF PrefixPart, Typed, StepPassed
<1>12. PrefixPart'
  <2>1. index' - 1 <= Len(steps')
    <3>1. Len(steps') = index' - 1
      BY <1>6
    <3>2. index' - 1 \in Int
      BY <1>2, <1>3, <1>4
    <3> QED
      BY <3>1, <3>2
  <2>2. \A i \in DOMAIN steps' : ~(i >= index')
    BY <1>6, <1>7, <1>2
  <2> QED
    BY <1>1, <1>8, <1>11, <2>1, <2>2 DEF PrefixPart
<1>13. /\ Reached("status_online")' <=> index' > 3
       /\ Reached("final_status_offline")' <=>
            index' > (IF request.suite = "password_core" THEN 6 ELSE 5)
  BY <1>1, <1>7, Milestones DEF Reached
<1>14. index' > Len(Primary) => index' = Len(Primary) + 1 /\ finalOffline'
  <2>1. /\ request.suite = "password_core" => Len(Primary) = 7
        /\ request.suite # "password_core" => Len(Primary) = 5
    BY Tables DEF Primary
  <2>2. CASE request.suite = "password_core"
    <3>0. Len(Primary) = 7
      BY <2>1, <2>2
    <3>1. index' > Len(Primary) => index' = Len(Primary) + 1 /\ index' > 6
      BY <1>7, <3>0
    <3> QED
      BY <1>11, <1>13, <2>2, <3>1
  <2>3. CASE request.suite # "password_core"
    <3>0. Len(Primary) = 5
      BY <2>1, <2>3
    <3>1. index' > Len(Primary) => index' = Len(Primary) + 1 /\ index' > 5
      BY <1>7, <3>0
    <3> QED
      BY <1>11, <1>13, <2>3, <3>1
  <2> QED
    BY <2>2, <2>3
<1>15. LoopPart'
  <2>1. validMatrix(request)'
    BY <1>2
  <2>2. CASE index' > Len(Primary)
    <3>1. pc' = "after"
      BY <1>4, <2>2
    <3> QED
      BY <1>1, <1>2, <1>4, <1>6, <1>14, <2>1, <2>2, <3>1 DEF LoopPart, Loop, Closing, Due
  <2>3. CASE ~(index' > Len(Primary))
    <3>1. pc' = "primary" /\ index' <= Len(Primary)
      BY <1>4, <1>7, <1>2, <2>3
    <3> QED
      BY <1>1, <1>2, <1>4, <1>6, <2>1, <3>1 DEF LoopPart, Loop, Closing
  <2> QED
    BY <2>2, <2>3
<1> QED
  BY <1>1, <1>4, <1>6, <1>7, <1>11, <1>12, <1>13, <1>15 DEF LoopTypes, Typed

\* Recording what did not pass ends the loop.
LEMMA FailureKeeps ==
  ASSUME Typed, PrefixPart, LoopPart, pc \in Loop, UNCHANGED << request, cleanups >>,
         NEW recorded, Recordable(recorded), Record(recorded),
         ~ \A i \in 1..Len(recorded) : recorded[i].result = "pass"
  PROVE  /\ LoopTypes' /\ PrefixPart' /\ LoopPart'
         /\ index' = index /\ finalOffline' = finalOffline
<1>1. Primary' = Primary
  BY DEF Primary
<1>2. /\ Len(Primary) \in Nat /\ index \in 1..Len(Primary)
      /\ Len(steps) = index - 1 /\ cleanups = 0 /\ ~canceled /\ ~err /\ validMatrix(request)
  BY Names DEF Typed, LoopPart, Loop
<1>3. /\ recorded \in Seq(Steps) /\ Len(recorded) = 1 /\ DOMAIN recorded = 1..1
      /\ recorded[1].name = Primary[index] /\ recorded[1].result # "pass"
  <2>1. Len(recorded) = 1 /\ recorded \in Seq(Steps)
    BY DEF Recordable
  <2>2. recorded[1].name = Primary[index + 1 - 1] /\ index + 1 - 1 = index
    BY <1>2, <2>1 DEF Recordable
  <2>3. recorded[1].result # "pass"
    BY <2>1
  <2> QED
    BY <2>1, <2>2, <2>3
<1>4. ~StepPassed(recorded, "status_online") /\ ~StepPassed(recorded, "final_status_offline")
  BY <1>3 DEF StepPassed
<1>5. /\ steps' = steps \o recorded /\ index' = index /\ owned' = owned
      /\ finalOffline' = finalOffline /\ canceled' = canceled /\ err' = err
      /\ pc' = IF owned' /\ ~finalOffline' THEN "cleanup" ELSE "after"
  BY <1>3, <1>4 DEF Record, LeaveLoop, Typed
<1>6. /\ steps' \in Seq(Steps) /\ Len(steps') = index /\ DOMAIN steps' = 1..index
      /\ \A i \in 1..(index - 1) : steps'[i] = steps[i]
      /\ steps'[index] = recorded[1]
  <2>1. /\ steps \o recorded \in Seq(Steps)
        /\ Len(steps \o recorded) = Len(steps) + Len(recorded)
        /\ DOMAIN (steps \o recorded) = 1..(Len(steps) + Len(recorded))
        /\ \A i \in 1..Len(steps) : (steps \o recorded)[i] = steps[i]
        /\ \A i \in 1..Len(recorded) : (steps \o recorded)[Len(steps) + i] = recorded[i]
    <3>1. steps \in Seq(Steps)
      BY DEF Typed
    <3>2. recorded \in Seq(Steps)
      BY <1>3
    <3> QED
      BY <3>1, <3>2, Appended
  <2>2. Len(steps) + Len(recorded) = index /\ Len(steps) + 1 = index
        /\ 1 \in 1..Len(recorded)
    BY <1>2, <1>3
  <2> QED
    BY <1>2, <1>5, <2>1, <2>2
<1>7. PrefixPart'
  <2>1. index - 1 <= Len(steps')
    BY <1>2, <1>6
  <2>2. \A i \in 1..(index - 1) : steps'[i].name = Primary[i] /\ steps'[i].result = "pass"
    BY <1>6 DEF PrefixPart
  <2>3. \A i \in DOMAIN steps' : i >= index => i = index
    BY <1>2, <1>6
  <2>4. owned' <=> Reached("status_online")'
    BY <1>1, <1>5 DEF PrefixPart, Reached
  <2>5. finalOffline' <=> Reached("final_status_offline")'
    BY <1>1, <1>5 DEF PrefixPart, Reached
  <2> QED
    BY <1>1, <1>3, <1>5, <1>6, <2>1, <2>2, <2>3, <2>4, <2>5 DEF PrefixPart
<1>8. Interrupted'
  <2>1. index <= Len(Primary) /\ Len(steps') = index + cleanups
    BY <1>2, <1>6
  <2>2. \A i \in 1..cleanups : FALSE
    BY <1>2
  <2> QED
    BY <1>1, <1>3, <1>5, <1>6, <2>1, <2>2 DEF Interrupted
<1>9. LoopPart'
  BY <1>2, <1>5, <1>8 DEF LoopPart, Loop, Closing, Due
<1> QED
  BY <1>1, <1>5, <1>6, <1>7, <1>9 DEF LoopTypes, Typed

\* A cancellation or a fault of the runner ends the loop.
LEMMA StopKeeps ==
  ASSUME Typed, PrefixPart, LoopPart, pc \in Loop, UNCHANGED << request, cleanups >>,
         StopCanceled \/ StopFaulty
  PROVE  /\ LoopTypes' /\ PrefixPart' /\ LoopPart'
         /\ index' = index /\ finalOffline' = finalOffline
<1>1. Primary' = Primary
  BY DEF Primary
<1>2. /\ UNCHANGED << index, steps, owned, finalOffline >>
      /\ canceled' \in BOOLEAN /\ err' \in BOOLEAN /\ (canceled' \/ err')
      /\ pc' = IF owned' /\ ~finalOffline' THEN "cleanup" ELSE "after"
  BY DEF StopCanceled, StopFaulty, LeaveLoop, Typed
<1>3. PrefixPart'
  BY <1>1, <1>2 DEF PrefixPart, Reached
<1>4. LoopPart'
  BY <1>1, <1>2 DEF LoopPart, Loop, Closing, Due
<1> QED
  BY <1>1, <1>2, <1>3, <1>4 DEF LoopTypes, Typed

\* The steps of the loop keep all parts but the one on evidence.
LEMMA LoopKeeps ==
  ASSUME Typed, CommandPart, PrefixPart, LoopPart, SessionPart,
         PrimaryCanceled \/ PrimaryStep \/ QRLoginEnded \/ QRStatusShown
  PROVE  Typed' /\ CommandPart' /\ PrefixPart' /\ LoopPart' /\ SessionPart'
<1>1. /\ pc \in Loop /\ command' = NoCommand
      /\ UNCHANGED << gateVars, session, file, ctx, late, cleanups, bundle, exit >>
  BY DEF PrimaryCanceled, PrimaryStep, QRLoginEnded, QRStatusShown, Loop
<1>2. UNCHANGED << request, cleanups >> /\ Primary' = Primary
  BY <1>1 DEF gateVars, Primary
<1>3. CommandPart'
  BY <1>1 DEF CommandPart, NoCommand
<1>4. ASSUME LoopTypes' PROVE Typed'
  BY <1>1, <1>2, <1>4 DEF Typed, LoopTypes, gateVars, NoCommand, PCs, Loop
<1>5. ASSUME index' = index, finalOffline' = finalOffline PROVE SessionPart'
  BY <1>1, <1>5, ActionNames DEF SessionPart, gateVars, NoCommand, Actions
<1>6. CASE StopCanceled \/ StopFaulty
  BY <1>1, <1>2, <1>3, <1>4, <1>5, <1>6, StopKeeps
<1>7. ASSUME NEW recorded, Recordable(recorded), Record(recorded)
      PROVE  Typed' /\ PrefixPart' /\ LoopPart' /\ SessionPart'
  <2>1. CASE ~ \A i \in 1..Len(recorded) : recorded[i].result = "pass"
    BY <1>1, <1>2, <1>4, <1>5, <1>7, <2>1, FailureKeeps
  <2>2. CASE \A i \in 1..Len(recorded) : recorded[i].result = "pass"
    <3>1. /\ LoopTypes' /\ PrefixPart' /\ LoopPart'
          /\ index' = index + Len(recorded)
      BY <1>1, <1>2, <1>7, <2>2, PassesKeep
    <3>2. recorded[1].name = Primary[index] /\ 1 \in 1..Len(recorded)
          /\ DOMAIN recorded = 1..Len(recorded)
      <4>1. /\ recorded \in Seq(Steps) /\ Len(recorded) \in 1..2
            /\ \A i \in 1..Len(recorded) : recorded[i].name = Primary[index + i - 1]
        BY <1>7 DEF Recordable
      <4>2. 1 \in 1..Len(recorded)
        BY <4>1
      <4>3. index \in 1..(Len(Primary) + 1)
        BY DEF Typed
      <4>4. index + 1 - 1 = index
        BY <4>3
      <4>5. recorded[1].name = Primary[index + 1 - 1]
        BY <4>1, <4>2
      <4> QED
        BY <4>1, <4>2, <4>4, <4>5
    <3>3. trusted /\ session = "foreign" => FALSE
      <4> SUFFICES ASSUME trusted, session = "foreign" PROVE FALSE
        OBVIOUS
      <4>1. index = 1 /\ Primary[1] = "initial_status_offline"
        BY Tables DEF SessionPart, Primary
      <4> QED
        BY <1>7, <2>2, <3>2, <4>1 DEF Recordable
    <3>4. trusted /\ finalOffline' => session = "offline"
      BY <1>7, <2>2, <3>2 DEF Record, StepPassed, Recordable, SessionPart
    <3>5. SessionPart'
      BY <1>1, <3>3, <3>4, ActionNames DEF SessionPart, gateVars, NoCommand, Actions
    <3> QED
      BY <1>4, <3>1, <3>5
  <2> QED
    BY <2>1, <2>2
<1>8. CASE PrimaryCanceled
  BY <1>6, <1>8 DEF PrimaryCanceled
<1>9. CASE PrimaryStep
  BY <1>3, <1>6, <1>7, <1>9, PrimaryRecords
<1>10. CASE QRStatusShown
  BY <1>3, <1>6, <1>7, <1>10, PairRecords
<1>11. CASE QRLoginEnded
  <2>1. CASE /\ index = 2 /\ request.suite # "password_core" /\ pc' = "pair"
             /\ UNCHANGED << index, steps, owned, finalOffline, canceled, err >>
    <3>1. Typed'
      BY <1>1, <1>2, <2>1 DEF Typed, gateVars, NoCommand, PCs, Loop
    <3>2. PrefixPart'
      BY <1>2, <2>1 DEF PrefixPart, Reached
    <3>3. LoopPart'
      BY <1>1, <1>2, <2>1 DEF LoopPart, Loop, Closing
    <3> QED
      BY <1>3, <1>5, <2>1, <3>1, <3>2, <3>3
  <2> QED
    BY <1>3, <1>6, <1>7, <1>11, <2>1, LoginRecords
<1> QED
  BY <1>8, <1>9, <1>10, <1>11

-----------------------------------------------------------------------------
(* The cleanup.                                                            *)

\* A cleanup command is recorded as its step, or not at all for a fault.
LEMMA CleanupRecords ==
  ASSUME Typed, CommandPart, LoopPart, CleanupStep \/ CleanupExpired
  PROVE  \/ CleanupDone(<< >>, TRUE)
         \/ \E step \in Steps : /\ step.name = CleanupSteps[cleanups + 1]
                               /\ CleanupDone(<< step >>, FALSE)
<1> DEFINE name == CleanupSteps[cleanups + 1]
<1>1. cleanups + 1 \in {1, 2} /\ name \in StepNames
  <2>1. pc = "cleanup"
    BY DEF CleanupStep, CleanupExpired
  <2>2. cleanups + 1 \in {1, 2}
    BY <2>1 DEF LoopPart, Typed
  <2> QED
    BY <2>2, Names
<1>2. CASE CleanupStep
  <2>1. PICK obs : IF obs.fault \/ ~ValidStep(stepFromObservation(name, obs))
                   THEN CleanupDone(<< >>, TRUE)
                   ELSE CleanupDone(<< stepFromObservation(name, obs) >>, FALSE)
    BY <1>2 DEF CleanupStep
  <2> QED
    BY <2>1, CheckedStep
<1>3. CASE CleanupExpired
  <2>1. 130 \in CommandExits /\ validExitError(130, "network")
    BY DEF CommandExits, validExitError, CodesOfExit
  <2>2. LET step == stepFromObservation(name, cleanupTimeoutObservation)
        IN  step \in Steps /\ step.name = name
    BY <1>1, <2>1, FailedStep DEF cleanupTimeoutObservation
  <2> QED
    BY <1>3, <2>2 DEF CleanupExpired
<1> QED
  BY <1>2, <1>3

\* The cleanup goes on to the next command, or ends after the last.
LEMMA CleanupDoneKeeps ==
  ASSUME Typed, PrefixPart, LoopPart, SessionPart, pc = "cleanup",
         NEW recorded \in Seq(Steps), NEW failed \in BOOLEAN, CleanupDone(recorded, failed),
         \/ failed /\ Len(recorded) = 0
         \/ ~failed /\ Len(recorded) = 1 /\ recorded[1].name = CleanupSteps[cleanups + 1]
  PROVE  Typed' /\ CommandPart' /\ PrefixPart' /\ LoopPart' /\ SessionPart'
<1>1. Due /\ cleanups \in 0..1 /\ cleanups + 1 \in 1..2
  BY DEF LoopPart, Typed
<1>2. /\ UNCHANGED << gateVars, session, file, ctx, bundle, exit,
                      index, owned, finalOffline, canceled >>
      /\ command' = NoCommand /\ late' = FALSE
      /\ steps' = steps \o recorded /\ err' = (err \/ failed) /\ cleanups' = cleanups + 1
      /\ pc' = IF cleanups' = 2 THEN "after" ELSE "cleanup"
  BY CleanupTable DEF CleanupDone
<1>3. Primary' = Primary /\ request' = request
  BY <1>2 DEF Primary, gateVars
<1>4. /\ Len(steps) \in Nat /\ Len(recorded) \in Nat /\ Len(Primary) \in Nat
      /\ index \in 1..(Len(Primary) + 1) /\ index - 1 <= Len(steps)
  <2>1. steps \in Seq(Steps)
    BY DEF Typed
  <2> QED
    BY <2>1, Names DEF PrefixPart, Typed
<1>5. /\ steps' \in Seq(Steps) /\ Len(steps') = Len(steps) + Len(recorded)
      /\ DOMAIN steps' = 1..(Len(steps) + Len(recorded)) /\ DOMAIN steps = 1..Len(steps)
      /\ \A i \in 1..Len(steps) : steps'[i] = steps[i]
      /\ \A i \in 1..Len(recorded) : steps'[Len(steps) + i] = recorded[i]
  <2>1. steps \in Seq(Steps)
    BY DEF Typed
  <2> QED
    BY <1>2, <2>1, Appended
<1>6. Typed'
  <2>1. cleanups' \in 0..2 /\ pc' \in PCs /\ err' \in BOOLEAN
    BY <1>1, <1>2 DEF PCs, Typed
  <2>2. command' = [action |-> command'.action, reply |-> command'.reply]
    BY <1>2 DEF NoCommand
  <2>3. index' \in 1..(Len(Primary') + 1) /\ late' \in BOOLEAN
    BY <1>2, <1>3 DEF Typed
  <2>4. UNCHANGED << trusted, tainted, session, file, ctx, exit, owned, finalOffline, canceled >>
    BY <1>2 DEF gateVars
  <2> QED
    BY <1>5, <2>1, <2>2, <2>3, <2>4 DEF Typed
<1>7. CommandPart'
  BY <1>2 DEF CommandPart, NoCommand
<1>8. PrefixPart'
  <2>1. index - 1 <= Len(steps')
    BY <1>4, <1>5
  <2>2. \A i \in 1..(index - 1) : steps'[i].name = Primary[i] /\ steps'[i].result = "pass"
    <3>1. \A i \in 1..(index - 1) : i \in 1..Len(steps)
      BY <1>4
    <3> QED
      BY <1>5, <3>1 DEF PrefixPart
  <2>3. ASSUME NEW i \in DOMAIN steps', i >= index, steps'[i].result = "pass"
        PROVE  \E j \in 1..2 : steps'[i].name = CleanupSteps[j]
    <3>1. CASE i \in 1..Len(steps)
      BY <1>5, <2>3, <3>1 DEF PrefixPart
    <3>2. CASE i \notin 1..Len(steps)
      <4>0. i \in 1..(Len(steps) + Len(recorded))
        BY <1>5, <2>3
      <4>1. Len(recorded) \in {0, 1}
        OBVIOUS
      <4>2. Len(recorded) = 1 /\ i = Len(steps) + 1
        <5> DEFINE n == Len(steps)
        <5>1. n \in Nat /\ i \notin 1..n
          BY <1>4, <3>2
        <5>2. Len(recorded) # 0
          BY <4>0, <5>1
        <5>3. i \in 1..(n + 1)
          BY <4>0, <4>1, <5>2
        <5> HIDE DEF n
        <5>4. i = n + 1
          BY <5>1, <5>3
        <5> QED
          BY <4>1, <5>2, <5>4 DEF n
      <4>3. steps'[i] = recorded[1]
        BY <1>5, <4>2
      <4> QED
        BY <1>1, <4>2, <4>3
    <3> QED
      BY <3>1, <3>2
  <2>4. /\ owned' <=> Reached("status_online")'
        /\ finalOffline' <=> Reached("final_status_offline")'
    BY <1>2, <1>3 DEF PrefixPart, Reached
  <2> QED
    BY <1>2, <1>3, <2>1, <2>2, <2>3, <2>4 DEF PrefixPart
<1>9. ASSUME ~canceled', ~err'
      PROVE  Interrupted'
  <2>1. Interrupted /\ Len(recorded) = 1 /\ recorded[1].name = CleanupSteps[cleanups + 1]
    BY <1>2, <1>9 DEF LoopPart
  <2>2. Len(steps) = index + cleanups
    BY <2>1 DEF Interrupted
  <2>3. Len(steps') = index + (cleanups + 1)
    BY <1>1, <1>4, <1>5, <2>1, <2>2
  <2>4. steps'[index] = steps[index]
    <3>1. index \in 1..Len(steps)
      BY <1>1, <1>4, <2>2
    <3> QED
      BY <1>5, <3>1
  <2>5. \A i \in 1..(cleanups + 1) : steps'[index + i].name = CleanupSteps[i]
    <3> SUFFICES ASSUME NEW i \in 1..(cleanups + 1)
                 PROVE  steps'[index + i].name = CleanupSteps[i]
      OBVIOUS
    <3>1. CASE i = cleanups + 1
      <4>1. index + i = Len(steps) + 1
        BY <1>1, <1>4, <2>2, <3>1
      <4>2. steps'[index + i] = recorded[1]
        BY <1>5, <2>1, <4>1
      <4> QED
        BY <2>1, <3>1, <4>2
    <3>2. CASE i # cleanups + 1
      <4>1. i \in 1..cleanups /\ index + i \in 1..Len(steps)
        BY <1>1, <1>4, <2>2, <3>2
      <4>2. steps'[index + i] = steps[index + i]
        BY <1>5, <4>1
      <4> QED
        BY <2>1, <4>1, <4>2 DEF Interrupted
    <3> QED
      BY <3>1, <3>2
  <2> QED
    BY <1>2, <1>3, <2>1, <2>3, <2>4, <2>5 DEF Interrupted
<1>10. LoopPart'
  BY <1>1, <1>2, <1>3, <1>9 DEF LoopPart, Loop, Closing, Due
<1>11. SessionPart'
  BY <1>2, ActionNames DEF SessionPart, gateVars, NoCommand, Actions
<1> QED
  BY <1>6, <1>7, <1>8, <1>10, <1>11

\* The steps of the cleanup keep all parts but the one on evidence.
LEMMA CleanupKeeps ==
  ASSUME Typed, CommandPart, PrefixPart, LoopPart, SessionPart,
         CleanupStep \/ CleanupExpired
  PROVE  Typed' /\ CommandPart' /\ PrefixPart' /\ LoopPart' /\ SessionPart'
<1>1. pc = "cleanup"
  BY DEF CleanupStep, CleanupExpired
<1>2. CASE CleanupDone(<< >>, TRUE)
  <2>1. << >> \in Seq(Steps) /\ Len(<< >>) = 0
    OBVIOUS
  <2> QED
    BY <1>1, <1>2, <2>1, CleanupDoneKeeps
<1>3. ASSUME NEW step \in Steps, step.name = CleanupSteps[cleanups + 1],
             CleanupDone(<< step >>, FALSE)
      PROVE  Typed' /\ CommandPart' /\ PrefixPart' /\ LoopPart' /\ SessionPart'
  <2>1. << step >> \in Seq(Steps) /\ Len(<< step >>) = 1 /\ << step >>[1] = step
    OBVIOUS
  <2> QED
    BY <1>1, <1>3, <2>1, CleanupDoneKeeps
<1> QED
  BY <1>2, <1>3, CleanupRecords

-----------------------------------------------------------------------------
(* The other steps.                                                        *)

\* The steps of the surroundings.
LEMMA SurroundingsKeep ==
  ASSUME Typed, CommandPart, PrefixPart, LoopPart, SessionPart,
         Cancel \/ ReplaceCandidate \/ CandidateEnds \/ CandidateKilled \/ DeadlinePasses
  PROVE  Typed' /\ CommandPart' /\ PrefixPart' /\ LoopPart' /\ SessionPart'
<1>1. /\ UNCHANGED << request, trusted, runVars, pc >>
      /\ file' \in {"verified", "replaced"} /\ ctx' \in {"live", "canceled"}
      /\ late' \in BOOLEAN /\ UNCHANGED << tainted, exit >>
  BY DEF Cancel, ReplaceCandidate, CandidateEnds, CandidateKilled, DeadlinePasses, gateVars,
         Typed
<1>2. UNCHANGED << index, steps, owned, finalOffline, canceled, err, cleanups >>
      /\ Primary' = Primary
  BY <1>1 DEF runVars, Primary
<1>3. PrefixPart' /\ LoopPart'
  BY <1>1, <1>2 DEF PrefixPart, LoopPart, Reached, Due, Interrupted
<1>4. command'.action = command.action
      /\ command' = [action |-> command'.action, reply |-> command'.reply]
      /\ (command.action = "none" => command' = command)
  BY DEF Cancel, ReplaceCandidate, CandidateEnds, CandidateKilled, DeadlinePasses, Underway,
         Typed
<1>5. SessionPart' /\ session' \in {"offline", "expected", "foreign"}
  <2>1. CASE CandidateEnds \/ CandidateKilled
    BY <2>1, CandidateTruth
  <2>2. CASE Cancel \/ ReplaceCandidate \/ DeadlinePasses
    <3>1. command' = command /\ session' = session
      BY <2>2 DEF Cancel, ReplaceCandidate, DeadlinePasses
    <3> QED
      BY <1>1, <1>2, <3>1 DEF SessionPart, Typed
  <2> QED
    BY <2>1, <2>2
<1>6. CommandPart'
  <2>1. command' # NoCommand => command.action # "none" /\ command # NoCommand
    BY <1>4 DEF CommandPart, NoCommand
  <2> QED
    BY <1>1, <1>2, <1>4, <2>1 DEF CommandPart
<1>7. Typed'
  BY <1>1, <1>2, <1>4, <1>5 DEF Typed
<1> QED
  BY <1>3, <1>5, <1>6, <1>7

\* Starting a command changes nothing the run knows.
LEMMA InvokeKeeps ==
  ASSUME Typed, CommandPart, PrefixPart, LoopPart, SessionPart,
         InvokeProfileShow \/ InvokePrimary \/ InvokeCleanup
  PROVE  Typed' /\ CommandPart' /\ PrefixPart' /\ LoopPart' /\ SessionPart'
<1>1. /\ UNCHANGED << request, trusted, runVars, session, file, ctx, pc, bundle, exit >>
      /\ late' = FALSE /\ tainted' = (tainted \/ file = "replaced")
  BY DEF InvokeProfileShow, InvokePrimary, InvokeCleanup, Invoke
<1>2. UNCHANGED << index, steps, owned, finalOffline, canceled, err, cleanups >>
      /\ Primary' = Primary
  BY <1>1 DEF runVars, Primary
<1>3. PICK action :
        /\ command' = [action |-> action, reply |-> Pending]
        /\ \/ pc = "profile" /\ action = "profile"
           \/ pc = "primary" /\ action = Action(Primary[index])
           \/ pc = "pair" /\ action = "status_online"
           \/ pc = "cleanup" /\ action = Action(CleanupSteps[cleanups + 1])
  BY DEF InvokeProfileShow, InvokePrimary, InvokeCleanup, Invoke, Primary
<1>4. action # "none"
  <2>1. pc = "primary" => index \in 1..Len(Primary)
    BY Names DEF LoopPart, Loop, Typed
  <2>2. pc = "primary" => action \in Actions
    BY <1>3, <2>1, Commands
  <2>3. pc = "cleanup" => cleanups + 1 \in {1, 2}
    BY DEF LoopPart, Typed
  <2>4. pc = "cleanup" => action \in Actions
    BY <1>3, <2>3, CleanupTable, ActionTable, ActionNames
  <2> QED
    BY <1>3, <2>2, <2>4, ActionNames
<1>5. PrefixPart' /\ LoopPart'
  BY <1>1, <1>2 DEF PrefixPart, LoopPart, Reached, Due, Interrupted
<1>6. command'.action = action /\ command'.reply = Pending
      /\ command' = [action |-> command'.action, reply |-> command'.reply]
  BY <1>3
<1>7. CommandPart'
  BY <1>1, <1>2, <1>3, <1>4, <1>6 DEF CommandPart, Loop
<1>8. Typed'
  <2>1. tainted' \in BOOLEAN /\ late' \in BOOLEAN
    BY <1>1 DEF Typed
  <2>2. UNCHANGED << trusted, session, file, ctx, pc, exit >>
    BY <1>1
  <2> QED
    BY <1>2, <1>6, <2>1, <2>2 DEF Typed
<1>9. SessionPart'
  <2>1. Pending.exit # 0
    BY DEF Pending, NoExit
  <2> QED
    BY <1>1, <1>2, <1>6, <2>1 DEF SessionPart
<1> QED
  BY <1>5, <1>7, <1>8, <1>9

(* Where the decisions of Execute lead: admission, the profile, the second *)
(* look at the candidate, publication and report.                          *)
LEMMA Decisions ==
  ASSUME Typed, LoopPart, EvidencePart,
         \/ GiveUp \/ Admit \/ ProfileShown
         \/ VerifyAfter \/ PublishCommits \/ PublishFails \/ PublishWithdrawn \/ Report
  PROVE  /\ UNCHANGED << gateVars, runVars, session, file, ctx, late >>
         /\ command' \in {command, NoCommand}
         /\ \/ /\ pc' = "done" /\ exit' \in {12, 13, 14, 130} /\ bundle' \in {bundle, NoBundle}
               /\ pc \in {"admit", "profile", "after", "publish", "committed"}
               /\ pc = "committed" => bundle' = NoBundle
            \/ /\ exit' = exit /\ bundle' = bundle
               /\ \/ pc = "admit" /\ pc' = "profile" /\ validMatrix(request)
                  \/ pc = "profile" /\ pc' = "primary" /\ command' = NoCommand
                  \/ /\ pc = "after" /\ pc' = "publish" /\ file # "replaced"
                     /\ ValidEvidence(Evidence)
            \/ /\ pc = "publish" /\ pc' = "committed" /\ exit' = exit /\ bundle' = Evidence
            \/ /\ pc = "committed" /\ pc' = "done" /\ bundle' = bundle
               /\ exit' = gateExitForResult(bundle.result)
         /\ pc' # "done" => pc' \in PCs
<1> USE DEF Finish
<1>1. CASE GiveUp
  BY <1>1 DEF GiveUp
<1>2. CASE Admit
  BY <1>2 DEF Admit, Admissible, validLiveGatePreflight, PCs
<1>3. CASE ProfileShown
  BY <1>3 DEF ProfileShown, PCs, Loop
<1>4. CASE VerifyAfter
  <2>1. CASE canceled
    BY <1>4, <2>1 DEF VerifyAfter, NoExit
  <2>2. CASE ~canceled /\ file = "replaced"
    BY <1>4, <2>2 DEF VerifyAfter, NoExit
  <2>3. CASE ~canceled /\ file # "replaced" /\ err
    BY <1>4, <2>3 DEF VerifyAfter, NoExit
  <2>4. CASE ~canceled /\ file # "replaced" /\ ~err /\ ~ValidEvidence(Evidence)
    BY <1>4, <2>4 DEF VerifyAfter, NoExit, Evidence
  <2>5. CASE ~canceled /\ file # "replaced" /\ ~err /\ ValidEvidence(Evidence)
    BY <1>4, <2>5 DEF VerifyAfter, NoExit, Evidence, PCs, Closing, Typed
  <2> QED
    BY <2>1, <2>2, <2>3, <2>4, <2>5 DEF Typed
<1>5. CASE PublishCommits
  BY <1>5 DEF PublishCommits, Evidence, PCs, Closing
<1>6. CASE PublishFails
  BY <1>6 DEF PublishFails
<1>7. CASE PublishWithdrawn
  BY <1>7 DEF PublishWithdrawn
<1>8. CASE Report
  BY <1>8 DEF Report
<1> QED
  BY <1>1, <1>2, <1>3, <1>4, <1>5, <1>6, <1>7, <1>8

\* Valid evidence is evidence, and makes one of three exit codes.
LEMMA EvidenceCode ==
  ASSUME NEW e, ValidEvidence(e)
  PROVE  gateExitForResult(e.result) \in {0, 10, 11} /\ e # NoBundle
<1>1. e.result \in {"pass", "fail", "blocked"}
  BY DEF ValidEvidence, Results
<1>2. NoBundle.result = "none"
  BY DEF NoBundle
<1> QED
  BY <1>1, <1>2 DEF gateExitForResult

\* The decisions keep all parts but the one on evidence.
LEMMA DecisionsKeep ==
  ASSUME Typed, CommandPart, PrefixPart, LoopPart, SessionPart, EvidencePart,
         \/ GiveUp \/ Admit \/ ProfileShown
         \/ VerifyAfter \/ PublishCommits \/ PublishFails \/ PublishWithdrawn \/ Report
  PROVE  Typed' /\ CommandPart' /\ PrefixPart' /\ LoopPart' /\ SessionPart'
<1>1. /\ UNCHANGED << gateVars, runVars, session, file, ctx, late >>
      /\ command' \in {command, NoCommand}
  BY Decisions
<1>2. UNCHANGED << request, trusted, tainted, index, steps, owned, finalOffline, canceled, err,
                   cleanups >>
      /\ Primary' = Primary
  BY <1>1 DEF gateVars, runVars, Primary
<1>3. PrefixPart'
  BY <1>2 DEF PrefixPart, Reached
<1>4. SessionPart'
  BY <1>1, <1>2, ActionNames DEF SessionPart, NoCommand, Actions
<1>5. command' = [action |-> command'.action, reply |-> command'.reply]
  BY <1>1 DEF Typed, NoCommand
<1>6. \/ /\ pc' = "done" /\ exit' \in {12, 13, 14, 130}
         /\ pc \in {"admit", "profile", "after", "publish", "committed"}
      \/ exit' = exit /\ pc = "admit" /\ pc' = "profile" /\ validMatrix(request)
      \/ exit' = exit /\ pc = "profile" /\ pc' = "primary"
      \/ exit' = exit /\ pc = "after" /\ pc' = "publish"
      \/ exit' = exit /\ pc = "publish" /\ pc' = "committed"
      \/ pc = "committed" /\ pc' = "done" /\ exit' = gateExitForResult(bundle.result)
  <2>1. \/ /\ pc' = "done" /\ exit' \in {12, 13, 14, 130} /\ bundle' \in {bundle, NoBundle}
           /\ pc \in {"admit", "profile", "after", "publish", "committed"}
           /\ pc = "committed" => bundle' = NoBundle
        \/ /\ exit' = exit /\ bundle' = bundle
           /\ \/ pc = "admit" /\ pc' = "profile" /\ validMatrix(request)
              \/ pc = "profile" /\ pc' = "primary" /\ command' = NoCommand
              \/ /\ pc = "after" /\ pc' = "publish" /\ file # "replaced"
                 /\ ValidEvidence(Evidence)
        \/ /\ pc = "publish" /\ pc' = "committed" /\ exit' = exit /\ bundle' = Evidence
        \/ /\ pc = "committed" /\ pc' = "done" /\ bundle' = bundle
           /\ exit' = gateExitForResult(bundle.result)
    BY Decisions
  <2> QED
    BY <2>1
<1>7. exit' \in {NoExit, 0, 10, 11, 12, 13, 14, 130} /\ pc' \in PCs
  <2>1. pc = "committed" => gateExitForResult(bundle.result) \in {0, 10, 11}
    BY EvidenceCode DEF EvidencePart, Closing
  <2>2. exit \in {NoExit, 0, 10, 11, 12, 13, 14, 130} /\ "done" \in PCs /\ "committed" \in PCs
        /\ "profile" \in PCs /\ "primary" \in PCs /\ "publish" \in PCs
    BY DEF Typed, PCs, Loop, Closing
  <2> QED
    BY <1>6, <2>1, <2>2
<1>8. Typed'
  BY <1>1, <1>2, <1>5, <1>7 DEF Typed
<1>9. CommandPart'
  <2>1. command' = NoCommand \/ (command' = command /\ pc' = pc)
        \/ (command' = command /\ command = NoCommand)
    <3>1. CASE GiveUp \/ Admit \/ ProfileShown
      BY <3>1 DEF GiveUp, Admit, ProfileShown, Idle, CommandPart, Loop
    <3>2. CASE VerifyAfter \/ PublishCommits \/ PublishFails \/ PublishWithdrawn \/ Report
      BY <3>2 DEF VerifyAfter, PublishCommits, PublishFails, PublishWithdrawn, Report,
                  CommandPart, Loop
    <3> QED
      BY <3>1, <3>2
  <2> QED
    BY <1>2, <2>1 DEF CommandPart, NoCommand
<1>10. LoopPart'
  <2>1. index = 1 => ~owned
    <3>1. index \in 1..(Len(Primary) + 1)
      BY DEF Typed
    <3> QED
      BY <3>1, Milestones DEF PrefixPart, Reached
  <2>2. pc \in {"admit", "profile"} => ~Due /\ cleanups = 0 /\ index <= Len(Primary)
    BY <2>1, Names DEF LoopPart, Due
  <2>3. pc \in {"after", "publish", "committed"} => cleanups = IF Due THEN 2 ELSE 0
    BY DEF LoopPart, Closing
  <2> QED
    BY <1>6, <1>2, <2>2, <2>3 DEF LoopPart, Loop, Closing, Due
<1> QED
  BY <1>3, <1>4, <1>8, <1>9, <1>10

-----------------------------------------------------------------------------
(* The evidence.                                                           *)

\* What the run has found does not change once it is over.
LEMMA SameEvidence ==
  ASSUME UNCHANGED << request, index, steps, canceled, err >>
  PROVE  Evidence' = Evidence
BY DEF Evidence, buildLiveGateEvidence, RunResult

\* The steps of a run and of its surroundings leave the evidence alone.
LEMMA RunSparesEvidence ==
  ASSUME Typed, CommandPart, LoopPart, SessionPart, EvidencePart,
         \/ Cancel \/ ReplaceCandidate \/ CandidateEnds \/ CandidateKilled \/ DeadlinePasses
         \/ InvokeProfileShow \/ InvokePrimary \/ InvokeCleanup
         \/ PrimaryCanceled \/ PrimaryStep \/ QRLoginEnded \/ QRStatusShown
         \/ CleanupStep \/ CleanupExpired
  PROVE  EvidencePart'
<1>1. CASE Cancel \/ ReplaceCandidate \/ CandidateEnds \/ CandidateKilled \/ DeadlinePasses
  <2>1. /\ UNCHANGED << request, tainted, index, steps, canceled, err, pc, bundle, exit >>
        /\ file' = file \/ file' = "replaced"
    BY <1>1 DEF Cancel, ReplaceCandidate, CandidateEnds, CandidateKilled, DeadlinePasses,
                gateVars, runVars
  <2>2. Evidence' = Evidence
    BY <2>1, SameEvidence
  <2> QED
    BY <2>1, <2>2 DEF EvidencePart, EvidenceBindsCandidate
<1>2. CASE ~(Cancel \/ ReplaceCandidate \/ CandidateEnds \/ CandidateKilled \/ DeadlinePasses)
  <2>1. /\ pc \in {"profile", "cleanup"} \cup Loop
        /\ UNCHANGED << file, bundle, exit >>
        /\ tainted' => tainted \/ file = "replaced"
    <3>1. CASE InvokeProfileShow \/ InvokePrimary \/ InvokeCleanup
      BY <3>1 DEF InvokeProfileShow, InvokePrimary, InvokeCleanup, Invoke, Loop
    <3>2. CASE PrimaryCanceled \/ PrimaryStep \/ QRLoginEnded \/ QRStatusShown
      <4>1. pc \in Loop /\ UNCHANGED << gateVars, file, bundle, exit >>
        <5>1. CASE PrimaryCanceled
          BY <5>1 DEF PrimaryCanceled, Loop
        <5>2. CASE PrimaryStep
          BY <5>2 DEF PrimaryStep, Loop
        <5>3. CASE QRLoginEnded
          BY <5>3 DEF QRLoginEnded, Loop
        <5>4. CASE QRStatusShown
          BY <5>4 DEF QRStatusShown, Loop
        <5> QED
          BY <3>2, <5>1, <5>2, <5>3, <5>4
      <4> QED
        BY <4>1 DEF gateVars
    <3>3. CASE CleanupStep \/ CleanupExpired
      BY <3>3 DEF CleanupStep, CleanupExpired, CleanupDone, gateVars
    <3> QED
      BY <1>2, <3>1, <3>2, <3>3
  <2>2. pc' \in {"profile", "cleanup", "after"} \cup Loop
    <3>1. CASE InvokeProfileShow \/ InvokePrimary \/ InvokeCleanup
      BY <2>1, <3>1 DEF InvokeProfileShow, InvokePrimary, InvokeCleanup
    <3>2. CASE CleanupStep \/ CleanupExpired
      BY <3>2 DEF CleanupStep, CleanupExpired, CleanupDone
    <3>3. CASE PrimaryCanceled
      BY <3>3 DEF PrimaryCanceled, StopCanceled, LeaveLoop
    <3>4. CASE PrimaryStep
      BY <3>4 DEF PrimaryStep, StopFaulty, Record, LeaveLoop, Loop
    <3>5. CASE QRStatusShown
      BY <3>5 DEF QRStatusShown, StopFaulty, Record, LeaveLoop, Loop
    <3>6. CASE QRLoginEnded
      <4>1. \/ StopFaulty \/ (\E recorded : Record(recorded)) \/ pc' = "pair"
        BY <3>6, LoginRecords
      <4> QED
        BY <4>1 DEF StopFaulty, Record, LeaveLoop, Loop
    <3> QED
      BY <1>2, <3>1, <3>2, <3>3, <3>4, <3>5, <3>6
  <2> QED
    BY <2>1, <2>2 DEF EvidencePart, EvidenceBindsCandidate, Closing, Loop
<1> QED
  BY <1>1, <1>2

\* The decisions publish nothing but valid evidence of the verified candidate.
LEMMA DecisionsBindEvidence ==
  ASSUME Typed, LoopPart, EvidencePart,
         \/ GiveUp \/ Admit \/ ProfileShown
         \/ VerifyAfter \/ PublishCommits \/ PublishFails \/ PublishWithdrawn \/ Report
  PROVE  EvidencePart'
<1>1. UNCHANGED << gateVars, runVars, file >>
  BY Decisions
<1>2. UNCHANGED << tainted, file >> /\ Evidence' = Evidence
  <2>1. UNCHANGED << request, tainted, file, index, steps, canceled, err >>
    BY <1>1 DEF gateVars, runVars
  <2> QED
    BY <2>1, SameEvidence
<1>3. \/ /\ pc' = "done" /\ exit' \in {12, 13, 14, 130} /\ bundle' \in {bundle, NoBundle}
         /\ pc \in {"admit", "profile", "after", "publish", "committed"}
         /\ pc = "committed" => bundle' = NoBundle
      \/ /\ exit' = exit /\ bundle' = bundle
         /\ \/ pc = "admit" /\ pc' = "profile" /\ validMatrix(request)
            \/ pc = "profile" /\ pc' = "primary" /\ command' = NoCommand
            \/ /\ pc = "after" /\ pc' = "publish" /\ file # "replaced"
               /\ ValidEvidence(Evidence)
      \/ /\ pc = "publish" /\ pc' = "committed" /\ exit' = exit /\ bundle' = Evidence
      \/ /\ pc = "committed" /\ pc' = "done" /\ bundle' = bundle
         /\ exit' = gateExitForResult(bundle.result)
  BY Decisions
<1>4. pc \in Closing =>
        /\ ~tainted /\ ValidEvidence(Evidence) /\ Evidence # NoBundle
        /\ gateExitForResult(Evidence.result) \in {0, 10, 11}
  BY EvidenceCode DEF EvidencePart
<1>5. CASE pc' = "done" /\ exit' \in {12, 13, 14, 130}
  <2>1. pc = "committed" => gateExitForResult(bundle.result) \in {0, 10, 11}
    BY <1>4 DEF EvidencePart, Closing
  <2>2. pc \in {"admit", "profile", "after", "publish"} => bundle = NoBundle
    BY DEF EvidencePart
  <2>3. bundle' = NoBundle
    BY <1>3, <1>5, <2>1, <2>2
  <2> QED
    BY <1>2, <1>5, <2>3 DEF EvidencePart, EvidenceBindsCandidate, Closing
<1>6. CASE pc \in {"admit", "profile", "after"} /\ pc' \in {"profile", "primary", "publish"}
  <2>1. bundle' = NoBundle /\ exit' = NoExit
    BY <1>3, <1>6 DEF EvidencePart
  <2>2. pc' \in Closing => ~tainted /\ ValidEvidence(Evidence)
    BY <1>3, <1>6 DEF EvidencePart, Closing
  <2> QED
    BY <1>2, <1>6, <2>1, <2>2 DEF EvidencePart, EvidenceBindsCandidate
<1>7. CASE pc = "publish" /\ pc' = "committed" /\ exit' = exit /\ bundle' = Evidence
  BY <1>2, <1>4, <1>7 DEF EvidencePart, EvidenceBindsCandidate, Closing
<1>8. CASE /\ pc = "committed" /\ pc' = "done" /\ bundle' = bundle
           /\ exit' = gateExitForResult(bundle.result)
  <2>1. bundle = Evidence
    BY <1>8 DEF EvidencePart
  <2> QED
    BY <1>2, <1>4, <1>8, <2>1 DEF EvidencePart, EvidenceBindsCandidate, Closing
<1> QED
  BY <1>3, <1>5, <1>6, <1>7, <1>8

-----------------------------------------------------------------------------
(* The invariant.                                                          *)

\* A gate that has just been started satisfies the invariant.
LEMMA GateInit == Init => IInv
<1> SUFFICES ASSUME Init PROVE IInv
  OBVIOUS
<1>1. command = NoCommand /\ steps = << >> /\ index = 1 /\ cleanups = 0 /\ pc = "admit"
  BY DEF Init
<1>2. Len(steps) = 0 /\ steps \in Seq(Steps) /\ DOMAIN steps = {}
  BY <1>1
<1>3. index \in 1..(Len(Primary) + 1) /\ \A i \in 1..(index - 1) : FALSE
  BY <1>1, Names
<1>4. Typed
  <2>1. command = [action |-> command.action, reply |-> command.reply]
    BY <1>1 DEF NoCommand
  <2>2. /\ exit = NoExit /\ session \in {"offline", "expected", "foreign"}
        /\ file \in {"verified", "replaced"} /\ ctx = "live" /\ trusted \in BOOLEAN
        /\ {tainted, late, owned, finalOffline, canceled, err} \subseteq BOOLEAN
    BY DEF Init
  <2>3. pc \in PCs /\ cleanups \in 0..2
    BY <1>1 DEF PCs
  <2> QED
    BY <1>2, <1>3, <2>1, <2>2, <2>3 DEF Typed
<1>5. CommandPart
  BY <1>1 DEF CommandPart, Loop
<1>6. PrefixPart
  BY <1>1, <1>2, <1>3 DEF Init, PrefixPart, Reached
<1>7. LoopPart
  BY <1>1, <1>2 DEF Init, LoopPart, Loop, Closing
<1>8. SessionPart
  BY <1>1, ActionNames DEF Init, SessionPart, NoCommand, Actions
<1>9. EvidencePart
  BY <1>1 DEF Init, EvidencePart, EvidenceBindsCandidate, Closing, NoExit
<1> QED
  BY <1>4, <1>5, <1>6, <1>7, <1>8, <1>9 DEF IInv

\* Every step keeps the invariant.
LEMMA GateInductive == IInv /\ [Next]_vars => IInv'
<1> SUFFICES ASSUME IInv, [Next]_vars PROVE IInv'
  OBVIOUS
<1>1. Typed /\ CommandPart /\ PrefixPart /\ LoopPart /\ SessionPart /\ EvidencePart
  BY DEF IInv
<1>2. CASE PrimaryCanceled \/ PrimaryStep \/ QRLoginEnded \/ QRStatusShown
  BY <1>1, <1>2, LoopKeeps, RunSparesEvidence DEF IInv
<1>3. CASE CleanupStep \/ CleanupExpired
  BY <1>1, <1>3, CleanupKeeps, RunSparesEvidence DEF IInv
<1>4. CASE InvokeProfileShow \/ InvokePrimary \/ InvokeCleanup
  BY <1>1, <1>4, InvokeKeeps, RunSparesEvidence DEF IInv
<1>5. CASE Cancel \/ ReplaceCandidate \/ CandidateEnds \/ CandidateKilled \/ DeadlinePasses
  BY <1>1, <1>5, SurroundingsKeep, RunSparesEvidence DEF IInv
<1>6. CASE \/ GiveUp \/ Admit \/ ProfileShown
           \/ VerifyAfter \/ PublishCommits \/ PublishFails \/ PublishWithdrawn \/ Report
  BY <1>1, <1>6, DecisionsKeep, DecisionsBindEvidence DEF IInv
<1>7. CASE UNCHANGED vars
  <2>1. /\ UNCHANGED << request, trusted, session, file, tainted, ctx, pc, command, late >>
        /\ UNCHANGED << index, steps, owned, finalOffline, canceled, err, cleanups >>
        /\ UNCHANGED << bundle, exit >>
    BY <1>7 DEF vars, gateVars, runVars
  <2>2. Primary' = Primary /\ Evidence' = Evidence
    BY <2>1, SameEvidence DEF Primary
  <2>3. Typed' /\ CommandPart'
    BY <1>1, <2>1, <2>2 DEF Typed, CommandPart
  <2>4. PrefixPart' /\ LoopPart'
    BY <1>1, <2>1, <2>2 DEF PrefixPart, LoopPart, Reached, Due, Interrupted
  <2>5. SessionPart' /\ EvidencePart'
    BY <1>1, <2>1, <2>2 DEF SessionPart, EvidencePart, EvidenceBindsCandidate
  <2> QED
    BY <2>3, <2>4, <2>5 DEF IInv
<1> QED
  BY <1>2, <1>3, <1>4, <1>5, <1>6, <1>7 DEF Next, GateStep, Ended

(* What is recorded at every point of the run, see IInv.                   *)
THEOREM GateInvariant == Spec => []IInv
BY GateInit, GateInductive, PTL DEF Spec

-----------------------------------------------------------------------------
(* What the invariant gives.                                               *)

(* Type correctness: the session, the candidate on disk, the recorded      *)
(* steps and the exit code are what the run and the schema allow.          *)
THEOREM GateTypeCorrect == Spec => []TypeOK
<1>1. IInv => TypeOK
  <2> SUFFICES ASSUME Typed PROVE TypeOK
    BY DEF IInv
  <2>1. \A i \in DOMAIN steps : ValidStep(steps[i])
    <3>1. \A i \in DOMAIN steps : steps[i] \in Steps
      BY DEF Typed
    <3> QED
      BY <3>1 DEF Steps
  <2>2. {tainted, late, owned, finalOffline, canceled, err} \subseteq BOOLEAN
    BY DEF Typed
  <2> QED
    BY <2>1, <2>2 DEF Typed, TypeOK, Primary
<1> QED
  BY <1>1, GateInvariant, PTL

\* The step at which the schema cuts the primary steps is the one at index.
LEMMA CutAtIndex ==
  ASSUME Typed, PrefixPart, Interrupted
  PROVE  PrimaryPrefix(request.suite, steps) = index
<1> DEFINE stops == {i \in DOMAIN steps \cap (1..Len(Primary)) : steps[i].result # "pass"}
<1>1. /\ index \in 1..Len(Primary) /\ Len(Primary) \in Nat /\ cleanups \in 0..2
      /\ DOMAIN steps = 1..Len(steps) /\ Len(steps) = index + cleanups
  BY Names DEF Typed, Interrupted
<1>2. index \in stops
  BY <1>1 DEF Interrupted
<1>3. \A i \in stops : i \in Nat /\ index <= i
  <2> SUFFICES ASSUME NEW i \in stops, i < index PROVE FALSE
    BY <1>1
  <2>1. i \in 1..(index - 1)
    BY <1>1
  <2> QED
    BY <2>1 DEF PrefixPart
<1>4. PrimaryPrefix(request.suite, steps) = CHOOSE i \in stops : \A j \in stops : i <= j
  BY <1>2 DEF PrimaryPrefix, Primary
<1> HIDE DEF stops
<1>5. \A i \in stops : (\A j \in stops : i <= j) => i = index
  BY <1>1, <1>2, <1>3
<1> QED
  BY <1>2, <1>3, <1>4, <1>5

\* In the primary steps up to that one, what has passed is what was reached.
LEMMA PassedBeforeIndex ==
  ASSUME Typed, PrefixPart, Interrupted, NEW name
  PROVE  StepPassed(SubSeq(steps, 1, index), name) <=> Reached(name)
<1>1. /\ index \in 1..Len(Primary) /\ Len(Primary) \in Nat /\ cleanups \in 0..2
      /\ steps \in Seq(Steps) /\ Len(steps) = index + cleanups
  BY Names DEF Typed, Interrupted
<1> DEFINE prefix == SubSeq(steps, 1, index)
<1>2. DOMAIN prefix = 1..index /\ \A i \in 1..index : prefix[i] = steps[i]
  BY <1>1
<1> HIDE DEF prefix
<1>3. \A i \in 1..index : i \in 1..(index - 1) \/ i = index
  BY <1>1
<1>4. \A i \in 1..(index - 1) : i \in 1..index
  BY <1>1
<1>5. \A i \in 1..(index - 1) : steps[i].name = Primary[i] /\ steps[i].result = "pass"
  BY DEF PrefixPart
<1>6. steps[index].result # "pass"
  BY DEF Interrupted
<1>7. StepPassed(prefix, name) <=> Reached(name)
  BY <1>2, <1>3, <1>4, <1>5, <1>6 DEF StepPassed, Reached
<1> QED
  BY <1>7 DEF prefix

(* The runner and the evidence schema, written apart, agree: whatever the  *)
(* candidate answers, the steps of a run that ends without cancellation    *)
(* and without a runner error are a sequence the schema accepts.           *)
THEOREM RunnerAgreesWithSchema == Spec => []EvidenceAgreesWithSchema
<1>1. IInv => EvidenceAgreesWithSchema
  <2> SUFFICES ASSUME IInv, pc = "after", ~canceled, ~err
               PROVE  validateStepSequence(request.suite, RunResult, steps)
    BY DEF EvidenceAgreesWithSchema
  <2>1. Typed /\ PrefixPart /\ LoopPart
    BY DEF IInv
  <2>2. request.suite \in Suites
    BY <2>1 DEF LoopPart, validMatrix, Suites
  <2>3. \A i \in DOMAIN steps : ValidStep(steps[i])
    <3>1. \A i \in DOMAIN steps : steps[i] \in Steps
      BY <2>1 DEF Typed
    <3> QED
      BY <3>1 DEF Steps
  <2>4. CASE index = Len(Primary) + 1 /\ Len(steps) = Len(Primary)
    <3>1. Len(Primary) \in Nat /\ DOMAIN steps = 1..Len(Primary)
      BY <2>1, <2>4, Names DEF Typed
    <3>2. RunResult = "pass"
      BY <2>4, <3>1 DEF RunResult, Primary
    <3>3. index - 1 = Len(Primary)
      BY <2>4, <3>1
    <3>4. \A i \in DOMAIN steps : steps[i].name = Primary[i] /\ steps[i].result = "pass"
      BY <2>1, <3>1, <3>3 DEF PrefixPart
    <3> QED
      BY <2>2, <2>3, <2>4, <3>2, <3>4 DEF validateStepSequence, Primary
  <2>5. CASE Interrupted
    <3>1. /\ index \in 1..Len(Primary) /\ Len(Primary) \in Nat
          /\ Len(steps) = index + (IF Due THEN 2 ELSE 0)
      BY <2>1, <2>5, Names DEF Typed, Interrupted, LoopPart
    <3>2. RunResult = aggregateNonPass(steps) /\ RunResult \in {"fail", "blocked"}
      BY <3>1 DEF RunResult, aggregateNonPass, Primary
    <3>3. PrimaryPrefix(request.suite, steps) = index
      BY <2>1, <2>5, CutAtIndex
    <3>4. /\ StepPassed(SubSeq(steps, 1, index), "status_online")
          /\ ~StepPassed(SubSeq(steps, 1, index), "final_status_offline")
          <=> Due
      BY <2>1, <2>5, PassedBeforeIndex DEF PrefixPart, Due
    <3>5. \A i \in 1..index : steps[i].name = Primary[i]
      <4>1. \A i \in 1..index : i \in 1..(index - 1) \/ i = index
        BY <3>1
      <4> QED
        BY <2>1, <2>5, <4>1 DEF PrefixPart, Interrupted
    <3>6. Due => \A i \in 1..2 : steps[index + i].name = CleanupSteps[i]
      BY <2>1, <2>5 DEF Interrupted, LoopPart
    <3>7. index > 0 /\ steps[index].result # "pass"
      BY <2>5, <3>1 DEF Interrupted
    <3> QED
      BY <2>2, <2>3, <3>1, <3>2, <3>3, <3>4, <3>5, <3>6, <3>7
      DEF validateStepSequence, aggregateNonPass, Primary
  <2> QED
    BY <2>1, <2>4, <2>5 DEF LoopPart
<1> QED
  BY <1>1, GateInvariant, PTL

(* Once the run has proven the expected identity online, it does not end   *)
(* with that session left online unless both cleanup commands are through. *)
THEOREM ProvenIsReleased == Spec => []ProvenSessionIsReleased
<1>1. IInv => ProvenSessionIsReleased
  <2> SUFFICES ASSUME Typed, PrefixPart, LoopPart, SessionPart, pc = "done", trusted,
                      StepPassed(steps, "status_online"), session = "expected"
               PROVE  cleanups = Len(CleanupSteps)
    BY DEF IInv, ProvenSessionIsReleased
  <2>1. PICK i \in DOMAIN steps : steps[i].name = "status_online" /\ steps[i].result = "pass"
    BY DEF StepPassed
  <2>2. i \in Nat \ {0} /\ index \in Nat
    BY DEF Typed
  <2>3. i < index
    <3> SUFFICES ASSUME i >= index PROVE FALSE
      BY <2>2
    <3>1. \E j \in 1..2 : steps[i].name = CleanupSteps[j]
      BY <2>1 DEF PrefixPart
    <3> QED
      BY <2>1, <3>1, CleanupTable
  <2>4. owned
    <3>1. i \in 1..(index - 1)
      BY <2>2, <2>3
    <3> QED
      BY <2>1, <3>1 DEF PrefixPart, Reached
  <2>5. ~finalOffline
    BY DEF SessionPart
  <2> QED
    BY <2>4, <2>5, CleanupTable DEF LoopPart, Due
<1> QED
  BY <1>1, GateInvariant, PTL

(* Evidence on disk was produced by the verified candidate alone and makes *)
(* the claim of the exit code; a failure or a cancellation leaves none.    *)
THEOREM EvidenceIsBound == Spec => []EvidenceBindsCandidate
<1>1. IInv => EvidenceBindsCandidate
  BY DEF IInv, EvidencePart
<1> QED
  BY <1>1, GateInvariant, PTL

\* Nothing but the end of a candidate changes the session.
LEMMA SessionSteps ==
  ASSUME [Next]_vars, session' # session
  PROVE  CandidateEnds \/ CandidateKilled
<1>1. ASSUME UNCHANGED vars PROVE FALSE
  BY <1>1 DEF vars
<1>2. ASSUME Cancel \/ ReplaceCandidate \/ DeadlinePasses PROVE FALSE
  BY <1>2 DEF Cancel, ReplaceCandidate, DeadlinePasses
<1>3. ASSUME \/ GiveUp \/ Admit \/ ProfileShown \/ VerifyAfter
             \/ PublishCommits \/ PublishFails \/ PublishWithdrawn \/ Report
      PROVE  FALSE
  BY <1>3 DEF GiveUp, Admit, ProfileShown, VerifyAfter, PublishCommits, PublishFails,
              PublishWithdrawn, Report
<1>4. ASSUME InvokeProfileShow \/ InvokePrimary \/ InvokeCleanup PROVE FALSE
  BY <1>4 DEF InvokeProfileShow, InvokePrimary, InvokeCleanup
<1>5. ASSUME PrimaryCanceled PROVE FALSE
  BY <1>5 DEF PrimaryCanceled
<1>6. ASSUME PrimaryStep PROVE FALSE
  BY <1>6 DEF PrimaryStep
<1>7. ASSUME QRLoginEnded PROVE FALSE
  BY <1>7 DEF QRLoginEnded
<1>8. ASSUME QRStatusShown PROVE FALSE
  BY <1>8 DEF QRStatusShown
<1>9. ASSUME CleanupStep \/ CleanupExpired PROVE FALSE
  BY <1>9 DEF CleanupStep, CleanupExpired, CleanupDone
<1> QED
  BY <1>1, <1>2, <1>3, <1>4, <1>5, <1>6, <1>7, <1>8, <1>9 DEF Next, GateStep, Ended

(* A session the run finds in place under another identity is never ended  *)
(* by it: no logout is sent before the run knows the session to be its own.*)
THEOREM ForeignIsKept == Spec => ForeignSessionKept
<1> DEFINE Kept == trusted /\ session = "foreign" => session' = "foreign"
<1>1. 1 \in 1..Len(Primary)
  <2>1. Len(Primary) \in {5, 7}
    BY Names
  <2> QED
    BY <2>1
<1>2. IInv /\ [Next]_vars => [Kept]_vars
  <2> SUFFICES ASSUME IInv, [Next]_vars, trusted, session = "foreign",
                      session' # "foreign"
               PROVE  FALSE
    OBVIOUS
  <2>1. Typed /\ CommandPart /\ PrefixPart /\ LoopPart /\ SessionPart
    BY DEF IInv
  <2>2. Underway /\ \E end \in Ends(command.action) : session' = end[2]
    BY SessionSteps DEF CandidateEnds, CandidateKilled
  <2>3. PICK end \in TrueEnds(command.action, session) : session' = end[2]
    BY <2>2 DEF Ends
  <2>4. /\ command.action \in Actions
        /\ pc \in {"profile", "cleanup"} \cup Loop
    BY <2>1, <2>2, Running DEF Underway
  <2>5. index = 1 /\ ~owned
    <3>1. index = 1 /\ index \in 1..(Len(Primary) + 1)
      BY <2>1 DEF SessionPart, Typed
    <3> QED
      BY <2>1, <3>1, Milestones DEF PrefixPart, Reached
  <2>6. pc \in {"profile", "primary"}
    BY <2>1, <2>4, <2>5 DEF LoopPart, Loop, Due
  <2>7. command.action \notin LogoutActions
    <3>1. command.action \in {"none", "profile", "initial_status"}
      BY <1>1, <2>1, <2>5, <2>6, Commands DEF CommandPart
    <3> QED
      BY <3>1 DEF LogoutActions
  <2>8. session \in {"offline", "expected", "foreign"}
    BY <2>1 DEF Typed
  <2> QED
    BY <2>3, <2>4, <2>7, <2>8, Truth
<1> QED
  BY <1>2, GateInvariant, PTL DEF Spec, ForeignSessionKept
=============================================================================
