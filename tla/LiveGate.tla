------------------------------ MODULE LiveGate ------------------------------
(***************************************************************************)
(* One run of the live gate (internal/livegate, execute.go and runner.go): *)
(* admit the request and the candidate file, check the profile, run the    *)
(* suite's commands one candidate process after the other, clean up a      *)
(* session the run has proven to be its own, look at the candidate again   *)
(* and publish the evidence.                                               *)
(*                                                                         *)
(* Around the gate move: the maintainer, who may cancel at any time; the   *)
(* candidate, which may answer, answer nonsense or hang; the clock of the  *)
(* cleanup deadlines; whoever replaces the candidate file; and the campus  *)
(* session the commands act on.  The testbed is the run's own for its      *)
(* whole window (docs/operations/live-validation.md:119), so nobody else   *)
(* changes the session.                                                    *)
(***************************************************************************)
EXTENDS LiveGateObservations

CONSTANTS
    Requests,   \* the invocations the gate may be started with
    Replies     \* the ends an untrusted candidate process may come to

NoExit == -1
Pending == [exit |-> NoExit]
Killed  == [exit |-> NoExit, killed |-> TRUE]
NoCommand == [action |-> "none", reply |-> Pending]
NoBundle == [result |-> "none"]

VARIABLES
    request,     \* the parsed options and the terminals the gate was given
    trusted,     \* whether the candidate reports what really happened
    session,     \* the campus session: "offline", "expected" or "foreign"
    file,        \* the candidate on disk: "verified" or "replaced"
    tainted,     \* a replaced candidate has been run
    ctx,         \* the gate's context: "live" or "canceled"
    pc,          \* where Execute is
    command,     \* the candidate process under way and its end
    late,        \* the deadline of the cleanup command has passed
    index,       \* the next primary step
    steps,       \* the evidence steps so far
    owned,       \* cleanupOwned
    finalOffline,
    canceled,    \* StateMachine.Run returned canceled
    err,         \* StateMachine.Run returned an error
    cleanups,    \* cleanup steps the runner is through with
    bundle,      \* the evidence on disk
    exit         \* the gate's exit code

gateVars == << request, trusted, tainted >>
runVars  == << index, steps, owned, finalOffline, canceled, err, cleanups >>
vars == << gateVars, runVars, session, file, ctx, pc, command, late, bundle, exit >>

-----------------------------------------------------------------------------
(* What a candidate that tells the truth may report.                       *)

Success(s, user, outcome) ==
    [exit |-> 0, envelope |-> "success", code |-> NoCode, session |-> s,
     user |-> user, outcome |-> outcome, provider |-> "prompt"]

Failure(code, errorCode) ==
    [Success(NoField, NoField, NoField) EXCEPT !.exit = code,
        !.envelope = "failure", !.code = errorCode]

Reported(s) == IF s = "offline" THEN "offline" ELSE "online"
User(s) == CASE s = "offline" -> Blank [] s = "expected" -> "expected" [] OTHER -> "other"

NetworkFailure == Failure(3, "network")

(* Pairs of a reply and the session it leaves.  A command that fails may   *)
(* still have taken effect.                                                *)
TrueEnds(action, s) ==
    CASE action = "profile" ->
            {<< Success("offline", "expected", NoField), s >>}
      [] action \in StatusActions ->
            {<< Success(Reported(s), User(s), NoField), s >>,
             << Success("unknown", Blank, NoField), s >>, << NetworkFailure, s >>}
      [] action \in LoginActions \cup {"qr_login"} /\ s = "foreign" ->
            {<< Failure(5, "session_conflict"), s >>}
      [] action \in LoginActions \cup {"qr_login"} /\ s = "expected" ->
            {<< Success("online", "expected", "already_online"), s >>}
      [] action = "second_password_login" /\ s = "offline" ->
            {<< Failure(7, "interaction_required"), s >>}
      [] action \in {"password_login", "qr_login"} /\ s = "offline" ->
            {<< Success("online", "expected", "logged_in"), "expected" >>,
             << Success("unknown", Blank, "logged_in"), "expected" >>,
             << NetworkFailure, s >>, << NetworkFailure, "expected" >>}
      [] action \in LogoutActions /\ s = "offline" ->
            {<< Success("offline", Blank, "already_offline"), s >>, << NetworkFailure, s >>}
      [] action \in LogoutActions /\ s # "offline" ->
            {<< Success("offline", Blank, "logged_out"), "offline" >>,
             << NetworkFailure, s >>, << NetworkFailure, "offline" >>}

Ends(action) ==
    IF trusted THEN TrueEnds(action, session) ELSE Replies \X {session}

-----------------------------------------------------------------------------
(* Admission: the terminals the suite needs, the matrix, the paths.        *)

validTerminalBoundary(r) ==
    {"stdin", "stderr"} \cup (IF r.suite = "terminal_qr" THEN {"stdout"} ELSE {})
        \subseteq r.terminals

validLiveGatePreflight(r) == r.paths = "valid" /\ validMatrix(r)

Admissible(r) ==
    r.args = "valid" /\ validTerminalBoundary(r) /\ validLiveGatePreflight(r)

buildLiveGateEvidence(result) ==
    [platform |-> request.platform, testbed |-> request.testbed,
     network |-> request.network, suite |-> request.suite, result |-> result,
     before |-> CapabilityBefore(request.suite),
     after |-> CapabilityAfter(request.suite, result), steps |-> steps]

gateExitForResult(result) ==
    CASE result = "pass" -> 0 [] result = "fail" -> 10 [] result = "blocked" -> 11

(* StateMachine.Run's result.                                              *)
RunResult ==
    IF index > Len(PrimarySteps(request.suite)) /\ ~canceled /\ ~err
    THEN "pass" ELSE aggregateNonPass(steps)

Init ==
    /\ request \in Requests
    /\ trusted \in BOOLEAN    \* what an untrusted one does to the session is left open
    /\ session \in {"offline"} \cup (IF trusted THEN {"foreign"} ELSE {})
    /\ file \in {"verified", "replaced"}
    /\ tainted = FALSE
    /\ ctx = "live"
    /\ pc = "admit"
    /\ command = NoCommand
    /\ late = FALSE
    /\ index = 1
    /\ steps = << >>
    /\ owned = FALSE /\ finalOffline = FALSE
    /\ canceled = FALSE /\ err = FALSE
    /\ cleanups = 0
    /\ bundle = NoBundle
    /\ exit = NoExit

-----------------------------------------------------------------------------
(* The surroundings.                                                       *)

Cancel ==
    /\ ctx = "live" /\ pc # "done"
    /\ ctx' = "canceled"
    /\ UNCHANGED << gateVars, runVars, session, file, pc, command, late, bundle, exit >>

(* The file's identity, change time and hash are compared, so a file put   *)
(* back is a replaced file too.                                            *)
ReplaceCandidate ==
    /\ file = "verified" /\ pc # "done"
    /\ file' = "replaced"
    /\ UNCHANGED << gateVars, runVars, session, ctx, pc, command, late, bundle, exit >>

Underway == command.action # "none" /\ command.reply = Pending

CandidateEnds ==
    /\ Underway
    /\ \E end \in Ends(command.action) :
          /\ command' = [command EXCEPT !.reply = end[1]]
          /\ session' = end[2]
    /\ UNCHANGED << gateVars, runVars, file, ctx, pc, late, bundle, exit >>

(* Mutant: cleanup commands run under a context that never ends.           *)
CandidateKilled_Mutant ==
    /\ Underway
    /\ pc # "cleanup" /\ ctx = "canceled"
    /\ command' = [command EXCEPT !.reply = Killed]
    /\ \/ UNCHANGED session
       \/ \E end \in Ends(command.action) : session' = end[2]
    /\ UNCHANGED << gateVars, runVars, file, ctx, pc, late, bundle, exit >>

(* The context a process was started under kills it: the gate's own, or    *)
(* for a cleanup command only the deadline.                                *)
CandidateKilled ==
    /\ Underway
    /\ IF pc = "cleanup" THEN late ELSE ctx = "canceled"
    /\ command' = [command EXCEPT !.reply = Killed]
    /\ \/ UNCHANGED session
       \/ \E end \in Ends(command.action) : session' = end[2]
    /\ UNCHANGED << gateVars, runVars, file, ctx, pc, late, bundle, exit >>

DeadlinePasses ==
    /\ pc = "cleanup" /\ command.action # "none" /\ ~late
    /\ late' = TRUE
    /\ UNCHANGED << gateVars, runVars, session, file, ctx, pc, command, bundle, exit >>

-----------------------------------------------------------------------------
(* Execute, up to the first command of the suite.                          *)

Idle == command = NoCommand
Answered == command.action # "none" /\ command.reply # Pending

(* The exit code when the context is looked at last.                       *)
Finish(code) ==
    /\ pc' = "done"
    /\ exit' = IF ctx = "canceled" THEN 130 ELSE code

Invoke(action) ==
    /\ command' = [action |-> action, reply |-> Pending]
    /\ late' = FALSE
    /\ tainted' = (tainted \/ file = "replaced")

(* A canceled context is noticed before the next thing is tried.           *)
GiveUp ==
    /\ pc \in {"admit", "profile", "publish"} /\ Idle
    /\ ctx = "canceled"
    /\ Finish(130)
    /\ UNCHANGED << gateVars, runVars, session, file, ctx, command, late, bundle >>

Admit ==
    /\ pc = "admit" /\ ctx = "live"
    /\ IF Admissible(request) /\ file = "verified"
       THEN pc' = "profile" /\ UNCHANGED exit
       ELSE Finish(12)
    /\ UNCHANGED << gateVars, runVars, session, file, ctx, command, late, bundle >>

InvokeProfileShow ==
    /\ pc = "profile" /\ Idle /\ ctx = "live"
    /\ Invoke("profile")
    /\ UNCHANGED << request, trusted, runVars, session, file, ctx, pc, bundle, exit >>

ProfileShown ==
    /\ pc = "profile" /\ Answered
    /\ command' = NoCommand
    /\ LET verdict == PrepareProfile(request.suite, command.reply)
       IN  IF ctx = "live" /\ verdict = "ok"
           THEN pc' = "primary" /\ UNCHANGED exit
           ELSE Finish(IF file = "replaced" THEN 13
                       ELSE IF verdict = "fault" THEN 14 ELSE 12)
    /\ UNCHANGED << gateVars, runVars, session, file, ctx, late, bundle >>

-----------------------------------------------------------------------------
(* StateMachine.Run: the primary sequence.                                 *)

(* Where the loop goes when it stops before the end of the sequence.       *)
LeaveLoop == pc' = IF owned' /\ ~finalOffline' THEN "cleanup" ELSE "after"

(* Mutant: a cancellation leaves without cleaning up.                      *)
StopCanceled_Mutant ==
    /\ canceled' = TRUE
    /\ UNCHANGED << index, steps, owned, finalOffline, err >>
    /\ pc' = "after"

StopCanceled ==
    /\ canceled' = TRUE
    /\ UNCHANGED << index, steps, owned, finalOffline, err >>
    /\ LeaveLoop

StopFaulty ==
    /\ err' = TRUE
    /\ UNCHANGED << index, steps, owned, finalOffline, canceled >>
    /\ LeaveLoop

(* Mutant: the loop goes on after a step that did not pass.                *)
Record_Mutant(recorded) ==
    /\ steps' = steps \o recorded
    /\ owned' = (owned \/ StepPassed(recorded, "status_online"))
    /\ finalOffline' = (finalOffline \/ StepPassed(recorded, "final_status_offline"))
    /\ UNCHANGED << canceled, err >>
    /\ index' = index + Len(recorded)
    /\ pc' = IF index' > Len(PrimarySteps(request.suite)) THEN "after" ELSE "primary"

(* Mutant: every step advances the sequence as the QR pair does.           *)
Record_PairMutant(recorded) ==
    /\ steps' = steps \o recorded
    /\ owned' = (owned \/ StepPassed(recorded, "status_online"))
    /\ finalOffline' = (finalOffline \/ StepPassed(recorded, "final_status_offline"))
    /\ UNCHANGED << canceled, err >>
    /\ IF \A i \in DOMAIN recorded : recorded[i].result = "pass"
       THEN /\ index' = index + 2
            /\ pc' = IF index' > Len(PrimarySteps(request.suite))
                     THEN "after" ELSE "primary"
       ELSE UNCHANGED index /\ LeaveLoop

(* Append what a step recorded; go on only if all of it passed.            *)
Record(recorded) ==
    LET passed(name) == StepPassed(recorded, name)
    IN  /\ steps' = steps \o recorded
        /\ owned' = (owned \/ passed("status_online"))
        /\ finalOffline' = (finalOffline \/ passed("final_status_offline"))
        /\ UNCHANGED << canceled, err >>
        /\ IF \A i \in DOMAIN recorded : recorded[i].result = "pass"
           THEN /\ index' = index + Len(recorded)
                /\ pc' = IF index' > Len(PrimarySteps(request.suite))
                         THEN "after" ELSE "primary"
           ELSE UNCHANGED index /\ LeaveLoop

InvokePrimary ==
    /\ pc \in {"primary", "pair"} /\ Idle /\ ctx = "live"
    /\ Invoke(IF pc = "pair" THEN "status_online"
              ELSE Action(PrimarySteps(request.suite)[index]))
    /\ UNCHANGED << request, trusted, runVars, session, file, ctx, pc, bundle, exit >>

PrimaryCanceled ==
    /\ pc \in {"primary", "pair"} /\ ctx = "canceled"
    /\ Idle \/ Answered
    /\ StopCanceled
    /\ command' = NoCommand
    /\ UNCHANGED << gateVars, session, file, ctx, late, cleanups, bundle, exit >>

(* executeStep and the loop's reaction to it.                              *)
PrimaryStep ==
    /\ pc = "primary" /\ Answered /\ ctx = "live"
    /\ command.action # "qr_login"
    /\ LET obs  == Observe(command.action, command.reply)
           step == stepFromObservation(PrimarySteps(request.suite)[index], obs)
       IN  IF obs.fault \/ ~ValidStep(step)
           THEN StopFaulty ELSE Record(<< step >>)
    /\ command' = NoCommand
    /\ UNCHANGED << gateVars, session, file, ctx, late, cleanups, bundle, exit >>

(* executeQRPair: the terminal login, then at once the status.             *)
QRLoginEnded ==
    /\ pc = "primary" /\ Answered /\ ctx = "live"
    /\ command.action = "qr_login"
    /\ LET obs == Observe("qr_login", command.reply)
       IN  CASE obs.fault -> StopFaulty
             [] ~obs.fault /\ obs.exit # 0 ->
                    Record(<< stepFromObservation("qr_login_logged_in", obs) >>)
             [] ~obs.fault /\ obs.exit = 0 ->
                    /\ pc' = "pair"
                    /\ UNCHANGED << index, steps, owned, finalOffline, canceled, err >>
    /\ command' = NoCommand
    /\ UNCHANGED << gateVars, session, file, ctx, late, cleanups, bundle, exit >>

QRStatusShown ==
    /\ pc = "pair" /\ Answered /\ ctx = "live"
    /\ LET obs == Observe("status_online", command.reply)
       IN  IF obs.fault THEN StopFaulty ELSE Record(QRPairSteps(QRStatusStep(obs)))
    /\ command' = NoCommand
    /\ UNCHANGED << gateVars, session, file, ctx, late, cleanups, bundle, exit >>

-----------------------------------------------------------------------------
(* StateMachine.Run: cleanup, each command under a deadline of its own.    *)

CleanupDone(recorded, failed) ==
    /\ steps' = steps \o recorded
    /\ err' = (err \/ failed)
    /\ cleanups' = cleanups + 1
    /\ pc' = IF cleanups' = Len(CleanupSteps) THEN "after" ELSE "cleanup"
    /\ command' = NoCommand /\ late' = FALSE
    /\ UNCHANGED << gateVars, session, file, ctx, bundle, exit,
                    index, owned, finalOffline, canceled >>

InvokeCleanup ==
    /\ pc = "cleanup" /\ Idle
    /\ Invoke(Action(CleanupSteps[cleanups + 1]))
    /\ UNCHANGED << request, trusted, runVars, session, file, ctx, pc, bundle, exit >>

CleanupStep ==
    /\ pc = "cleanup" /\ Answered
    /\ LET obs  == IF late THEN cleanupTimeoutObservation
                   ELSE Observe(command.action, command.reply)
           step == stepFromObservation(CleanupSteps[cleanups + 1], obs)
       IN  IF obs.fault \/ ~ValidStep(step)
           THEN CleanupDone(<< >>, TRUE) ELSE CleanupDone(<< step >>, FALSE)

(* The deadline was over before the command could be started.              *)
CleanupExpired ==
    /\ pc = "cleanup" /\ Idle
    /\ CleanupDone(<< stepFromObservation(CleanupSteps[cleanups + 1],
                                          cleanupTimeoutObservation) >>, FALSE)

-----------------------------------------------------------------------------
(* Execute, after the state machine.                                       *)

(* Mutant: the candidate is not looked at again.                           *)
VerifyAfter_Mutant ==
    /\ pc = "after"
    /\ LET refusal == CASE canceled -> 130
                        [] ~canceled /\ err -> 14
                        [] OTHER -> IF ValidEvidence(buildLiveGateEvidence(RunResult))
                                    THEN NoExit ELSE 13
       IN  IF refusal = NoExit /\ ctx = "live"
           THEN pc' = "publish" /\ UNCHANGED exit
           ELSE Finish(refusal)
    /\ UNCHANGED << gateVars, runVars, session, file, ctx, command, late, bundle >>

(* Cancellation first, then the candidate, then the runner's error, then   *)
(* the schema.                                                             *)
VerifyAfter ==
    /\ pc = "after"
    /\ LET refusal == CASE canceled -> 130
                        [] ~canceled /\ file = "replaced" -> 13
                        [] ~canceled /\ file # "replaced" /\ err -> 14
                        [] OTHER -> IF ValidEvidence(buildLiveGateEvidence(RunResult))
                                    THEN NoExit ELSE 13
       IN  IF refusal = NoExit /\ ctx = "live"
           THEN pc' = "publish" /\ UNCHANGED exit
           ELSE Finish(refusal)
    /\ UNCHANGED << gateVars, runVars, session, file, ctx, command, late, bundle >>

(* Publication, seen as one step: EvidenceBundle has its detail.           *)
PublishCommits ==
    /\ pc = "publish" /\ ctx = "live"
    /\ bundle' = buildLiveGateEvidence(RunResult)
    /\ pc' = "committed"
    /\ UNCHANGED << gateVars, runVars, session, file, ctx, command, late, exit >>

PublishFails ==
    /\ pc = "publish"
    /\ Finish(13)
    /\ UNCHANGED << gateVars, runVars, session, file, ctx, command, late, bundle >>

(* A failure after the commit withdraws the bundle before it is reported.  *)
PublishWithdrawn ==
    /\ pc = "committed"
    /\ bundle' = NoBundle
    /\ Finish(13)
    /\ UNCHANGED << gateVars, runVars, session, file, ctx, command, late >>

(* After the commit a cancellation is no longer looked at.                 *)
Report ==
    /\ pc = "committed"
    /\ pc' = "done"
    /\ exit' = gateExitForResult(bundle.result)
    /\ UNCHANGED << gateVars, runVars, session, file, ctx, command, late, bundle >>

GateStep ==
    \/ GiveUp \/ Admit \/ InvokeProfileShow \/ ProfileShown
    \/ InvokePrimary \/ PrimaryCanceled \/ PrimaryStep \/ QRLoginEnded \/ QRStatusShown
    \/ InvokeCleanup \/ CleanupStep \/ CleanupExpired
    \/ VerifyAfter \/ PublishCommits \/ PublishFails \/ PublishWithdrawn \/ Report

Ended == pc = "done" /\ UNCHANGED vars

Next ==
    \/ GateStep \/ Ended
    \/ Cancel \/ ReplaceCandidate
    \/ CandidateEnds \/ CandidateKilled \/ DeadlinePasses

(* The gate runs, time passes, and a process whose context is over is      *)
(* killed and reaped.  Nobody promises that a candidate ends by itself.    *)
Fairness ==
    /\ WF_vars(GateStep)
    /\ WF_vars(CandidateKilled)
    /\ WF_vars(DeadlinePasses)

Spec == Init /\ [][Next]_vars /\ Fairness

-----------------------------------------------------------------------------
TypeOK ==
    /\ session \in {"offline", "expected", "foreign"}
    /\ file \in {"verified", "replaced"}
    /\ ctx \in {"live", "canceled"}
    /\ index \in 1 .. Len(PrimarySteps(request.suite)) + 1
    /\ cleanups \in 0 .. 2
    /\ \A i \in DOMAIN steps : ValidStep(steps[i])
    /\ {tainted, late, owned, finalOffline, canceled, err} \subseteq BOOLEAN
    /\ exit \in {NoExit, 0, 10, 11, 12, 13, 14, 130}

(* Whatever the candidate answers, the steps of a run that ends without    *)
(* cancellation and without a runner error are a sequence the evidence     *)
(* schema accepts: the two tables of steps, the two statements of when     *)
(* cleanup is due and the two derivations of the overall result, written   *)
(* once in runner.go and once in schema.go, agree.                         *)
EvidenceAgreesWithSchema ==
    pc = "after" /\ ~canceled /\ ~err
        => validateStepSequence(request.suite, RunResult, steps)

(* Once the run has proven the expected identity online, it does not end   *)
(* with that session left online unless it has been through both cleanup   *)
(* commands: neither a cancellation, a runner fault, a failed first        *)
(* cleanup command nor its deadline skips one.                             *)
ProvenSessionIsReleased ==
    /\ pc = "done" /\ trusted
    /\ StepPassed(steps, "status_online")
    /\ session = "expected"
    => cleanups = Len(CleanupSteps)

(* Evidence on disk was produced by the verified candidate alone, its      *)
(* claim is the one the exit code makes, and every exit code that stands   *)
(* for a failure or a cancellation leaves no evidence.                     *)
EvidenceBindsCandidate ==
    /\ bundle # NoBundle => ~tainted /\ ValidEvidence(bundle)
    /\ pc = "done" => (exit \in {0, 10, 11} <=> bundle # NoBundle)

(* A session the run finds in place under another identity is never ended  *)
(* by it: the gate stops at the initial status and no logout is sent.      *)
ForeignSessionKept ==
    [][trusted /\ session = "foreign" => session' = "foreign"]_vars

(* A canceled gate ends, also when the candidate it is waiting for never   *)
(* does, and also when the session is cleaned up after the cancellation.   *)
CancelEndsTheGate == ctx = "canceled" ~> pc = "done"
=============================================================================
