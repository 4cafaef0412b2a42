------------------------ MODULE LiveGateObservations ------------------------
(***************************************************************************)
(* How the live gate turns what a candidate process did into an evidence   *)
(* step (internal/livegate, process.go and runner.go).  A candidate ends   *)
(* with an exit code and a JSON body; ProcessExecutor maps the two to a    *)
(* closed Observation or to a runner fault, and the state machine          *)
(* classifies the observation for the action that was under way.           *)
(*                                                                         *)
(* A body is abstracted to its envelope ("invalid" stands for everything   *)
(* the strict reader or the envelope check refuses) and the fields the     *)
(* gate reads; "absent" is a field that is missing or has the wrong type.  *)
(***************************************************************************)
EXTENDS LiveGateSchema

Sessions == {"offline", "online", "unknown"}
Outcomes == {"logged_in", "already_online", "logged_out", "already_offline"}
NoField  == "absent"
Blank    == ""          \* a field that is there and empty

StatusActions == {"initial_status", "status_online", "final_status", "cleanup_status"}
LoginActions  == {"password_login", "second_password_login"}
LogoutActions == {"logout", "second_logout", "cleanup_logout"}

Action(name) ==
    CASE name = "initial_status_offline"        -> "initial_status"
      [] name = "login_logged_in"               -> "password_login"
      [] name = "qr_login_logged_in"            -> "qr_login"
      [] name = "status_online"                 -> "status_online"
      [] name = "second_login_already_online"   -> "second_password_login"
      [] name = "logout_logged_out"             -> "logout"
      [] name = "final_status_offline"          -> "final_status"
      [] name = "second_logout_already_offline" -> "second_logout"
      [] name = "cleanup_logout"                -> "cleanup_logout"
      [] name = "cleanup_status_offline"        -> "cleanup_status"

(* ---------------------- process.go: the executor ----------------------- *)

Fault == [fault |-> TRUE, exit |-> 0, code |-> NoCode,
          session |-> Blank, outcome |-> Blank, identity |-> FALSE]

FailedWith(exit, code) == [Fault EXCEPT !.fault = FALSE, !.exit = exit, !.code = code]

validEnvelope(reply, success) ==
    reply.envelope = IF success THEN "success" ELSE "failure"

(* successObservation: every field the command must report is there.       *)
SuccessFields(action, body) ==
    /\ body.session \in Sessions
    /\ body.user # NoField
    /\ action \notin StatusActions => body.outcome \in Outcomes

successObservation(action, body) ==
    [fault |-> FALSE, exit |-> 0, code |-> NoCode, session |-> body.session,
     outcome |-> IF action \in StatusActions THEN Blank ELSE body.outcome,
     identity |-> /\ action \notin LogoutActions
                  /\ body.session = "online"
                  /\ body.user = "expected"]

(* The terminal QR login prints for a human: only its exit code is read.   *)
defaultProcessErrorCode(exit) ==
    IF exit = 2 THEN "unsupported" ELSE CHOOSE c \in CodesOfExit(exit) : TRUE

executeQR(exit) ==
    CASE exit \notin CommandExits -> Fault
      [] exit = 0 -> FailedWith(0, NoCode)
      [] OTHER -> FailedWith(exit, defaultProcessErrorCode(exit))

(* ProcessExecutor.Execute after the process has ended, context still live. *)
Observe(action, reply) ==
    CASE action = "qr_login" -> executeQR(reply.exit)
      [] /\ action # "qr_login"
         /\ reply.exit = 0
         /\ validEnvelope(reply, TRUE)
         /\ SuccessFields(action, reply) -> successObservation(action, reply)
      [] /\ action # "qr_login"
         /\ reply.exit \in CommandExits \ {0}
         /\ validEnvelope(reply, FALSE)
         /\ validExitError(reply.exit, reply.code) -> FailedWith(reply.exit, reply.code)
      [] OTHER -> Fault

validProfileShape(suite, reply) ==
    /\ reply.user # NoField
    /\ suite = "password_core" => reply.provider # NoField

(* PrepareProfile: "ok", the profile does not suit, or a runner fault.     *)
PrepareProfile(suite, reply) ==
    CASE reply.exit = 0 /\ validEnvelope(reply, TRUE) /\ validProfileShape(suite, reply) ->
            IF \/ reply.user = Blank
               \/ suite = "password_core" /\ reply.provider # "prompt"
            THEN "profile" ELSE "ok"
      [] /\ reply.exit \in CommandExits \ {0}
         /\ validEnvelope(reply, FALSE)
         /\ validExitError(reply.exit, reply.code) -> "profile"
      [] OTHER -> "fault"

(* -------------------- runner.go: classification ------------------------ *)

classifyCommandFailure(obs) ==
    IF obs.exit = 130 \/ obs.code \in {"network", "interaction_required", "config"}
    THEN "blocked"
    ELSE "fail"

(* The outcomes each logout step accepts.                                  *)
ExpectedOutcome(action) ==
    CASE action = "logout"         -> {"logged_out"}
      [] action = "second_logout"  -> {"already_offline"}
      [] action = "cleanup_logout" -> {"logged_out", "already_offline"}

classifyInitial(obs) == IF obs.session = "offline" THEN "pass" ELSE "blocked"

classifyOnline(obs) ==
    CASE obs.session = "unknown" -> "blocked"
      [] obs.session = "online" /\ obs.identity -> "pass"
      [] OTHER -> "fail"

classifyLogin(obs, outcome) ==
    CASE obs.session = "unknown" -> "blocked"
      [] obs.outcome = outcome /\ obs.session = "online" /\ obs.identity -> "pass"
      [] OTHER -> "fail"

classifyLogout(obs, outcomes) ==
    CASE obs.outcome \notin outcomes -> "fail"
      [] obs.session = "unknown" -> "blocked"
      [] obs.session # "offline" -> "fail"
      [] OTHER -> "pass"

classifyOffline(obs) ==
    CASE obs.session = "offline" -> "pass"
      [] obs.session = "online"  -> "fail"
      [] obs.session = "unknown" -> "blocked"

classifySuccessfulObservation(action, obs) ==
    CASE action = "initial_status"        -> classifyInitial(obs)
      [] action = "password_login"        -> classifyLogin(obs, "logged_in")
      [] action = "second_password_login" -> classifyLogin(obs, "already_online")
      [] action = "status_online"         -> classifyOnline(obs)
      [] action \in LogoutActions         -> classifyLogout(obs, ExpectedOutcome(action))
      [] action \in {"final_status", "cleanup_status"} -> classifyOffline(obs)

stepFromObservation(name, obs) ==
    [name |-> name, exit |-> obs.exit, code |-> obs.code,
     result |-> IF obs.exit # 0
                THEN classifyCommandFailure(obs)
                ELSE classifySuccessfulObservation(Action(name), obs)]

(* A cleanup command cut off by its own deadline is recorded as canceled.  *)
cleanupTimeoutObservation == FailedWith(130, "network")

(* executeQRPair, second half: the terminal login is believed only when    *)
(* the status right after it proves the expected identity online.          *)
QRStatusStep(obs) ==
    LET step == stepFromObservation("status_online", obs)
    IN  IF obs.exit = 0 /\ obs.session = "online" /\ ~obs.identity
        THEN [step EXCEPT !.result = "blocked"]
        ELSE step

(* Mutant: a failed proof is recorded next to the login it was to prove.   *)
QRPairSteps_Mutant(status) ==
    << [status EXCEPT !.name = "qr_login_logged_in"], status >>

QRPairSteps(status) ==
    IF status.result = "pass"
    THEN << [status EXCEPT !.name = "qr_login_logged_in"], status >>
    ELSE << [status EXCEPT !.name = "qr_login_logged_in"] >>

aggregateNonPass(list) == IF AnyFailed(list) THEN "fail" ELSE "blocked"
=============================================================================
