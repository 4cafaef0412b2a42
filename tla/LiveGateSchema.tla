--------------------------- MODULE LiveGateSchema ---------------------------
(***************************************************************************)
(* The closed evidence schema of the live gate (internal/livegate,         *)
(* schema.go): the step names of the two suites, the pairs of exit and     *)
(* error code a step may carry, the validation matrix, and the rules a     *)
(* list of steps must obey before it may be published as evidence.         *)
(*                                                                         *)
(* Step durations are left out: elapsedSeconds clamps them to zero or      *)
(* more, so Step.Validate never rejects one.  Identifiers, hashes and      *)
(* timestamps are the fields no step of the gate can get wrong.            *)
(***************************************************************************)
EXTENDS Integers, Sequences, FiniteSets

NoCode == "null"

Suites  == {"password_core", "terminal_qr"}
Results == {"pass", "fail", "blocked"}

PrimarySteps(suite) ==
    IF suite = "password_core"
    THEN << "initial_status_offline", "login_logged_in", "status_online",
            "second_login_already_online", "logout_logged_out",
            "final_status_offline", "second_logout_already_offline" >>
    ELSE << "initial_status_offline", "qr_login_logged_in", "status_online",
            "logout_logged_out", "final_status_offline" >>

CleanupSteps == << "cleanup_logout", "cleanup_status_offline" >>

StepNames ==
    {PrimarySteps("password_core")[i] : i \in 1 .. 7}
        \cup {PrimarySteps("terminal_qr")[i] : i \in 1 .. 5}
        \cup {CleanupSteps[i] : i \in 1 .. 2}

CommandExits == (0 .. 7) \cup {130}

(* The error codes that may accompany each exit code of the product CLI.   *)
CodesOfExit(exit) ==
    CASE exit = 1 -> {"internal"}
      [] exit = 2 -> {"invalid_argument", "config", "unsupported"}
      [] exit \in {3, 130} -> {"network"}
      [] exit = 4 -> {"authentication"}
      [] exit = 5 -> {"session_conflict"}
      [] exit = 6 -> {"protocol_changed"}
      [] exit = 7 -> {"interaction_required"}
      [] OTHER -> {}

ErrorCodes == UNION {CodesOfExit(e) : e \in CommandExits}

validExitError(exit, code) == code \in CodesOfExit(exit)

ValidStep(s) ==
    /\ s.name \in StepNames
    /\ s.result \in Results
    /\ s.code \in ErrorCodes \cup {NoCode}
    /\ IF s.exit = 0
       THEN s.code = NoCode
       ELSE s.result # "pass" /\ validExitError(s.exit, s.code)

(* Which platform, testbed, network and suite may be combined.             *)
validMatrix(r) ==
    \/ /\ r.platform = "linux-amd64"
       /\ r.testbed = "nas_vm"
       /\ r.network = "campus_wired"
       /\ r.suite \in Suites
    \/ /\ r.platform = "windows-amd64"
       /\ r.testbed = "bhk_windows"
       /\ r.network \in {"campus_wired", "campus_wifi"}
       /\ r.suite = "password_core"

(* What the gate may claim before and after a run of the suite.            *)
CapabilityBefore(suite) ==
    IF suite = "password_core"
    THEN << "synthetic_covered", "live_unverified" >>
    ELSE << "observed_anonymous", "synthetic_covered", "live_unverified" >>

CapabilityAfter(suite, result) ==
    LET before == CapabilityBefore(suite)
    IN  IF result = "pass"
        THEN [before EXCEPT ![Len(before)] = "live_verified"]
        ELSE before

StepPassed(list, name) ==
    \E i \in DOMAIN list : list[i].name = name /\ list[i].result = "pass"

AnyFailed(list) == \E i \in DOMAIN list : list[i].result = "fail"

(* Length of the primary prefix: up to and with the first step that did    *)
(* not pass, at most the whole primary sequence.                           *)
PrimaryPrefix(suite, list) ==
    LET all   == 1 .. Len(PrimarySteps(suite))
        stops == {i \in DOMAIN list \cap all : list[i].result # "pass"}
    IN  IF stops = {}
        THEN IF Len(list) < Len(PrimarySteps(suite))
             THEN Len(list) ELSE Len(PrimarySteps(suite))
        ELSE CHOOSE i \in stops : \A j \in stops : i <= j

validateStepSequence(suite, overall, list) ==
    LET primary == PrimarySteps(suite)
        count   == PrimaryPrefix(suite, list)
        prefix  == SubSeq(list, 1, count)
        cleanup == /\ StepPassed(prefix, "status_online")
                   /\ ~StepPassed(prefix, "final_status_offline")
    IN  /\ suite \in Suites
        /\ \A i \in DOMAIN list : ValidStep(list[i])
        /\ \/ /\ overall = "pass"
              /\ Len(list) = Len(primary)
              /\ \A i \in DOMAIN list :
                    list[i].name = primary[i] /\ list[i].result = "pass"
           \/ /\ overall \in {"fail", "blocked"}
              /\ count > 0
              /\ \A i \in 1 .. count : list[i].name = primary[i]
              /\ list[count].result # "pass"
              /\ Len(list) = count + (IF cleanup THEN 2 ELSE 0)
              /\ cleanup => \A i \in 1 .. 2 :
                                list[count + i].name = CleanupSteps[i]
              /\ overall = IF AnyFailed(list) THEN "fail" ELSE "blocked"

(* Evidence.Validate: the fields the gate fills in itself.                 *)
ValidEvidence(e) ==
    /\ e.result \in Results
    /\ validMatrix(e)
    /\ e.before = CapabilityBefore(e.suite)
    /\ e.after = CapabilityAfter(e.suite, e.result)
    /\ validateStepSequence(e.suite, e.result, e.steps)
=============================================================================
