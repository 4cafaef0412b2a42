--------------------------- MODULE AtomicProfiles ---------------------------
(***************************************************************************)
(* What the profile commands promise: each addition and removal takes      *)
(* effect at one instant, on the Config of that instant and only if that   *)
(* Config admits it, or not at all; and what the command reports tells     *)
(* which of the two happened.  Only a process that died reports nothing.   *)
(***************************************************************************)
EXTENDS ProfileTypes

VARIABLES
    config,    \* the Config
    cmd,       \* the command of each process
    applied,   \* the commands that have taken effect
    result     \* what each command reported, "none" before

vars == << config, cmd, applied, result >>

Init ==
    /\ config = EmptyConfig
    /\ cmd \in [Procs -> Commands]
    /\ applied = [p \in Procs |-> FALSE]
    /\ result = [p \in Procs |-> "none"]

Apply(p) ==
    /\ IsUpdate(cmd[p]) /\ ~applied[p] /\ result[p] = "none"
    /\ Admits(config, cmd[p])
    /\ config' = Updated(config, cmd[p])
    /\ applied' = [applied EXCEPT ![p] = TRUE]
    /\ UNCHANGED << cmd, result >>

Outcomes(p) ==
    {"crashed"} \cup
        IF ~IsUpdate(cmd[p]) THEN {"ok", "failed"}
        ELSE IF applied[p] THEN {"ok", "durability_unknown"}
        ELSE {"failed", "cleanup_incomplete"}

Report(p) ==
    /\ result[p] = "none"
    /\ result' \in {[result EXCEPT ![p] = r] : r \in Outcomes(p)}
    /\ UNCHANGED << config, cmd, applied >>

Next == \E p \in Procs : Apply(p) \/ Report(p)

Spec == Init /\ [][Next]_vars
=============================================================================
