---------------------------- MODULE ProfileTypes ----------------------------
(***************************************************************************)
(* The Config of internal/config (types.go) as far as the profile commands *)
(* and logins read and change it: which profiles exist, whose they are,    *)
(* where their password is kept, and which of them is the default.         *)
(***************************************************************************)
EXTENDS Naturals, FiniteSets

CONSTANTS
    Procs,       \* the processes; each runs one command
    Names,       \* profile names
    Users,       \* usernames; a password is named by the user it belongs to
    Refs,        \* keyring references
    None,        \* no profile, no reference, no password, no lock holder
    Commands     \* the commands a process may be started with

Profiles == [user : Users, ref : Refs \cup {None}]

ASSUME NoneAssumption == None \notin Names \cup Users \cup Refs \cup Procs \cup Profiles

Configs  == [profiles : [Names -> Profiles \cup {None}], default : Names \cup {None}]

(* A command is an addition (of a keyring profile, or of a profile that    *)
(* prompts at every login and stores nothing), a removal, a show, a query  *)
(* (status, logout, list: a profile is optional), or a login by profile    *)
(* name or by username.                                                    *)
AllCommands ==
    [kind : {"add"}, name : Names, user : Users, ref : Refs \cup {None}, setDefault : BOOLEAN]
        \cup [kind : {"remove"}, name : Names]
        \cup [kind : {"show", "query"}, name : Names \cup {None}]
        \cup [kind : {"login"}, name : Names \cup {None}, user : Users \cup {None}]

ASSUME CommandsAssumption == Commands \subseteq AllCommands

EmptyConfig == [profiles |-> [n \in Names |-> None], default |-> None]

Exists(c, n) == n \in Names /\ c.profiles[n] # None

(* Config.Validate: the default profile must exist.                        *)
Valid(c) == c.default # None => Exists(c, c.default)

(* Config.Profile: the named profile or the default one.                   *)
ProfileNamed(c, n) ==
    LET name == IF n = None THEN c.default ELSE n
    IN  IF Exists(c, name) THEN c.profiles[name] ELSE None

Matches(c, user) == {n \in Names : Exists(c, n) /\ c.profiles[n].user = user}

(* resolveConfiguredLoginProfile: an explicit profile must belong to the   *)
(* expected user; without one the default is preferred and a username must *)
(* be unambiguous.                                                         *)
Resolve(c, name, user) ==
    LET candidate == ProfileNamed(c, name)
        suits == candidate # None /\ user \in {None, candidate.user}
    IN  IF suits THEN candidate
        ELSE IF name = None /\ user # None /\ Cardinality(Matches(c, user)) = 1
        THEN c.profiles[CHOOSE n \in Matches(c, user) : TRUE]
        ELSE None

(* A command that reads the Config without the lock stops if it does not   *)
(* find in it what it needs.                                               *)
Refuses(c, command) ==
    \/ command.kind = "add"   /\ Exists(c, command.name)
    \/ command.kind = "show"  /\ ProfileNamed(c, command.name) = None
    \/ command.kind = "query" /\ command.name # None /\ ~Exists(c, command.name)
    \/ command.kind = "login" /\ Resolve(c, command.name, command.user) = None

(* What the update callback of an addition or a removal makes of a Config. *)
Added(c, a) ==
    [profiles |-> [c.profiles EXCEPT ![a.name] = [user |-> a.user, ref |-> a.ref]],
     default  |-> IF a.setDefault \/ c.default = None THEN a.name ELSE c.default]

Removed(c, n) ==
    [profiles |-> [c.profiles EXCEPT ![n] = None],
     default  |-> IF c.default = n THEN None ELSE c.default]

Updated(c, command) ==
    IF command.kind = "add" THEN Added(c, command) ELSE Removed(c, command.name)

(* The callback refuses a name that is taken, or one that does not exist.  *)
Admits(c, command) ==
    IF command.kind = "add" THEN ~Exists(c, command.name) ELSE Exists(c, command.name)

IsUpdate(command) == command.kind \in {"add", "remove"}
=============================================================================
