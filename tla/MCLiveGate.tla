---- MODULE MCLiveGate ----
(***************************************************************************)
(* Instances of LiveGate for TLC: one admissible request for each suite,   *)
(* one request for each reason to refuse, and the ends of a candidate that *)
(* cannot be trusted.                                                      *)
(***************************************************************************)
EXTENDS LiveGate

Password ==
    [args |-> "valid", paths |-> "valid", suite |-> "password_core",
     platform |-> "linux-amd64", testbed |-> "nas_vm",
     network |-> "campus_wired", terminals |-> {"stdin", "stderr"}]

TerminalQR ==
    [Password EXCEPT !.suite = "terminal_qr",
                     !.terminals = {"stdin", "stdout", "stderr"}]

MCRequests ==
    {Password, TerminalQR,
     [Password EXCEPT !.args = "invalid"],
     [Password EXCEPT !.paths = "overlapping"],
     [Password EXCEPT !.network = "campus_wifi"],
     [TerminalQR EXCEPT !.terminals = {"stdin", "stderr"}]}

(* One reply of every kind the gate tells apart: each session and outcome, *)
(* the identity missing or wrong, a blocking and a failing error code, an  *)
(* exit and error code that do not belong together, an exit code out of    *)
(* the list, a missing field, a document the reader refuses, and a profile *)
(* that keeps its password in the keyring.                                 *)
MCReplies ==
    {Success("online", "expected", o) :
        o \in {"logged_in", "already_online"}}
    \cup {Success("offline", Blank, o) : o \in {"logged_out", "already_offline"}}
    \cup {Success("online", "other", "already_online"),
          Success("online", Blank, "logged_in"),
          Success("unknown", Blank, "logged_out"),
          Failure(2, "config"), Failure(2, "unsupported"), Failure(130, "network"),
          Failure(1, "network"), Failure(99, "internal"),
          Success(NoField, "expected", "logged_in"),
          [Success("online", "expected", "logged_in") EXCEPT !.envelope = "invalid"],
          [Success("online", "expected", "logged_in") EXCEPT !.provider = "keyring"]}
====
