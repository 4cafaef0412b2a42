--------------------------- MODULE MCSessionClient ---------------------------
(* Small instances of SessionClient for TLC. *)
EXTENDS SessionClient, TLC

CONSTANTS u1, u2

LoginOf(u, method, switch) == [op |-> "login", user |-> u, method |-> method, switch |-> switch]
Logout == [op |-> "logout", user |-> Nobody, method |-> "other", switch |-> "other"]
Status == [op |-> "status", user |-> Nobody, method |-> "other", switch |-> "other"]

\* A login that refuses to switch, one that switches, a logout; a status read and the
\* misuses that end a call early.
SerialRequests == {LoginOf(u1, "password", "refuse"), LoginOf(u2, "qr", "logout_existing"),
                   Logout, Status, LoginOf(Nobody, "password", "refuse"),
                   LoginOf(u1, "other", "refuse"), LoginOf(u1, "qr", "other")}
FaultyRequests == {LoginOf(u1, "password", "logout_existing"), LoginOf(u2, "qr", "refuse")}

Symmetry == Permutations(Calls)
=============================================================================
