--------------------------- MODULE MCProfileStore ---------------------------
(***************************************************************************)
(* An instance of ProfileStore for TLC: commands that meet on the same     *)
(* names, references and users.                                            *)
(***************************************************************************)
EXTENDS ProfileStore

CONSTANTS x, y, u, v, r1, r2

Add(n, w, r, d) == [kind |-> "add", name |-> n, user |-> w, ref |-> r, setDefault |-> d]

MCCommands ==
    {Add(x, u, r1, FALSE), Add(x, v, r2, TRUE), Add(y, v, r1, FALSE), Add(y, u, None, TRUE),
     [kind |-> "remove", name |-> x],
     [kind |-> "show", name |-> None],
     [kind |-> "query", name |-> y],
     [kind |-> "login", name |-> None, user |-> None],
     [kind |-> "login", name |-> x, user |-> v],
     [kind |-> "login", name |-> None, user |-> u]}
=============================================================================
