---------------------------- MODULE AtomicSession ----------------------------
(***************************************************************************)
(* What the SDK promises about the gateway session of a machine, whatever  *)
(* number of goroutines call it: the session starts only from offline and  *)
(* only because a login was asked for, and it ends only because a logout   *)
(* was, or a login that may switch away from another account.  One account *)
(* is never replaced by another in one step.                               *)
(***************************************************************************)
CONSTANTS Users,      \* accounts
          Offline,    \* "no account is online"
          Requests    \* calls a caller can make

VARIABLES online,     \* the account online at this machine's address, or Offline
          asked       \* calls that have not returned

asvars == <<online, asked>>

SInit == online \in Users \cup {Offline} /\ asked = {}

\* Calls are made and return.
Ask == asked' \subseteq Requests /\ UNCHANGED online

LogIn == /\ online = Offline
         /\ \E r \in asked : r.op = "login"
         /\ online' \in Users
         /\ UNCHANGED asked

LogOut == /\ online \in Users
          /\ \E r \in asked : \/ r.op = "logout"
                              \/ /\ r.op = "login" /\ r.switch = "logout_existing"
                                 /\ r.user # online
          /\ online' = Offline
          /\ UNCHANGED asked

SNext == Ask \/ LogIn \/ LogOut
SSpec == SInit /\ [][SNext]_asvars
=============================================================================
