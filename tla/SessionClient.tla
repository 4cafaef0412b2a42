---------------------------- MODULE SessionClient ----------------------------
(***************************************************************************)
(* The session calls of the SDK (auth.go, client.go, status.go):           *)
(* goroutines that call Status, Login and Logout of one Client, whose one- *)
(* slot channel serialises session changes, against a gateway and a CAS    *)
(* that may refuse, lose a reply after acting on the request, or act on it *)
(* late.                                                                   *)
(*                                                                         *)
(* Abstractions.  A page or a reply is the case the code distinguishes.  A *)
(* CAS ticket is the account it was issued to.  Time is the number of poll *)
(* intervals a QR code has left.  An error is its code.                    *)
(***************************************************************************)
EXTENDS Naturals, FiniteSets

CONSTANTS Calls,       \* goroutines
          Users,       \* accounts
          Requests,    \* calls they make
          Offline,     \* "no account is online"
          Nobody,      \* an empty user name; "no account known"
          NoRequest,   \* "not in a call"
          QRLife,      \* poll intervals in the lifetime of a QR code
          MaxFaults,   \* bound: lost or unintelligible replies
          MaxCancels,  \* bound: canceled contexts
          MaxLate,     \* bound: requests the gateway acts on late
          MaxOthers    \* bound: session changes by others

Request == [op : {"status", "login", "logout"}, user : Users \cup {Nobody},
            method : {"password", "qr", "other"},
            switch : {"refuse", "logout_existing", "other"}]

ASSUME SessionAssumption ==
  /\ Requests \subseteq Request /\ NoRequest \notin Request
  /\ Offline \notin Users /\ Nobody \notin Users /\ Offline # Nobody
  /\ QRLife \in Nat /\ MaxFaults \in Nat /\ MaxCancels \in Nat
  /\ MaxLate \in Nat /\ MaxOthers \in Nat

VARIABLES session,    \* account online at the gateway, or Offline
          late,       \* changes the gateway has accepted and not yet made
          token,      \* values in the channel of contextMutex: 0 or 1
          canceled,   \* calls whose context is done
          pc,         \* what each call does next
          req,        \* the request it serves
          seen,       \* account it read last from the gateway, Nobody before
          goal,       \* session state verifyStatus waits for
          tries,      \* status reads verifyStatus has made in vain
          ticket,     \* account of the CAS ticket it captured
          ttl,        \* poll intervals its QR code has left
          result,     \* how it is about to return
          faults, cancels, others

gateway == <<session, late>>
locals  == <<seen, goal, tries, ticket, ttl>>
bounds  == <<faults, cancels, others>>
vars    == <<session, late, token, canceled, pc, req, seen, goal, tries, ticket, ttl,
             result, faults, cancels, others>>
-----------------------------------------------------------------------------
Sessions == Users \cup {Offline}

\* Where a call holds the token.
LoginPCs  == {"discover", "discover_next", "cas", "key", "credential", "post", "prompt",
              "poll", "poll_wait", "confirm", "activate"}
HolderPCs == {"recheck", "preflight", "logout", "verify", "leave"} \cup LoginPCs
PCs       == {"idle", "status", "lock", "select"} \cup HolderPCs
Codes     == {"network", "protocol_changed", "authentication", "session_conflict",
              "interaction_required", "config", "invalid_argument", "unsupported",
              "canceled"}
Results   == {"none", "already_online", "logged_in", "already_offline", "logged_out"}
               \cup Codes

Goto(c, l)   == pc' = [pc EXCEPT ![c] = l]
\* The call returns r once its deferred Unlock has run.
Answer(c, r) == Goto(c, "leave") /\ result' = [result EXCEPT ![c] = r]
Stay         == UNCHANGED <<pc, result>>

Fault == faults < MaxFaults /\ faults' = faults + 1

\* An HTTP exchange that fails: a done context stops it before it is sent, otherwise
\* there is no usable reply (network) or one outside the protocol (protocol_changed).
Failure(c) == \/ c \in canceled /\ Answer(c, "network") /\ UNCHANGED faults
              \/ /\ c \notin canceled /\ Fault
                 /\ \E r \in {"network", "protocol_changed"} : Answer(c, r)
Reached(c) == c \notin canceled /\ UNCHANGED faults

\* What a request does to the gateway: begin a session of u, or end that of u.
Changes == {"begin", "end"} \X Users
After(s, change) == IF change[1] = "begin" THEN change[2]
                    ELSE IF s = change[2] THEN Offline ELSE s

\* The gateway acts at once, later, or not at all.
Effects == {"now", "late", "never"}
Perform(e, change) ==
  \/ e = "now" /\ session' = After(session, change) /\ UNCHANGED late
  \/ /\ e = "late" /\ Cardinality(late) < MaxLate
     /\ late' = late \cup {change} /\ UNCHANGED session
  \/ e = "never" /\ UNCHANGED gateway
\* What the call learns of a request whose reply is lost: no reply, one cut short, or,
\* when net/http repeats the GET on a new connection, that the repetition is refused.
Unclear == {"network", "protocol_changed", "authentication"}
-----------------------------------------------------------------------------
(***************************************************************************)
(* Entering and leaving: contextMutex and the deferred Unlock.             *)
(***************************************************************************)
Call(c) ==
  /\ pc[c] = "idle"
  /\ \E r \in Requests : /\ req' = [req EXCEPT ![c] = r]
                         /\ Goto(c, IF r.op = "status" THEN "status" ELSE "lock")
  /\ UNCHANGED <<gateway, token, canceled, locals, result, bounds>>

\* Status takes no token; whatever it reads, it returns.
ReadStatus(c) == /\ pc[c] = "status"
                 /\ Goto(c, "idle")
                 /\ req' = [req EXCEPT ![c] = NoRequest]
                 /\ canceled' = canceled \ {c}
                 /\ UNCHANGED <<gateway, token, locals, result, bounds>>

\* LockContext looks at the context before it waits.
EnterLock(c) == /\ pc[c] = "lock"
                /\ IF c \in canceled
                   THEN /\ Goto(c, "idle")
                        /\ req' = [req EXCEPT ![c] = NoRequest]
                        /\ canceled' = canceled \ {c}
                   ELSE Goto(c, "select") /\ UNCHANGED <<req, canceled>>
                /\ UNCHANGED <<gateway, token, locals, result, bounds>>

\* Mutation: the slot is taken although somebody is in it.
TakeToken_Shared(c) == pc[c] = "select" /\ Goto(c, "recheck") /\ token' = 1
                         /\ UNCHANGED <<gateway, canceled, req, locals, result, bounds>>
\* The two cases of the select; with both ready either may be chosen.
TakeToken(c) == /\ pc[c] = "select"
                /\ token = 0
                /\ token' = 1
                /\ Goto(c, "recheck")
                /\ UNCHANGED <<gateway, canceled, req, locals, result, bounds>>

\* Mutation: the waiter that gives up empties the slot although it is not in it.
AbandonLock_Unlocks(c) == /\ pc[c] = "select"
                          /\ c \in canceled
                          /\ token' = 0
                          /\ Goto(c, "idle")
                          /\ req' = [req EXCEPT ![c] = NoRequest]
                          /\ canceled' = canceled \ {c}
                          /\ UNCHANGED <<gateway, locals, result, bounds>>
AbandonLock(c) == /\ pc[c] = "select"
                  /\ c \in canceled
                  /\ Goto(c, "idle")
                  /\ req' = [req EXCEPT ![c] = NoRequest]
                  /\ canceled' = canceled \ {c}
                  /\ UNCHANGED <<gateway, token, locals, result, bounds>>

\* Mutation: the slot stays taken when the context turns out to be done.
FreeOnRecheck_Forgotten == UNCHANGED token
FreeOnRecheck == token' = 0

\* Login's check of its arguments, in the order of the code.
Misuse(c) == IF req[c].op = "logout" THEN "none"
             ELSE IF req[c].user = Nobody THEN "invalid_argument"
             ELSE IF req[c].method = "other" THEN "unsupported"
             ELSE IF req[c].switch = "other" THEN "invalid_argument"
             ELSE "none"

\* The context again, then the arguments.
Recheck(c) ==
  /\ pc[c] = "recheck"
  /\ \/ /\ c \in canceled
        /\ FreeOnRecheck
        /\ Goto(c, "idle")
        /\ req' = [req EXCEPT ![c] = NoRequest]
        /\ canceled' = canceled \ {c}
        /\ UNCHANGED result
     \/ /\ c \notin canceled
        /\ \/ Misuse(c) # "none" /\ Answer(c, Misuse(c))
           \/ Misuse(c) = "none" /\ Goto(c, "preflight") /\ UNCHANGED result
        /\ UNCHANGED <<token, req, canceled>>
  /\ UNCHANGED <<gateway, locals, bounds>>

Leave(c) == /\ pc[c] = "leave"
            /\ token' = 0
            /\ Goto(c, "idle")
            /\ req' = [req EXCEPT ![c] = NoRequest]
            /\ canceled' = canceled \ {c}
            /\ seen' = [seen EXCEPT ![c] = Nobody]
            /\ goal' = [goal EXCEPT ![c] = Offline]
            /\ tries' = [tries EXCEPT ![c] = 0]
            /\ ticket' = [ticket EXCEPT ![c] = Nobody]
            /\ ttl' = [ttl EXCEPT ![c] = 0]
            /\ result' = [result EXCEPT ![c] = "none"]
            /\ UNCHANGED <<gateway, bounds>>
-----------------------------------------------------------------------------
(***************************************************************************)
(* The preflight of Login and Logout, and the logout of whom it found.     *)
(***************************************************************************)
\* Mutation: a session of another account is ended whatever the policy says.
MaySwitch_Always(c) == TRUE
MaySwitch(c) == req[c].switch # "refuse"

Preflight(c) ==
  /\ pc[c] = "preflight"
  /\ \/ Failure(c) /\ UNCHANGED seen
     \/ /\ Reached(c)
        /\ seen' = [seen EXCEPT ![c] = session]
        /\ \/ session = Offline /\ req[c].op = "logout" /\ Answer(c, "already_offline")
           \/ session = Offline /\ req[c].op = "login" /\ Goto(c, "discover") /\ UNCHANGED result
           \/ session # Offline /\ req[c].op = "logout" /\ Goto(c, "logout") /\ UNCHANGED result
           \/ /\ session # Offline /\ req[c].op = "login"
              /\ \/ session = req[c].user /\ Answer(c, "already_online")
                 \/ session # req[c].user /\ ~MaySwitch(c) /\ Answer(c, "session_conflict")
                 \/ /\ session # req[c].user /\ MaySwitch(c)
                    /\ Goto(c, "logout") /\ UNCHANGED result
  /\ UNCHANGED <<gateway, token, canceled, req, goal, tries, ticket, ttl, cancels, others>>

\* verifyStatus: wait for the state s.
Expect(c, s) == /\ goal' = [goal EXCEPT ![c] = s]
                /\ tries' = [tries EXCEPT ![c] = 0]
                /\ Goto(c, "verify")
                /\ UNCHANGED result

\* Mutation: a switch goes on without verifying that the other account is offline.
AfterLogout_Unverified(c) == IF req[c].op = "login"
                             THEN Goto(c, "discover") /\ UNCHANGED <<goal, tries, result>>
                             ELSE Expect(c, Offline)
AfterLogout(c) == Expect(c, Offline)

\* logoutOnline names the account that the preflight saw.
SendLogout(c) ==
  /\ pc[c] = "logout"
  /\ \/ /\ c \in canceled
        /\ Answer(c, "network")
        /\ UNCHANGED <<gateway, goal, tries, faults>>
     \/ /\ c \notin canceled
        /\ \E e \in Effects :
             /\ Perform(e, <<"end", seen[c]>>)
             /\ \/ e # "never" /\ AfterLogout(c) /\ UNCHANGED faults
                \/ e = "never" /\ AfterLogout(c) /\ Fault
                \/ /\ e = "never" /\ Answer(c, "authentication")
                   /\ UNCHANGED <<goal, tries, faults>>
                \/ /\ Fault
                   /\ \E r \in Unclear : Answer(c, r)
                   /\ UNCHANGED <<goal, tries>>
  /\ UNCHANGED <<token, canceled, req, seen, ticket, ttl, cancels, others>>

\* verifyStatus reads at most three times.
LastAttempt_OffByOne == 3
LastAttempt == 2
Matches(c, s) == s = goal[c]

Verified(c) == IF goal[c] # Offline THEN Answer(c, "logged_in")
               ELSE IF req[c].op = "logout" THEN Answer(c, "logged_out")
               ELSE Goto(c, "discover") /\ UNCHANGED result

Verify(c) ==
  /\ pc[c] = "verify"
  /\ \/ tries[c] > 0 /\ c \in canceled /\ Answer(c, "canceled") /\ UNCHANGED <<seen, tries, faults>>
     \/ Failure(c) /\ UNCHANGED <<seen, tries>>
     \/ /\ Reached(c)
        /\ seen' = [seen EXCEPT ![c] = session]
        /\ \/ Matches(c, session) /\ Verified(c) /\ UNCHANGED tries
           \/ /\ ~Matches(c, session) /\ tries[c] < LastAttempt
              /\ tries' = [tries EXCEPT ![c] = @ + 1]
              /\ Stay
           \/ /\ ~Matches(c, session) /\ tries[c] = LastAttempt
              /\ Answer(c, IF goal[c] # Offline /\ session # Offline THEN "session_conflict"
                                                                      ELSE "authentication")
              /\ UNCHANGED tries
  /\ UNCHANGED <<gateway, token, canceled, req, goal, ticket, ttl, cancels, others>>
-----------------------------------------------------------------------------
(***************************************************************************)
(* Login from offline: AC-ID discovery, the CAS, activation.               *)
(***************************************************************************)
\* A step of the login that touches nothing but its own position and result.
Private(c) == UNCHANGED <<gateway, token, canceled, req, locals, cancels, others>>

\* discoverACID: the ID, nothing of use, or one redirect to follow.
Discover(c) ==
  /\ pc[c] \in {"discover", "discover_next"}
  /\ \/ Failure(c)
     \/ /\ Reached(c)
        /\ \/ Goto(c, "cas") /\ UNCHANGED result
           \/ pc[c] = "discover" /\ Goto(c, "discover_next") /\ UNCHANGED result
           \/ Answer(c, "protocol_changed")
  /\ Private(c)

\* A page of the CAS: a redirect with a ticket, a challenge, or what the caller handles.
Captured(c, u) == /\ ticket' = [ticket EXCEPT ![c] = u]
                  /\ Goto(c, "activate")
                  /\ UNCHANGED result
Challenged(c) == Answer(c, "interaction_required")
CASOnly(c)    == UNCHANGED <<gateway, token, canceled, req, seen, goal, tries, ttl,
                             cancels, others>>

OpenCAS(c) ==
  /\ pc[c] = "cas"
  /\ \/ Failure(c) /\ UNCHANGED ticket
     \/ /\ Reached(c)
        /\ \/ \E u \in Users : Captured(c, u)
           \/ Challenged(c) /\ UNCHANGED ticket
           \/ Answer(c, "protocol_changed") /\ UNCHANGED ticket
           \/ req[c].method = "password" /\ Goto(c, "key") /\ UNCHANGED <<result, ticket>>
           \/ req[c].method = "qr" /\ Goto(c, "prompt") /\ UNCHANGED <<result, ticket>>
  /\ CASOnly(c)

\* passwordLogin up to the credential: form fields, the public key or a script with it.
FindKey(c) ==
  /\ pc[c] = "key"
  /\ \/ Failure(c)
     \/ /\ UNCHANGED faults
        /\ \/ Goto(c, "credential") /\ UNCHANGED result
           \/ Challenged(c)
           \/ \E r \in {"protocol_changed", "config"} : Answer(c, r)
  /\ Private(c)

\* The provider, which may give up when the context is done; then the encryption.
ReadCredential(c) ==
  /\ pc[c] = "credential"
  /\ \/ Goto(c, "post") /\ UNCHANGED result
     \/ \E r \in {"config", "protocol_changed"} : Answer(c, r)
  /\ UNCHANGED faults
  /\ Private(c)

PostForm(c) ==
  /\ pc[c] = "post"
  /\ \/ Failure(c) /\ UNCHANGED ticket
     \/ /\ Reached(c)
        /\ \/ Captured(c, req[c].user)
           \/ Challenged(c) /\ UNCHANGED ticket
           \/ \E r \in {"authentication", "protocol_changed"} : Answer(c, r) /\ UNCHANGED ticket
  /\ CASOnly(c)

\* qrLogin until the code is shown; its lifetime starts before, and showing it takes time.
PromptQR(c) ==
  /\ pc[c] = "prompt"
  /\ \/ /\ Goto(c, "poll")
        /\ \E t \in 0..QRLife : ttl' = [ttl EXCEPT ![c] = t]
        /\ UNCHANGED result
     \/ \E r \in {"interaction_required", "protocol_changed"} : Answer(c, r) /\ UNCHANGED ttl
     \/ c \in canceled /\ Answer(c, "canceled") /\ UNCHANGED ttl
  /\ UNCHANGED <<gateway, token, canceled, req, seen, goal, tries, ticket, bounds>>

\* The deadline is looked at before each poll, never while one is under way.
Expired(c) == ttl[c] = 0

Poll(c) ==
  /\ pc[c] = "poll"
  /\ \/ Expired(c) /\ Challenged(c) /\ UNCHANGED <<ticket, faults>>
     \/ ~Expired(c) /\ Failure(c) /\ UNCHANGED ticket
     \/ /\ ~Expired(c) /\ Reached(c)
        /\ \/ Goto(c, "poll_wait") /\ UNCHANGED <<result, ticket>>
           \/ \E u \in Users : Captured(c, u)
           \/ Goto(c, "confirm") /\ UNCHANGED <<result, ticket>>
           \/ Challenged(c) /\ UNCHANGED ticket
           \/ Answer(c, "protocol_changed") /\ UNCHANGED ticket
  /\ CASOnly(c)

\* The pause between two polls takes one interval or, on a slow machine, more.
PollWait(c) ==
  /\ pc[c] = "poll_wait"
  /\ \/ c \in canceled /\ Answer(c, "canceled") /\ UNCHANGED ttl
     \/ /\ \E t \in 0..ttl[c] : t < ttl[c] /\ ttl' = [ttl EXCEPT ![c] = t]
        /\ Goto(c, "poll")
        /\ UNCHANGED result
  /\ UNCHANGED <<gateway, token, canceled, req, seen, goal, tries, ticket, bounds>>

\* finishQRConfirmation when the confirmation leads to another page of the CAS; the
\* account is that of whoever confirmed.
ConfirmQR(c) ==
  /\ pc[c] = "confirm"
  /\ \/ Failure(c) /\ UNCHANGED ticket
     \/ /\ Reached(c)
        /\ \/ \E u \in Users : Captured(c, u)
           \/ Challenged(c) /\ UNCHANGED ticket
           \/ Answer(c, "protocol_changed") /\ UNCHANGED ticket
  /\ CASOnly(c)

\* finishActivation up to its verification.
Activate(c) ==
  /\ pc[c] = "activate"
  /\ \/ /\ c \in canceled
        /\ Answer(c, "network")
        /\ UNCHANGED <<gateway, goal, tries, faults>>
     \/ /\ c \notin canceled
        /\ \E e \in Effects :
             /\ Perform(e, <<"begin", ticket[c]>>)
             /\ \/ e # "never" /\ Expect(c, req[c].user) /\ UNCHANGED faults
                \/ e = "never" /\ Expect(c, req[c].user) /\ Fault
                \/ /\ e = "never"
                   /\ \E r \in {"authentication", "interaction_required"} : Answer(c, r)
                   /\ UNCHANGED <<goal, tries, faults>>
                \/ /\ Fault
                   /\ \E r \in Unclear : Answer(c, r)
                   /\ UNCHANGED <<goal, tries>>
  /\ UNCHANGED <<token, canceled, req, seen, ticket, ttl, cancels, others>>
-----------------------------------------------------------------------------
(***************************************************************************)
(* The environment.                                                        *)
(***************************************************************************)
\* The caller cancels the context of a call, or its deadline passes.
Cancel(c) == /\ pc[c] # "idle" /\ c \notin canceled
             /\ cancels < MaxCancels /\ cancels' = cancels + 1
             /\ canceled' = canceled \cup {c}
             /\ UNCHANGED <<gateway, token, pc, req, locals, result, faults, others>>

\* The gateway makes a change that it accepted earlier.
Deliver == /\ \E change \in late : /\ session' = After(session, change)
                                   /\ late' = late \ {change}
           /\ UNCHANGED <<token, canceled, pc, req, locals, result, bounds>>

\* The session times out, or another device or process begins or ends one.
Other == /\ others < MaxOthers /\ others' = others + 1
         /\ \E s \in Sessions \ {session} : session' = s
         /\ UNCHANGED <<late, token, canceled, pc, req, locals, result, faults, cancels>>

Init == /\ session \in Sessions /\ late = {} /\ token = 0 /\ canceled = {}
        /\ pc = [c \in Calls |-> "idle"]
        /\ req = [c \in Calls |-> NoRequest]
        /\ seen = [c \in Calls |-> Nobody]
        /\ goal = [c \in Calls |-> Offline]
        /\ tries = [c \in Calls |-> 0]
        /\ ticket = [c \in Calls |-> Nobody]
        /\ ttl = [c \in Calls |-> 0]
        /\ result = [c \in Calls |-> "none"]
        /\ faults = 0 /\ cancels = 0 /\ others = 0

Enter(c)        == EnterLock(c) \/ AbandonLock(c) \/ Recheck(c)
Authenticate(c) == Discover(c) \/ OpenCAS(c) \/ FindKey(c) \/ ReadCredential(c)
                     \/ PostForm(c) \/ PromptQR(c) \/ Poll(c) \/ PollWait(c) \/ ConfirmQR(c)
Proceed(c)      == ReadStatus(c) \/ Enter(c) \/ Preflight(c) \/ SendLogout(c) \/ Verify(c)
                     \/ Authenticate(c) \/ Activate(c) \/ Leave(c)

Next == \/ \E c \in Calls : Call(c) \/ TakeToken(c) \/ Proceed(c) \/ Cancel(c)
        \/ Deliver
        \/ Other

Spec == Init /\ [][Next]_vars

\* Every request has a timeout and every goroutine is scheduled; the channel serves
\* its waiting senders in turn.  Nobody has to make a call, to cancel one, or to be
\* answered in time by the gateway.
Fairness == \A c \in Calls : WF_vars(Proceed(c)) /\ SF_vars(TakeToken(c))
FairSpec == Spec /\ Fairness
-----------------------------------------------------------------------------
TypeOK ==
  /\ session \in Sessions /\ late \subseteq Changes
  /\ token \in {0, 1} /\ canceled \subseteq Calls
  /\ pc \in [Calls -> PCs]
  /\ req \in [Calls -> Requests \cup {NoRequest}]
  /\ seen \in [Calls -> Sessions \cup {Nobody}]
  /\ goal \in [Calls -> Sessions]
  /\ tries \in [Calls -> 0..2]
  /\ ticket \in [Calls -> Users \cup {Nobody}]
  /\ ttl \in [Calls -> 0..QRLife]
  /\ result \in [Calls -> Results]
  /\ faults \in 0..MaxFaults /\ cancels \in 0..MaxCancels /\ others \in 0..MaxOthers

(***************************************************************************)
(* The slot of contextMutex is taken exactly while one call is between its *)
(* preflight and its return: no canceled waiter frees the slot of another  *)
(* call, and none keeps it.                                                *)
(***************************************************************************)
Holders == {c \in Calls : pc[c] \in HolderPCs}
TokenAccounted == /\ token = 0 => Holders = {}
                  /\ token = 1 => \E c \in Calls : Holders = {c}

(***************************************************************************)
(* AUTH-CONFLICT-001, PROTO-LOGIN-001: a credential is read, a QR code     *)
(* shown and a ticket used only by a call whose latest answer from the     *)
(* gateway was "offline"; never beside another account, never after a      *)
(* logout that failed or was not confirmed.                                *)
(***************************************************************************)
AuthenticatesWhenOffline == \A c \in Calls : pc[c] \in LoginPCs => seen[c] = Offline

(***************************************************************************)
(* A call that is about to report a session state reports the one the      *)
(* gateway is in, as long as only this client changes it: no other call    *)
(* got in between.                                                         *)
(***************************************************************************)
HonestResult ==
  \A c \in Calls :
    /\ result[c] \in {"logged_in", "already_online"} => session = req[c].user
    /\ result[c] \in {"logged_out", "already_offline"} => session = Offline

(***************************************************************************)
(* Seen from the gateway, the client does what AtomicSession allows:       *)
(* whatever fails and whoever is canceled, no session is replaced, and     *)
(* none ends or begins that no pending call asked for.                     *)
(***************************************************************************)
Atomic == INSTANCE AtomicSession WITH
            online <- session,
            asked  <- {req[c] : c \in {d \in Calls : pc[d] # "idle"}}
AtomicSessionSpec == Atomic!SSpec

(***************************************************************************)
(* Every call returns: requests and QR codes run out, the loops are        *)
(* bounded, and the token always comes back to those who wait for it.      *)
(***************************************************************************)
CallsReturn == \A c \in Calls : pc[c] # "idle" ~> pc[c] = "idle"
=============================================================================
