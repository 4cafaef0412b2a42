---------------------------- MODULE SessionProofs ----------------------------
(***************************************************************************)
(* Proofs about SessionClient for any number of goroutines, accounts and   *)
(* requests, any lifetime of a QR code and any number of faults,           *)
(* cancellations, late effects and changes by others.                      *)
(***************************************************************************)
EXTENDS SessionClient, FiniteSetTheorems, TLAPS

\* A change leads from one state of the gateway to another.
LEMMA AfterType ==
  ASSUME session \in Sessions, NEW change \in Changes
  PROVE  After(session, change) \in Sessions
BY DEF Changes, After, Sessions

\* What the gateway becomes stays a state of the gateway.
LEMMA PerformType ==
  ASSUME TypeOK, NEW e \in Effects, NEW change \in Changes, Perform(e, change)
  PROVE  session' \in Sessions /\ late' \subseteq Changes
<1>1. After(session, change) \in Sessions
  BY AfterType DEF TypeOK
<1> QED
  BY <1>1 DEF Perform, TypeOK, gateway

(***************************************************************************)
(* Requested: where a call is tells what it serves.  A call under way      *)
(* serves a request; one that has or wants the token a login or a logout;  *)
(* past the check of its arguments a login names an account; past the      *)
(* preflight towards the CAS there are only logins.  What a request to the *)
(* gateway names is an account.                                            *)
(***************************************************************************)
Checked == {"preflight", "logout", "verify"} \cup LoginPCs
Requested ==
  \A c \in Calls :
    /\ pc[c] # "idle" => req[c] \in Requests
    /\ pc[c] \in {"lock", "select"} \cup HolderPCs => req[c].op \in {"login", "logout"}
    /\ pc[c] \in Checked /\ req[c].op = "login" => req[c].user \in Users
    /\ pc[c] \in LoginPCs => req[c].op = "login"
    /\ pc[c] = "logout" => seen[c] \in Users
    /\ pc[c] = "activate" => ticket[c] \in Users
Typed == TypeOK /\ Requested

\* The initial states have the types.
LEMMA TypedInit == Init => Typed
BY SessionAssumption
   DEF Init, Typed, TypeOK, Requested, Checked, PCs, HolderPCs, LoginPCs, Sessions,
       Results

\* Every step preserves the types.
LEMMA TypedStep == ASSUME Typed, [Next]_vars PROVE Typed'
<1>1. ASSUME NEW c \in Calls, Call(c) PROVE Typed'
  BY <1>1, SessionAssumption
     DEF Call, Goto, Typed, TypeOK, Requested, PCs, HolderPCs, LoginPCs, gateway,
         locals, bounds, Request, Checked
<1>2. ASSUME NEW c \in Calls, ReadStatus(c) PROVE Typed'
  BY <1>2
     DEF ReadStatus, Goto, Typed, TypeOK, Requested, PCs, HolderPCs, LoginPCs, gateway,
         locals, bounds, Checked
<1>3. ASSUME NEW c \in Calls, EnterLock(c) PROVE Typed'
  BY <1>3
     DEF EnterLock, Goto, Typed, TypeOK, Requested, PCs, HolderPCs, LoginPCs, gateway,
         locals, bounds, Checked
<1>4. ASSUME NEW c \in Calls, AbandonLock(c) PROVE Typed'
  BY <1>4
     DEF AbandonLock, Goto, Typed, TypeOK, Requested, PCs, HolderPCs, LoginPCs, gateway,
         locals, bounds, Checked
<1>5. ASSUME NEW c \in Calls, TakeToken(c) PROVE Typed'
  BY <1>5
     DEF TakeToken, Goto, Typed, TypeOK, Requested, PCs, HolderPCs, LoginPCs, gateway,
         locals, bounds, Checked
<1>6. ASSUME NEW c \in Calls, Recheck(c) PROVE Typed'
  BY <1>6, SessionAssumption
     DEF Recheck, FreeOnRecheck, Misuse, Answer, Goto, Typed, TypeOK, Requested, PCs,
         HolderPCs, LoginPCs, Results, Codes, gateway, locals, bounds, Request, Checked
<1>7. ASSUME NEW c \in Calls, Preflight(c) PROVE Typed'
  BY <1>7, SessionAssumption
     DEF Preflight, Failure, Reached, Fault, Answer, Goto, Typed, TypeOK, Requested,
         PCs, HolderPCs, LoginPCs, Results, Codes, Sessions, gateway, Checked
<1>8. ASSUME NEW c \in Calls, SendLogout(c) PROVE Typed'
  <2>1. <<"end", seen[c]>> \in Changes
    BY <1>8 DEF SendLogout, Typed, Requested, Changes
  <2>2. session' \in Sessions /\ late' \subseteq Changes
    BY <1>8, <2>1, PerformType DEF SendLogout, Typed, TypeOK, gateway
  <2> QED
    BY <1>8, <2>2, SessionAssumption
       DEF SendLogout, Unclear, Fault, Answer, AfterLogout, Expect, Goto, Typed, TypeOK,
           Requested, PCs, HolderPCs, LoginPCs, Results, Codes, Sessions, Checked
<1>9. ASSUME NEW c \in Calls, Verify(c) PROVE Typed'
  BY <1>9, SessionAssumption
     DEF Verify, Verified, LastAttempt, Stay, Failure, Reached, Fault, Answer, Goto,
         Typed, TypeOK, Requested, PCs, HolderPCs, LoginPCs, Results, Codes, gateway,
         Checked
<1>10. ASSUME NEW c \in Calls, Discover(c) PROVE Typed'
  BY <1>10, SessionAssumption
     DEF Discover, Private, Failure, Reached, Fault, Answer, Goto, Typed, TypeOK,
         Requested, PCs, HolderPCs, LoginPCs, Results, Codes, gateway, locals, Checked
<1>11. ASSUME NEW c \in Calls, OpenCAS(c) PROVE Typed'
  BY <1>11, SessionAssumption
     DEF OpenCAS, CASOnly, Captured, Challenged, Failure, Reached, Fault, Answer, Goto,
         Typed, TypeOK, Requested, PCs, HolderPCs, LoginPCs, Results, Codes, gateway,
         Checked
<1>12. ASSUME NEW c \in Calls, FindKey(c) PROVE Typed'
  BY <1>12, SessionAssumption
     DEF FindKey, Private, Challenged, Failure, Fault, Answer, Goto, Typed, TypeOK,
         Requested, PCs, HolderPCs, LoginPCs, Results, Codes, gateway, locals, Checked
<1>13. ASSUME NEW c \in Calls, ReadCredential(c) PROVE Typed'
  BY <1>13
     DEF ReadCredential, Private, Answer, Goto, Typed, TypeOK, Requested, PCs,
         HolderPCs, LoginPCs, Results, Codes, gateway, locals, Checked
<1>14. ASSUME NEW c \in Calls, PostForm(c) PROVE Typed'
  BY <1>14, SessionAssumption
     DEF PostForm, CASOnly, Captured, Challenged, Failure, Reached, Fault, Answer, Goto,
         Typed, TypeOK, Requested, PCs, HolderPCs, LoginPCs, Results, Codes, gateway,
         Checked
<1>15. ASSUME NEW c \in Calls, PromptQR(c) PROVE Typed'
  BY <1>15
     DEF PromptQR, Answer, Goto, Typed, TypeOK, Requested, PCs, HolderPCs, LoginPCs,
         Results, Codes, gateway, bounds, Checked
<1>16. ASSUME NEW c \in Calls, Poll(c) PROVE Typed'
  BY <1>16, SessionAssumption
     DEF Poll, CASOnly, Captured, Challenged, Failure, Reached, Fault, Answer, Goto,
         Typed, TypeOK, Requested, PCs, HolderPCs, LoginPCs, Results, Codes, gateway,
         Checked
<1>17. ASSUME NEW c \in Calls, PollWait(c) PROVE Typed'
  BY <1>17, SessionAssumption
     DEF PollWait, Answer, Goto, Typed, TypeOK, Requested, PCs, HolderPCs, LoginPCs,
         Results, Codes, gateway, bounds, Checked
<1>18. ASSUME NEW c \in Calls, ConfirmQR(c) PROVE Typed'
  BY <1>18, SessionAssumption
     DEF ConfirmQR, CASOnly, Captured, Challenged, Failure, Reached, Fault, Answer,
         Goto, Typed, TypeOK, Requested, PCs, HolderPCs, LoginPCs, Results, Codes,
         gateway, Checked
<1>19. ASSUME NEW c \in Calls, Activate(c) PROVE Typed'
  <2>1. <<"begin", ticket[c]>> \in Changes
    BY <1>19 DEF Activate, Typed, Requested, Changes
  <2>2. session' \in Sessions /\ late' \subseteq Changes
    BY <1>19, <2>1, PerformType DEF Activate, Typed, TypeOK, gateway
  <2> QED
    BY <1>19, <2>2, SessionAssumption
       DEF Activate, Unclear, Fault, Answer, Expect, Goto, Typed, TypeOK, Requested,
           PCs, HolderPCs, LoginPCs, Results, Codes, Sessions, Checked
<1>20. ASSUME NEW c \in Calls, Leave(c) PROVE Typed'
  BY <1>20, SessionAssumption
     DEF Leave, Goto, Typed, TypeOK, Requested, PCs, HolderPCs, LoginPCs, Results,
         Sessions, gateway, bounds, Checked
<1>21. ASSUME NEW c \in Calls, Cancel(c) PROVE Typed'
  BY <1>21, SessionAssumption DEF Cancel, Typed, TypeOK, Requested, gateway, locals
<1>22. CASE Deliver
  BY <1>22, AfterType DEF Deliver, Typed, TypeOK, Requested, locals, bounds
<1>23. CASE Other
  BY <1>23, SessionAssumption DEF Other, Typed, TypeOK, Requested, locals
<1>24. CASE UNCHANGED vars
  BY <1>24 DEF vars, Typed, TypeOK, Requested
<1> QED
  BY <1>1, <1>2, <1>3, <1>4, <1>5, <1>6, <1>7, <1>8, <1>9, <1>10, <1>11, <1>12, <1>13,
     <1>14, <1>15, <1>16, <1>17, <1>18, <1>19, <1>20, <1>21, <1>22, <1>23, <1>24
     DEF Next, Proceed, Enter, Authenticate

\* Type correctness (every action): what the variables of TypeOK range over.
THEOREM SessionTypeCorrect == Spec => []TypeOK
<1>1. Typed => TypeOK
  BY DEF Typed
<1> QED
  BY TypedInit, TypedStep, <1>1, PTL DEF Spec

(***************************************************************************)
(* The token.  A step that leaves a call inside or outside the slot and    *)
(* the channel alone keeps the account.                                    *)
(***************************************************************************)
LEMMA TokenKept ==
  ASSUME TokenAccounted, pc \in [Calls -> PCs], token' = token,
         NEW c \in Calls, NEW l, pc' = [pc EXCEPT ![c] = l],
         pc[c] \in HolderPCs <=> l \in HolderPCs
  PROVE  TokenAccounted'
<1>1. Holders' = Holders
  BY DEF Holders
<1> QED
  BY <1>1 DEF TokenAccounted

\* Every step preserves that the token of session changes is with one call.
LEMMA TokenStep == ASSUME Typed, TokenAccounted, [Next]_vars PROVE TokenAccounted'
<1>0. pc \in [Calls -> PCs] /\ token \in {0, 1}
  BY DEF Typed, TypeOK
<1>1. ASSUME NEW c \in Calls, Call(c) PROVE TokenAccounted'
  BY <1>1, <1>0, TokenKept DEF Call, Goto, HolderPCs, LoginPCs
<1>2. ASSUME NEW c \in Calls, ReadStatus(c) PROVE TokenAccounted'
  BY <1>2, <1>0, TokenKept DEF ReadStatus, Goto, HolderPCs, LoginPCs
<1>3. ASSUME NEW c \in Calls, EnterLock(c) PROVE TokenAccounted'
  BY <1>3, <1>0, TokenKept DEF EnterLock, Goto, HolderPCs, LoginPCs
<1>4. ASSUME NEW c \in Calls, AbandonLock(c) PROVE TokenAccounted'
  BY <1>4, <1>0, TokenKept DEF AbandonLock, Goto, HolderPCs, LoginPCs
<1>5. ASSUME NEW c \in Calls, TakeToken(c) PROVE TokenAccounted'
  BY <1>5, <1>0 DEF TakeToken, Goto, TokenAccounted, Holders, HolderPCs
<1>6. ASSUME NEW c \in Calls, Recheck(c) PROVE TokenAccounted'
  BY <1>6, <1>0
     DEF Recheck, FreeOnRecheck, Answer, Goto, TokenAccounted, Holders, HolderPCs,
         LoginPCs
<1>7. ASSUME NEW c \in Calls, Preflight(c) PROVE TokenAccounted'
  BY <1>7, <1>0, TokenKept DEF Preflight, Failure, Answer, Goto, HolderPCs, LoginPCs
<1>8. ASSUME NEW c \in Calls, SendLogout(c) PROVE TokenAccounted'
  BY <1>8, <1>0, TokenKept DEF SendLogout, Answer, AfterLogout, Expect, Goto, HolderPCs
<1>9. ASSUME NEW c \in Calls, Verify(c) PROVE TokenAccounted'
  BY <1>9, <1>0, TokenKept
     DEF Verify, Verified, Stay, Failure, Answer, Goto, HolderPCs, LoginPCs
<1>10. ASSUME NEW c \in Calls, Discover(c) PROVE TokenAccounted'
  BY <1>10, <1>0, TokenKept
     DEF Discover, Private, Failure, Answer, Goto, HolderPCs, LoginPCs
<1>11. ASSUME NEW c \in Calls, OpenCAS(c) PROVE TokenAccounted'
  BY <1>11, <1>0, TokenKept
     DEF OpenCAS, CASOnly, Captured, Challenged, Failure, Answer, Goto, HolderPCs,
         LoginPCs
<1>12. ASSUME NEW c \in Calls, FindKey(c) PROVE TokenAccounted'
  BY <1>12, <1>0, TokenKept
     DEF FindKey, Private, Challenged, Failure, Answer, Goto, HolderPCs, LoginPCs
<1>13. ASSUME NEW c \in Calls, ReadCredential(c) PROVE TokenAccounted'
  BY <1>13, <1>0, TokenKept
     DEF ReadCredential, Private, Answer, Goto, HolderPCs, LoginPCs
<1>14. ASSUME NEW c \in Calls, PostForm(c) PROVE TokenAccounted'
  BY <1>14, <1>0, TokenKept
     DEF PostForm, CASOnly, Captured, Challenged, Failure, Answer, Goto, HolderPCs,
         LoginPCs
<1>15. ASSUME NEW c \in Calls, PromptQR(c) PROVE TokenAccounted'
  BY <1>15, <1>0, TokenKept DEF PromptQR, Answer, Goto, HolderPCs, LoginPCs
<1>16. ASSUME NEW c \in Calls, Poll(c) PROVE TokenAccounted'
  BY <1>16, <1>0, TokenKept
     DEF Poll, CASOnly, Captured, Challenged, Failure, Answer, Goto, HolderPCs, LoginPCs
<1>17. ASSUME NEW c \in Calls, PollWait(c) PROVE TokenAccounted'
  BY <1>17, <1>0, TokenKept DEF PollWait, Answer, Goto, HolderPCs, LoginPCs
<1>18. ASSUME NEW c \in Calls, ConfirmQR(c) PROVE TokenAccounted'
  BY <1>18, <1>0, TokenKept
     DEF ConfirmQR, CASOnly, Captured, Challenged, Failure, Answer, Goto, HolderPCs,
         LoginPCs
<1>19. ASSUME NEW c \in Calls, Activate(c) PROVE TokenAccounted'
  BY <1>19, <1>0, TokenKept DEF Activate, Answer, Expect, Goto, HolderPCs, LoginPCs
<1>20. ASSUME NEW c \in Calls, Leave(c) PROVE TokenAccounted'
  BY <1>20, <1>0 DEF Leave, Goto, TokenAccounted, Holders, HolderPCs, LoginPCs
<1>21. ASSUME NEW c \in Calls, Cancel(c) PROVE TokenAccounted'
  BY <1>21 DEF Cancel, TokenAccounted, Holders
<1>22. CASE Deliver
  BY <1>22 DEF Deliver, TokenAccounted, Holders
<1>23. CASE Other
  BY <1>23 DEF Other, TokenAccounted, Holders
<1>24. CASE UNCHANGED vars
  BY <1>24 DEF vars, TokenAccounted, Holders
<1> QED
  BY <1>1, <1>2, <1>3, <1>4, <1>5, <1>6, <1>7, <1>8, <1>9, <1>10, <1>11, <1>12, <1>13,
     <1>14, <1>15, <1>16, <1>17, <1>18, <1>19, <1>20, <1>21, <1>22, <1>23, <1>24
     DEF Next, Proceed, Enter, Authenticate

\* contextMutex (client.go): at most one call is in a session change, and the slot is
\* taken exactly while one is, whoever gives up waiting for it.
THEOREM MutualExclusion == Spec => []TokenAccounted
<1>1. Init => TokenAccounted
  BY DEF Init, TokenAccounted, Holders, HolderPCs, LoginPCs
<1> QED
  BY <1>1, TypedInit, TypedStep, TokenStep, PTL DEF Spec

(***************************************************************************)
(* Authentication.  A step that takes a call nowhere into the login, or    *)
(* moves it on within it, and keeps what it has read of the gateway,       *)
(* cannot break it.                                                        *)
(***************************************************************************)
LEMMA OfflineKept ==
  ASSUME AuthenticatesWhenOffline, pc \in [Calls -> PCs], seen' = seen,
         NEW c \in Calls, NEW l, pc' = [pc EXCEPT ![c] = l],
         l \in LoginPCs => pc[c] \in LoginPCs
  PROVE  AuthenticatesWhenOffline'
BY DEF AuthenticatesWhenOffline

\* Every step preserves that authentication follows an offline answer.
LEMMA AuthStep ==
  ASSUME Typed, AuthenticatesWhenOffline, [Next]_vars
  PROVE  AuthenticatesWhenOffline'
<1>0. pc \in [Calls -> PCs]
  BY DEF Typed, TypeOK
<1>1. ASSUME NEW c \in Calls, Call(c) PROVE AuthenticatesWhenOffline'
  BY <1>1, <1>0, OfflineKept DEF Call, Goto, locals, LoginPCs
<1>2. ASSUME NEW c \in Calls, ReadStatus(c) PROVE AuthenticatesWhenOffline'
  BY <1>2, <1>0, OfflineKept DEF ReadStatus, Goto, locals, LoginPCs
<1>3. ASSUME NEW c \in Calls, EnterLock(c) PROVE AuthenticatesWhenOffline'
  BY <1>3, <1>0, OfflineKept DEF EnterLock, Goto, locals, LoginPCs
<1>4. ASSUME NEW c \in Calls, AbandonLock(c) PROVE AuthenticatesWhenOffline'
  BY <1>4, <1>0, OfflineKept DEF AbandonLock, Goto, locals, LoginPCs
<1>5. ASSUME NEW c \in Calls, TakeToken(c) PROVE AuthenticatesWhenOffline'
  BY <1>5, <1>0, OfflineKept DEF TakeToken, Goto, locals, LoginPCs
<1>6. ASSUME NEW c \in Calls, Recheck(c) PROVE AuthenticatesWhenOffline'
  BY <1>6, <1>0, OfflineKept DEF Recheck, Answer, Goto, locals, LoginPCs
<1>7. ASSUME NEW c \in Calls, Preflight(c) PROVE AuthenticatesWhenOffline'
  BY <1>7
     DEF Preflight, Failure, Answer, Goto, AuthenticatesWhenOffline, Typed, TypeOK,
         LoginPCs
<1>8. ASSUME NEW c \in Calls, SendLogout(c) PROVE AuthenticatesWhenOffline'
  BY <1>8, <1>0, OfflineKept DEF SendLogout, Answer, AfterLogout, Expect, Goto, LoginPCs
<1>9. ASSUME NEW c \in Calls, Verify(c) PROVE AuthenticatesWhenOffline'
  BY <1>9
     DEF Verify, Verified, Matches, Stay, Failure, Answer, Goto,
         AuthenticatesWhenOffline, Typed, TypeOK, LoginPCs
<1>10. ASSUME NEW c \in Calls, Discover(c) PROVE AuthenticatesWhenOffline'
  BY <1>10, <1>0, OfflineKept
     DEF Discover, Private, Failure, Answer, Goto, locals, LoginPCs
<1>11. ASSUME NEW c \in Calls, OpenCAS(c) PROVE AuthenticatesWhenOffline'
  BY <1>11, <1>0, OfflineKept
     DEF OpenCAS, CASOnly, Captured, Challenged, Failure, Answer, Goto, LoginPCs
<1>12. ASSUME NEW c \in Calls, FindKey(c) PROVE AuthenticatesWhenOffline'
  BY <1>12, <1>0, OfflineKept
     DEF FindKey, Private, Challenged, Failure, Answer, Goto, locals, LoginPCs
<1>13. ASSUME NEW c \in Calls, ReadCredential(c) PROVE AuthenticatesWhenOffline'
  BY <1>13, <1>0, OfflineKept
     DEF ReadCredential, Private, Answer, Goto, locals, LoginPCs
<1>14. ASSUME NEW c \in Calls, PostForm(c) PROVE AuthenticatesWhenOffline'
  BY <1>14, <1>0, OfflineKept
     DEF PostForm, CASOnly, Captured, Challenged, Failure, Answer, Goto, LoginPCs
<1>15. ASSUME NEW c \in Calls, PromptQR(c) PROVE AuthenticatesWhenOffline'
  BY <1>15, <1>0, OfflineKept DEF PromptQR, Answer, Goto, LoginPCs
<1>16. ASSUME NEW c \in Calls, Poll(c) PROVE AuthenticatesWhenOffline'
  BY <1>16, <1>0, OfflineKept
     DEF Poll, CASOnly, Captured, Challenged, Failure, Answer, Goto, LoginPCs
<1>17. ASSUME NEW c \in Calls, PollWait(c) PROVE AuthenticatesWhenOffline'
  BY <1>17, <1>0, OfflineKept DEF PollWait, Answer, Goto, LoginPCs
<1>18. ASSUME NEW c \in Calls, ConfirmQR(c) PROVE AuthenticatesWhenOffline'
  BY <1>18, <1>0, OfflineKept
     DEF ConfirmQR, CASOnly, Captured, Challenged, Failure, Answer, Goto, LoginPCs
<1>19. ASSUME NEW c \in Calls, Activate(c) PROVE AuthenticatesWhenOffline'
  BY <1>19, <1>0, OfflineKept DEF Activate, Answer, Expect, Goto, LoginPCs
<1>20. ASSUME NEW c \in Calls, Leave(c) PROVE AuthenticatesWhenOffline'
  BY <1>20 DEF Leave, Goto, AuthenticatesWhenOffline, LoginPCs
<1>21. ASSUME NEW c \in Calls, Cancel(c) PROVE AuthenticatesWhenOffline'
  BY <1>21 DEF Cancel, AuthenticatesWhenOffline, locals
<1>22. CASE Deliver
  BY <1>22 DEF Deliver, AuthenticatesWhenOffline, locals
<1>23. CASE Other
  BY <1>23 DEF Other, AuthenticatesWhenOffline, locals
<1>24. CASE UNCHANGED vars
  BY <1>24 DEF vars, AuthenticatesWhenOffline, locals
<1> QED
  BY <1>1, <1>2, <1>3, <1>4, <1>5, <1>6, <1>7, <1>8, <1>9, <1>10, <1>11, <1>12, <1>13,
     <1>14, <1>15, <1>16, <1>17, <1>18, <1>19, <1>20, <1>21, <1>22, <1>23, <1>24
     DEF Next, Proceed, Enter, Authenticate

\* Login (auth.go): whatever fails, however many calls compete and whatever others do to
\* the session, no credential is read, no code shown and no ticket used by a call whose
\* latest answer from the gateway was not "offline".
THEOREM AuthenticationGuarded == Spec => []AuthenticatesWhenOffline
<1>1. Init => AuthenticatesWhenOffline
  BY DEF Init, AuthenticatesWhenOffline, LoginPCs
<1> QED
  BY <1>1, TypedInit, TypedStep, AuthStep, PTL DEF Spec

(***************************************************************************)
(* A machine whose session only this client changes, at a gateway that     *)
(* acts on a request at once or not at all.  Nothing can be promised       *)
(* without: the effect of an earlier, failed request may come at any time  *)
(* and displace the session.                                               *)
(***************************************************************************)
Alone == MaxLate = 0 /\ MaxOthers = 0

\* Towards the CAS the gateway is still offline; who ends a session may do so and knows
\* whose it is; a result is there only when the call leaves.
Settled ==
  /\ late = {}
  /\ \A c \in Calls :
       /\ pc[c] \in LoginPCs => session = Offline
       /\ pc[c] \in Checked /\ req[c].op = "login" => req[c].switch # "other"
       /\ pc[c] = "logout" /\ req[c].op = "login" =>
            req[c].switch = "logout_existing" /\ seen[c] # req[c].user
       /\ pc[c] = "verify" /\ goal[c] # Offline => goal[c] = req[c].user
       /\ result[c] # "none" => pc[c] = "leave"
  /\ HonestResult

\* Alone, a request changes the session at once or not at all.
LEMMA PerformAlone ==
  ASSUME Alone, late = {}, NEW e, NEW change, Perform(e, change)
  PROVE  late' = {} /\ session' \in {session, After(session, change)}
BY FS_EmptySet DEF Alone, Perform, gateway

\* Two calls inside the slot are one.
LEMMA Exclusive ==
  ASSUME TokenAccounted, Typed
  PROVE  \A c, d \in Calls : pc[c] \in HolderPCs /\ pc[d] \in HolderPCs => c = d
BY DEF TokenAccounted, Holders, Typed, TypeOK

\* Only the call inside the slot changes the session; no other relies on it meanwhile.
LEMMA SettledStep ==
  ASSUME Alone, Typed, TokenAccounted, Settled, [Next]_vars
  PROVE  Settled'
<1>0. /\ pc \in [Calls -> PCs]
      /\ \A c, d \in Calls : pc[c] \in HolderPCs /\ pc[d] \in HolderPCs => c = d
  BY Exclusive DEF Typed, TypeOK
<1>1. ASSUME NEW c \in Calls, Call(c) PROVE Settled'
  BY <1>1 DEF Call, Goto, Settled, HonestResult, Checked, LoginPCs, gateway, locals
<1>2. ASSUME NEW c \in Calls, ReadStatus(c) PROVE Settled'
  BY <1>2
     DEF ReadStatus, Goto, Settled, HonestResult, Checked, LoginPCs, gateway, locals
<1>3. ASSUME NEW c \in Calls, EnterLock(c) PROVE Settled'
  BY <1>3
     DEF EnterLock, Goto, Settled, HonestResult, Typed, TypeOK, Checked, LoginPCs,
         gateway, locals
<1>4. ASSUME NEW c \in Calls, AbandonLock(c) PROVE Settled'
  BY <1>4
     DEF AbandonLock, Goto, Settled, HonestResult, Checked, LoginPCs, gateway, locals
<1>5. ASSUME NEW c \in Calls, TakeToken(c) PROVE Settled'
  BY <1>5 DEF TakeToken, Goto, Settled, HonestResult, Checked, LoginPCs, gateway, locals
<1>6. ASSUME NEW c \in Calls, Recheck(c) PROVE Settled'
  BY <1>6, <1>0
     DEF Recheck, Misuse, Answer, Goto, Settled, HonestResult, Typed, TypeOK, Checked,
         HolderPCs, LoginPCs, gateway
<1>7. ASSUME NEW c \in Calls, Preflight(c) PROVE Settled'
  BY <1>7, SessionAssumption
     DEF Preflight, Failure, Answer, MaySwitch, Goto, Settled, HonestResult, Typed,
         TypeOK, Requested, Checked, LoginPCs, gateway, Request
<1>8. ASSUME NEW c \in Calls, SendLogout(c) PROVE Settled'
  <2>1. late' = {}
    BY <1>8, PerformAlone DEF SendLogout, Settled, gateway
  <2> QED
    BY <1>8, <2>1, <1>0
       DEF SendLogout, Unclear, Answer, AfterLogout, Expect, Goto, Settled,
           HonestResult, Typed, TypeOK, HolderPCs, LoginPCs
<1>9. ASSUME NEW c \in Calls, Verify(c) PROVE Settled'
  BY <1>9
     DEF Verify, Verified, Matches, Stay, Failure, Answer, Goto, Settled, HonestResult,
         Typed, TypeOK, Checked, LoginPCs, gateway
<1>10. ASSUME NEW c \in Calls, Discover(c) PROVE Settled'
  BY <1>10, <1>0
     DEF Discover, Private, Failure, Answer, Goto, Settled, HonestResult, Typed, TypeOK,
         Checked, HolderPCs, LoginPCs, gateway
<1>11. ASSUME NEW c \in Calls, OpenCAS(c) PROVE Settled'
  BY <1>11
     DEF OpenCAS, CASOnly, Captured, Challenged, Failure, Answer, Goto, Settled,
         HonestResult, Typed, TypeOK, Checked, LoginPCs, gateway
<1>12. ASSUME NEW c \in Calls, FindKey(c) PROVE Settled'
  BY <1>12, <1>0
     DEF FindKey, Private, Challenged, Failure, Answer, Goto, Settled, HonestResult,
         Typed, TypeOK, Checked, HolderPCs, LoginPCs, gateway
<1>13. ASSUME NEW c \in Calls, ReadCredential(c) PROVE Settled'
  BY <1>13, <1>0
     DEF ReadCredential, Private, Answer, Goto, Settled, HonestResult, Typed, TypeOK,
         Checked, HolderPCs, LoginPCs, gateway
<1>14. ASSUME NEW c \in Calls, PostForm(c) PROVE Settled'
  BY <1>14
     DEF PostForm, CASOnly, Captured, Challenged, Failure, Answer, Goto, Settled,
         HonestResult, Typed, TypeOK, Checked, LoginPCs, gateway
<1>15. ASSUME NEW c \in Calls, PromptQR(c) PROVE Settled'
  BY <1>15
     DEF PromptQR, Answer, Goto, Settled, HonestResult, Typed, TypeOK, Checked,
         LoginPCs, gateway
<1>16. ASSUME NEW c \in Calls, Poll(c) PROVE Settled'
  BY <1>16
     DEF Poll, CASOnly, Captured, Challenged, Failure, Answer, Goto, Settled,
         HonestResult, Typed, TypeOK, Checked, LoginPCs, gateway
<1>17. ASSUME NEW c \in Calls, PollWait(c) PROVE Settled'
  BY <1>17
     DEF PollWait, Answer, Goto, Settled, HonestResult, Typed, TypeOK, Checked,
         LoginPCs, gateway
<1>18. ASSUME NEW c \in Calls, ConfirmQR(c) PROVE Settled'
  BY <1>18
     DEF ConfirmQR, CASOnly, Captured, Challenged, Failure, Answer, Goto, Settled,
         HonestResult, Typed, TypeOK, Checked, LoginPCs, gateway
<1>19. ASSUME NEW c \in Calls, Activate(c) PROVE Settled'
  <2>1. late' = {}
    BY <1>19, PerformAlone DEF Activate, Settled, gateway
  <2> QED
    BY <1>19, <2>1, <1>0
       DEF Activate, Unclear, Answer, Expect, Goto, Settled, HonestResult, Typed,
           TypeOK, Checked, HolderPCs, LoginPCs
<1>20. ASSUME NEW c \in Calls, Leave(c) PROVE Settled'
  BY <1>20
     DEF Leave, Goto, Settled, HonestResult, Typed, TypeOK, Checked, LoginPCs, gateway
<1>21. ASSUME NEW c \in Calls, Cancel(c) PROVE Settled'
  BY <1>21 DEF Cancel, Settled, HonestResult, gateway, locals
<1>22. CASE Deliver
  BY <1>22 DEF Deliver, Settled
<1>23. CASE Other
  BY <1>23 DEF Other, Alone, Typed, TypeOK
<1>24. CASE UNCHANGED vars
  BY <1>24 DEF vars, Settled, HonestResult
<1> QED
  BY <1>1, <1>2, <1>3, <1>4, <1>5, <1>6, <1>7, <1>8, <1>9, <1>10, <1>11, <1>12, <1>13,
     <1>14, <1>15, <1>16, <1>17, <1>18, <1>19, <1>20, <1>21, <1>22, <1>23, <1>24
     DEF Next, Proceed, Enter, Authenticate

\* With one call at a time every call is settled by its answers.
LEMMA SettledAlways ==
  ASSUME Alone
  PROVE  Spec => [](Typed /\ TokenAccounted /\ Settled)
<1>1. Init => Settled
  BY DEF Init, Settled, HonestResult, LoginPCs, Checked
<1>2. Typed /\ TokenAccounted /\ Settled /\ [Next]_vars => Settled'
  BY SettledStep
<1> QED
  BY <1>1, <1>2, TypedInit, TypedStep, MutualExclusion, PTL DEF Spec

\* Login and Logout (auth.go): the session state a call reports is the one the gateway is in.
THEOREM ResultsHonest == ASSUME Alone PROVE Spec => []HonestResult
<1>1. Settled => HonestResult
  BY DEF Settled
<1> QED
  BY <1>1, SettledAlways, PTL

-----------------------------------------------------------------------------
(***************************************************************************)
(* The session as the gateway sees it.                                     *)
(***************************************************************************)
Asked == {req[c] : c \in {d \in Calls : pc[d] # "idle"}}

\* A step that leaves the session alone is a step of the callers.
LEMMA QuietStep == ASSUME Typed', session' = session PROVE Atomic!Ask
<1>1. Asked' \subseteq Requests
  BY DEF Asked, Typed, Requested
<1> QED
  BY <1>1 DEF Atomic!Ask, Asked

\* A logout that takes effect was asked for, by a Logout or by a Login that may switch.
LEMMA EndsAsAsked ==
  ASSUME Alone, Typed, Settled, NEW c \in Calls, SendLogout(c), session' # session
  PROVE  Atomic!LogOut
<1>1. session' = After(session, <<"end", seen[c]>>)
  BY PerformAlone DEF SendLogout, Settled, gateway
<1>2. session = seen[c] /\ session' = Offline /\ session \in Users
  BY <1>1 DEF After, SendLogout, Typed, Requested
<1>3. req[c] \in Asked
  BY DEF SendLogout, Asked
<1>4. req[c].op = "logout" \/ (/\ req[c].op = "login" /\ req[c].switch = "logout_existing"
                               /\ req[c].user # session)
  BY <1>2 DEF SendLogout, Settled, Typed, Requested, HolderPCs
<1>5. Asked' = Asked
  BY DEF SendLogout, AfterLogout, Expect, Answer, Goto, Asked, Typed, TypeOK
<1> QED
  BY <1>2, <1>3, <1>4, <1>5 DEF Atomic!LogOut, Asked

\* An activation that takes effect was asked for, and finds the gateway offline.
LEMMA BeginsAsAsked ==
  ASSUME Alone, Typed, Settled, NEW c \in Calls, Activate(c), session' # session
  PROVE  Atomic!LogIn
<1>1. session' = After(session, <<"begin", ticket[c]>>)
  BY PerformAlone DEF Activate, Settled, gateway
<1>2. session = Offline /\ session' \in Users
  BY <1>1 DEF After, Activate, Typed, Requested, Settled, LoginPCs
<1>3. req[c] \in Asked /\ req[c].op = "login"
  BY DEF Activate, Asked, Typed, Requested, LoginPCs
<1>4. Asked' = Asked
  BY DEF Activate, Expect, Answer, Goto, Asked, Typed, TypeOK
<1> QED
  BY <1>2, <1>3, <1>4 DEF Atomic!LogIn, Asked

\* Every step of the client is a step of the atomic session or a stutter.
LEMMA StepRefines ==
  ASSUME Alone, Typed, Typed', Settled, [Next]_vars
  PROVE  [Atomic!SNext]_(Atomic!asvars)
<1>1. CASE session' = session
  BY <1>1, QuietStep DEF Atomic!SNext
<1>2. CASE session' # session
  <2>1. ASSUME NEW c \in Calls, SendLogout(c) PROVE Atomic!SNext
    BY <1>2, <2>1, EndsAsAsked DEF Atomic!SNext
  <2>2. ASSUME NEW c \in Calls, Activate(c) PROVE Atomic!SNext
    BY <1>2, <2>2, BeginsAsAsked DEF Atomic!SNext
  <2>3. ~Deliver /\ ~Other /\ ~UNCHANGED vars
    BY <1>2 DEF Alone, Deliver, Other, Settled, Typed, TypeOK, vars
  <2>4. ASSUME NEW c \in Calls, Call(c) \/ TakeToken(c) \/ Cancel(c) \/ ReadStatus(c) \/ Enter(c)
        PROVE session' = session
    BY <2>4
       DEF Call, TakeToken, Cancel, ReadStatus, Enter, EnterLock, AbandonLock, Recheck,
           gateway
  <2>5. ASSUME NEW c \in Calls, Preflight(c) \/ Verify(c) \/ Leave(c) PROVE session' = session
    BY <2>5 DEF Preflight, Verify, Leave, gateway
  <2>6. ASSUME NEW c \in Calls, Authenticate(c) PROVE session' = session
    BY <2>6
       DEF Authenticate, Discover, OpenCAS, FindKey, ReadCredential, PostForm, PromptQR,
           Poll, PollWait, ConfirmQR, Private, CASOnly, gateway
  <2> QED
    BY <1>2, <2>1, <2>2, <2>3, <2>4, <2>5, <2>6 DEF Next, Proceed
<1> QED
  BY <1>1, <1>2

\* Seen from the gateway the client does what AtomicSession allows: whatever fails and
\* whoever is canceled, no session is replaced, and none ends or begins unasked.
THEOREM SessionRefinement == ASSUME Alone PROVE Spec => AtomicSessionSpec
<1>1. Init => Atomic!SInit
  BY DEF Init, Atomic!SInit, Sessions
<1>2. Typed /\ Typed' /\ Settled /\ [Next]_vars => [Atomic!SNext]_(Atomic!asvars)
  BY StepRefines
<1> QED
  BY <1>1, <1>2, SettledAlways, PTL DEF Spec, AtomicSessionSpec, Atomic!SSpec
=============================================================================
