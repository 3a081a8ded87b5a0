--------------------------- MODULE AdminSession ---------------------------
(***************************************************************************)
(* Log-in, sessions and changes of the admin API.  Handlers run            *)
(* concurrently; the lock is held for single accesses of the session and   *)
(* failure tables, not from the check of a log-in or a session to what is  *)
(* done on the strength of it.  Sessions and failures are in memory and    *)
(* gone after a restart.  The rows of the audit log are not kept: a change *)
(* and its row are two steps, and the row may fail.                        *)
(*                                                                         *)
(* Time is the number of ticks a lock-out has left, and expiry an action.  *)
(* Passwords and Turnstile answers are right or wrong by choice.           *)
(***************************************************************************)
EXTENDS Naturals, FiniteSets

CONSTANTS Login, Call,      \* handlers of /api/login and of the other paths
          Peer,             \* addresses connections come from
          Trusted,          \* those that are trusted proxies
          Client,           \* addresses a proxy may name, and none
          NoClient,
          Token, NoToken, User, Readonly, NoUser,
          MaxFails,         \* failures that lock an address out (5)
          Window,           \* ticks a lock-out lasts (60 seconds)
          MaxRestarts       \* bound: restarts of the relay

ASSUME SetAssumption == /\ Trusted \subseteq Peer /\ NoClient \notin Client
                        /\ Readonly \subseteq User /\ NoUser \notin User /\ NoToken \notin Token
                        /\ \A S \in {Login, Call, Token} : IsFiniteSet(S)
ASSUME LimitAssumption == MaxFails \in Nat \ {0} /\ Window \in Nat \ {0}
ASSUME BoundAssumption == MaxRestarts \in Nat

VARIABLES login,     \* per log-in: "idle", or past the check, with its address
          fails,     \* loginFails: count and ticks left, per address
          sessions,  \* the user of a token that is in the table, else NoUser
          used,      \* tokens given out (randomToken never repeats one)
          expired,   \* tokens whose expiry has passed
          call,      \* per call: "idle", "act" or "audit", and whose session it found
          stale,     \* history: changes made with a token that was no longer valid
          restarts

loginVars == <<login, fails>>
sessionVars == <<sessions, used, expired>>
callVars == <<call, stale>>
vars == <<loginVars, sessionVars, callVars, restarts>>

Address == Peer \cup Client
IdleLogin == [at |-> "idle", ip |-> NoClient]
IdleCall == [at |-> "idle", token |-> NoToken]

Init == /\ login = [l \in Login |-> IdleLogin]
        /\ fails = [a \in Address |-> [count |-> 0, left |-> 0]]
        /\ sessions = [t \in Token |-> NoUser] /\ used = {} /\ expired = {}
        /\ call = [c \in Call |-> IdleCall]
        /\ stale = [t \in Token |-> 0] /\ restarts = 0

-----------------------------------------------------------------------------
(***************************************************************************)
(* handleLogin.                                                            *)
(***************************************************************************)
\* fromTrustedProxy and clientIP: a forwarded address counts from a proxy only.
ClientIP(peer, forwarded) == IF peer \in Trusted /\ forwarded # NoClient THEN forwarded ELSE peer

\* Mutant: the sixth failure locks, not the fifth.
LockedAfterOneMore(a) == fails[a].count > MaxFails /\ fails[a].left > 0

Locked(a) == fails[a].count >= MaxFails /\ fails[a].left > 0

\* The failure counter is read under the lock, which is then released.
CheckLimit(l, peer, forwarded) ==
    LET a == ClientIP(peer, forwarded) IN
    /\ login[l].at = "idle" /\ ~Locked(a)
    /\ login' = [login EXCEPT ![l] = [at |-> "checked", ip |-> a]]
    /\ UNCHANGED <<fails, sessionVars, callVars, restarts>>

\* Mutant: an attempt that is refused counts as a failure.
RefuseAndRecord(peer, forwarded) ==
    LET a == ClientIP(peer, forwarded) IN
    /\ Locked(a)
    /\ fails' = [fails EXCEPT ![a].left = Window]
    /\ UNCHANGED <<login, sessionVars, callVars, restarts>>

\* 429: nothing is recorded.
Refuse(peer, forwarded) == Locked(ClientIP(peer, forwarded)) /\ UNCHANGED vars

\* Mutant: the window is one tick longer.
RecordLoginFailLonger(a) == fails' = [fails EXCEPT ![a] = [count |-> IF @.left = 0 THEN 1 ELSE @.count + 1,
                                                           left |-> Window + 1]]

\* recordLoginFail: a new window starts; the count starts again after an old one.
RecordLoginFail(a) == fails' = [fails EXCEPT ![a] = [count |-> IF @.left = 0 THEN 1 ELSE @.count + 1,
                                                     left |-> Window]]

\* Turnstile, the user or the password is wrong.
LoginFails(l) == /\ login[l].at = "checked"
                 /\ RecordLoginFail(login[l].ip)
                 /\ login' = [login EXCEPT ![l] = IdleLogin]
                 /\ UNCHANGED <<sessionVars, callVars, restarts>>

\* A body that is not JSON, no Turnstile token or no random bytes: not counted.
LoginErrs(l) == /\ login[l].at = "checked"
                /\ login' = [login EXCEPT ![l] = IdleLogin]
                /\ UNCHANGED <<fails, sessionVars, callVars, restarts>>

\* A session of the user, with the role that user has now; the count stays.
LoginSucceeds(l, t, u) ==
    /\ login[l].at = "checked" /\ t \notin used
    /\ used' = used \cup {t}
    /\ sessions' = [sessions EXCEPT ![t] = u]
    /\ login' = [login EXCEPT ![l] = IdleLogin]
    /\ UNCHANGED <<fails, expired, callVars, restarts>>

Tick(a) == /\ fails[a].left > 0
           /\ fails' = [fails EXCEPT ![a].left = @ - 1]
           /\ UNCHANGED <<login, sessionVars, callVars, restarts>>

-----------------------------------------------------------------------------
(***************************************************************************)
(* handleAPI.                                                              *)
(***************************************************************************)
Live == {t \in Token : sessions[t] # NoUser}
Valid == Live \ expired
Remove(t) == sessions' = [sessions EXCEPT ![t] = NoUser]

Expire(t) == /\ t \in Valid
             /\ expired' = expired \cup {t}
             /\ UNCHANGED <<loginVars, sessions, used, callVars, restarts>>

\* sessionFromReq removes an expired session when it is presented.
PresentExpired(t) == /\ t \in Live \cap expired
                     /\ Remove(t)
                     /\ UNCHANGED <<loginVars, used, expired, callVars, restarts>>

\* Mutant: a token is checked by itself, not looked up in the table.
AuthenticateIssued(c, t, method) ==
    /\ call[c].at = "idle" /\ t \in used
    /\ method = "GET" \/ sessions[t] \notin Readonly
    /\ call' = [call EXCEPT ![c] = [at |-> "act", token |-> t]]
    /\ UNCHANGED <<loginVars, sessionVars, stale, restarts>>

\* The session is found, the Origin is ours (or the method is safe), and the
\* role allows the method; from here on the call has its pointer to the session
\* and looks at the table no more.
Authenticate(c, t, method) ==
    /\ call[c].at = "idle" /\ t \in Valid
    /\ method = "GET" \/ sessions[t] \notin Readonly
    /\ call' = [call EXCEPT ![c] = [at |-> "act", token |-> t]]
    /\ UNCHANGED <<loginVars, sessionVars, stale, restarts>>

\* handleLogout is a POST: a readonly session cannot be logged out.
Logout(t) == /\ t \in Valid
             /\ sessions[t] \notin Readonly
             /\ Remove(t)
             /\ UNCHANGED <<loginVars, used, expired, callVars, restarts>>

\* A view, an unknown path, a body that does not decode, or an operation that is
\* refused: nothing is changed and nothing audited.
ActOnNothing(c) == /\ call[c].at = "act"
                   /\ call' = [call EXCEPT ![c] = IdleCall]
                   /\ UNCHANGED <<loginVars, sessionVars, stale, restarts>>

\* History: a change made with token t.
CountStale(t) == stale' = IF t \in Valid THEN stale ELSE [stale EXCEPT ![t] = @ + 1]

\* drain, kick, probe, concurrency, revoke or retention is carried out.
Act(c) == /\ call[c].at = "act"
          /\ CountStale(call[c].token)
          /\ call' = [call EXCEPT ![c].at = "audit"]
          /\ UNCHANGED <<loginVars, sessionVars, restarts>>

\* DrainNode has set the state when the message cannot be sent: the handler
\* returns the error and the change is not audited.
DrainUnsent(c) == /\ call[c].at = "act"
                  /\ CountStale(call[c].token)
                  /\ call' = [call EXCEPT ![c] = IdleCall]
                  /\ UNCHANGED <<loginVars, sessionVars, restarts>>

\* AddAudit; its error is ignored.
AddAudit(c) == /\ call[c].at = "audit"
               /\ call' = [call EXCEPT ![c] = IdleCall]
               /\ UNCHANGED <<loginVars, sessionVars, stale, restarts>>

\* The process ends with its handlers; the tables of the next one are empty.
Restart == /\ restarts < MaxRestarts
           /\ restarts' = restarts + 1
           /\ login' = [l \in Login |-> IdleLogin]
           /\ fails' = [a \in Address |-> [count |-> 0, left |-> 0]]
           /\ sessions' = [t \in Token |-> NoUser]
           /\ call' = [c \in Call |-> IdleCall]
           /\ UNCHANGED <<used, expired, stale>>

-----------------------------------------------------------------------------
Attempt(l) == \E peer \in Peer, forwarded \in Client \cup {NoClient} : CheckLimit(l, peer, forwarded)
Verify(l) == LoginFails(l) \/ LoginErrs(l) \/ \E t \in Token, u \in User : LoginSucceeds(l, t, u)
Handle(c) == ActOnNothing(c) \/ Act(c) \/ DrainUnsent(c) \/ AddAudit(c)

Next == \/ \E l \in Login : Attempt(l) \/ Verify(l)
        \/ \E peer \in Peer, forwarded \in Client \cup {NoClient} : Refuse(peer, forwarded)
        \/ \E a \in Address : Tick(a)
        \/ \E t \in Token : Expire(t) \/ PresentExpired(t) \/ Logout(t)
        \/ \E c \in Call, t \in Token, method \in {"GET", "POST"} : Authenticate(c, t, method)
        \/ \E c \in Call : Handle(c)
        \/ Restart

Spec == Init /\ [][Next]_vars

\* Time passes and handlers go on; nothing is assumed of the clients.
FairSpec == /\ Spec
            /\ \A a \in Address : WF_vars(Tick(a))
            /\ \A l \in Login : WF_vars(Verify(l))
            /\ \A c \in Call : WF_vars(Handle(c))

-----------------------------------------------------------------------------
\* Types; no lock-out has more than its window left (admin.go 248-258).
TypeOK == /\ login \in [Login -> [at : {"idle", "checked"}, ip : Address \cup {NoClient}]]
          /\ fails \in [Address -> [count : Nat, left : 0..Window]]
          /\ sessions \in [Token -> User \cup {NoUser}]
          /\ Live \subseteq used /\ used \subseteq Token /\ expired \subseteq used
          /\ call \in [Call -> [at : {"idle", "act", "audit"}, token : Token \cup {NoToken}]]
          /\ stale \in [Token -> Nat]
          /\ restarts \in 0..MaxRestarts

\* Log-ins that run in parallel get past the limit, because the counter is read
\* before the password is checked and written after it; but only those that
\* were under way when it was reached (admin.go 189-219, 248-258).
FailuresAreBounded == \A a \in Address : fails[a].count <= MaxFails + Cardinality(Login) - 1

\* A lock-out ends, however often it is tried again meanwhile and although
\* log-ins that were under way prolong it (admin.go 189-196).
LockoutEnds == \A a \in Address : Locked(a) ~> ~Locked(a)

\* A handler acts on a session that it looked up earlier, under a lock it has
\* released: a session that is logged out, expires or ends with the process may
\* still make changes, but in all of its time no more than the calls that were
\* past the look-up then; and no token comes to life again, through a restart or
\* a log-in (admin.go 260-275, 287-306, 345-360).
StaleActsAreBounded == \A t \in Token : stale[t] <= Cardinality(Call)
=============================================================================
