----------------------- MODULE AdminSession_proofs -----------------------
(***************************************************************************)
(* Proofs about AdminSession, for any number of log-ins and calls at once, *)
(* any addresses, limits and windows.                                      *)
(***************************************************************************)
EXTENDS AdminSession, FiniteSetTheorems, TLAPS

(***************************************************************************)
(* The inductive invariant.  A bound on the count alone is not inductive:  *)
(* a log-in that has passed the check is as good as a failure already      *)
(* counted, and none can join those of a locked address.  In the same way  *)
(* a call that has found a session is as good as a change made with it,    *)
(* and none can join those of a token that is no longer valid.             *)
(***************************************************************************)
UnderWay(a) == {l \in Login : login[l].at = "checked" /\ login[l].ip = a}

CheckedHasAddress == \A l \in Login : login[l].at = "checked" => login[l].ip \in Address

LockedIsFull == \A a \in Address : Locked(a) =>
    fails[a].count + Cardinality(UnderWay(a)) <= MaxFails + Cardinality(Login) - 1

LoginInv == CheckedHasAddress /\ LockedIsFull /\ FailuresAreBounded

Acting(t) == {c \in Call : call[c].at = "act" /\ call[c].token = t}

UnusedIsClean == \A t \in Token \ used : stale[t] = 0 /\ Acting(t) = {}

ValidIsClean == \A t \in Valid : stale[t] = 0

InvalidIsFull == \A t \in used \ Valid : stale[t] + Cardinality(Acting(t)) <= Cardinality(Call)

StaleInv == UnusedIsClean /\ ValidIsClean /\ InvalidIsFull

IInv == TypeOK /\ LoginInv /\ StaleInv

USE DEF loginVars, sessionVars, callVars

-----------------------------------------------------------------------------
LEMMA Limits == /\ MaxFails \in Nat /\ MaxFails >= 1 /\ Window \in Nat /\ Window >= 1
                /\ MaxRestarts \in Nat
  BY LimitAssumption, BoundAssumption

LEMMA Finite == /\ IsFiniteSet(Login) /\ Cardinality(Login) \in Nat
                /\ \A S \in SUBSET Login : /\ IsFiniteSet(S) /\ Cardinality(S) \in Nat
                                           /\ Cardinality(S) <= Cardinality(Login)
                /\ IsFiniteSet(Call) /\ Cardinality(Call) \in Nat
                /\ \A S \in SUBSET Call : /\ IsFiniteSet(S) /\ Cardinality(S) \in Nat
                                          /\ Cardinality(S) <= Cardinality(Call)
  <1>1. IsFiniteSet(Login) /\ IsFiniteSet(Call)
    BY SetAssumption
  <1> QED  BY <1>1, FS_Subset, FS_CardinalityType

\* Log-ins other than l are fewer than all.
LEMMA Others == ASSUME NEW l \in Login, NEW S \in SUBSET (Login \ {l})
                PROVE  Cardinality(S) \in Nat /\ Cardinality(S) <= Cardinality(Login) - 1
  <1>1. IsFiniteSet(Login \ {l}) /\ Cardinality(Login \ {l}) = Cardinality(Login) - 1
    BY Finite, FS_RemoveElement
  <1>2. Cardinality(S) <= Cardinality(Login \ {l})
    BY <1>1, FS_Subset
  <1>3. Cardinality(S) \in Nat
    BY Finite
  <1> QED  BY <1>1, <1>2, <1>3

-----------------------------------------------------------------------------
(***************************************************************************)
(* The log-ins.                                                            *)
(***************************************************************************)
\* Where neither a log-in nor a counter changes.
LEMMA LoginIdle == ASSUME LoginInv, UNCHANGED loginVars PROVE LoginInv'
  BY DEF LoginInv, CheckedHasAddress, LockedIsFull, FailuresAreBounded, UnderWay, Locked

LEMMA AddressOfClient == ASSUME NEW peer \in Peer, NEW forwarded \in Client \cup {NoClient}
                         PROVE  ClientIP(peer, forwarded) \in Address
  BY DEF ClientIP, Address

\* A log-in passes the check: its address is not locked.
LEMMA CheckKeeps ==
    ASSUME TypeOK, LoginInv, NEW l \in Login, NEW peer \in Peer, NEW forwarded \in Client \cup {NoClient},
           CheckLimit(l, peer, forwarded)
    PROVE  LoginInv'
  <1> DEFINE ip == ClientIP(peer, forwarded)
  <1>1. ip \in Address /\ ~Locked(ip)
    BY AddressOfClient DEF CheckLimit
  <1>2. login' = [login EXCEPT ![l] = [at |-> "checked", ip |-> ip]] /\ fails' = fails
    BY DEF CheckLimit
  <1> HIDE DEF ip
  <1>3. CheckedHasAddress'
    BY <1>1, <1>2 DEF TypeOK, LoginInv, CheckedHasAddress
  <1>4. FailuresAreBounded'
    BY <1>2 DEF LoginInv, FailuresAreBounded
  <1>5. ASSUME NEW a \in Address, Locked(a)'
        PROVE  (fails[a].count + Cardinality(UnderWay(a)) <= MaxFails + Cardinality(Login) - 1)'
    <2>1. Locked(a) /\ a # ip
      BY <1>1, <1>2, <1>5 DEF Locked
    <2>2. UnderWay(a)' \subseteq UnderWay(a) /\ UnderWay(a) \subseteq Login
      BY <1>2, <2>1 DEF TypeOK, UnderWay
    <2>3. Cardinality(UnderWay(a)') <= Cardinality(UnderWay(a))
      BY <2>2, Finite, FS_Subset
    <2>4. Cardinality(UnderWay(a)') \in Nat /\ Cardinality(UnderWay(a)) \in Nat /\ Cardinality(Login) \in Nat
      BY <2>2, Finite
    <2>5. fails[a].count + Cardinality(UnderWay(a)) <= MaxFails + Cardinality(Login) - 1
      BY <2>1 DEF LoginInv, LockedIsFull
    <2>6. fails'[a].count = fails[a].count /\ fails[a].count \in Nat
      BY <1>2 DEF TypeOK
    <2> QED  BY <2>3, <2>4, <2>5, <2>6, Limits
  <1> QED  BY <1>3, <1>4, <1>5 DEF LoginInv, LockedIsFull

\* A log-in leaves without a failure.
LEMMA LeaveKeeps ==
    ASSUME TypeOK, LoginInv, NEW l \in Login, login' = [login EXCEPT ![l] = IdleLogin], fails' = fails
    PROVE  LoginInv'
  <1>1. CheckedHasAddress' /\ FailuresAreBounded'
    BY DEF TypeOK, LoginInv, CheckedHasAddress, FailuresAreBounded, IdleLogin
  <1>2. ASSUME NEW a \in Address, Locked(a)'
        PROVE  (fails[a].count + Cardinality(UnderWay(a)) <= MaxFails + Cardinality(Login) - 1)'
    <2>1. Locked(a)
      BY <1>2 DEF Locked
    <2>2. UnderWay(a)' \subseteq UnderWay(a) /\ UnderWay(a) \subseteq Login
      BY DEF TypeOK, UnderWay, IdleLogin
    <2>3. Cardinality(UnderWay(a)') <= Cardinality(UnderWay(a))
      BY <2>2, Finite, FS_Subset
    <2>4. Cardinality(UnderWay(a)') \in Nat /\ Cardinality(UnderWay(a)) \in Nat /\ Cardinality(Login) \in Nat
      BY <2>2, Finite
    <2>5. fails[a].count + Cardinality(UnderWay(a)) <= MaxFails + Cardinality(Login) - 1
      BY <2>1 DEF LoginInv, LockedIsFull
    <2>6. fails'[a].count = fails[a].count /\ fails[a].count \in Nat
      BY DEF TypeOK
    <2> QED  BY <2>3, <2>4, <2>5, <2>6, Limits
  <1> QED  BY <1>1, <1>2 DEF LoginInv, LockedIsFull

\* A log-in fails: what its address gains in failures it loses in log-ins.
LEMMA FailKeeps == ASSUME TypeOK, LoginInv, NEW l \in Login, LoginFails(l) PROVE LoginInv'
  <1> PICK b \in Address : b = login[l].ip
    BY DEF LoginFails, LoginInv, CheckedHasAddress
  <1> PICK n \in Nat : n = IF fails[b].left = 0 THEN 1 ELSE fails[b].count + 1
    BY DEF TypeOK
  <1>1. login[l].at = "checked" /\ l \in UnderWay(b)
    BY DEF LoginFails, UnderWay
  <1>2. /\ login' = [login EXCEPT ![l] = IdleLogin]
        /\ fails' = [fails EXCEPT ![b] = [count |-> n, left |-> Window]]
    BY <1>1 DEF LoginFails, RecordLoginFail, TypeOK
  <1>3. fails[b].count \in Nat /\ fails[b].left \in Nat
    BY <1>1, Limits DEF TypeOK
  <1>4. /\ fails'[b].count = n
        /\ \A a \in Address : a # b => fails'[a] = fails[a]
    BY <1>1, <1>2 DEF TypeOK
  <1>5. UnderWay(b)' = UnderWay(b) \ {l} /\ UnderWay(b) \in SUBSET Login
    BY <1>2 DEF TypeOK, UnderWay, IdleLogin
  <1>6. \A a \in Address : a # b => UnderWay(a)' = UnderWay(a)
    BY <1>1, <1>2 DEF TypeOK, UnderWay, IdleLogin
  <1>7. /\ Cardinality(UnderWay(b)') \in Nat /\ Cardinality(UnderWay(b)') <= Cardinality(Login) - 1
        /\ Cardinality(UnderWay(b)) \in Nat
        /\ Cardinality(UnderWay(b)') = Cardinality(UnderWay(b)) - 1
        /\ Cardinality(Login) \in Nat
    BY <1>1, <1>5, Others, Finite, FS_RemoveElement
  <1>8. n + Cardinality(UnderWay(b)') <= MaxFails + Cardinality(Login) - 1
    <2>1. CASE fails[b].left = 0
      BY <1>7, <2>1, Limits
    <2>2. CASE fails[b].left # 0 /\ fails[b].count < MaxFails
      BY <1>3, <1>7, <2>2, Limits
    <2>3. CASE fails[b].left # 0 /\ fails[b].count >= MaxFails
      <3>1. Locked(b)
        BY <1>3, <2>3 DEF Locked
      <3>2. fails[b].count + Cardinality(UnderWay(b)) <= MaxFails + Cardinality(Login) - 1
        BY <1>1, <3>1 DEF LoginInv, LockedIsFull
      <3> QED  BY <1>3, <1>7, <2>3, <3>2, Limits
    <2> QED  BY <1>3, <2>1, <2>2, <2>3, Limits
  <1>9. CheckedHasAddress'
    BY <1>2 DEF TypeOK, LoginInv, CheckedHasAddress, IdleLogin
  <1>10. FailuresAreBounded'
    <2>1. n <= MaxFails + Cardinality(Login) - 1
      BY <1>3, <1>7, <1>8, Limits
    <2> QED  BY <1>4, <2>1 DEF LoginInv, FailuresAreBounded
  <1>11. LockedIsFull'
    <2> SUFFICES ASSUME NEW a \in Address, Locked(a)'
                 PROVE  fails'[a].count + Cardinality(UnderWay(a)') <= MaxFails + Cardinality(Login) - 1
      BY DEF LockedIsFull
    <2>1. CASE a = b
      BY <1>4, <1>8, <2>1
    <2>2. CASE a # b
      BY <1>4, <1>6, <2>2 DEF LoginInv, LockedIsFull, Locked
    <2> QED  BY <2>1, <2>2
  <1> QED  BY <1>9, <1>10, <1>11 DEF LoginInv

\* A tick only takes time away.
LEMMA TickKeeps == ASSUME TypeOK, LoginInv, NEW b \in Address, Tick(b) PROVE LoginInv'
  <1>1. login' = login /\ fails' = [fails EXCEPT ![b].left = @ - 1] /\ fails[b].left > 0
    BY DEF Tick
  <1>2. /\ \A a \in Address : fails'[a].count = fails[a].count
        /\ \A a \in Address : fails'[a].left > 0 => fails[a].left > 0
    BY <1>1 DEF TypeOK
  <1>3. \A a \in Address : UnderWay(a)' = UnderWay(a) /\ (Locked(a)' => Locked(a))
    BY <1>1, <1>2 DEF UnderWay, Locked
  <1> QED  BY <1>1, <1>2, <1>3 DEF LoginInv, CheckedHasAddress, LockedIsFull, FailuresAreBounded

\* At the start of a process nothing has failed.
NoLogins == login = [l \in Login |-> IdleLogin] /\ fails = [a \in Address |-> [count |-> 0, left |-> 0]]

LEMMA FreshLogins == NoLogins => LoginInv
  <1> SUFFICES ASSUME NoLogins PROVE LoginInv
    OBVIOUS
  <1> USE DEF NoLogins
  <1>1. CheckedHasAddress
    BY DEF CheckedHasAddress, IdleLogin
  <1>2. \A a \in Address : fails[a].count = 0 /\ ~Locked(a)
    BY DEF Locked
  <1> QED  BY <1>1, <1>2, Finite, Limits DEF LoginInv, LockedIsFull, FailuresAreBounded

-----------------------------------------------------------------------------
(***************************************************************************)
(* The calls.                                                              *)
(***************************************************************************)
\* Steps in which no token becomes valid and no call finds a session.
LEMMA StaleIdle ==
    ASSUME TypeOK, StaleInv, used' = used, Valid' \subseteq Valid, stale' = stale,
           \A t \in Token : Acting(t)' \subseteq Acting(t)
    PROVE  StaleInv'
  <1>1. UnusedIsClean' /\ ValidIsClean'
    BY DEF StaleInv, UnusedIsClean, ValidIsClean
  <1>2. ASSUME NEW t \in used \ Valid' PROVE stale[t] + Cardinality(Acting(t)') <= Cardinality(Call)
    <2>1. t \in Token /\ stale[t] \in Nat /\ Acting(t) \in SUBSET Call /\ Acting(t)' \in SUBSET Acting(t)
      BY <1>2 DEF TypeOK, Acting
    <2>2. /\ Cardinality(Acting(t)) \in Nat /\ Cardinality(Acting(t)') \in Nat /\ Cardinality(Call) \in Nat
          /\ Cardinality(Acting(t)') <= Cardinality(Acting(t)) /\ Cardinality(Acting(t)) <= Cardinality(Call)
      BY <2>1, Finite, FS_Subset
    <2>3. CASE t \in Valid
      BY <2>1, <2>2, <2>3 DEF StaleInv, ValidIsClean
    <2>4. CASE t \notin Valid
      BY <1>2, <2>1, <2>2, <2>4 DEF StaleInv, InvalidIsFull
    <2> QED  BY <2>3, <2>4
  <1>3. InvalidIsFull'
    BY <1>2 DEF InvalidIsFull
  <1> QED  BY <1>1, <1>3 DEF StaleInv

\* Where neither a session nor a call changes.
LEMMA StaleUnchanged == ASSUME TypeOK, StaleInv, UNCHANGED <<sessionVars, callVars>> PROVE StaleInv'
  <1>1. Valid' = Valid /\ \A t \in Token : Acting(t)' = Acting(t)
    BY DEF Valid, Live, Acting
  <1> QED  BY <1>1, StaleIdle

\* Sessions end.
LEMMA EndKeepsStale == ASSUME TypeOK, StaleInv, NEW t \in Token, Expire(t) \/ PresentExpired(t) \/ Logout(t)
                       PROVE  StaleInv'
  <1>1. UNCHANGED <<used, callVars>>
    BY DEF Expire, PresentExpired, Logout
  <1>2. Valid' \subseteq Valid
    BY DEF Expire, PresentExpired, Logout, Remove, Valid, Live, TypeOK
  <1>3. \A u \in Token : Acting(u)' = Acting(u)
    BY <1>1 DEF Acting
  <1> QED  BY <1>1, <1>2, <1>3, StaleIdle

\* A token is given out: nobody has used it before.
LEMMA IssueKeepsStale ==
    ASSUME TypeOK, StaleInv, NEW l \in Login, NEW t \in Token, NEW u \in User, LoginSucceeds(l, t, u)
    PROVE  StaleInv'
  <1>1. t \notin used /\ used' = used \cup {t} /\ UNCHANGED callVars
    BY DEF LoginSucceeds
  <1>2. Valid' = Valid \cup {t}
    BY SetAssumption DEF LoginSucceeds, Valid, Live, TypeOK
  <1>3. \A x \in Token : Acting(x)' = Acting(x)
    BY <1>1 DEF Acting
  <1>4. used \subseteq Token
    BY DEF TypeOK
  <1> QED  BY <1>1, <1>2, <1>3, <1>4 DEF StaleInv, UnusedIsClean, ValidIsClean, InvalidIsFull

\* A call finds a session: its token is valid.
LEMMA FindKeepsStale ==
    ASSUME TypeOK, StaleInv, NEW c \in Call, NEW t \in Token, NEW method \in {"GET", "POST"},
           Authenticate(c, t, method)
    PROVE  StaleInv'
  <1>1. t \in Valid /\ t \in used /\ UNCHANGED <<sessionVars, stale>>
    BY DEF Authenticate, TypeOK, Valid
  <1>2. Valid' = Valid
    BY <1>1 DEF Valid, Live
  <1>3. \A x \in Token : x # t => Acting(x)' = Acting(x)
    BY DEF Authenticate, Acting, TypeOK
  <1>4. used \subseteq Token
    BY DEF TypeOK
  <1> QED  BY <1>1, <1>2, <1>3, <1>4 DEF StaleInv, UnusedIsClean, ValidIsClean, InvalidIsFull

\* A call makes its change: if that is stale, it is one of those counted before.
LEMMA ChangeKeepsStale ==
    ASSUME TypeOK, StaleInv, NEW c \in Call, Act(c) \/ DrainUnsent(c)
    PROVE  StaleInv'
  <1> PICK k : k = call[c].token
    OBVIOUS
  <1>1. call[c].at = "act" /\ CountStale(k) /\ UNCHANGED sessionVars
    BY DEF Act, DrainUnsent
  <1>2. Valid' = Valid /\ used' = used /\ used \subseteq Token /\ Valid \subseteq Token
    BY <1>1 DEF Valid, Live, TypeOK
  <1>3. \A t \in Token : t # k => Acting(t)' = Acting(t) /\ stale'[t] = stale[t]
    <2>1. \A t \in Token : t # k => Acting(t)' = Acting(t)
      <3>1. call'[c].at # "act" /\ \A d \in Call : d # c => call'[d] = call[d]
        BY DEF Act, DrainUnsent, TypeOK, IdleCall
      <3>2. \A t \in Token : t # k => c \notin Acting(t) /\ c \notin Acting(t)'
        BY <3>1 DEF Acting
      <3> QED  BY <3>1, <3>2 DEF Acting
    <2>2. \A t \in Token : t # k => stale'[t] = stale[t]
      BY <1>1 DEF CountStale, TypeOK
    <2> QED  BY <2>1, <2>2
  <1>4. Acting(k)' = Acting(k) \ {c} /\ c \in Acting(k)
    BY <1>1 DEF Act, DrainUnsent, Acting, TypeOK, IdleCall
  <1>5. k \in Token => k \in used
    BY <1>4 DEF StaleInv, UnusedIsClean
  <1>6. k \in Valid => stale' = stale
    BY <1>1 DEF CountStale
  <1>7. UnusedIsClean' /\ ValidIsClean'
    BY <1>2, <1>3, <1>5, <1>6 DEF StaleInv, UnusedIsClean, ValidIsClean
  <1>8. k \in used \ Valid => stale'[k] + Cardinality(Acting(k)') <= Cardinality(Call)
    <2> SUFFICES ASSUME k \in used \ Valid PROVE stale'[k] + Cardinality(Acting(k)') <= Cardinality(Call)
      OBVIOUS
    <2>1. stale[k] \in Nat /\ stale'[k] = stale[k] + 1
      BY <1>1, <1>2 DEF CountStale, TypeOK
    <2>2. Acting(k) \in SUBSET Call
      BY DEF Acting
    <2>3. /\ Cardinality(Acting(k)) \in Nat /\ Cardinality(Acting(k)') = Cardinality(Acting(k)) - 1
          /\ Cardinality(Call) \in Nat
      BY <1>4, <2>2, Finite, FS_RemoveElement
    <2>4. stale[k] + Cardinality(Acting(k)) <= Cardinality(Call)
      BY DEF StaleInv, InvalidIsFull
    <2> QED  BY <2>1, <2>3, <2>4
  <1>9. InvalidIsFull'
    <2> SUFFICES ASSUME NEW t \in used \ Valid PROVE stale'[t] + Cardinality(Acting(t)') <= Cardinality(Call)
      BY <1>2 DEF InvalidIsFull
    <2>1. CASE t = k
      BY <1>8, <2>1
    <2>2. CASE t # k
      BY <1>2, <1>3, <2>2 DEF StaleInv, InvalidIsFull
    <2> QED  BY <2>1, <2>2
  <1> QED  BY <1>7, <1>9 DEF StaleInv

LEMMA HandleKeeps == ASSUME TypeOK, StaleInv, NEW c \in Call, Handle(c) PROVE StaleInv'
  <1>1. CASE ActOnNothing(c) \/ AddAudit(c)
    <2>1. UNCHANGED <<sessionVars, stale>> /\ call' = [call EXCEPT ![c] = IdleCall]
      BY <1>1 DEF ActOnNothing, AddAudit
    <2>2. Valid' = Valid
      BY <2>1 DEF Valid, Live
    <2>3. \A t \in Token : Acting(t)' \subseteq Acting(t)
      BY <2>1 DEF Acting, TypeOK, IdleCall
    <2> QED  BY <2>1, <2>2, <2>3, StaleIdle
  <1> QED  BY <1>1, ChangeKeepsStale DEF Handle

\* The process ends with its sessions and calls.
LEMMA RestartKeepsStale == ASSUME TypeOK, StaleInv, Restart PROVE StaleInv'
  <1>1. used' = used /\ stale' = stale /\ Valid' = {}
    BY DEF Restart, Valid, Live
  <1>2. \A t \in Token : Acting(t)' = {}
    BY DEF Restart, Acting, IdleCall
  <1> QED  BY <1>1, <1>2, StaleIdle

-----------------------------------------------------------------------------
(***************************************************************************)
(* Types.                                                                  *)
(***************************************************************************)
\* Of the log-ins and the failure counters.
LoginType == /\ login \in [Login -> [at : {"idle", "checked"}, ip : Address \cup {NoClient}]]
             /\ fails \in [Address -> [count : Nat, left : 0..Window]]

\* Of the sessions.
SessionType == /\ sessions \in [Token -> User \cup {NoUser}]
               /\ Live \subseteq used /\ used \subseteq Token /\ expired \subseteq used

\* Of the calls and of what they change.
CallType == /\ call \in [Call -> [at : {"idle", "act", "audit"}, token : Token \cup {NoToken}]]
            /\ stale \in [Token -> Nat]

LEMMA TypeParts == /\ TypeOK <=> LoginType /\ SessionType /\ CallType /\ restarts \in 0..MaxRestarts
                   /\ (TypeOK <=> LoginType /\ SessionType /\ CallType /\ restarts \in 0..MaxRestarts)'
  BY DEF TypeOK, LoginType, SessionType, CallType

LEMMA LoginTyped ==
    ASSUME LoginType, LoginInv, NEW l \in Login
    PROVE  /\ Attempt(l) => LoginType'
           /\ LoginFails(l) => LoginType'
           /\ login' = [login EXCEPT ![l] = IdleLogin] /\ fails' = fails => LoginType'
  <1>1. IdleLogin \in [at : {"idle", "checked"}, ip : Address \cup {NoClient}]
    BY DEF IdleLogin
  <1>2. CASE Attempt(l)
    <2> PICK peer \in Peer, forwarded \in Client \cup {NoClient} : CheckLimit(l, peer, forwarded)
      BY <1>2 DEF Attempt
    <2>1. ClientIP(peer, forwarded) \in Address
      BY AddressOfClient
    <2> QED  BY <2>1 DEF CheckLimit, LoginType
  <1>3. CASE LoginFails(l)
    <2>1. login' \in [Login -> [at : {"idle", "checked"}, ip : Address \cup {NoClient}]]
      BY <1>1, <1>3 DEF LoginFails, LoginType
    <2>2. PICK b \in Address : b = login[l].ip
      BY <1>3 DEF LoginFails, LoginInv, CheckedHasAddress
    <2>3. fails' = [fails EXCEPT ![b] = [count |-> IF @.left = 0 THEN 1 ELSE @.count + 1, left |-> Window]]
      BY <1>3, <2>2 DEF LoginFails, RecordLoginFail
    <2>4. Window \in 0..Window /\ fails[b].count \in Nat
      BY Limits DEF LoginType
    <2>5. fails' \in [Address -> [count : Nat, left : 0..Window]]
      BY <2>3, <2>4 DEF LoginType
    <2> QED  BY <2>1, <2>5 DEF LoginType
  <1>4. CASE login' = [login EXCEPT ![l] = IdleLogin] /\ fails' = fails
    BY <1>1, <1>4 DEF LoginType
  <1> QED  BY <1>2, <1>3, <1>4

LEMMA TickTyped == ASSUME LoginType, NEW a \in Address, Tick(a) PROVE LoginType'
  <1>1. fails[a].left - 1 \in 0..Window
    BY Limits DEF Tick, LoginType
  <1> QED  BY <1>1 DEF Tick, LoginType

\* Tokens are given out, expire and are removed.
LEMMA SessionTyped ==
    ASSUME SessionType, NEW t \in Token,
           Expire(t) \/ PresentExpired(t) \/ Logout(t) \/ \E l \in Login, u \in User : LoginSucceeds(l, t, u)
    PROVE  SessionType'
  <1>1. CASE Expire(t)
    BY <1>1 DEF Expire, SessionType, Valid, Live
  <1>2. CASE PresentExpired(t) \/ Logout(t)
    BY <1>2 DEF PresentExpired, Logout, Remove, Valid, SessionType, Live
  <1>3. CASE \E l \in Login, u \in User : LoginSucceeds(l, t, u)
    BY <1>3 DEF LoginSucceeds, SessionType, Live
  <1> QED  BY <1>1, <1>2, <1>3

LEMMA CountTyped == ASSUME stale \in [Token -> Nat], NEW k, CountStale(k) PROVE stale' \in [Token -> Nat]
  <1>1. CASE k \in Valid
    BY <1>1 DEF CountStale
  <1>2. CASE k \notin Valid
    <2>1. stale' = [stale EXCEPT ![k] = stale[k] + 1]
      BY <1>2 DEF CountStale
    <2>2. \A t \in Token : stale'[t] \in Nat
      BY <2>1
    <2> QED  BY <2>1, <2>2
  <1> QED  BY <1>1, <1>2

LEMMA CallTyped ==
    ASSUME CallType, SessionType, NEW c \in Call,
           Handle(c) \/ \E t \in Token, method \in {"GET", "POST"} : Authenticate(c, t, method)
    PROVE  CallType'
  <1>1. IdleCall \in [at : {"idle", "act", "audit"}, token : Token \cup {NoToken}]
    BY DEF IdleCall
  <1>2. CASE ActOnNothing(c)
    BY <1>1, <1>2 DEF ActOnNothing, CallType
  <1>3. CASE Act(c)
    <2>1. call' \in [Call -> [at : {"idle", "act", "audit"}, token : Token \cup {NoToken}]]
      BY <1>3 DEF Act, CallType
    <2> QED  BY <1>3, <2>1, CountTyped DEF Act, CallType
  <1>4. CASE DrainUnsent(c)
    <2>1. call' \in [Call -> [at : {"idle", "act", "audit"}, token : Token \cup {NoToken}]]
      BY <1>1, <1>4 DEF DrainUnsent, CallType
    <2> QED  BY <1>4, <2>1, CountTyped DEF DrainUnsent, CallType
  <1>5. CASE AddAudit(c)
    BY <1>1, <1>5 DEF AddAudit, CallType
  <1>6. CASE \E t \in Token, method \in {"GET", "POST"} : Authenticate(c, t, method)
    BY <1>6 DEF Authenticate, CallType, SessionType
  <1> QED  BY <1>2, <1>3, <1>4, <1>5, <1>6 DEF Handle

\* The state in which a process starts, whatever the database holds.
Fresh == /\ NoLogins
         /\ sessions = [t \in Token |-> NoUser] /\ used \subseteq Token /\ expired \subseteq used
         /\ call = [c \in Call |-> IdleCall]

FreshType == /\ LoginType /\ SessionType
             /\ call \in [Call -> [at : {"idle", "act", "audit"}, token : Token \cup {NoToken}]]

LEMMA FreshTyped == Fresh => FreshType
  <1> SUFFICES ASSUME Fresh PROVE FreshType
    OBVIOUS
  <1> USE DEF Fresh, FreshType, NoLogins
  <1>1. 0 \in 0..Window
    BY Limits
  <1>2. LoginType
    BY <1>1 DEF LoginType, IdleLogin
  <1>3. SessionType
    BY DEF SessionType, Live
  <1> QED  BY <1>2, <1>3 DEF IdleCall

-----------------------------------------------------------------------------
\* IInv is inductive.
THEOREM Invariance == Spec => []IInv
  <1>1. Init => IInv
    <2> SUFFICES ASSUME Init PROVE IInv
      OBVIOUS
    <2>1. FreshType
      BY FreshTyped DEF Init, Fresh, NoLogins
    <2>2. CallType /\ restarts \in 0..MaxRestarts
      BY <2>1, Limits DEF Init, CallType, FreshType
    <2>3. LoginInv
      BY FreshLogins DEF Init, NoLogins
    <2>4. used = {} /\ Valid = {} /\ \A t \in Token : stale[t] = 0 /\ Acting(t) = {}
      BY DEF Init, Valid, Live, Acting, IdleCall
    <2>5. StaleInv
      BY <2>4 DEF StaleInv, UnusedIsClean, ValidIsClean, InvalidIsFull
    <2> QED  BY <2>1, <2>2, <2>3, <2>5, TypeParts DEF IInv, FreshType
  <1>2. (Fresh => FreshType)' /\ (NoLogins => LoginInv)'
    BY FreshTyped, FreshLogins, PTL
  <1>3. IInv /\ [Next]_vars => IInv'
    <2> SUFFICES ASSUME IInv, [Next]_vars PROVE IInv'
      OBVIOUS
    <2>0. TypeOK /\ LoginInv /\ StaleInv /\ LoginType /\ SessionType /\ CallType /\ restarts \in 0..MaxRestarts
      BY TypeParts DEF IInv
    <2>1. ASSUME NEW l \in Login, Attempt(l) PROVE IInv'
      <3> PICK peer \in Peer, forwarded \in Client \cup {NoClient} : CheckLimit(l, peer, forwarded)
        BY <2>1 DEF Attempt
      <3>0. LoginInv'
        BY <2>0, CheckKeeps
      <3>1. LoginInv' /\ LoginType'
        BY <2>0, <2>1, <3>0, LoginTyped
      <3>2. UNCHANGED <<sessionVars, callVars, restarts>>
        BY DEF CheckLimit
      <3>3. SessionType' /\ CallType' /\ restarts' \in 0..MaxRestarts
        BY <2>0, <3>2 DEF SessionType, Live, CallType
      <3>4. StaleInv'
        BY <2>0, <3>2, StaleUnchanged
      <3> QED  BY <3>1, <3>3, <3>4, TypeParts DEF IInv
    <2>2. ASSUME NEW l \in Login, Verify(l) PROVE IInv'
      <3>1. UNCHANGED <<callVars, restarts>>
        BY <2>2 DEF Verify, LoginFails, LoginErrs, LoginSucceeds
      <3>2. CallType' /\ restarts' \in 0..MaxRestarts
        BY <2>0, <3>1 DEF CallType
      <3>3. LoginInv' /\ LoginType' /\ SessionType' /\ StaleInv'
        <4>1. CASE LoginFails(l)
          <5>1. SessionType'
            BY <2>0, <4>1 DEF LoginFails, SessionType, Live
          <5>2. LoginInv'
            BY <2>0, <4>1, FailKeeps
          <5>3. LoginType'
            BY <2>0, <4>1, LoginTyped
          <5>4. StaleInv'
            BY <2>0, <4>1, StaleUnchanged DEF LoginFails
          <5> QED  BY <5>1, <5>2, <5>3, <5>4
        <4>2. CASE LoginErrs(l)
          <5>1. SessionType' /\ login' = [login EXCEPT ![l] = IdleLogin] /\ fails' = fails
            BY <2>0, <4>2 DEF LoginErrs, SessionType, Live
          <5>2. StaleInv'
            BY <2>0, <4>2, StaleUnchanged DEF LoginErrs
          <5> QED  BY <2>0, <5>1, <5>2, LeaveKeeps, LoginTyped
        <4>3. ASSUME NEW t \in Token, NEW u \in User, LoginSucceeds(l, t, u)
              PROVE  LoginInv' /\ LoginType' /\ SessionType' /\ StaleInv'
          <5>1. login' = [login EXCEPT ![l] = IdleLogin] /\ fails' = fails
            BY <4>3 DEF LoginSucceeds
          <5>2. LoginInv' /\ LoginType'
            BY <2>0, <5>1, LeaveKeeps, LoginTyped
          <5>3. StaleInv'
            BY <2>0, <4>3, IssueKeepsStale
          <5> QED  BY <2>0, <4>3, <5>2, <5>3, SessionTyped
        <4> QED  BY <2>2, <4>1, <4>2, <4>3 DEF Verify
      <3> QED  BY <3>2, <3>3, TypeParts DEF IInv
    <2>3. CASE UNCHANGED vars
      <3>1. LoginType' /\ SessionType' /\ CallType' /\ restarts' \in 0..MaxRestarts
        BY <2>0, <2>3 DEF vars, LoginType, SessionType, Live, CallType
      <3>2. LoginInv' /\ StaleInv'
        BY <2>0, <2>3, LoginIdle, StaleUnchanged DEF vars
      <3> QED  BY <3>1, <3>2, TypeParts DEF IInv
    <2>4. ASSUME NEW a \in Address, Tick(a) PROVE IInv'
      <3>1. LoginInv' /\ LoginType'
        BY <2>0, <2>4, TickKeeps, TickTyped
      <3>2. UNCHANGED <<sessionVars, callVars, restarts>>
        BY <2>4 DEF Tick
      <3>3. SessionType' /\ CallType' /\ restarts' \in 0..MaxRestarts
        BY <2>0, <3>2 DEF SessionType, Live, CallType
      <3>4. StaleInv'
        BY <2>0, <3>2, StaleUnchanged
      <3> QED  BY <3>1, <3>3, <3>4, TypeParts DEF IInv
    <2>5. ASSUME NEW t \in Token, Expire(t) \/ PresentExpired(t) \/ Logout(t) PROVE IInv'
      <3>1. SessionType'
        BY <2>0, <2>5, SessionTyped
      <3>2. UNCHANGED <<loginVars, callVars, restarts>>
        BY <2>5 DEF Expire, PresentExpired, Logout
      <3>3. LoginType' /\ CallType' /\ restarts' \in 0..MaxRestarts
        BY <2>0, <3>2 DEF LoginType, CallType
      <3>4. LoginInv' /\ StaleInv'
        BY <2>0, <2>5, <3>2, LoginIdle, EndKeepsStale
      <3> QED  BY <3>1, <3>3, <3>4, TypeParts DEF IInv
    <2>6. ASSUME NEW c \in Call, NEW t \in Token, NEW method \in {"GET", "POST"}, Authenticate(c, t, method)
          PROVE  IInv'
      <3>1. CallType'
        BY <2>0, <2>6, CallTyped
      <3>2. UNCHANGED <<loginVars, sessionVars, restarts>>
        BY <2>6 DEF Authenticate
      <3>4. LoginType' /\ SessionType' /\ restarts' \in 0..MaxRestarts
        BY <2>0, <3>2 DEF LoginType, SessionType, Live
      <3>5. LoginInv' /\ StaleInv'
        BY <2>0, <2>6, <3>2, LoginIdle, FindKeepsStale
      <3> QED  BY <3>1, <3>4, <3>5, TypeParts DEF IInv
    <2>7. ASSUME NEW c \in Call, Handle(c) PROVE IInv'
      <3>1. CallType' /\ StaleInv'
        BY <2>0, <2>7, CallTyped, HandleKeeps
      <3>2. UNCHANGED <<loginVars, sessionVars, restarts>>
        BY <2>7 DEF Handle, ActOnNothing, Act, DrainUnsent, AddAudit
      <3>3. LoginType' /\ SessionType' /\ restarts' \in 0..MaxRestarts
        BY <2>0, <3>2 DEF LoginType, SessionType, Live
      <3>4. LoginInv'
        BY <2>0, <3>2, LoginIdle
      <3> QED  BY <3>1, <3>3, <3>4, TypeParts DEF IInv
    <2>8. CASE Restart
      <3>1. FreshType'
        BY <1>2, <2>0, <2>8 DEF Restart, Fresh, NoLogins, SessionType
      <3>2. CallType' /\ restarts' \in 0..MaxRestarts
        BY <2>0, <2>8, <3>1, Limits DEF Restart, CallType, FreshType
      <3>3. LoginInv'
        BY <1>2, <2>8 DEF Restart, NoLogins
      <3>4. StaleInv'
        BY <2>0, <2>8, RestartKeepsStale
      <3> QED  BY <3>1, <3>2, <3>3, <3>4, TypeParts DEF IInv, FreshType
    <2> QED  BY <2>1, <2>2, <2>3, <2>4, <2>5, <2>6, <2>7, <2>8 DEF Next, Refuse
  <1> QED  BY <1>1, <1>3, PTL DEF Spec

\* Type correctness: every session's token was given out, and no lock-out has
\* more than its window left (admin.go 248-258).
THEOREM TypeCorrect == Spec => []TypeOK
  <1>1. IInv => TypeOK
    BY DEF IInv
  <1> QED  BY <1>1, Invariance, PTL

\* However many log-ins run in parallel, an address gets no more failures than
\* the limit and those that were under way when it was reached
\* (admin.go 189-219, 248-258).
THEOREM FailuresBounded == Spec => []FailuresAreBounded
  <1>1. IInv => FailuresAreBounded
    BY DEF IInv, LoginInv
  <1> QED  BY <1>1, Invariance, PTL

\* However calls, log-outs, expiry and restarts interleave, a token that is no
\* longer valid makes no more changes than there are handlers at once: only
\* those that had found its session before (admin.go 260-275, 287-306, 345-360).
THEOREM StaleActsBounded == Spec => []StaleActsAreBounded
  <1>1. IInv => StaleActsAreBounded
    <2> SUFFICES ASSUME IInv, NEW t \in Token PROVE stale[t] <= Cardinality(Call)
      BY DEF StaleActsAreBounded
    <2>1. stale[t] \in Nat /\ Cardinality(Acting(t)) \in Nat /\ Cardinality(Call) \in Nat
      BY Finite DEF IInv, TypeOK, Acting
    <2>2. t \notin used \/ t \in Valid \/ t \in used \ Valid
      OBVIOUS
    <2>3. stale[t] = 0 \/ stale[t] + Cardinality(Acting(t)) <= Cardinality(Call)
      BY <2>2 DEF IInv, StaleInv, UnusedIsClean, ValidIsClean, InvalidIsFull
    <2> QED  BY <2>1, <2>3
  <1> QED  BY <1>1, Invariance, PTL
=============================================================================
