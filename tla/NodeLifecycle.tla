--------------------------- MODULE NodeLifecycle ---------------------------
(***************************************************************************)
(* The life of agent connections at the relay: the WSS handler of          *)
(* relay/wss.go, the node registry of relay/registry.go, the table of send *)
(* handles of relay/server.go, the heartbeat monitor, and the three admin  *)
(* operations that reach into them (drain, kick, certificate revocation).  *)
(*                                                                         *)
(* A member of Conn is one accepted WebSocket.  handleConnect creates one  *)
(* Node object for it, so the same name stands for the socket, the handler *)
(* goroutine and the Node object; the registry maps a node ID to one of    *)
(* these objects.  Every lock region is one step and every gap between two *)
(* lock regions is a place where another goroutine may run.                *)
(*                                                                         *)
(* Left out: log lines and the write-only counters of Stats.               *)
(***************************************************************************)
EXTENDS Naturals, Sequences, FiniteSets

CONSTANTS Node,      \* node IDs
          Serial,    \* serial numbers of client certificates
          OwnerOf,   \* the node ID (subject CN) each certificate names
          Conn,      \* accepted WebSocket connections
          SerialOf,  \* the client certificate each connection presents
          Admin,     \* goroutines serving requests of the admin API
          AdminOps,  \* the operations they are asked for
          MaxAge,    \* bound: how far heartbeats fall behind (2 is past closing)
          NoConn     \* Go's nil for *Node and *nodeConn

ASSUME CertAssumption == /\ OwnerOf \in [Serial -> Node]
                         /\ SerialOf \in [Conn -> Serial]
ASSUME NoConnAssumption == NoConn \notin Conn
ASSUME MaxAgeAssumption == MaxAge \in 0..2
ASSUME AdminOpsAssumption == AdminOps \subseteq {"drain", "kick", "revoke"}

VARIABLES handler,       \* handler[c]: how far handleConnect is for c
          raw,           \* raw[c]: the relay has not closed the socket of c
          peer,          \* peer[c]: what the agent's end of c does
          toAgent,       \* toAgent[c]: control messages the agent has not read
          reg,           \* Registry.nodes
          conns,         \* connRegistry: node ID -> handle for sending
          state,         \* Node.State of the object of c
          age,           \* 0 fresh, 1 past the timeout, 2 past twice the timeout
          mon,           \* heartbeatMonitor of c: its position and local variables
          certs,         \* serials with a row in the certificate table
          revoked,       \* serials whose row says revoked
          adm,           \* the admin goroutines: position and local variables
          evicted,       \* history: objects removed from reg by KickNode
          kicked,        \* history: node IDs whose tables KickNode has cleared
          barred         \* history: connections opened after their revocation

vars == <<handler, raw, peer, toAgent, reg, conns, state, age, mon, certs,
          revoked, adm, evicted, kicked, barred>>

NodeState == {"online", "suspect", "degraded", "draining", "offline"}
NodeOf(c) == OwnerOf[SerialOf[c]]
ConnOrNil == Conn \cup {NoConn}

\* Positions of handleConnect; the ones in which the object may be registered.
RegisteredAt == {"registered", "handled", "serving", "ending", "teardown"}
HandlerAt == {"idle", "hello", "vetted", "recorded", "unregistered", "delisted",
              "closed"} \cup RegisteredAt

MonitorAt == {"off", "wait", "aged", "ready"}
AdminAt == {"idle", "drainCheck", "drainSet", "drainSend", "revokeGet", "kickGet",
            "kickHandle", "kickSend", "kickRemove", "kickDel", "kickOffline"}

MonitorLocals == [at : MonitorAt, age : 0..2, suspect : BOOLEAN]
MonitorOff == [at |-> "off", age |-> 0, suspect |-> FALSE]
MonitorWaits == [at |-> "wait", age |-> 0, suspect |-> FALSE]
AdminLocals == [at : AdminAt, node : Node \cup {NoConn}, serial : Serial \cup {NoConn},
                obj : ConnOrNil, nc : ConnOrNil]
AdminIdle == [at |-> "idle", node |-> NoConn, serial |-> NoConn,
              obj |-> NoConn, nc |-> NoConn]

\* The relay starts with empty tables in memory and the certificate table that
\* its earlier runs left in the store.
Init == /\ handler = [c \in Conn |-> "idle"]
        /\ raw = [c \in Conn |-> FALSE]
        /\ peer = [c \in Conn |-> "up"]
        /\ toAgent = [c \in Conn |-> <<>>]
        /\ reg = [n \in Node |-> NoConn]
        /\ conns = [n \in Node |-> NoConn]
        /\ state = [c \in Conn |-> "online"]
        /\ age = [c \in Conn |-> 0]
        /\ mon = [c \in Conn |-> MonitorOff]
        /\ certs \in SUBSET Serial
        /\ revoked \in SUBSET certs
        /\ adm = [a \in Admin |-> AdminIdle]
        /\ evicted = {}
        /\ kicked = {}
        /\ barred = {}

-----------------------------------------------------------------------------
(***************************************************************************)
(* handleConnect, up to the read loop.                                     *)
(***************************************************************************)
History == <<evicted, kicked, barred>>
AdminVars == <<certs, revoked, adm, History>>
TableVars == <<reg, conns, state>>

Goto(c, at) == handler' = [handler EXCEPT ![c] = at]

\* A return from handleConnect runs the deferred close of the socket, which the
\* agent sees; nothing more is read on it, and nobody looks at the age again.
Return(c) == /\ Goto(c, "closed")
             /\ raw' = [raw EXCEPT ![c] = FALSE]
             /\ peer' = [peer EXCEPT ![c] = "left"]
             /\ toAgent' = [toAgent EXCEPT ![c] = <<>>]
             /\ age' = [age EXCEPT ![c] = 0]

Stay == UNCHANGED <<raw, peer, toAgent, age>>

\* The upgrade succeeds and the socket joins WSSServer.conns.
Connect(c) == /\ handler[c] = "idle"
              /\ Goto(c, "hello")
              /\ raw' = [raw EXCEPT ![c] = TRUE]
              /\ barred' = IF SerialOf[c] \in revoked THEN barred \cup {c} ELSE barred
              /\ UNCHANGED <<peer, toAgent, TableVars, age, mon, certs, revoked, adm, evicted, kicked>>

\* IsCertRevoked says no.
CheckRevoked(c) == /\ handler[c] = "hello"
                   /\ SerialOf[c] \notin revoked
                   /\ Goto(c, "vetted")
                   /\ Stay
                   /\ UNCHANGED <<TableVars, mon, AdminVars>>

\* Mutant: the row is written with status active even if it exists.
RecordCertUpsert(c) == /\ handler[c] = "vetted"
                       /\ certs' = certs \cup {SerialOf[c]}
                       /\ revoked' = revoked \ {SerialOf[c]}
                       /\ Goto(c, "recorded")
                       /\ Stay
                       /\ UNCHANGED <<TableVars, mon, adm, History>>

\* EnsureCertMeta inserts the row unless it exists.
RecordCert(c) == /\ handler[c] = "vetted"
                 /\ certs' = certs \cup {SerialOf[c]}
                 /\ Goto(c, "recorded")
                 /\ Stay
                 /\ UNCHANGED <<TableVars, mon, revoked, adm, History>>

\* TryRegister's test: the ID is free, or held by an object that is offline.
Registrable(n) == reg[n] # NoConn => state[reg[n]] = "offline"

\* TryRegister stores the new object.
Register(c) == /\ handler[c] = "recorded"
               /\ Registrable(NodeOf(c))
               /\ reg' = [reg EXCEPT ![NodeOf(c)] = c]
               /\ state' = [state EXCEPT ![c] = "online"]
               /\ Goto(c, "registered")
               /\ Stay
               /\ UNCHANGED <<conns, mon, AdminVars>>

\* The handshake fails: no proper hello within 15 s, another protocol or identity,
\* a revoked certificate, a failing store, or a duplicate node.
Refuse(c) == /\ \/ handler[c] \in {"hello", "vetted"}
                \/ handler[c] = "recorded" /\ ~Registrable(NodeOf(c))
             /\ Return(c)
             /\ UNCHANGED <<TableVars, mon, AdminVars>>

PutHandle(c) == /\ handler[c] = "registered"
                /\ conns' = [conns EXCEPT ![NodeOf(c)] = c]
                /\ Goto(c, "handled")
                /\ UNCHANGED <<raw, peer, toAgent, reg, state, age, mon, AdminVars>>

\* hello_ack is written and the monitor starts.
SendAck(c) == /\ handler[c] = "handled"
              /\ Goto(c, "serving")
              /\ mon' = [mon EXCEPT ![c] = MonitorWaits]
              /\ Stay
              /\ UNCHANGED <<TableVars, AdminVars>>

\* Writing hello_ack fails: straight to teardown.
AckFails(c) == /\ handler[c] = "handled"
               /\ peer[c] # "up"
               /\ Goto(c, "teardown")
               /\ Stay
               /\ UNCHANGED <<TableVars, mon, AdminVars>>

-----------------------------------------------------------------------------
(***************************************************************************)
(* The read loop and teardown.                                             *)
(***************************************************************************)

\* Node.MarkHeartbeat: the state after a heartbeat that reports localOK.
AfterHeartbeat(s, localOK) ==
    CASE ~localOK /\ s = "online" -> "degraded"
      [] localOK /\ s \in {"degraded", "suspect"} -> "online"
      [] OTHER -> s

Heartbeat(c, localOK) ==
    /\ handler[c] = "serving"
    /\ raw[c]
    /\ peer[c] = "up"
    /\ age' = [age EXCEPT ![c] = 0]
    /\ state' = [state EXCEPT ![c] = AfterHeartbeat(@, localOK)]
    /\ UNCHANGED <<handler, raw, peer, toAgent, reg, conns, mon, AdminVars>>

\* ReadMessage fails: the relay closed the socket, the agent closed it or said
\* bye, or nothing came before the read deadline of 2 * timeout + 5 s.
ReadLoopEnds(c) == /\ handler[c] = "serving"
                   /\ ~raw[c] \/ peer[c] = "left" \/ (peer[c] = "silent" /\ age[c] = 2)
                   /\ Goto(c, "ending")
                   /\ UNCHANGED <<raw, peer, toAgent, TableVars, age, mon, AdminVars>>

\* close(hbStop), then hbWG.Wait: a monitor in the middle of a tick finishes it.
StopMonitor(c) == /\ handler[c] = "ending"
                  /\ mon[c].at \in {"wait", "off"}
                  /\ mon' = [mon EXCEPT ![c] = MonitorOff]
                  /\ Goto(c, "teardown")
                  /\ UNCHANGED <<raw, peer, toAgent, TableVars, age, AdminVars>>

\* Mutant: the handler returns without teardown.
TeardownSkipped(c) == /\ handler[c] = "teardown"
                      /\ Return(c)
                      /\ UNCHANGED <<TableVars, mon, AdminVars>>

\* Mutant: teardown removes the node ID whatever object holds it.
TeardownRemoveAny(c) == /\ handler[c] = "teardown"
                        /\ reg' = [reg EXCEPT ![NodeOf(c)] = NoConn]
                        /\ Goto(c, "unregistered")
                        /\ Stay
                        /\ UNCHANGED <<conns, state, mon, AdminVars>>

\* RemoveIfSame removes this object.
TeardownRemove(c) == /\ handler[c] = "teardown"
                     /\ reg[NodeOf(c)] = c
                     /\ reg' = [reg EXCEPT ![NodeOf(c)] = NoConn]
                     /\ Goto(c, "unregistered")
                     /\ Stay
                     /\ UNCHANGED <<conns, state, mon, AdminVars>>

\* RemoveIfSame finds no entry or another object: teardown returns early.
TeardownStale(c) == /\ handler[c] = "teardown"
                    /\ reg[NodeOf(c)] # c
                    /\ Return(c)
                    /\ UNCHANGED <<TableVars, mon, AdminVars>>

\* Mutant: teardown deletes the handle by node ID alone.
TeardownHandleAny(c) == /\ handler[c] = "unregistered"
                        /\ conns' = [conns EXCEPT ![NodeOf(c)] = NoConn]
                        /\ Goto(c, "delisted")
                        /\ Stay
                        /\ UNCHANGED <<reg, state, mon, AdminVars>>

\* connRegistry.delIf.
TeardownHandle(c) == /\ handler[c] = "unregistered"
                     /\ conns' = [conns EXCEPT ![NodeOf(c)] = IF @ = c THEN NoConn ELSE @]
                     /\ Goto(c, "delisted")
                     /\ Stay
                     /\ UNCHANGED <<reg, state, mon, AdminVars>>

TeardownOffline(c) == /\ handler[c] = "delisted"
                      /\ state' = [state EXCEPT ![c] = "offline"]
                      /\ Return(c)
                      /\ UNCHANGED <<reg, conns, mon, AdminVars>>

-----------------------------------------------------------------------------
(***************************************************************************)
(* heartbeatMonitor: two separate reads of the node, then the verdict.     *)
(***************************************************************************)
\* A tick that finds a fresh heartbeat changes nothing and is left out.
MonitorAge(c) == /\ mon[c].at = "wait"
                 /\ age[c] > 0
                 /\ mon' = [mon EXCEPT ![c].at = "aged", ![c].age = age[c]]
                 /\ UNCHANGED <<handler, raw, peer, toAgent, TableVars, age, AdminVars>>

MonitorState(c) == /\ mon[c].at = "aged"
                   /\ mon' = [mon EXCEPT ![c].at = "ready", ![c].suspect = (state[c] = "suspect")]
                   /\ UNCHANGED <<handler, raw, peer, toAgent, TableVars, age, AdminVars>>

\* More than twice the timeout: the monitor closes the socket and returns.
MonitorClose(c) == /\ mon[c].at = "ready"
                   /\ mon[c].age = 2
                   /\ raw' = [raw EXCEPT ![c] = FALSE]
                   /\ mon' = [mon EXCEPT ![c] = MonitorOff]
                   /\ UNCHANGED <<handler, peer, toAgent, TableVars, age, AdminVars>>

\* Past the timeout: SetState(suspect), on the strength of the state read before.
MonitorMark(c) == /\ mon[c].at = "ready"
                  /\ mon[c].age < 2
                  /\ state' = [state EXCEPT ![c] =
                                IF mon[c].age = 1 /\ ~mon[c].suspect THEN "suspect" ELSE @]
                  /\ mon' = [mon EXCEPT ![c] = MonitorWaits]
                  /\ UNCHANGED <<handler, raw, peer, toAgent, reg, conns, age, AdminVars>>

-----------------------------------------------------------------------------
(***************************************************************************)
(* The agent's end and the passage of time (the relay's environment).      *)
(***************************************************************************)
\* Only the monitor looks at the age, so it counts from when the monitor starts.
GrowOld(c) == /\ handler[c] = "serving"
              /\ age[c] < MaxAge
              /\ age' = [age EXCEPT ![c] = @ + 1]
              /\ UNCHANGED <<handler, raw, peer, toAgent, TableVars, mon, AdminVars>>

\* The agent process stops or closes the socket ("left"), or host and network
\* disappear without a word ("silent").
PeerStops(c, how) == /\ handler[c] \notin {"idle", "closed"}
                     /\ peer[c] = "up"
                     /\ peer' = [peer EXCEPT ![c] = how]
                     /\ UNCHANGED <<handler, raw, toAgent, TableVars, age, mon, AdminVars>>

\* Mutant: the agent's dispatchControl does not know bye.
AgentReadsOn(c) ==
    /\ peer[c] = "up"
    /\ toAgent[c] # <<>>
    /\ toAgent' = [toAgent EXCEPT ![c] = Tail(@)]
    /\ UNCHANGED <<handler, raw, peer, TableVars, age, mon, AdminVars>>

\* The agent's dispatchControl: bye ends its read loop and closes the socket;
\* what drain does at the agent is the business of module AgentServe.
AgentReads(c) ==
    /\ peer[c] = "up"
    /\ toAgent[c] # <<>>
    /\ toAgent' = [toAgent EXCEPT ![c] = Tail(@)]
    /\ peer' = [peer EXCEPT ![c] = IF Head(toAgent[c]) = "bye" THEN "left" ELSE @]
    /\ UNCHANGED <<handler, raw, TableVars, age, mon, AdminVars>>

\* nodeConn.send: the message reaches a live socket; an unread message of the
\* same kind absorbs a second one.
Queued(q, m) == IF \E i \in DOMAIN q : q[i] = m THEN q ELSE Append(q, m)
Send(c, m) == toAgent' = IF raw[c] /\ peer[c] = "up"
                         THEN [toAgent EXCEPT ![c] = Queued(@, m)]
                         ELSE toAgent

-----------------------------------------------------------------------------
(***************************************************************************)
(* Admin API: Server.DrainNode, Server.KickNode, handleCertRevoke.         *)
(***************************************************************************)
HandlerVars == <<handler, raw, peer, age, mon>>
Step(a, at) == adm' = [adm EXCEPT ![a].at = at]
Finish(a) == adm' = [adm EXCEPT ![a] = AdminIdle]

DrainNode(a, n) ==
    /\ "drain" \in AdminOps /\ adm[a].at = "idle"
    /\ reg[n] # NoConn
    /\ adm' = [adm EXCEPT ![a] = [AdminIdle EXCEPT !.at = "drainCheck", !.node = n, !.obj = reg[n]]]
    /\ UNCHANGED <<HandlerVars, toAgent, TableVars, certs, revoked, History>>

DrainCheck(a) ==
    /\ adm[a].at = "drainCheck"
    /\ IF state[adm[a].obj] \in {"online", "degraded", "suspect"}
       THEN Step(a, "drainSet")
       ELSE Finish(a)
    /\ UNCHANGED <<HandlerVars, toAgent, TableVars, certs, revoked, History>>

DrainSet(a) ==
    /\ adm[a].at = "drainSet"
    /\ state' = [state EXCEPT ![adm[a].obj] = "draining"]
    /\ Step(a, "drainSend")
    /\ UNCHANGED <<HandlerVars, toAgent, reg, conns, certs, revoked, History>>

\* sendToNode looks the handle up by node ID; without one DrainNode fails.
DrainSend(a) == LET nc == conns[adm[a].node] IN
    /\ adm[a].at = "drainSend"
    /\ IF nc = NoConn THEN UNCHANGED toAgent ELSE Send(nc, "drain")
    /\ Finish(a)
    /\ UNCHANGED <<HandlerVars, TableVars, certs, revoked, History>>

CertRevoke(a, s) ==
    /\ "revoke" \in AdminOps /\ adm[a].at = "idle"
    /\ s \in certs
    /\ revoked' = revoked \cup {s}
    /\ adm' = [adm EXCEPT ![a] = [AdminIdle EXCEPT !.at = "revokeGet", !.node = OwnerOf[s], !.serial = s]]
    /\ UNCHANGED <<HandlerVars, toAgent, TableVars, certs, History>>

\* Only a registered object that presents the revoked certificate is kicked.
RevokeGet(a) == LET c == reg[adm[a].node] IN
    /\ adm[a].at = "revokeGet"
    /\ IF c # NoConn /\ SerialOf[c] = adm[a].serial THEN Step(a, "kickGet") ELSE Finish(a)
    /\ UNCHANGED <<HandlerVars, toAgent, TableVars, certs, revoked, History>>

KickNode(a, n) ==
    /\ "kick" \in AdminOps /\ adm[a].at = "idle"
    /\ adm' = [adm EXCEPT ![a] = [AdminIdle EXCEPT !.at = "kickGet", !.node = n]]
    /\ UNCHANGED <<HandlerVars, toAgent, TableVars, certs, revoked, History>>

KickGet(a) == LET c == reg[adm[a].node] IN
    /\ adm[a].at = "kickGet"
    /\ IF c = NoConn
       THEN Finish(a)
       ELSE adm' = [adm EXCEPT ![a].at = "kickHandle", ![a].obj = c]
    /\ UNCHANGED <<HandlerVars, toAgent, TableVars, certs, revoked, History>>

KickHandle(a) == LET nc == conns[adm[a].node] IN
    /\ adm[a].at = "kickHandle"
    /\ adm' = [adm EXCEPT ![a].at = IF nc = NoConn THEN "kickRemove" ELSE "kickSend",
                          ![a].nc = nc]
    /\ UNCHANGED <<HandlerVars, toAgent, TableVars, certs, revoked, History>>

KickSend(a) == /\ adm[a].at = "kickSend"
               /\ Send(adm[a].nc, "bye")
               /\ Step(a, "kickRemove")
               /\ UNCHANGED <<HandlerVars, TableVars, certs, revoked, History>>

\* Mutant: the object is marked offline before it leaves the registry.
KickRemoveLate(a) == LET n == adm[a].node IN
    /\ adm[a].at = "kickRemove"
    /\ state' = [state EXCEPT ![adm[a].obj] = "offline"]
    /\ Step(a, IF adm[a].nc = NoConn THEN "kickOffline" ELSE "kickDel")
    /\ UNCHANGED <<HandlerVars, toAgent, reg, conns, certs, revoked, History>>

\* Registry.Remove deletes by node ID, whatever object is there by now.
KickRemove(a) == LET n == adm[a].node IN
    /\ adm[a].at = "kickRemove"
    /\ reg' = [reg EXCEPT ![n] = NoConn]
    /\ evicted' = evicted \cup ({reg[n]} \ {NoConn})
    /\ kicked' = kicked \cup {n}
    /\ Step(a, IF adm[a].nc = NoConn THEN "kickOffline" ELSE "kickDel")
    /\ UNCHANGED <<HandlerVars, toAgent, conns, state, certs, revoked, barred>>

\* connRegistry.del deletes by node ID.
KickDel(a) == /\ adm[a].at = "kickDel"
              /\ conns' = [conns EXCEPT ![adm[a].node] = NoConn]
              /\ Step(a, "kickOffline")
              /\ UNCHANGED <<HandlerVars, toAgent, reg, state, certs, revoked, History>>

KickOffline(a) == /\ adm[a].at = "kickOffline"
                  /\ state' = [state EXCEPT ![adm[a].obj] = "offline"]
                  /\ Finish(a)
                  /\ UNCHANGED <<HandlerVars, toAgent, reg, conns, certs, revoked, History>>

-----------------------------------------------------------------------------
Handshake(c) == \/ Connect(c) \/ CheckRevoked(c) \/ RecordCert(c) \/ Register(c)
                \/ Refuse(c) \/ PutHandle(c) \/ SendAck(c) \/ AckFails(c)
ReadLoop(c) == ReadLoopEnds(c) \/ \E localOK \in BOOLEAN : Heartbeat(c, localOK)
Teardown(c) == \/ TeardownRemove(c) \/ TeardownStale(c)
               \/ TeardownHandle(c) \/ TeardownOffline(c)
Monitor(c) == MonitorAge(c) \/ MonitorState(c) \/ MonitorClose(c) \/ MonitorMark(c)
Environment(c) == \/ GrowOld(c) \/ AgentReads(c)
                  \/ \E how \in {"left", "silent"} : PeerStops(c, how)
Drain(a) == DrainCheck(a) \/ DrainSet(a) \/ DrainSend(a) \/ \E n \in Node : DrainNode(a, n)
Kick(a) == \/ KickGet(a) \/ KickHandle(a) \/ KickSend(a) \/ KickRemove(a) \/ KickDel(a)
           \/ KickOffline(a) \/ \E n \in Node : KickNode(a, n)
Revoke(a) == RevokeGet(a) \/ \E s \in Serial : CertRevoke(a, s)

ConnNext == \E c \in Conn : \/ Handshake(c) \/ ReadLoop(c) \/ StopMonitor(c) \/ Teardown(c)
                            \/ Monitor(c) \/ Environment(c)
AdminNext == \E a \in Admin : Drain(a) \/ Kick(a) \/ Revoke(a)
Next == ConnNext \/ AdminNext

Spec == Init /\ [][Next]_vars

(***************************************************************************)
(* Fairness: a goroutine that can run does run (Go's scheduler), the clock *)
(* advances when no heartbeat resets it, and an agent that is up reads its *)
(* socket.  The monitor's select takes the closed stop channel eventually, *)
(* because Go picks at random among ready cases: StopMonitor is strongly   *)
(* fair.  Nobody is obliged to connect, to disconnect, to send a heartbeat *)
(* or to call the admin API.                                               *)
(***************************************************************************)
ConnFairness(c) ==
    /\ WF_vars(Handshake(c) /\ handler[c] # "idle")
    /\ WF_vars(ReadLoopEnds(c))
    /\ SF_vars(StopMonitor(c))
    /\ WF_vars(Teardown(c))
    /\ WF_vars(Monitor(c))
    /\ WF_vars(GrowOld(c))
    /\ WF_vars(AgentReads(c))
AdminFairness(a) == WF_vars(adm[a].at # "idle" /\ (Drain(a) \/ Kick(a) \/ Revoke(a)))

FairSpec == /\ Spec
            /\ \A c \in Conn : ConnFairness(c)
            /\ \A a \in Admin : AdminFairness(a)

-----------------------------------------------------------------------------
(***************************************************************************)
(* Properties.                                                             *)
(***************************************************************************)

\* Type invariant: every variable holds values of its Go type.
TypeOK ==
    /\ handler \in [Conn -> HandlerAt]
    /\ raw \in [Conn -> BOOLEAN]
    /\ peer \in [Conn -> {"up", "left", "silent"}]
    /\ toAgent \in [Conn -> Seq({"drain", "bye"})]
    /\ reg \in [Node -> ConnOrNil]
    /\ conns \in [Node -> ConnOrNil]
    /\ state \in [Conn -> NodeState]
    /\ age \in [Conn -> 0..2]
    /\ mon \in [Conn -> MonitorLocals]
    /\ certs \subseteq Serial
    /\ revoked \subseteq certs
    /\ adm \in [Admin -> AdminLocals]
    /\ evicted \subseteq Conn
    /\ kicked \subseteq Node
    /\ barred \subseteq Conn

\* A registry entry never outlives the handler that made it, and always stands
\* under its own node ID: however reconnects, failed acks, kicks and teardowns
\* interleave, Registry.nodes points at a connection still being handled.
RegistryEntryIsLive ==
    \A n \in Node : reg[n] # NoConn =>
        NodeOf(reg[n]) = n /\ handler[reg[n]] \in RegisteredAt

\* The converse: a connection past TryRegister and before teardown's
\* RemoveIfSame is the registered one unless KickNode evicted it.  So the
\* teardown of an old connection never removes its successor (the purpose of
\* RemoveIfSame), and two live connections never share a node ID.
HandledIsRegistered ==
    \A c \in Conn : handler[c] \in RegisteredAt /\ c \notin evicted => reg[NodeOf(c)] = c

\* Nobody marks an object offline while it is still registered: KickNode and
\* teardown both remove first.  TryRegister's branch for an offline entry is
\* therefore dead, and an entry is never replaced without being removed.
RegisteredIsNotOffline == \A n \in Node : reg[n] # NoConn => state[reg[n]] # "offline"

\* As long as KickNode has not touched the node ID, a connection past conns.put
\* has its own handle in place, so what is routed to it can be sent: the late
\* delIf of an old connection never takes the handle of its successor.
ServedHasHandle ==
    \A c \in Conn : /\ handler[c] \in {"handled", "serving", "ending", "teardown"}
                    /\ NodeOf(c) \notin kicked
                    => conns[NodeOf(c)] = c

\* deployment.md:1079: a revoked certificate is refused when it reconnects.  No
\* connection opened after the revocation is ever registered, whatever handshake
\* of the same certificate was under way when it was revoked.
RevokedCannotReconnect == \A c \in barred : handler[c] \notin RegisteredAt

\* A registered connection whose agent vanished without closing the socket is
\* found by the monitor (or the read deadline) and leaves the registry, so the
\* node ID becomes free for the agent's next connection.
VanishedAgentIsUnregistered ==
    \A c \in Conn : (peer[c] = "silent" /\ reg[NodeOf(c)] = c) ~> (reg[NodeOf(c)] # c)

\* A connection that was sent bye by KickNode ends: its handler returns.
ByeEndsTheConnection ==
    \A c \in Conn : (toAgent[c] # <<>> /\ toAgent[c][Len(toAgent[c])] = "bye")
                        ~> (handler[c] = "closed")

-----------------------------------------------------------------------------
(***************************************************************************)
(* What the repository says and the code does not do.                      *)
(***************************************************************************)

\* admin.go:520: revocation "must cut the current connection at once".  Once
\* handleCertRevoke is done, no registered connection presents the certificate.
RevokedIsCut ==
    (\A a \in Admin : adm[a].at = "idle") =>
        \A n \in Node : reg[n] # NoConn => SerialOf[reg[n]] \notin revoked

\* app.js:255: after Drain "the node stops receiving new requests".  A drained
\* object is never again in a state Scheduler.Select picks from.
DrainedIsNotScheduled ==
    \A c \in Conn : [](state[c] = "draining" => [](state[c] \notin {"online", "degraded"}))

=============================================================================
