----------------------- MODULE NodeLifecycle_proofs ------------------------
(***************************************************************************)
(* Proofs about NodeLifecycle, for any number of nodes, certificates,      *)
(* connections and admin goroutines.                                       *)
(***************************************************************************)
EXTENDS NodeLifecycle, TLAPS

\* Positions of handleConnect before TryRegister.
Early == {"idle", "hello", "vetted", "recorded"}

\* Strengthening 1: an admin goroutine that is at work knows the node ID it works
\* on, and the object it read from the registry belongs to that ID and has passed
\* TryRegister; once it has removed the ID, the object is not registered.
Knows(r) ==
    r.at # "idle" =>
        /\ r.node \in Node
        /\ r.at \notin {"drainSend", "revokeGet", "kickGet"} =>
              r.obj \in Conn /\ NodeOf(r.obj) = r.node /\ handler[r.obj] \notin Early
        /\ r.at \in {"kickDel", "kickOffline"} => r.node \in kicked /\ reg[r.node] # r.obj
AdminKnows == \A a \in Admin : Knows(adm[a])

\* Strengthening 2: what the history variables record.
HistoryOK ==
    /\ \A c \in evicted : NodeOf(c) \in kicked /\ handler[c] \notin Early
    /\ \A c \in barred : SerialOf[c] \in revoked /\ handler[c] \in {"hello", "closed"}

IInv == /\ TypeOK
        /\ RegistryEntryIsLive
        /\ HandledIsRegistered
        /\ RegisteredIsNotOffline
        /\ ServedHasHandle
        /\ AdminKnows
        /\ HistoryOK

USE CertAssumption, NoConnAssumption
USE DEF NodeOf, ConnOrNil, TableVars, AdminVars, History, HandlerVars, Goto, Stay, Return

\* Moving an admin goroutine along changes its position and nothing else.
LEMMA StepEffect ==
    ASSUME TypeOK, NEW a \in Admin, NEW at \in AdminAt, Step(a, at)
    PROVE  /\ adm' \in [Admin -> AdminLocals]
           /\ adm'[a].at = at
           /\ adm'[a].node = adm[a].node /\ adm'[a].obj = adm[a].obj
           /\ adm'[a].nc = adm[a].nc
           /\ \A b \in Admin \ {a} : adm'[b] = adm[b]
  <1>1. adm[a] \in AdminLocals /\ adm' = [adm EXCEPT ![a].at = at]
    BY DEF TypeOK, Step
  <1>2. [adm[a] EXCEPT !.at = at] \in AdminLocals
    BY <1>1 DEF AdminLocals
  <1>3. adm' = [adm EXCEPT ![a] = [adm[a] EXCEPT !.at = at]]
    BY <1>1
  <1>4. adm'[a] = [adm[a] EXCEPT !.at = at] /\ \A b \in Admin \ {a} : adm'[b] = adm[b]
    BY <1>3 DEF TypeOK
  <1>5. adm' \in [Admin -> AdminLocals]
    BY <1>2, <1>3 DEF TypeOK
  <1> QED  BY <1>1, <1>4, <1>5 DEF AdminLocals

\* Finishing an admin operation makes the goroutine idle.
LEMMA FinishEffect ==
    ASSUME TypeOK, NEW a \in Admin, Finish(a)
    PROVE  /\ adm' \in [Admin -> AdminLocals]
           /\ adm'[a].at = "idle"
           /\ \A b \in Admin \ {a} : adm'[b] = adm[b]
  BY DEF TypeOK, Finish, AdminIdle, AdminLocals, AdminAt

\* Opening, vetting, registering and acknowledging a connection keep IInv.
LEMMA HandshakeStep ==
    ASSUME IInv, NEW c \in Conn, Handshake(c)
    PROVE  IInv'
  <1>1. ASSUME Connect(c)
         PROVE  IInv'
    <2>1. TypeOK'
      BY <1>1 DEF IInv, TypeOK, Connect, HandlerAt, RegisteredAt
    <2>2. RegistryEntryIsLive' /\ HandledIsRegistered' /\ RegisteredIsNotOffline'
      BY <1>1 DEF IInv, TypeOK, RegistryEntryIsLive, HandledIsRegistered, RegisteredIsNotOffline, RegisteredAt, Connect
    <2>3. ServedHasHandle' /\ AdminKnows' /\ HistoryOK'
      BY <1>1 DEF IInv, TypeOK, ServedHasHandle, AdminKnows, Knows, HistoryOK, Early, Connect
    <2> QED  BY <2>1, <2>2, <2>3 DEF IInv
  <1>2. ASSUME CheckRevoked(c)
         PROVE  IInv'
    <2>1. TypeOK'
      BY <1>2 DEF IInv, TypeOK, CheckRevoked, HandlerAt, RegisteredAt
    <2>2. RegistryEntryIsLive' /\ HandledIsRegistered' /\ RegisteredIsNotOffline'
      BY <1>2 DEF IInv, TypeOK, RegistryEntryIsLive, HandledIsRegistered, RegisteredIsNotOffline, RegisteredAt, CheckRevoked
    <2>3. ServedHasHandle' /\ AdminKnows' /\ HistoryOK'
      BY <1>2 DEF IInv, TypeOK, ServedHasHandle, AdminKnows, Knows, HistoryOK, Early, CheckRevoked
    <2> QED  BY <2>1, <2>2, <2>3 DEF IInv
  <1>3. ASSUME RecordCert(c)
         PROVE  IInv'
    <2>1. TypeOK'
      BY <1>3 DEF IInv, TypeOK, RecordCert, HandlerAt, RegisteredAt
    <2>2. RegistryEntryIsLive' /\ HandledIsRegistered' /\ RegisteredIsNotOffline'
      BY <1>3 DEF IInv, TypeOK, RegistryEntryIsLive, HandledIsRegistered, RegisteredIsNotOffline, RegisteredAt, RecordCert
    <2>3. ServedHasHandle' /\ AdminKnows' /\ HistoryOK'
      BY <1>3 DEF IInv, TypeOK, ServedHasHandle, AdminKnows, Knows, HistoryOK, Early, RecordCert
    <2> QED  BY <2>1, <2>2, <2>3 DEF IInv
  <1>4. ASSUME Register(c)
         PROVE  IInv'
    <2>1. TypeOK'
      BY <1>4 DEF IInv, TypeOK, Register, HandlerAt, RegisteredAt, NodeState
    <2>2. RegistryEntryIsLive' /\ HandledIsRegistered' /\ RegisteredIsNotOffline'
      BY <1>4 DEF IInv, TypeOK, RegistryEntryIsLive, HandledIsRegistered, RegisteredIsNotOffline, RegisteredAt, Registrable, Register
    <2>3. ServedHasHandle' /\ AdminKnows' /\ HistoryOK'
      BY <1>4 DEF IInv, TypeOK, RegistryEntryIsLive, RegisteredIsNotOffline, RegisteredAt, Registrable, ServedHasHandle, AdminKnows, Knows, HistoryOK, Early, Register
    <2> QED  BY <2>1, <2>2, <2>3 DEF IInv
  <1>5. ASSUME Refuse(c)
         PROVE  IInv'
    <2>1. TypeOK'
      BY <1>5 DEF IInv, TypeOK, Refuse, HandlerAt, RegisteredAt
    <2>2. RegistryEntryIsLive' /\ HandledIsRegistered' /\ RegisteredIsNotOffline'
      BY <1>5 DEF IInv, TypeOK, RegistryEntryIsLive, HandledIsRegistered, RegisteredIsNotOffline, RegisteredAt, Refuse
    <2>3. ServedHasHandle' /\ AdminKnows' /\ HistoryOK'
      BY <1>5 DEF IInv, TypeOK, ServedHasHandle, AdminKnows, Knows, HistoryOK, Early, Refuse
    <2> QED  BY <2>1, <2>2, <2>3 DEF IInv
  <1>6. ASSUME PutHandle(c)
         PROVE  IInv'
    <2>1. TypeOK'
      BY <1>6 DEF IInv, TypeOK, PutHandle, HandlerAt, RegisteredAt
    <2>2. RegistryEntryIsLive' /\ HandledIsRegistered' /\ RegisteredIsNotOffline'
      BY <1>6 DEF IInv, TypeOK, RegistryEntryIsLive, HandledIsRegistered, RegisteredIsNotOffline, RegisteredAt, PutHandle
    <2>3. ServedHasHandle' /\ AdminKnows' /\ HistoryOK'
      BY <1>6 DEF IInv, TypeOK, HandledIsRegistered, RegisteredAt, ServedHasHandle, AdminKnows, Knows, HistoryOK, Early, PutHandle
    <2> QED  BY <2>1, <2>2, <2>3 DEF IInv
  <1>7. ASSUME SendAck(c)
         PROVE  IInv'
    <2>1. TypeOK'
      BY <1>7 DEF IInv, TypeOK, SendAck, HandlerAt, RegisteredAt, MonitorWaits, MonitorLocals, MonitorAt
    <2>2. RegistryEntryIsLive' /\ HandledIsRegistered' /\ RegisteredIsNotOffline'
      BY <1>7 DEF IInv, TypeOK, RegistryEntryIsLive, HandledIsRegistered, RegisteredIsNotOffline, RegisteredAt, SendAck
    <2>3. ServedHasHandle' /\ AdminKnows' /\ HistoryOK'
      BY <1>7 DEF IInv, TypeOK, ServedHasHandle, AdminKnows, Knows, HistoryOK, Early, SendAck
    <2> QED  BY <2>1, <2>2, <2>3 DEF IInv
  <1>8. ASSUME AckFails(c)
         PROVE  IInv'
    <2>1. TypeOK'
      BY <1>8 DEF IInv, TypeOK, AckFails, HandlerAt, RegisteredAt
    <2>2. RegistryEntryIsLive' /\ HandledIsRegistered' /\ RegisteredIsNotOffline'
      BY <1>8 DEF IInv, TypeOK, RegistryEntryIsLive, HandledIsRegistered, RegisteredIsNotOffline, RegisteredAt, AckFails
    <2>3. ServedHasHandle' /\ AdminKnows' /\ HistoryOK'
      BY <1>8 DEF IInv, TypeOK, ServedHasHandle, AdminKnows, Knows, HistoryOK, Early, AckFails
    <2> QED  BY <2>1, <2>2, <2>3 DEF IInv
  <1> QED  BY <1>1, <1>2, <1>3, <1>4, <1>5, <1>6, <1>7, <1>8 DEF Handshake

\* The read loop, the monitor, the agent and the clock keep IInv.
LEMMA ServingStep ==
    ASSUME IInv, NEW c \in Conn, ReadLoop(c) \/ StopMonitor(c) \/ Monitor(c) \/ Environment(c)
    PROVE  IInv'
  <1>1. ASSUME NEW ok \in BOOLEAN, Heartbeat(c, ok)
         PROVE  IInv'
    <2>1. TypeOK'
      BY <1>1 DEF IInv, TypeOK, Heartbeat, NodeState, AfterHeartbeat
    <2>2. RegistryEntryIsLive' /\ HandledIsRegistered' /\ RegisteredIsNotOffline'
      BY <1>1 DEF IInv, TypeOK, RegistryEntryIsLive, HandledIsRegistered, RegisteredIsNotOffline, RegisteredAt, AfterHeartbeat, Heartbeat
    <2>3. ServedHasHandle' /\ AdminKnows' /\ HistoryOK'
      BY <1>1 DEF IInv, TypeOK, ServedHasHandle, AdminKnows, Knows, HistoryOK, Early, Heartbeat
    <2> QED  BY <2>1, <2>2, <2>3 DEF IInv
  <1>2. ASSUME ReadLoopEnds(c)
         PROVE  IInv'
    <2>1. TypeOK'
      BY <1>2 DEF IInv, TypeOK, ReadLoopEnds, HandlerAt, RegisteredAt
    <2>2. RegistryEntryIsLive' /\ HandledIsRegistered' /\ RegisteredIsNotOffline'
      BY <1>2 DEF IInv, TypeOK, RegistryEntryIsLive, HandledIsRegistered, RegisteredIsNotOffline, RegisteredAt, ReadLoopEnds
    <2>3. ServedHasHandle' /\ AdminKnows' /\ HistoryOK'
      BY <1>2 DEF IInv, TypeOK, ServedHasHandle, AdminKnows, Knows, HistoryOK, Early, ReadLoopEnds
    <2> QED  BY <2>1, <2>2, <2>3 DEF IInv
  <1>3. ASSUME StopMonitor(c)
         PROVE  IInv'
    <2>1. TypeOK'
      BY <1>3 DEF IInv, TypeOK, StopMonitor, HandlerAt, RegisteredAt, MonitorOff, MonitorLocals, MonitorAt
    <2>2. RegistryEntryIsLive' /\ HandledIsRegistered' /\ RegisteredIsNotOffline'
      BY <1>3 DEF IInv, TypeOK, RegistryEntryIsLive, HandledIsRegistered, RegisteredIsNotOffline, RegisteredAt, StopMonitor
    <2>3. ServedHasHandle' /\ AdminKnows' /\ HistoryOK'
      BY <1>3 DEF IInv, TypeOK, ServedHasHandle, AdminKnows, Knows, HistoryOK, Early, StopMonitor
    <2> QED  BY <2>1, <2>2, <2>3 DEF IInv
  <1>4. ASSUME MonitorAge(c)
         PROVE  IInv'
    <2>1. TypeOK'
      <3>1. mon[c] \in MonitorLocals /\ age[c] \in 0..2
        BY DEF IInv, TypeOK
      <3>2. [mon[c] EXCEPT !.at = "aged", !.age = age[c]] \in MonitorLocals
        BY <3>1 DEF MonitorLocals, MonitorAt
      <3>3. mon' = [mon EXCEPT ![c] = [mon[c] EXCEPT !.at = "aged", !.age = age[c]]]
        BY <1>4 DEF MonitorAge
      <3>4. mon' \in [Conn -> MonitorLocals]
        BY <3>2, <3>3 DEF IInv, TypeOK
      <3> QED  BY <1>4, <3>4 DEF IInv, TypeOK, MonitorAge
    <2>2. RegistryEntryIsLive' /\ HandledIsRegistered' /\ RegisteredIsNotOffline'
      BY <1>4 DEF IInv, TypeOK, RegistryEntryIsLive, HandledIsRegistered, RegisteredIsNotOffline, RegisteredAt, MonitorAge
    <2>3. ServedHasHandle' /\ AdminKnows' /\ HistoryOK'
      BY <1>4 DEF IInv, TypeOK, ServedHasHandle, AdminKnows, Knows, HistoryOK, Early, MonitorAge
    <2> QED  BY <2>1, <2>2, <2>3 DEF IInv
  <1>5. ASSUME MonitorState(c)
         PROVE  IInv'
    <2>1. TypeOK'
      <3>1. mon[c] \in MonitorLocals
        BY DEF IInv, TypeOK
      <3>2. [mon[c] EXCEPT !.at = "ready", !.suspect = (state[c] = "suspect")] \in MonitorLocals
        BY <3>1 DEF MonitorLocals, MonitorAt
      <3>3. mon' \in [Conn -> MonitorLocals]
        BY <1>5, <3>2 DEF IInv, TypeOK, MonitorState
      <3> QED  BY <1>5, <3>3 DEF IInv, TypeOK, MonitorState
    <2>2. RegistryEntryIsLive' /\ HandledIsRegistered' /\ RegisteredIsNotOffline'
      BY <1>5 DEF IInv, TypeOK, RegistryEntryIsLive, HandledIsRegistered, RegisteredIsNotOffline, RegisteredAt, MonitorState
    <2>3. ServedHasHandle' /\ AdminKnows' /\ HistoryOK'
      BY <1>5 DEF IInv, TypeOK, ServedHasHandle, AdminKnows, Knows, HistoryOK, Early, MonitorState
    <2> QED  BY <2>1, <2>2, <2>3 DEF IInv
  <1>6. ASSUME MonitorClose(c)
         PROVE  IInv'
    <2>1. TypeOK'
      BY <1>6 DEF IInv, TypeOK, MonitorClose, MonitorOff, MonitorLocals, MonitorAt
    <2>2. RegistryEntryIsLive' /\ HandledIsRegistered' /\ RegisteredIsNotOffline'
      BY <1>6 DEF IInv, TypeOK, RegistryEntryIsLive, HandledIsRegistered, RegisteredIsNotOffline, RegisteredAt, MonitorClose
    <2>3. ServedHasHandle' /\ AdminKnows' /\ HistoryOK'
      BY <1>6 DEF IInv, TypeOK, ServedHasHandle, AdminKnows, Knows, HistoryOK, Early, MonitorClose
    <2> QED  BY <2>1, <2>2, <2>3 DEF IInv
  <1>7. ASSUME MonitorMark(c)
         PROVE  IInv'
    <2>1. TypeOK'
      BY <1>7 DEF IInv, TypeOK, MonitorMark, NodeState, MonitorWaits, MonitorLocals, MonitorAt
    <2>2. RegistryEntryIsLive' /\ HandledIsRegistered' /\ RegisteredIsNotOffline'
      BY <1>7 DEF IInv, TypeOK, RegistryEntryIsLive, HandledIsRegistered, RegisteredIsNotOffline, RegisteredAt, MonitorMark
    <2>3. ServedHasHandle' /\ AdminKnows' /\ HistoryOK'
      BY <1>7 DEF IInv, TypeOK, ServedHasHandle, AdminKnows, Knows, HistoryOK, Early, MonitorMark
    <2> QED  BY <2>1, <2>2, <2>3 DEF IInv
  <1>8. ASSUME GrowOld(c)
         PROVE  IInv'
    <2>1. TypeOK'
      <3>1. age[c] \in 0..2 /\ age[c] < MaxAge
        BY <1>8 DEF IInv, TypeOK, GrowOld
      <3>2. age[c] + 1 \in 0..2
        BY <3>1, MaxAgeAssumption
      <3> QED  BY <1>8, <3>2 DEF IInv, TypeOK, GrowOld
    <2>2. RegistryEntryIsLive' /\ HandledIsRegistered' /\ RegisteredIsNotOffline'
      BY <1>8 DEF IInv, TypeOK, RegistryEntryIsLive, HandledIsRegistered, RegisteredIsNotOffline, RegisteredAt, GrowOld
    <2>3. ServedHasHandle' /\ AdminKnows' /\ HistoryOK'
      BY <1>8 DEF IInv, TypeOK, ServedHasHandle, AdminKnows, Knows, HistoryOK, Early, GrowOld
    <2> QED  BY <2>1, <2>2, <2>3 DEF IInv
  <1>9. ASSUME AgentReads(c)
         PROVE  IInv'
    <2>1. TypeOK'
      BY <1>9 DEF IInv, TypeOK, AgentReads
    <2>2. RegistryEntryIsLive' /\ HandledIsRegistered' /\ RegisteredIsNotOffline'
      BY <1>9 DEF IInv, TypeOK, RegistryEntryIsLive, HandledIsRegistered, RegisteredIsNotOffline, RegisteredAt, AgentReads
    <2>3. ServedHasHandle' /\ AdminKnows' /\ HistoryOK'
      BY <1>9 DEF IInv, TypeOK, ServedHasHandle, AdminKnows, Knows, HistoryOK, Early, AgentReads
    <2> QED  BY <2>1, <2>2, <2>3 DEF IInv
  <1>10. ASSUME NEW how \in {"left", "silent"}, PeerStops(c, how)
         PROVE  IInv'
    <2>1. TypeOK'
      BY <1>10 DEF IInv, TypeOK, PeerStops
    <2>2. RegistryEntryIsLive' /\ HandledIsRegistered' /\ RegisteredIsNotOffline'
      BY <1>10 DEF IInv, TypeOK, RegistryEntryIsLive, HandledIsRegistered, RegisteredIsNotOffline, RegisteredAt, PeerStops
    <2>3. ServedHasHandle' /\ AdminKnows' /\ HistoryOK'
      BY <1>10 DEF IInv, TypeOK, ServedHasHandle, AdminKnows, Knows, HistoryOK, Early, PeerStops
    <2> QED  BY <2>1, <2>2, <2>3 DEF IInv
  <1> QED  BY <1>1, <1>2, <1>3, <1>4, <1>5, <1>6, <1>7, <1>8, <1>9, <1>10 DEF ReadLoop, Monitor, Environment

\* Teardown keeps IInv.
LEMMA TeardownStep ==
    ASSUME IInv, NEW c \in Conn, Teardown(c)
    PROVE  IInv'
  <1>1. ASSUME TeardownRemove(c)
         PROVE  IInv'
    <2>1. TypeOK'
      BY <1>1 DEF IInv, TypeOK, TeardownRemove, HandlerAt, RegisteredAt
    <2>2. RegistryEntryIsLive' /\ HandledIsRegistered' /\ RegisteredIsNotOffline'
      BY <1>1 DEF IInv, TypeOK, RegistryEntryIsLive, HandledIsRegistered, RegisteredIsNotOffline, RegisteredAt, TeardownRemove
    <2>3. ServedHasHandle' /\ AdminKnows' /\ HistoryOK'
      BY <1>1 DEF IInv, TypeOK, ServedHasHandle, AdminKnows, Knows, HistoryOK, Early, TeardownRemove
    <2> QED  BY <2>1, <2>2, <2>3 DEF IInv
  <1>2. ASSUME TeardownStale(c)
         PROVE  IInv'
    <2>1. TypeOK'
      BY <1>2 DEF IInv, TypeOK, TeardownStale, HandlerAt, RegisteredAt
    <2>2. RegistryEntryIsLive' /\ HandledIsRegistered' /\ RegisteredIsNotOffline'
      BY <1>2 DEF IInv, TypeOK, RegistryEntryIsLive, HandledIsRegistered, RegisteredIsNotOffline, RegisteredAt, TeardownStale
    <2>3. ServedHasHandle' /\ AdminKnows' /\ HistoryOK'
      BY <1>2 DEF IInv, TypeOK, ServedHasHandle, AdminKnows, Knows, HistoryOK, Early, TeardownStale
    <2> QED  BY <2>1, <2>2, <2>3 DEF IInv
  <1>3. ASSUME TeardownHandle(c)
         PROVE  IInv'
    <2>1. TypeOK'
      BY <1>3 DEF IInv, TypeOK, TeardownHandle, HandlerAt, RegisteredAt
    <2>2. RegistryEntryIsLive' /\ HandledIsRegistered' /\ RegisteredIsNotOffline'
      BY <1>3 DEF IInv, TypeOK, RegistryEntryIsLive, HandledIsRegistered, RegisteredIsNotOffline, RegisteredAt, TeardownHandle
    <2>3. ServedHasHandle' /\ AdminKnows' /\ HistoryOK'
      BY <1>3 DEF IInv, TypeOK, ServedHasHandle, AdminKnows, Knows, HistoryOK, Early, TeardownHandle
    <2> QED  BY <2>1, <2>2, <2>3 DEF IInv
  <1>4. ASSUME TeardownOffline(c)
         PROVE  IInv'
    <2>1. TypeOK'
      BY <1>4 DEF IInv, TypeOK, TeardownOffline, HandlerAt, RegisteredAt, NodeState
    <2>2. RegistryEntryIsLive' /\ HandledIsRegistered' /\ RegisteredIsNotOffline'
      <3>1. \A n \in Node : reg[n] # c
        BY <1>4 DEF IInv, RegistryEntryIsLive, RegisteredAt, TeardownOffline
      <3>2. RegistryEntryIsLive' /\ HandledIsRegistered'
        BY <1>4, <3>1 DEF IInv, TypeOK, RegistryEntryIsLive, HandledIsRegistered, RegisteredAt, TeardownOffline
      <3>3. RegisteredIsNotOffline'
        BY <1>4, <3>1 DEF IInv, TypeOK, RegisteredIsNotOffline, TeardownOffline
      <3> QED  BY <3>2, <3>3
    <2>3. ServedHasHandle' /\ AdminKnows' /\ HistoryOK'
      BY <1>4 DEF IInv, TypeOK, ServedHasHandle, AdminKnows, Knows, HistoryOK, Early, TeardownOffline
    <2> QED  BY <2>1, <2>2, <2>3 DEF IInv
  <1> QED  BY <1>1, <1>2, <1>3, <1>4 DEF Teardown

\* Sending keeps the agents' inboxes sequences of control messages.
LEMMA SendEffect ==
    ASSUME TypeOK, NEW c, NEW m \in {"drain", "bye"}, Send(c, m)
    PROVE  toAgent' \in [Conn -> Seq({"drain", "bye"})]
  <1>1. \A q \in Seq({"drain", "bye"}) : Queued(q, m) \in Seq({"drain", "bye"})
    BY DEF Queued
  <1> QED  BY <1>1 DEF TypeOK, Send

\* The other goroutines know what they knew: nobody revokes a kick, reopens a
\* connection, or registers an object while an admin operation takes a step.
LEMMA AdminKnowledge ==
    ASSUME IInv, NEW a \in Admin, handler' = handler, kicked \subseteq kicked',
           \A n \in Node : reg'[n] \in {reg[n], NoConn},
           \A b \in Admin \ {a} : adm'[b] = adm[b], Knows(adm[a])'
    PROVE  AdminKnows'
  <1>1. SUFFICES ASSUME NEW b \in Admin, b # a PROVE Knows(adm[b])'
    BY DEF AdminKnows
  <1>2. Knows(adm[b]) /\ adm'[b] = adm[b]
    BY <1>1 DEF IInv, AdminKnows
  <1> QED  BY <1>2 DEF Knows

\* What the registry holds has passed TryRegister under its own node ID.
LEMMA RegisteredIsPast ==
    ASSUME IInv, NEW n \in Node, reg[n] # NoConn
    PROVE  reg[n] \in Conn /\ NodeOf(reg[n]) = n /\ handler[reg[n]] \notin Early
  <1>1. reg[n] \in Conn
    BY DEF IInv, TypeOK
  <1>2. NodeOf(reg[n]) = n /\ handler[reg[n]] \in RegisteredAt
    BY DEF IInv, RegistryEntryIsLive
  <1> QED  BY <1>1, <1>2 DEF RegisteredAt, Early

\* Every step of an admin operation keeps IInv.
LEMMA AdminStep ==
    ASSUME IInv, NEW a \in Admin, Drain(a) \/ Kick(a) \/ Revoke(a)
    PROVE  IInv'
  <1> USE DEF Early
  <1>1. ASSUME NEW n \in Node, DrainNode(a, n)
         PROVE  IInv'
    <2>1. /\ adm' \in [Admin -> AdminLocals] /\ adm'[a].at = "drainCheck" /\ adm'[a].node = n
          /\ adm'[a].obj = reg[n]
          /\ \A b \in Admin \ {a} : adm'[b] = adm[b]
      <3>1. Knows(adm[a]) /\ adm[a] \in AdminLocals
        BY DEF IInv, AdminKnows, TypeOK
      <3>2. [AdminIdle EXCEPT !.at = "drainCheck", !.node = n, !.obj = reg[n]] \in AdminLocals
        BY <1>1, <3>1 DEF IInv, TypeOK, Knows, DrainNode, AdminIdle, AdminLocals, AdminAt
      <3>3. adm' = [adm EXCEPT ![a] = [AdminIdle EXCEPT !.at = "drainCheck", !.node = n, !.obj = reg[n]]]
        BY <1>1 DEF DrainNode
      <3> QED  BY <3>1, <3>2, <3>3 DEF IInv, TypeOK, AdminLocals, AdminIdle
    <2>2. TypeOK'
      BY <1>1, <2>1 DEF IInv, TypeOK, DrainNode
    <2>3. RegistryEntryIsLive' /\ HandledIsRegistered' /\ RegisteredIsNotOffline'
      BY <1>1, <2>1 DEF IInv, TypeOK, RegistryEntryIsLive, HandledIsRegistered, RegisteredIsNotOffline, RegisteredAt, DrainNode
    <2>4. ServedHasHandle' /\ HistoryOK'
      BY <1>1, <2>1 DEF IInv, TypeOK, ServedHasHandle, HistoryOK, DrainNode
    <2>5. AdminKnows'
      <3>1. Knows(adm[a])'
        BY <1>1, <2>1, RegisteredIsPast DEF Knows, DrainNode
      <3> QED  BY <1>1, <2>1, <3>1, AdminKnowledge DEF IInv, TypeOK, DrainNode
    <2> QED  BY <2>2, <2>3, <2>4, <2>5 DEF IInv
  <1>2. ASSUME DrainCheck(a)
         PROVE  IInv'
    <2>1. /\ adm' \in [Admin -> AdminLocals]
          /\ \/ adm'[a].at = "idle"
             \/ /\ adm'[a].at = "drainSet" /\ adm'[a].node = adm[a].node
                /\ adm'[a].obj = adm[a].obj
          /\ \A b \in Admin \ {a} : adm'[b] = adm[b]
      BY <1>2, StepEffect, FinishEffect DEF IInv, DrainCheck, AdminAt
    <2>2. TypeOK'
      BY <1>2, <2>1 DEF IInv, TypeOK, DrainCheck
    <2>3. RegistryEntryIsLive' /\ HandledIsRegistered' /\ RegisteredIsNotOffline'
      BY <1>2, <2>1 DEF IInv, TypeOK, RegistryEntryIsLive, HandledIsRegistered, RegisteredIsNotOffline, RegisteredAt, DrainCheck
    <2>4. ServedHasHandle' /\ HistoryOK'
      BY <1>2, <2>1 DEF IInv, TypeOK, ServedHasHandle, HistoryOK, DrainCheck
    <2>5. AdminKnows'
      <3>1. Knows(adm[a])'
        <4>1. Knows(adm[a])
          BY DEF IInv, AdminKnows
        <4> QED  BY <1>2, <2>1, <4>1 DEF Knows, DrainCheck
      <3> QED  BY <1>2, <2>1, <3>1, AdminKnowledge DEF IInv, TypeOK, DrainCheck
    <2> QED  BY <2>2, <2>3, <2>4, <2>5 DEF IInv
  <1>3. ASSUME DrainSet(a)
         PROVE  IInv'
    <2>1. /\ adm' \in [Admin -> AdminLocals] /\ adm'[a].at = "drainSend" /\ adm'[a].node = adm[a].node
          /\ adm'[a].obj = adm[a].obj
          /\ \A b \in Admin \ {a} : adm'[b] = adm[b]
      BY <1>3, StepEffect DEF IInv, DrainSet, AdminAt
    <2>2. TypeOK'
      BY <1>3, <2>1 DEF IInv, TypeOK, DrainSet, NodeState
    <2>3. RegistryEntryIsLive' /\ HandledIsRegistered' /\ RegisteredIsNotOffline'
      BY <1>3, <2>1 DEF IInv, TypeOK, RegistryEntryIsLive, HandledIsRegistered, RegisteredIsNotOffline, RegisteredAt, DrainSet
    <2>4. ServedHasHandle' /\ HistoryOK'
      BY <1>3, <2>1 DEF IInv, TypeOK, ServedHasHandle, HistoryOK, DrainSet
    <2>5. AdminKnows'
      <3>1. Knows(adm[a])'
        <4>1. Knows(adm[a])
          BY DEF IInv, AdminKnows
        <4> QED  BY <1>3, <2>1, <4>1 DEF Knows, DrainSet
      <3> QED  BY <1>3, <2>1, <3>1, AdminKnowledge DEF IInv, TypeOK, DrainSet
    <2> QED  BY <2>2, <2>3, <2>4, <2>5 DEF IInv
  <1>4. ASSUME DrainSend(a)
         PROVE  IInv'
    <2>1. /\ adm' \in [Admin -> AdminLocals] /\ adm'[a].at = "idle"
          /\ \A b \in Admin \ {a} : adm'[b] = adm[b]
      BY <1>4, FinishEffect DEF IInv, DrainSend
    <2>2. toAgent' \in [Conn -> Seq({"drain", "bye"})]
      BY <1>4, SendEffect DEF IInv, TypeOK, DrainSend
    <2>3. TypeOK'
      BY <1>4, <2>1, <2>2 DEF IInv, TypeOK, DrainSend
    <2>4. RegistryEntryIsLive' /\ HandledIsRegistered' /\ RegisteredIsNotOffline'
      BY <1>4, <2>1, <2>2 DEF IInv, TypeOK, RegistryEntryIsLive, HandledIsRegistered, RegisteredIsNotOffline, RegisteredAt, DrainSend
    <2>5. ServedHasHandle' /\ HistoryOK'
      BY <1>4, <2>1, <2>2 DEF IInv, TypeOK, ServedHasHandle, HistoryOK, DrainSend
    <2>6. AdminKnows'
      <3>1. Knows(adm[a])'
        <4>1. Knows(adm[a])
          BY DEF IInv, AdminKnows
        <4> QED  BY <1>4, <2>1, <4>1 DEF Knows, DrainSend
      <3> QED  BY <1>4, <2>1, <2>2, <3>1, AdminKnowledge DEF IInv, TypeOK, DrainSend
    <2> QED  BY <2>3, <2>4, <2>5, <2>6 DEF IInv
  <1>5. ASSUME NEW s \in Serial, CertRevoke(a, s)
         PROVE  IInv'
    <2>1. /\ adm' \in [Admin -> AdminLocals] /\ adm'[a].at = "revokeGet" /\ adm'[a].node = OwnerOf[s]
          /\ \A b \in Admin \ {a} : adm'[b] = adm[b]
      <3>1. Knows(adm[a]) /\ adm[a] \in AdminLocals
        BY DEF IInv, AdminKnows, TypeOK
      <3>2. [AdminIdle EXCEPT !.at = "revokeGet", !.node = OwnerOf[s], !.serial = s] \in AdminLocals
        BY <1>5, <3>1 DEF IInv, TypeOK, Knows, CertRevoke, AdminIdle, AdminLocals, AdminAt
      <3>3. adm' = [adm EXCEPT ![a] = [AdminIdle EXCEPT !.at = "revokeGet", !.node = OwnerOf[s], !.serial = s]]
        BY <1>5 DEF CertRevoke
      <3> QED  BY <3>1, <3>2, <3>3 DEF IInv, TypeOK, AdminLocals, AdminIdle
    <2>2. TypeOK'
      BY <1>5, <2>1 DEF IInv, TypeOK, CertRevoke
    <2>3. RegistryEntryIsLive' /\ HandledIsRegistered' /\ RegisteredIsNotOffline'
      BY <1>5, <2>1 DEF IInv, TypeOK, RegistryEntryIsLive, HandledIsRegistered, RegisteredIsNotOffline, RegisteredAt, CertRevoke
    <2>4. ServedHasHandle' /\ HistoryOK'
      BY <1>5, <2>1 DEF IInv, TypeOK, ServedHasHandle, HistoryOK, CertRevoke
    <2>5. AdminKnows'
      <3>1. Knows(adm[a])'
        <4>1. Knows(adm[a])
          BY DEF IInv, AdminKnows
        <4> QED  BY <1>5, <2>1, <4>1 DEF Knows, CertRevoke
      <3> QED  BY <1>5, <2>1, <3>1, AdminKnowledge DEF IInv, TypeOK, CertRevoke
    <2> QED  BY <2>2, <2>3, <2>4, <2>5 DEF IInv
  <1>6. ASSUME RevokeGet(a)
         PROVE  IInv'
    <2>1. /\ adm' \in [Admin -> AdminLocals]
          /\ \/ adm'[a].at = "idle"
             \/ /\ adm'[a].at = "kickGet" /\ adm'[a].node = adm[a].node
          /\ \A b \in Admin \ {a} : adm'[b] = adm[b]
      BY <1>6, StepEffect, FinishEffect DEF IInv, RevokeGet, AdminAt
    <2>2. TypeOK'
      BY <1>6, <2>1 DEF IInv, TypeOK, RevokeGet
    <2>3. RegistryEntryIsLive' /\ HandledIsRegistered' /\ RegisteredIsNotOffline'
      BY <1>6, <2>1 DEF IInv, TypeOK, RegistryEntryIsLive, HandledIsRegistered, RegisteredIsNotOffline, RegisteredAt, RevokeGet
    <2>4. ServedHasHandle' /\ HistoryOK'
      BY <1>6, <2>1 DEF IInv, TypeOK, ServedHasHandle, HistoryOK, RevokeGet
    <2>5. AdminKnows'
      <3>1. Knows(adm[a])'
        <4>1. Knows(adm[a])
          BY DEF IInv, AdminKnows
        <4> QED  BY <1>6, <2>1, <4>1 DEF Knows, RevokeGet
      <3> QED  BY <1>6, <2>1, <3>1, AdminKnowledge DEF IInv, TypeOK, RevokeGet
    <2> QED  BY <2>2, <2>3, <2>4, <2>5 DEF IInv
  <1>7. ASSUME NEW n \in Node, KickNode(a, n)
         PROVE  IInv'
    <2>1. /\ adm' \in [Admin -> AdminLocals] /\ adm'[a].at = "kickGet" /\ adm'[a].node = n
          /\ \A b \in Admin \ {a} : adm'[b] = adm[b]
      <3>1. Knows(adm[a]) /\ adm[a] \in AdminLocals
        BY DEF IInv, AdminKnows, TypeOK
      <3>2. [AdminIdle EXCEPT !.at = "kickGet", !.node = n] \in AdminLocals
        BY <1>7, <3>1 DEF IInv, TypeOK, Knows, KickNode, AdminIdle, AdminLocals, AdminAt
      <3>3. adm' = [adm EXCEPT ![a] = [AdminIdle EXCEPT !.at = "kickGet", !.node = n]]
        BY <1>7 DEF KickNode
      <3> QED  BY <3>1, <3>2, <3>3 DEF IInv, TypeOK, AdminLocals, AdminIdle
    <2>2. TypeOK'
      BY <1>7, <2>1 DEF IInv, TypeOK, KickNode
    <2>3. RegistryEntryIsLive' /\ HandledIsRegistered' /\ RegisteredIsNotOffline'
      BY <1>7, <2>1 DEF IInv, TypeOK, RegistryEntryIsLive, HandledIsRegistered, RegisteredIsNotOffline, RegisteredAt, KickNode
    <2>4. ServedHasHandle' /\ HistoryOK'
      BY <1>7, <2>1 DEF IInv, TypeOK, ServedHasHandle, HistoryOK, KickNode
    <2>5. AdminKnows'
      <3>1. Knows(adm[a])'
        <4>1. Knows(adm[a])
          BY DEF IInv, AdminKnows
        <4> QED  BY <1>7, <2>1, <4>1 DEF Knows, KickNode
      <3> QED  BY <1>7, <2>1, <3>1, AdminKnowledge DEF IInv, TypeOK, KickNode
    <2> QED  BY <2>2, <2>3, <2>4, <2>5 DEF IInv
  <1>8. ASSUME KickGet(a)
         PROVE  IInv'
    <2>1. /\ adm' \in [Admin -> AdminLocals]
          /\ \/ adm'[a].at = "idle"
             \/ /\ adm'[a].at = "kickHandle" /\ adm'[a].node = adm[a].node
                /\ reg[adm[a].node] # NoConn /\ adm'[a].obj = reg[adm[a].node]
          /\ \A b \in Admin \ {a} : adm'[b] = adm[b]
      <3>1. Knows(adm[a]) /\ adm[a] \in AdminLocals
        BY DEF IInv, AdminKnows, TypeOK
      <3>2. CASE reg[adm[a].node] = NoConn
        BY <1>8, <3>2, FinishEffect DEF IInv, KickGet
      <3>3. CASE reg[adm[a].node] # NoConn
        <4>1. [adm[a] EXCEPT !.at = "kickHandle", !.obj = reg[adm[a].node]] \in AdminLocals
          BY <1>8, <3>1 DEF IInv, TypeOK, Knows, KickGet, AdminLocals, AdminAt
        <4>2. adm' = [adm EXCEPT ![a] = [adm[a] EXCEPT !.at = "kickHandle", !.obj = reg[adm[a].node]]]
          BY <1>8, <3>3 DEF KickGet
        <4> QED  BY <3>1, <3>3, <4>1, <4>2 DEF IInv, TypeOK, AdminLocals
      <3> QED  BY <3>2, <3>3
    <2>2. TypeOK'
      BY <1>8, <2>1 DEF IInv, TypeOK, KickGet
    <2>3. RegistryEntryIsLive' /\ HandledIsRegistered' /\ RegisteredIsNotOffline'
      BY <1>8, <2>1 DEF IInv, TypeOK, RegistryEntryIsLive, HandledIsRegistered, RegisteredIsNotOffline, RegisteredAt, KickGet
    <2>4. ServedHasHandle' /\ HistoryOK'
      BY <1>8, <2>1 DEF IInv, TypeOK, ServedHasHandle, HistoryOK, KickGet
    <2>5. AdminKnows'
      <3>1. Knows(adm[a])'
        <4>1. adm[a].node \in Node
          BY <1>8 DEF IInv, AdminKnows, Knows, KickGet
        <4> QED  BY <1>8, <2>1, <4>1, RegisteredIsPast DEF Knows, KickGet
      <3> QED  BY <1>8, <2>1, <3>1, AdminKnowledge DEF IInv, TypeOK, KickGet
    <2> QED  BY <2>2, <2>3, <2>4, <2>5 DEF IInv
  <1>9. ASSUME KickHandle(a)
         PROVE  IInv'
    <2>1. /\ adm' \in [Admin -> AdminLocals] /\ adm'[a].at \in {"kickRemove", "kickSend"}
          /\ adm'[a].node = adm[a].node /\ adm'[a].obj = adm[a].obj
          /\ \A b \in Admin \ {a} : adm'[b] = adm[b]
      <3>1. Knows(adm[a]) /\ adm[a] \in AdminLocals
        BY DEF IInv, AdminKnows, TypeOK
      <3> DEFINE at == IF conns[adm[a].node] = NoConn THEN "kickRemove" ELSE "kickSend"
      <3>2. [adm[a] EXCEPT !.at = at, !.nc = conns[adm[a].node]] \in AdminLocals
        BY <1>9, <3>1 DEF IInv, TypeOK, Knows, KickHandle, AdminLocals, AdminAt
      <3>3. adm' = [adm EXCEPT ![a] = [adm[a] EXCEPT !.at = at, !.nc = conns[adm[a].node]]]
        BY <1>9 DEF KickHandle
      <3> QED  BY <3>1, <3>2, <3>3 DEF IInv, TypeOK, AdminLocals
    <2>2. TypeOK'
      BY <1>9, <2>1 DEF IInv, TypeOK, KickHandle
    <2>3. RegistryEntryIsLive' /\ HandledIsRegistered' /\ RegisteredIsNotOffline'
      BY <1>9, <2>1 DEF IInv, TypeOK, RegistryEntryIsLive, HandledIsRegistered, RegisteredIsNotOffline, RegisteredAt, KickHandle
    <2>4. ServedHasHandle' /\ HistoryOK'
      BY <1>9, <2>1 DEF IInv, TypeOK, ServedHasHandle, HistoryOK, KickHandle
    <2>5. AdminKnows'
      <3>1. Knows(adm[a])'
        <4>1. Knows(adm[a])
          BY DEF IInv, AdminKnows
        <4> QED  BY <1>9, <2>1, <4>1 DEF Knows, KickHandle
      <3> QED  BY <1>9, <2>1, <3>1, AdminKnowledge DEF IInv, TypeOK, KickHandle
    <2> QED  BY <2>2, <2>3, <2>4, <2>5 DEF IInv
  <1>10. ASSUME KickSend(a)
         PROVE  IInv'
    <2>1. /\ adm' \in [Admin -> AdminLocals] /\ adm'[a].at = "kickRemove" /\ adm'[a].node = adm[a].node
          /\ adm'[a].obj = adm[a].obj
          /\ \A b \in Admin \ {a} : adm'[b] = adm[b]
      BY <1>10, StepEffect DEF IInv, KickSend, AdminAt
    <2>2. toAgent' \in [Conn -> Seq({"drain", "bye"})]
      BY <1>10, SendEffect DEF IInv, KickSend
    <2>3. TypeOK'
      BY <1>10, <2>1, <2>2 DEF IInv, TypeOK, KickSend
    <2>4. RegistryEntryIsLive' /\ HandledIsRegistered' /\ RegisteredIsNotOffline'
      BY <1>10, <2>1, <2>2 DEF IInv, TypeOK, RegistryEntryIsLive, HandledIsRegistered, RegisteredIsNotOffline, RegisteredAt, KickSend
    <2>5. ServedHasHandle' /\ HistoryOK'
      BY <1>10, <2>1, <2>2 DEF IInv, TypeOK, ServedHasHandle, HistoryOK, KickSend
    <2>6. AdminKnows'
      <3>1. Knows(adm[a])'
        <4>1. Knows(adm[a])
          BY DEF IInv, AdminKnows
        <4> QED  BY <1>10, <2>1, <4>1 DEF Knows, KickSend
      <3> QED  BY <1>10, <2>1, <2>2, <3>1, AdminKnowledge DEF IInv, TypeOK, KickSend
    <2> QED  BY <2>3, <2>4, <2>5, <2>6 DEF IInv
  <1>11. ASSUME KickRemove(a)
         PROVE  IInv'
    <2>1. /\ adm' \in [Admin -> AdminLocals] /\ adm'[a].at \in {"kickOffline", "kickDel"}
          /\ adm'[a].node = adm[a].node /\ adm'[a].obj = adm[a].obj
          /\ \A b \in Admin \ {a} : adm'[b] = adm[b]
      BY <1>11, StepEffect DEF IInv, KickRemove, AdminAt
    <2>2. /\ adm[a].node \in Node /\ adm[a].obj \in Conn
          /\ reg' = [reg EXCEPT ![adm[a].node] = NoConn]
      BY <1>11 DEF IInv, AdminKnows, Knows, KickRemove
    <2>3. TypeOK'
      BY <1>11, <2>1, <2>2 DEF IInv, TypeOK, KickRemove
    <2>4. RegistryEntryIsLive' /\ HandledIsRegistered' /\ RegisteredIsNotOffline'
      BY <1>11, <2>1, <2>2 DEF IInv, TypeOK, RegistryEntryIsLive, HandledIsRegistered, RegisteredIsNotOffline, RegisteredAt, KickRemove
    <2>5. ServedHasHandle' /\ HistoryOK'
      <3>1. ServedHasHandle'
        BY <1>11, <2>1, <2>2 DEF IInv, TypeOK, ServedHasHandle, KickRemove
      <3>2. \A c \in evicted' : NodeOf(c) \in kicked' /\ handler'[c] \notin Early
        BY <1>11, <2>2, RegisteredIsPast DEF IInv, HistoryOK, KickRemove
      <3>3. HistoryOK'
        BY <1>11, <3>2 DEF IInv, HistoryOK, KickRemove
      <3> QED  BY <3>1, <3>3
    <2>6. AdminKnows'
      <3>1. Knows(adm[a])'
        <4>1. Knows(adm[a]) /\ adm[a].at = "kickRemove"
          BY <1>11 DEF IInv, AdminKnows, KickRemove
        <4>2. reg'[adm[a].node] = NoConn
          BY <2>2 DEF IInv, TypeOK
        <4> QED  BY <1>11, <2>1, <2>2, <4>1, <4>2 DEF Knows, KickRemove
      <3> QED  BY <1>11, <2>1, <2>2, <3>1, AdminKnowledge DEF IInv, TypeOK, KickRemove
    <2> QED  BY <2>3, <2>4, <2>5, <2>6 DEF IInv
  <1>12. ASSUME KickDel(a)
         PROVE  IInv'
    <2>1. /\ adm' \in [Admin -> AdminLocals] /\ adm'[a].at = "kickOffline" /\ adm'[a].node = adm[a].node
          /\ adm'[a].obj = adm[a].obj
          /\ \A b \in Admin \ {a} : adm'[b] = adm[b]
      BY <1>12, StepEffect DEF IInv, KickDel, AdminAt
    <2>2. adm[a].node \in kicked
      BY <1>12 DEF IInv, AdminKnows, Knows, KickDel
    <2>3. TypeOK'
      BY <1>12, <2>1, <2>2 DEF IInv, TypeOK, KickDel
    <2>4. RegistryEntryIsLive' /\ HandledIsRegistered' /\ RegisteredIsNotOffline'
      BY <1>12, <2>1, <2>2 DEF IInv, TypeOK, RegistryEntryIsLive, HandledIsRegistered, RegisteredIsNotOffline, RegisteredAt, KickDel
    <2>5. ServedHasHandle' /\ HistoryOK'
      BY <1>12, <2>1, <2>2 DEF IInv, TypeOK, ServedHasHandle, HistoryOK, KickDel
    <2>6. AdminKnows'
      <3>1. Knows(adm[a])'
        <4>1. Knows(adm[a])
          BY DEF IInv, AdminKnows
        <4> QED  BY <1>12, <2>1, <4>1 DEF Knows, KickDel
      <3> QED  BY <1>12, <2>1, <2>2, <3>1, AdminKnowledge DEF IInv, TypeOK, KickDel
    <2> QED  BY <2>3, <2>4, <2>5, <2>6 DEF IInv
  <1>13. ASSUME KickOffline(a)
         PROVE  IInv'
    <2>1. /\ adm' \in [Admin -> AdminLocals] /\ adm'[a].at = "idle"
          /\ \A b \in Admin \ {a} : adm'[b] = adm[b]
      BY <1>13, FinishEffect DEF IInv, KickOffline
    <2>2. \A n \in Node : reg[n] # adm[a].obj
      <3>1. /\ adm[a].obj \in Conn /\ NodeOf(adm[a].obj) = adm[a].node
            /\ reg[adm[a].node] # adm[a].obj
        BY <1>13 DEF IInv, AdminKnows, Knows, KickOffline
      <3> QED  BY <3>1 DEF IInv, RegistryEntryIsLive
    <2>3. TypeOK'
      BY <1>13, <2>1, <2>2 DEF IInv, TypeOK, KickOffline, NodeState
    <2>4. RegistryEntryIsLive' /\ HandledIsRegistered' /\ RegisteredIsNotOffline'
      BY <1>13, <2>1, <2>2 DEF IInv, TypeOK, RegistryEntryIsLive, HandledIsRegistered, RegisteredIsNotOffline, RegisteredAt, KickOffline
    <2>5. ServedHasHandle' /\ HistoryOK'
      BY <1>13, <2>1, <2>2 DEF IInv, TypeOK, ServedHasHandle, HistoryOK, KickOffline
    <2>6. AdminKnows'
      <3>1. Knows(adm[a])'
        <4>1. Knows(adm[a])
          BY DEF IInv, AdminKnows
        <4> QED  BY <1>13, <2>1, <4>1 DEF Knows, KickOffline
      <3> QED  BY <1>13, <2>1, <2>2, <3>1, AdminKnowledge DEF IInv, TypeOK, KickOffline
    <2> QED  BY <2>3, <2>4, <2>5, <2>6 DEF IInv
  <1> QED  BY <1>1, <1>2, <1>3, <1>4, <1>5, <1>6, <1>7, <1>8, <1>9, <1>10, <1>11, <1>12, <1>13 DEF Drain, Kick, Revoke

\* IInv holds initially.
LEMMA InitIInv == Init => IInv
  <1> SUFFICES ASSUME Init PROVE IInv
    OBVIOUS
  <1>1. MonitorOff \in MonitorLocals /\ AdminIdle \in AdminLocals
    BY DEF MonitorOff, MonitorLocals, MonitorAt, AdminIdle, AdminLocals, AdminAt
  <1>2. TypeOK
    BY <1>1 DEF Init, TypeOK, HandlerAt, NodeState
  <1>3. AdminKnows
    BY DEF Init, AdminKnows, Knows, AdminIdle
  <1>4. /\ RegistryEntryIsLive /\ HandledIsRegistered /\ RegisteredIsNotOffline
        /\ ServedHasHandle /\ HistoryOK
    BY <1>2 DEF Init, TypeOK, RegistryEntryIsLive, HandledIsRegistered, RegisteredIsNotOffline,
                ServedHasHandle, HistoryOK, RegisteredAt
  <1> QED  BY <1>2, <1>3, <1>4 DEF IInv

\* Every step keeps IInv.
LEMMA NextIInv == IInv /\ [Next]_vars => IInv'
  <1> SUFFICES ASSUME IInv, [Next]_vars PROVE IInv'
    OBVIOUS
  <1>1. CASE ConnNext
    BY <1>1, HandshakeStep, ServingStep, TeardownStep DEF ConnNext
  <1>2. CASE AdminNext
    BY <1>2, AdminStep DEF AdminNext
  <1>3. CASE UNCHANGED vars
    <2>1. TypeOK'
      BY <1>3 DEF IInv, TypeOK, vars
    <2>2. RegistryEntryIsLive' /\ HandledIsRegistered' /\ RegisteredIsNotOffline'
      BY <1>3 DEF IInv, RegistryEntryIsLive, HandledIsRegistered, RegisteredIsNotOffline, vars
    <2>3. ServedHasHandle' /\ AdminKnows' /\ HistoryOK'
      BY <1>3 DEF IInv, ServedHasHandle, AdminKnows, Knows, HistoryOK, vars
    <2> QED  BY <2>1, <2>2, <2>3 DEF IInv
  <1> QED  BY <1>1, <1>2, <1>3 DEF Next

\* The inductive invariant holds in every reachable state.
THEOREM Invariance == Spec => []IInv
  BY InitIInv, NextIInv, PTL DEF Spec

\* Type correctness.
THEOREM TypeCorrect == Spec => []TypeOK
  <1>1. IInv => TypeOK
    BY DEF IInv
  <1> QED  BY <1>1, Invariance, PTL

\* The registry names no connection whose handler has gone: every entry is between TryRegister
\* and its own teardown.
THEOREM RegistryLive == Spec => []RegistryEntryIsLive
  <1>1. IInv => RegistryEntryIsLive
    BY DEF IInv
  <1> QED  BY <1>1, Invariance, PTL

\* A connection between TryRegister and teardown is registered unless it was kicked: a late
\* teardown (wss.go) never takes the registration of a newer connection.
THEOREM RegistryComplete == Spec => []HandledIsRegistered
  <1>1. IInv => HandledIsRegistered
    BY DEF IInv
  <1> QED  BY <1>1, Invariance, PTL

\* No registered node object is offline, so TryRegister never replaces one that is served.
THEOREM RegistryUsable == Spec => []RegisteredIsNotOffline
  <1>1. IInv => RegisteredIsNotOffline
    BY DEF IInv
  <1> QED  BY <1>1, Invariance, PTL

\* Without a kick, whatever is served can be sent to.
THEOREM HandlesCorrect == Spec => []ServedHasHandle
  <1>1. IInv => ServedHasHandle
    BY DEF IInv
  <1> QED  BY <1>1, Invariance, PTL

\* A connection opened after its certificate was revoked is never registered.
THEOREM RevocationBarsReconnect == Spec => []RevokedCannotReconnect
  <1>1. IInv => RevokedCannotReconnect
    BY DEF IInv, HistoryOK, RevokedCannotReconnect, RegisteredAt
  <1> QED  BY <1>1, Invariance, PTL
=============================================================================
