------------------------- MODULE Connector_proofs -------------------------
(***************************************************************************)
(* Proofs about Connector, for any number of relays and any set of probes. *)
(***************************************************************************)
EXTENDS Connector, TLAPS

USE RelaysAssumption, SwitchAssumption, BoundAssumption

\* The relay in hand exists while connectOnce is at work on it.
InHand == pc \in {"dial", "hello", "send", "ack", "read", "close"} => idx \in Relay

\* Types, with what the code needs to index Connector.relays safely.
IInv == TypeOK /\ InHand

USE DEF TypeOK, InHand, IInv, Relay, Version, Idle
USE DEF runVars, stopVars, envVars, probeVars, reqVars

-----------------------------------------------------------------------------
\* Run and connectOnce keep it.
LEMMA RunKeeps == IInv /\ (RunNext \/ ReadLoopEnds \/ WatchPrimary \/ WatchGivesUp) => IInv'
  <1> SUFFICES ASSUME IInv, RunNext \/ ReadLoopEnds \/ WatchPrimary \/ WatchGivesUp PROVE IInv'
    OBVIOUS
  <1>1. CASE Run
    BY <1>1 DEF Run
  <1>2. CASE TryRelay
    BY <1>2 DEF TryRelay
  <1>3. CASE WaitBeforeRetry
    BY <1>3 DEF WaitBeforeRetry
  <1>4. CASE DialFails
    BY <1>4 DEF DialFails, NextRelay
  <1>5. CASE Dial
    BY <1>5 DEF Dial
  <1>6. CASE ModelsForHello
    BY <1>6 DEF ModelsForHello
  <1>7. CASE SendHello
    BY <1>7 DEF SendHello, NextRelay, Deliver, RelayLearns
  <1>8. CASE HelloAck
    BY <1>8 DEF HelloAck
  <1>9. CASE NoHelloAck
    BY <1>9 DEF NoHelloAck, NextRelay
  <1>10. CASE ReadLoopEnds
    BY <1>10 DEF ReadLoopEnds
  <1>11. CASE CloseConn
    BY <1>11 DEF CloseConn
  <1>12. CASE WatchPrimary \/ WatchGivesUp
    BY <1>12 DEF WatchPrimary, WatchGivesUp
  <1> QED  BY <1>1, <1>2, <1>3, <1>4, <1>5, <1>6, <1>7, <1>8, <1>9, <1>10, <1>11, <1>12 DEF RunNext

\* So do Stop, the relays, the probes and the late writers.
LEMMA OthersKeep ==
    IInv /\ (\/ Stop \/ StopNext
             \/ \E r \in Relay : RelayChanges(r)
             \/ \E p \in Prober : ProbeNext(p)
             \/ StartRequest \/ LastWrite \/ FilesChange) => IInv'
  <1> SUFFICES ASSUME IInv,
                      \/ Stop \/ StopNext
                      \/ \E r \in Relay : RelayChanges(r)
                      \/ \E p \in Prober : ProbeNext(p)
                      \/ StartRequest \/ LastWrite \/ FilesChange
               PROVE  IInv'
    OBVIOUS
  <1>1. CASE Stop
    BY <1>1 DEF Stop
  <1>2. CASE StopNext
    BY <1>2 DEF StopNext, StopCheck, StopClose
  <1>3. CASE \E r \in Relay : RelayChanges(r)
    BY <1>3 DEF RelayChanges
  <1>4. CASE \E p \in Prober : ProbeNext(p)
    <2> PICK p \in Prober : ProbeNext(p)
      BY <1>4
    <2>1. CASE SetModels(p)
      BY <2>1 DEF SetModels
    <2>2. CASE ReadModels(p)
      BY <2>2 DEF ReadModels
    <2>3. CASE PublishModels(p)
      BY <2>3 DEF PublishModels, Deliver, RelayLearns
    <2> QED  BY <2>1, <2>2, <2>3 DEF ProbeNext
  <1>5. CASE StartRequest
    BY <1>5 DEF StartRequest
  <1>6. CASE LastWrite
    BY <1>6 DEF LastWrite, Deliver, RelayLearns
  <1>7. CASE FilesChange
    BY <1>7 DEF FilesChange
  <1> QED  BY <1>1, <1>2, <1>3, <1>4, <1>5, <1>6, <1>7

-----------------------------------------------------------------------------
\* IInv is inductive.
THEOREM Invariance == Spec => []IInv
  <1>1. Init => IInv
    <2> SUFFICES ASSUME Init PROVE IInv
      OBVIOUS
    <2> USE DEF Init
    <2>1. {stop, late, files, overlap} \subseteq BOOLEAN
      BY Zenon
    <2>2. probe \in [Prober -> [at : {"idle", "found", "publish"}, version : Version]]
      OBVIOUS
    <2> QED  BY <2>1, <2>2
  <1>2. IInv /\ [Next]_vars => IInv'
    <2>1. IInv /\ UNCHANGED vars => IInv'
      BY DEF vars
    <2> QED  BY <2>1, RunKeeps, OthersKeep DEF Next, Finished
  <1> QED  BY <1>1, <1>2, PTL DEF Spec

\* Type correctness of the connector: it never leaves the list of relays, and no
\* order of hello and probes makes up a version of the models.
THEOREM TypeCorrect == Spec => []TypeOK
  <1>1. IInv => TypeOK
    OBVIOUS
  <1> QED  BY <1>1, Invariance, PTL

(***************************************************************************)
(* The models of the agent and what the relay knows of them.               *)
(***************************************************************************)
AllIdle == \A p \in Prober : probe[p] = Idle

\* As long as no two probes have overlapped, one at most is at work, and what it
\* is about to publish is the current list.
OneProbe == ~overlap => /\ \A p, q \in Prober : probe[p] # Idle /\ probe[q] # Idle => p = q
                        /\ \A p \in Prober : probe[p].at = "publish" => probe[p].version = models

\* The hello in hand is current while nothing has been written before it and no
\* probe is at work: one that has finished since hello was read has written.
HelloIsCurrent == pc = "send" /\ link = "open" /\ first = "none" /\ AllIdle /\ ~overlap
                     => hello = models

\* From the hello on the relay knows the list, unless a probe is about to tell it.
KnownSinceHello == pc \in {"ack", "read"} /\ link = "open" /\ first = "hello" /\ AllIdle /\ ~overlap
                      => known = models

\* The first message is hello on a connection that is read, and not before it is sent.
FirstMessage == /\ pc = "read" => first = "hello"
                /\ pc \in {"hello", "send"} => first # "hello"

MInv == OneProbe /\ HelloIsCurrent /\ KnownSinceHello /\ FirstMessage

\* Run and connectOnce keep it: a dial starts with nothing known, hello brings the
\* list there as the first message.
LEMMA RunKeepsModels == TypeOK /\ MInv /\ (RunNext \/ ReadLoopEnds \/ WatchPrimary \/ WatchGivesUp) => MInv'
  <1> SUFFICES ASSUME TypeOK, MInv, RunNext \/ ReadLoopEnds \/ WatchPrimary \/ WatchGivesUp PROVE MInv'
    OBVIOUS
  <1> USE DEF MInv, HelloIsCurrent, KnownSinceHello, FirstMessage
  <1>1. OneProbe' /\ AllIdle' = AllIdle
    BY DEF OneProbe, AllIdle, RunNext, ReadLoopEnds, WatchPrimary, WatchGivesUp, Run, TryRelay, WaitBeforeRetry,
           DialFails, Dial, ModelsForHello, SendHello, HelloAck, NoHelloAck, CloseConn
  <1>2. CASE Run
    BY <1>1, <1>2 DEF Run
  <1>3. CASE TryRelay
    BY <1>1, <1>3 DEF TryRelay
  <1>4. CASE WaitBeforeRetry
    BY <1>1, <1>4 DEF WaitBeforeRetry
  <1>5. CASE DialFails
    BY <1>1, <1>5 DEF DialFails, NextRelay
  <1>6. CASE Dial
    BY <1>1, <1>6 DEF Dial
  <1>7. CASE ModelsForHello
    BY <1>1, <1>7 DEF ModelsForHello
  <1>8. CASE SendHello
    BY <1>1, <1>8 DEF SendHello, NextRelay, Deliver, RelayLearns
  <1>9. CASE HelloAck
    BY <1>1, <1>9 DEF HelloAck, Accepted
  <1>10. CASE NoHelloAck
    BY <1>1, <1>10 DEF NoHelloAck, NextRelay
  <1>11. CASE ReadLoopEnds
    BY <1>1, <1>11 DEF ReadLoopEnds
  <1>12. CASE CloseConn
    BY <1>1, <1>12 DEF CloseConn
  <1>13. CASE WatchPrimary \/ WatchGivesUp
    BY <1>1, <1>13 DEF WatchPrimary, WatchGivesUp
  <1> QED  BY <1>2, <1>3, <1>4, <1>5, <1>6, <1>7, <1>8, <1>9, <1>10, <1>11, <1>12, <1>13 DEF RunNext

\* A probe keeps it: it is alone, and it writes the current list last.
LEMMA ProbeKeepsModels == ASSUME TypeOK, MInv, NEW p \in Prober, ProbeNext(p) PROVE MInv'
  <1> USE DEF MInv, HelloIsCurrent, KnownSinceHello, FirstMessage
  <1>1. CASE SetModels(p)
    <2>1. probe'[p].at = "found" /\ ~AllIdle'
      BY <1>1 DEF SetModels, AllIdle
    <2>2. OneProbe'
      <3> SUFFICES ASSUME ~overlap'
                   PROVE  /\ \A q, r \in Prober : probe'[q] # Idle /\ probe'[r] # Idle => q = r
                          /\ \A q \in Prober : probe'[q].at = "publish" => probe'[q].version = models'
        BY DEF OneProbe
      <3>1. \A q \in Prober : q # p => probe'[q] = Idle
        BY <1>1 DEF SetModels
      <3> QED  BY <2>1, <3>1
    <2> QED  BY <1>1, <2>1, <2>2 DEF SetModels
  <1>2. CASE ReadModels(p)
    <2>1. probe'[p].at = "publish" /\ probe'[p].version = models' /\ models' = models /\ ~AllIdle'
      BY <1>2 DEF ReadModels, AllIdle
    <2>2. \A q \in Prober : q # p => probe'[q] = probe[q]
      BY <1>2 DEF ReadModels
    <2>3. probe[p] # Idle /\ overlap' = overlap
      BY <1>2 DEF ReadModels
    <2>4. OneProbe'
      BY <2>1, <2>2, <2>3 DEF OneProbe
    <2> QED  BY <1>2, <2>1, <2>4 DEF ReadModels
  <1>3. CASE PublishModels(p)
    <2>1. probe'[p] = Idle /\ models' = models /\ overlap' = overlap /\ probe[p].at = "publish"
      BY <1>3 DEF PublishModels
    <2>2. \A q \in Prober : q # p => probe'[q] = probe[q]
      BY <1>3 DEF PublishModels
    <2>3. OneProbe'
      BY <2>1, <2>2 DEF OneProbe
    <2>4. ~overlap => probe[p].version = models
      BY <2>1 DEF OneProbe
    <2> QED  BY <1>3, <2>1, <2>3, <2>4 DEF PublishModels, Deliver, RelayLearns
  <1> QED  BY <1>1, <1>2, <1>3 DEF ProbeNext

\* So do Stop, the relays and the late writers.
LEMMA OthersKeepModels ==
    TypeOK /\ MInv /\ (\/ Stop \/ StopNext \/ (\E r \in Relay : RelayChanges(r))
                       \/ StartRequest \/ LastWrite \/ FilesChange \/ UNCHANGED vars) => MInv'
  <1> SUFFICES ASSUME TypeOK, MInv,
                      \/ Stop \/ StopNext \/ (\E r \in Relay : RelayChanges(r))
                      \/ StartRequest \/ LastWrite \/ FilesChange \/ UNCHANGED vars
               PROVE  MInv'
    OBVIOUS
  <1> USE DEF MInv, HelloIsCurrent, KnownSinceHello, FirstMessage
  <1>1. OneProbe' /\ AllIdle' = AllIdle
    BY DEF OneProbe, AllIdle, Stop, StopNext, StopCheck, StopClose, RelayChanges, StartRequest,
           LastWrite, FilesChange, vars
  <1>2. CASE Stop \/ StopNext
    BY <1>1, <1>2 DEF Stop, StopNext, StopCheck, StopClose
  <1>3. CASE \E r \in Relay : RelayChanges(r)
    BY <1>1, <1>3 DEF RelayChanges
  <1>4. CASE StartRequest
    BY <1>1, <1>4 DEF StartRequest
  <1>5. CASE LastWrite
    BY <1>1, <1>5 DEF LastWrite, Deliver, RelayLearns
  <1>6. CASE FilesChange
    BY <1>1, <1>6 DEF FilesChange
  <1>7. CASE UNCHANGED vars
    BY <1>1, <1>7 DEF vars
  <1> QED  BY <1>2, <1>3, <1>4, <1>5, <1>6, <1>7

\* The relay of a connection that works has the agent's models once no probe is
\* about to publish, for any number of relays, and unless two probes overlapped
\* (connector.go 118-135, probe.go 101-102).
THEOREM ModelsKnown == Spec => []ModelsAreKnown
  <1>1. Init => MInv
    BY DEF Init, MInv, OneProbe, AllIdle, HelloIsCurrent, KnownSinceHello, FirstMessage
  <1>2. TypeOK /\ MInv /\ [Next]_vars => MInv'
    BY RunKeepsModels, ProbeKeepsModels, OthersKeepModels DEF Next, Finished
  <1>3. MInv => ModelsAreKnown
    BY DEF MInv, KnownSinceHello, FirstMessage, AllIdle, ModelsAreKnown
  <1> QED  BY <1>1, <1>2, <1>3, TypeCorrect, PTL DEF Spec
=============================================================================
