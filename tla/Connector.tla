----------------------------- MODULE Connector -----------------------------
(***************************************************************************)
(* The agent's connector: Run tries the relays in order of priority,       *)
(* connectOnce says hello and reads until the connection ends,             *)
(* watchPrimary leaves a backup when a better relay answers, Stop ends it  *)
(* all.  Beside it run the goroutines that write through the connector     *)
(* whichever connection it holds: the probe, which publishes the models    *)
(* it found, and serveRequest, which may outlive its connection.           *)
(*                                                                         *)
(* connectOnce closes its connection on every way out, so the last one     *)
(* dialled is the only one that can be open and link is its state.  The    *)
(* lengths of the back-off and of the intervals are not modelled.          *)
(***************************************************************************)
EXTENDS Naturals, FiniteSets

CONSTANTS Relays,         \* number of relays; their index is their priority
          PreferPrimary,  \* PreferPrimaryIntervalSec > 0
          Prober,         \* probes that may run: the loop's, those the relay asks for
          MaxVersion,     \* bound: times a probe finds a new list of models
          MaxRequests     \* bound: requests whose last message may come late

ASSUME RelaysAssumption == Relays \in Nat \ {0}
ASSUME SwitchAssumption == PreferPrimary \in BOOLEAN
ASSUME BoundAssumption == MaxVersion \in Nat /\ MaxRequests \in Nat

VARIABLES pc,       \* where Run and connectOnce are
          idx,      \* the relay in hand
          link,     \* c.conn: "none" (nil), "open", "broken" (not by us), "closed"
          first,    \* first message on it: "none", "hello" or "other"
          watch,    \* watchPrimary for it: "off", "on", or "failed" (returned on an error)
          stop,     \* the stop channel is closed
          stopper,  \* Stop: "idle", "check", "close", "done"
          late,     \* history: a dial came through after Stop had returned
          files,    \* the certificate files can be read
          relay,    \* what a relay does: "down", "refusing" (hello), "up"
          models,   \* the agent's list of models, as the number of its version
          hello,    \* the version the hello in hand carries
          probe,    \* per prober: "idle", "found" or "publish", and what it publishes
          known,    \* the version the relay of the connection has
          overlap,  \* history: two probes have run at once
          started, writers   \* requests started, and those still to write

runVars == <<pc, idx, link, first, watch, hello, late>>
stopVars == <<stop, stopper>>
probeVars == <<models, probe, overlap>>
reqVars == <<started, writers>>
envVars == <<files, relay>>
vars == <<runVars, stopVars, envVars, probeVars, known, reqVars>>

Relay == 1..Relays
Version == 0..MaxVersion
Idle == [at |-> "idle", version |-> 0]

Init == /\ pc = "top" /\ idx = 1
        /\ link = "none" /\ first = "none" /\ watch = "off" /\ hello = 0
        /\ stop = FALSE /\ stopper = "idle" /\ late = FALSE
        /\ files = TRUE
        /\ relay \in [Relay -> {"down", "refusing", "up"}]
        /\ models = 0 /\ known = 0 /\ overlap = FALSE
        /\ probe = [p \in Prober |-> Idle]
        /\ started = 0 /\ writers = 0

-----------------------------------------------------------------------------
(***************************************************************************)
(* writeControl.  A message for an open connection arrives; on one the     *)
(* peer has left a write may still succeed; without one it fails.  The     *)
(* relay takes a list of models from hello and from models_update, and     *)
(* drops a connection that does not begin with hello.                      *)
(***************************************************************************)
RelayLearns(type, version) ==
    known' = IF type = "hello" \/ first = "hello" THEN version ELSE known

Deliver(type, version) ==
    IF link = "open"
    THEN /\ first' = IF first = "none" THEN type ELSE first
         /\ RelayLearns(type, version)
    ELSE UNCHANGED <<first, known>>

CanSucceed == link \in {"open", "broken"}
CanFail == link # "open"

-----------------------------------------------------------------------------
(***************************************************************************)
(* Run.                                                                    *)
(***************************************************************************)
Run == /\ pc = "top"
       /\ pc' = "try" /\ idx' = 1
       /\ UNCHANGED <<link, first, watch, hello, late, stopVars, envVars, probeVars, known, reqVars>>

\* The loop over the relays asks for stop before each of them (and Run once more
\* before the first, with the same outcome).
TryRelay == /\ pc = "try"
            /\ pc' = IF stop THEN "returned" ELSE IF idx > Relays THEN "backoff" ELSE "dial"
            /\ UNCHANGED <<idx, link, first, watch, hello, late, stopVars, envVars, probeVars, known, reqVars>>

\* waitBeforeRetry: the timer and the stop channel may both be ready.
WaitBeforeRetry == /\ pc = "backoff"
                   /\ \/ pc' = "top"
                      \/ stop /\ pc' = "returned"
                   /\ UNCHANGED <<idx, link, first, watch, hello, late, stopVars, envVars, probeVars, known, reqVars>>

-----------------------------------------------------------------------------
(***************************************************************************)
(* connectOnce.                                                            *)
(***************************************************************************)
NextRelay == pc' = "try" /\ idx' = idx + 1

\* tlsConfig reads the files again for every dial.
DialFails == /\ pc = "dial"
             /\ relay[idx] = "down" \/ ~files
             /\ NextRelay
             /\ UNCHANGED <<link, first, watch, hello, late, stopVars, envVars, probeVars, known, reqVars>>

\* From here on whoever writes, writes to the new connection.
Dial == /\ pc = "dial" /\ relay[idx] # "down" /\ files
        /\ link' = "open" /\ first' = "none"
        /\ late' = (late \/ stopper = "done")
        /\ pc' = "hello" /\ known' = 0
        /\ UNCHANGED <<idx, watch, hello, stopVars, envVars, probeVars, reqVars>>

ModelsForHello == /\ pc = "hello"
                  /\ hello' = models
                  /\ pc' = "send"
                  /\ UNCHANGED <<idx, link, first, watch, late, stopVars, envVars, probeVars, known, reqVars>>

SendHello == /\ pc = "send"
             /\ \/ CanSucceed /\ Deliver("hello", hello) /\ pc' = "ack" /\ UNCHANGED <<idx, link>>
                \/ CanFail /\ NextRelay /\ link' = "closed" /\ UNCHANGED <<first, known>>
             /\ hello' = 0
             /\ UNCHANGED <<watch, late, stopVars, envVars, probeVars, reqVars>>

Accepted == link = "open" /\ first = "hello" /\ relay[idx] = "up"

\* Mutant: the first backup does not watch the primary.
HelloAckUnwatched == /\ pc = "ack" /\ Accepted
                     /\ pc' = "read"
                     /\ watch' = IF idx > 2 /\ PreferPrimary THEN "on" ELSE "off"
                     /\ UNCHANGED <<idx, link, first, hello, late, stopVars, envVars, probeVars, known, reqVars>>

HelloAck == /\ pc = "ack" /\ Accepted
            /\ pc' = "read"
            /\ watch' = IF idx > 1 /\ PreferPrimary THEN "on" ELSE "off"
            /\ UNCHANGED <<idx, link, first, hello, late, stopVars, envVars, probeVars, known, reqVars>>

\* No answer in 15 seconds, an error ("expected hello") or accepted: false.
NoHelloAck == /\ pc = "ack" /\ ~Accepted
              /\ NextRelay /\ link' = "closed"
              /\ UNCHANGED <<first, watch, hello, late, stopVars, envVars, probeVars, known, reqVars>>

\* readLoop ends: the connection is gone, or bye (or an oversized message) came.
ReadLoopEnds == /\ pc = "read"
                /\ pc' = "close"
                /\ UNCHANGED <<idx, link, first, watch, hello, late, stopVars, envVars, probeVars, known, reqVars>>

\* Heartbeats and watchPrimary are stopped and waited for, cancelAll finds
\* nothing to cancel (see Forward), the connection is closed: Run backs off.
CloseConn == /\ pc = "close"
             /\ watch' = "off" /\ link' = "closed"
             /\ pc' = "backoff"
             /\ UNCHANGED <<idx, first, hello, late, stopVars, envVars, probeVars, known, reqVars>>

\* A tick finds a better relay that takes a WebSocket (it need not take our hello).
WatchPrimary == /\ watch = "on" /\ files
                /\ \E r \in 1..(idx - 1) : relay[r] # "down"
                /\ watch' = "off" /\ link' = "closed"
                /\ UNCHANGED <<pc, idx, first, hello, late, stopVars, envVars, probeVars, known, reqVars>>

\* A tick cannot read the files: watchPrimary returns, for the rest of this
\* connection, which goes on.
WatchGivesUp == /\ watch = "on" /\ ~files
                /\ watch' = "failed"
                /\ UNCHANGED <<pc, idx, link, first, hello, late, stopVars, envVars, probeVars, known, reqVars>>

-----------------------------------------------------------------------------
(***************************************************************************)
(* Stop, called when the agent's context ends.  c.conn is read without a   *)
(* lock, once for the nil check and again for the close.                   *)
(***************************************************************************)
Stop == /\ stopper = "idle"
        /\ stop' = TRUE /\ stopper' = "check"
        /\ UNCHANGED <<runVars, envVars, probeVars, known, reqVars>>

StopCheck == /\ stopper = "check"
             /\ stopper' = IF link = "none" THEN "done" ELSE "close"
             /\ UNCHANGED <<runVars, stop, envVars, probeVars, known, reqVars>>

\* Mutant: Stop only signals and leaves the connection to the read loop.
StopSignals == /\ stopper = "close"
               /\ stopper' = "done"
               /\ UNCHANGED <<runVars, stop, envVars, probeVars, known, reqVars>>

StopClose == /\ stopper = "close"
             /\ stopper' = "done" /\ link' = "closed"
             /\ UNCHANGED <<pc, idx, first, watch, hello, late, stop, envVars, probeVars, known, reqVars>>

-----------------------------------------------------------------------------
(***************************************************************************)
(* The relays come and go, and break what they break; so do the files.     *)
(***************************************************************************)
RelayChanges(r) == /\ \E s \in {"down", "refusing", "up"} \ {relay[r]} :
                        /\ relay' = [relay EXCEPT ![r] = s]
                        /\ link' = IF s = "down" /\ idx = r /\ link = "open" THEN "broken" ELSE link
                   /\ UNCHANGED <<pc, idx, first, watch, hello, late, stopVars, files, probeVars, known, reqVars>>

FilesChange == /\ files' = ~files
               /\ UNCHANGED <<runVars, stopVars, relay, probeVars, known, reqVars>>

-----------------------------------------------------------------------------
(***************************************************************************)
(* Probe.runOnce: models are discovered and stored (setModels); then       *)
(* publishModels reads them again and writes.  The loop's probe and those  *)
(* of the relay's probe messages are goroutines of their own.              *)
(***************************************************************************)
SetModels(p) == /\ probe[p] = Idle /\ models < MaxVersion
                /\ models' = models + 1
                /\ probe' = [probe EXCEPT ![p].at = "found"]
                /\ overlap' = (overlap \/ \E q \in Prober : probe[q] # Idle)
                /\ UNCHANGED <<runVars, stopVars, envVars, known, reqVars>>

\* Mutant: the list is published before setModels has stored it.
ReadModelsEarly(p) == /\ probe[p].at = "found"
                      /\ probe' = [probe EXCEPT ![p] = [at |-> "publish", version |-> models - 1]]
                      /\ UNCHANGED <<runVars, stopVars, envVars, models, overlap, known, reqVars>>

ReadModels(p) == /\ probe[p].at = "found"
                 /\ probe' = [probe EXCEPT ![p] = [at |-> "publish", version |-> models]]
                 /\ UNCHANGED <<runVars, stopVars, envVars, models, overlap, known, reqVars>>

PublishModels(p) == /\ probe[p].at = "publish"
                    /\ Deliver("other", probe[p].version)
                    /\ probe' = [probe EXCEPT ![p] = Idle]
                    /\ UNCHANGED <<pc, idx, link, watch, hello, late, stopVars, envVars, models, overlap, reqVars>>

-----------------------------------------------------------------------------
(***************************************************************************)
(* Requests: a serveRequest goroutine (or the one that waits to send       *)
(* drain_ack) writes its last message whenever it is done.                 *)
(***************************************************************************)
StartRequest == /\ pc = "read" /\ link = "open" /\ started < MaxRequests
                /\ started' = started + 1 /\ writers' = writers + 1
                /\ UNCHANGED <<runVars, stopVars, envVars, probeVars, known>>

LastWrite == /\ writers > 0
             /\ writers' = writers - 1
             /\ Deliver("other", known)
             /\ UNCHANGED <<pc, idx, link, watch, hello, late, stopVars, envVars, probeVars, started>>

-----------------------------------------------------------------------------
RunNext == \/ Run \/ TryRelay \/ WaitBeforeRetry \/ DialFails \/ Dial \/ ModelsForHello
           \/ SendHello \/ HelloAck \/ NoHelloAck \/ CloseConn
StopNext == StopCheck \/ StopClose
ProbeNext(p) == SetModels(p) \/ ReadModels(p) \/ PublishModels(p)

\* Run's return ends the process.
Finished == pc = "returned" /\ UNCHANGED vars

Next == \/ pc # "returned" /\ (\/ RunNext \/ ReadLoopEnds \/ WatchPrimary \/ WatchGivesUp
                               \/ Stop \/ StopNext \/ FilesChange
                               \/ \E r \in Relay : RelayChanges(r)
                               \/ \E p \in Prober : ProbeNext(p)
                               \/ StartRequest \/ LastWrite)
        \/ Finished

Spec == Init /\ [][Next]_vars

\* The scheduler runs every goroutine that can run; watchPrimary ticks; a read
\* from a connection that is gone returns.  Nothing is assumed of the relays,
\* the files, bye or Stop being called.
FairSpec == /\ Spec
            /\ WF_vars(pc # "returned" /\ RunNext)
            /\ WF_vars(pc # "returned" /\ StopNext)
            /\ WF_vars(pc # "returned" /\ (WatchPrimary \/ WatchGivesUp))
            /\ WF_vars(pc # "returned" /\ link # "open" /\ ReadLoopEnds)
            /\ WF_vars(pc # "returned" /\ LastWrite)
            /\ \A p \in Prober : WF_vars(pc # "returned" /\ (ReadModels(p) \/ PublishModels(p)))

-----------------------------------------------------------------------------
\* Types; the relay in hand is one of the list, or the list is at its end.
TypeOK == /\ pc \in {"top", "try", "dial", "hello", "send", "ack", "read", "close", "backoff", "returned"}
          /\ idx \in 1..(Relays + 1)
          /\ link \in {"none", "open", "broken", "closed"}
          /\ first \in {"none", "hello", "other"}
          /\ {stop, late, files, overlap} \subseteq BOOLEAN
          /\ watch \in {"off", "on", "failed"}
          /\ stopper \in {"idle", "check", "close", "done"}
          /\ relay \in [Relay -> {"down", "refusing", "up"}]
          /\ {models, hello, known} \subseteq Version
          /\ probe \in [Prober -> [at : {"idle", "found", "publish"}, version : Version]]
          /\ started \in 0..MaxRequests /\ writers \in 0..started

\* The relay of a working connection has the agent's list of models, whatever
\* the order of hello, setModels and publishModels, once no probe is about to
\* publish; unless two probes ran at once, when the older list may be the last
\* to be written (connector.go 118-135, agent.go 99-108, probe.go 101-102).
ModelsAreKnown == /\ pc = "read" /\ link = "open"
                  /\ \A p \in Prober : probe[p] = Idle
                  /\ ~overlap
                  => known = models

\* Whatever happened before, if from some time on the relay of the best priority is
\* up and the certificate files can be read, the agent works with that relay again
\* and again (it is not stuck with a backup, or by a write that came before hello),
\* until it is stopped; or it stays for good with a backup whose watchPrimary met
\* an unreadable file once and returned (connector.go:207-210).
BackToPrimary == <>[](relay[1] = "up" /\ files) =>
                    \/ []<>(stop \/ (pc = "read" /\ idx = 1))
                    \/ <>[](watch = "failed" /\ pc = "read" /\ idx > 1 /\ link = "open")

\* Once Stop has returned Run returns too, unless a dial that was under way
\* came through after it and gave the connector a connection Stop never saw.
StopEndsRun == (stopper = "done") ~> (pc = "returned" \/ late)
=============================================================================
