---------------------------- MODULE AgentServe ----------------------------
(***************************************************************************)
(* The agent's request table.  The read loop admits requests, routes the   *)
(* frames of their bodies, cancels and drains; one serveRequest goroutine  *)
(* per request assembles the body, calls the local model and answers; a    *)
(* waitForDrain goroutine watches the table.                               *)
(*                                                                         *)
(* Every frame carries one unit of the body, so the declared length is     *)
(* Frames.  Of the response only its first and last message are modelled   *)
(* (module Forward has the rest).  What the connector does is Break and    *)
(* Reconnect (module Connector).                                           *)
(***************************************************************************)
EXTENDS Naturals, Sequences, FiniteSets

CONSTANTS Request,
          MaxConcurrency,  \* capacity of localSem
          Frames,          \* frames of a request's body
          BodyCap          \* capacity of bodyCh (16 in the code)

ASSUME RequestAssumption == IsFiniteSet(Request)
ASSUME CapacityAssumption == {MaxConcurrency, Frames, BodyCap} \subseteq Nat \ {0}

VARIABLES st,        \* where a request's serveRequest is
          canceled,  \* its context is cancelled
          sent,      \* frames of its body the relay has sent
          bodyCh,    \* frames routed to it and not yet taken
          body,      \* what assembleBody has put together
          active,    \* Agent.active
          sem,       \* tokens in localSem
          draining,
          drain,     \* waitForDrain: "none", "waiting" or "acked"
          acked,     \* the count its drain_ack carries
          up,        \* the connection is open
          broke,     \* history: it has broken at least once
          answers    \* done and error messages that reached the relay

reqVars == <<st, canceled, sent, bodyCh, body>>
tableVars == <<active, sem>>
drainVars == <<draining, drain, acked>>
linkVars == <<up, broke>>
vars == <<reqVars, tableVars, drainVars, linkVars, answers>>

Frame == 1..Frames
Whole == [i \in Frame |-> i]
Serving == {"assemble", "local", "stream"}
Holding == Serving \cup {"ending", "deleted"}

Init == /\ st = [r \in Request |-> "none"]
        /\ canceled = [r \in Request |-> FALSE]
        /\ sent = [r \in Request |-> 0]
        /\ bodyCh = [r \in Request |-> <<>>]
        /\ body = [r \in Request |-> <<>>]
        /\ active = {} /\ sem = 0
        /\ draining = FALSE /\ drain = "none" /\ acked = 0
        /\ up = TRUE /\ broke = FALSE
        /\ answers = [r \in Request |-> 0]

-----------------------------------------------------------------------------
(***************************************************************************)
(* Writes.  On a broken connection a write fails, or succeeds and is lost. *)
(***************************************************************************)
Answer(r) == answers' = IF up THEN [answers EXCEPT ![r] = @ + 1] ELSE answers
GoTo(r, s) == st' = [st EXCEPT ![r] = s]

-----------------------------------------------------------------------------
(***************************************************************************)
(* The read loop.                                                          *)
(***************************************************************************)
\* handleRequest says no: a path or length it does not allow, draining, or no
\* token left.
Refuse(r) == /\ up /\ st[r] = "none"
             /\ GoTo(r, "refused") /\ Answer(r)
             /\ UNCHANGED <<canceled, sent, bodyCh, body, tableVars, drainVars, linkVars>>

\* Mutant: draining is not asked for.
AcceptDraining(r) == /\ up /\ st[r] = "none"
                     /\ sem < MaxConcurrency
                     /\ sem' = sem + 1 /\ active' = active \cup {r}
                     /\ GoTo(r, "assemble")
                     /\ UNCHANGED <<canceled, sent, bodyCh, body, drainVars, linkVars, answers>>

\* handleRequest: a token, an entry in the table and a goroutine.
Accept(r) == /\ up /\ st[r] = "none"
             /\ ~draining
             /\ sem < MaxConcurrency
             /\ sem' = sem + 1 /\ active' = active \cup {r}
             /\ GoTo(r, "assemble")
             /\ UNCHANGED <<canceled, sent, bodyCh, body, drainVars, linkVars, answers>>

\* routeBodyFrame: into the queue if the request is in the table; if the queue
\* is full the frame is dropped and the request cancelled.
RouteBodyFrame(r) ==
    /\ up /\ st[r] # "none" /\ sent[r] < Frames
    /\ sent' = [sent EXCEPT ![r] = @ + 1]
    /\ \/ /\ r \notin active
          /\ UNCHANGED <<bodyCh, canceled>>
       \/ /\ r \in active /\ Len(bodyCh[r]) < BodyCap
          /\ bodyCh' = [bodyCh EXCEPT ![r] = Append(@, sent[r] + 1)]
          /\ UNCHANGED canceled
       \/ /\ r \in active /\ Len(bodyCh[r]) = BodyCap
          /\ canceled' = [canceled EXCEPT ![r] = TRUE]
          /\ UNCHANGED bodyCh
    /\ UNCHANGED <<st, body, tableVars, drainVars, linkVars, answers>>

\* cancel, or an error that names the request.
CancelRequest(r) == /\ up /\ r \in active /\ ~canceled[r]
                    /\ canceled' = [canceled EXCEPT ![r] = TRUE]
                    /\ UNCHANGED <<st, sent, bodyCh, body, tableVars, drainVars, linkVars, answers>>

\* drain: enterDrain, and a goroutine that waits.  (A drain that comes while one
\* is waiting only adds a second ack, with the same count, after the first.)
EnterDrain == /\ up /\ drain # "waiting"
              /\ draining' = TRUE /\ drain' = "waiting" /\ acked' = 0
              /\ UNCHANGED <<reqVars, tableVars, linkVars, answers>>

-----------------------------------------------------------------------------
(***************************************************************************)
(* serveRequest.                                                           *)
(***************************************************************************)
\* Mutant: the length is not compared when the last frame is in.
TakeFrameUnchecked(r) ==
    /\ st[r] = "assemble" /\ bodyCh[r] # <<>>
    /\ LET f == Head(bodyCh[r]) IN
       /\ bodyCh' = [bodyCh EXCEPT ![r] = Tail(@)]
       /\ body' = [body EXCEPT ![r] = Append(@, f)]
       /\ IF f = Frames THEN GoTo(r, "local") ELSE UNCHANGED st
    /\ UNCHANGED <<answers, canceled, sent, tableVars, drainVars, linkVars>>

\* assembleBody takes a frame; the last one must complete the declared length.
\* (Go's select may take it although the context is done; more than the declared
\* length, which assembleBody also refuses, is never sent by the relay.)
TakeFrame(r) ==
    /\ st[r] = "assemble" /\ bodyCh[r] # <<>>
    /\ LET f == Head(bodyCh[r]) IN
       /\ bodyCh' = [bodyCh EXCEPT ![r] = Tail(@)]
       /\ body' = [body EXCEPT ![r] = Append(@, f)]
       /\ \/ f # Frames /\ UNCHANGED <<st, answers>>
          \/ f = Frames /\ Len(body[r]) + 1 = Frames /\ GoTo(r, "local") /\ UNCHANGED answers
          \/ f = Frames /\ Len(body[r]) + 1 # Frames /\ GoTo(r, "ending") /\ Answer(r)
    /\ UNCHANGED <<canceled, sent, tableVars, drainVars, linkVars>>

\* Mutant: assembleBody has no timer of its own.
GiveUpOnlyCanceled(r) == /\ st[r] = "assemble" /\ canceled[r]
                         /\ GoTo(r, "ending") /\ Answer(r)
                         /\ UNCHANGED <<canceled, sent, bodyCh, body, tableVars, drainVars, linkVars>>

\* assembleBody fails: the context is done, or 30 seconds passed without a frame.
GiveUp(r) == /\ st[r] = "assemble"
             /\ GoTo(r, "ending") /\ Answer(r)
             /\ UNCHANGED <<canceled, sent, bodyCh, body, tableVars, drainVars, linkVars>>

\* The local model answers and the headers are written; or they cannot be.
LocalAnswers(r) == /\ st[r] = "local"
                   /\ GoTo(r, "stream") \/ (~up /\ GoTo(r, "ending"))
                   /\ UNCHANGED <<canceled, sent, bodyCh, body, tableVars, drainVars, linkVars, answers>>

\* Mutant: an error while the body streams is not reported.
FinishQuietly(r) == /\ st[r] \in {"local", "stream"}
                    /\ GoTo(r, "ending")
                    /\ IF canceled[r] THEN UNCHANGED answers ELSE Answer(r)
                    /\ UNCHANGED <<canceled, sent, bodyCh, body, tableVars, drainVars, linkVars>>

\* The request cannot be built or fails locally (error), or the response is
\* complete (done); the client's timeout bounds both waits.
Finish(r) == /\ st[r] \in {"local", "stream"}
             /\ GoTo(r, "ending") /\ Answer(r)
             /\ UNCHANGED <<canceled, sent, bodyCh, body, tableVars, drainVars, linkVars>>

\* A frame of the response cannot be written: serveRequest just returns.
WriteFails(r) == /\ st[r] = "stream" /\ ~up
                 /\ GoTo(r, "ending")
                 /\ UNCHANGED <<canceled, sent, bodyCh, body, tableVars, drainVars, linkVars, answers>>

\* The deferred function: out of the table, done closed, then the token.
Delete(r) == /\ st[r] = "ending"
             /\ active' = active \ {r}
             /\ GoTo(r, "deleted")
             /\ UNCHANGED <<canceled, sent, bodyCh, body, sem, drainVars, linkVars, answers>>

\* Mutant: a cancelled request keeps its token.
ReleaseLeak(r) == /\ st[r] = "deleted"
                  /\ sem' = IF canceled[r] THEN sem ELSE sem - 1
                  /\ GoTo(r, "over")
                  /\ UNCHANGED <<canceled, sent, bodyCh, body, active, drainVars, linkVars, answers>>

Release(r) == /\ st[r] = "deleted"
              /\ sem' = sem - 1
              /\ GoTo(r, "over")
              /\ UNCHANGED <<canceled, sent, bodyCh, body, active, drainVars, linkVars, answers>>

-----------------------------------------------------------------------------
(***************************************************************************)
(* waitForDrain.  When the grace period ends cancelAll cancels nothing:    *)
(* it looks requests up by the hash of a key that is a hash already.       *)
(***************************************************************************)
DrainAck(n) == /\ drain' = "acked" /\ acked' = n
               /\ UNCHANGED <<reqVars, draining, tableVars, linkVars, answers>>

WaitForDrain == drain = "waiting" /\ active = {} /\ DrainAck(0)
DrainDeadline == drain = "waiting" /\ active # {} /\ DrainAck(Cardinality(active))

-----------------------------------------------------------------------------
(***************************************************************************)
(* The connection.  What is on its way is lost with it; the table stays.   *)
(***************************************************************************)
Break == /\ up
         /\ up' = FALSE /\ broke' = TRUE
         /\ UNCHANGED <<reqVars, tableVars, drainVars, answers>>

FrameLost(r) == /\ ~up /\ st[r] # "none" /\ sent[r] < Frames
                /\ sent' = [sent EXCEPT ![r] = @ + 1]
                /\ UNCHANGED <<st, canceled, bodyCh, body, tableVars, drainVars, linkVars, answers>>

Reconnect == /\ ~up
             /\ up' = TRUE
             /\ UNCHANGED <<reqVars, tableVars, drainVars, broke, answers>>

-----------------------------------------------------------------------------
Serve(r) == \/ TakeFrame(r) \/ GiveUp(r) \/ LocalAnswers(r) \/ Finish(r) \/ WriteFails(r)
            \/ Delete(r) \/ Release(r)
ReadLoop(r) == Refuse(r) \/ Accept(r) \/ RouteBodyFrame(r) \/ CancelRequest(r)

Next == \/ \E r \in Request : Serve(r) \/ ReadLoop(r) \/ FrameLost(r)
        \/ EnterDrain \/ WaitForDrain \/ DrainDeadline
        \/ Break \/ Reconnect

Spec == Init /\ [][Next]_vars

\* Every serveRequest runs on: assembleBody and the local HTTP client have
\* their timeouts.  Nothing is assumed of the relay or the connection.
FairSpec == Spec /\ \A r \in Request : WF_vars(Serve(r))

-----------------------------------------------------------------------------
\* Types; no more tokens are out than max_concurrency allows (agent.go 155-163).
TypeOK == /\ st \in [Request -> Holding \cup {"none", "refused", "over"}]
          /\ canceled \in [Request -> BOOLEAN]
          /\ sent \in [Request -> 0..Frames]
          /\ bodyCh \in [Request -> Seq(Frame)]
          /\ body \in [Request -> Seq(Frame)]
          /\ active \subseteq Request
          /\ sem \in 0..MaxConcurrency
          /\ draining \in BOOLEAN /\ drain \in {"none", "waiting", "acked"}
          /\ acked \in Nat
          /\ up \in BOOLEAN /\ broke \in BOOLEAN
          /\ answers \in [Request -> Nat]

\* The local model is only ever asked with the body the relay sent, complete
\* and in order, although frames are dropped by a full queue, lost with the
\* connection or resumed on the next one, and nobody looks at their numbers:
\* the declared length is what catches a hole (agent.go 182-197, 305-339).
LocalGetsTheWholeBody == \A r \in Request : st[r] \in {"local", "stream"} => body[r] = Whole

\* A token is held exactly by the requests whose goroutine has not ended, and
\* the table never names a request without one (agent.go 151-207): no way out
\* of serveRequest leaks a token or gives one back twice.
TokensAreExact == /\ sem = Cardinality({r \in Request : st[r] \in Holding})
                  /\ active = {r \in Request : st[r] \in Serving \cup {"ending"}}

\* An agent that has told the relay it is drained (drain_ack with no active
\* requests) serves nothing, then or later, over whatever connection: the
\* relay's operator may stop it (connector.go 271-280, agent.go 368-395).
DrainedIsIdle == drain = "acked" /\ acked = 0 => active = {}

\* Each request gets one done or error and never two, if its connection holds
\* (agent.go 127-302): the relay's forwardResponse waits for exactly that.
OneAnswer == \A r \in Request :
                /\ answers[r] <= 1
                /\ st[r] \in {"refused", "ending", "deleted", "over"} /\ ~broke => answers[r] = 1

\* Every accepted request ends and gives its token back, even if the rest of
\* its body never comes (agent.go 305-339).
AcceptedEnds == \A r \in Request : st[r] = "assemble" ~> st[r] = "over"
=============================================================================
