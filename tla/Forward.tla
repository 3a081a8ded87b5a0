------------------------------ MODULE Forward ------------------------------
(***************************************************************************)
(* The response of one forwarded request, from the agent's serveRequest    *)
(* over the WebSocket into the channels of the relay's pendingRequest and  *)
(* through the select loop of forwardResponse to the HTTP client.          *)
(*                                                                         *)
(* Three goroutines meet here: serveRequest writes, the relay's read loop  *)
(* fills channels without ever blocking, forwardResponse empties them in   *)
(* the random order of Go's select.  The client may stop reading or leave, *)
(* timers may run out, the connection may break and come back.             *)
(*                                                                         *)
(* A chunk of the response body is its number; the agent's status line and *)
(* headers are one value; error codes are not told apart.                  *)
(***************************************************************************)
EXTENDS Naturals, Sequences, FiniteSets

CONSTANTS Chunks,       \* bound: body chunks the local model produces at most
          FrameCap,     \* capacity of pendingRequest.frames
          LinkBreaks,   \* whether the agent's connection may break (and come back)
          HasTTFT,      \* TTFTTimeoutMs > 0
          HasIdle,      \* IdleTimeoutMs > 0
          HasDeadline   \* RequestTimeoutMs > 0

ASSUME BoundAssumption == Chunks \in Nat /\ FrameCap \in Nat \ {0}
ASSUME SwitchAssumption == {LinkBreaks, HasTTFT, HasIdle, HasDeadline} \subseteq BOOLEAN

VARIABLES serve,     \* serveRequest: "local", "stream" or "gone"
          made,      \* chunks it has read from the local model
          canceled,  \* its context is cancelled
          link,      \* "up", "cut" (only the relay knows), "down", "resumed"
          toRelay,   \* what the agent wrote and the relay has not read
          toAgent,   \* a Cancel is on its way to the agent
          pending,   \* the request is in the relay's pendingRegistry
          over,      \* per connection: what dispatchFrame still has to do for a dropped frame
          headers, frames, done, err,   \* the channels of pendingRequest
          fwd,       \* forwardResponse: "select", "drainDone", "drainErr", "blocked", "returned"
          wroteHeader, ttft, idle,      \* its local variables (timer channel non-nil)
          client,    \* "here", "stalled" (connected, does not read) or "gone"
          status,    \* the status line the client got: "agent", "ok" (implicit), "error"
          body,      \* chunks written to the client, in order
          errorBody, \* writeRelayError wrote an error document to the client
          outcome,   \* how forwardResponse ended
          lost       \* history: chunks that never reached the frames channel

agentVars == <<serve, made, canceled>>
linkVars == <<link, toRelay, toAgent>>
chanVars == <<headers, frames, done, err>>
clientVars == <<client, status, body, errorBody>>
fwdVars == <<fwd, wroteHeader, ttft, idle, pending, outcome>>
vars == <<agentVars, linkVars, chanVars, clientVars, fwdVars, over, lost>>

Conn == {"up", "resumed"}   \* the connections, named by the link they make
Chunk == 1..Chunks
Hdr == [type |-> "response_headers", chunk |-> 0]
Frame(i) == [type |-> "frame", chunk |-> i]
Done == [type |-> "done", chunk |-> 0]
Error == [type |-> "error", chunk |-> 0]
Message == {Hdr, Done, Error} \cup {Frame(i) : i \in Chunk}
Outcome == {"none", "success", "agent_error", "timeout", "canceled", "unwritten"}

\* The request and its body have been sent; the agent has them.
Init == /\ serve = "local" /\ made = 0 /\ canceled = FALSE
        /\ link = "up" /\ toRelay = <<>> /\ toAgent = FALSE
        /\ pending = TRUE
        /\ headers = 0 /\ frames = <<>> /\ done = 0 /\ err = 0
        /\ fwd = "select" /\ wroteHeader = FALSE /\ ttft = HasTTFT /\ idle = HasIdle
        /\ client = "here" /\ status = "none" /\ body = <<>> /\ errorBody = FALSE
        /\ outcome = "none"
        /\ over = [c \in Conn |-> "none"]
        /\ lost = {}

Connected == link \in Conn

-----------------------------------------------------------------------------
(***************************************************************************)
(* The agent: serveRequest, cancelRequest and the connector's writes.      *)
(***************************************************************************)
\* writeControl and WriteFrame.  On a cut link a write may still succeed.
WriteOK(m) == /\ link # "down"
              /\ toRelay' = IF Connected THEN Append(toRelay, m) ELSE toRelay
WriteFails == link \in {"cut", "down"} /\ UNCHANGED toRelay

\* The local model answers; the headers are sent, or serveRequest gives up.
LocalAnswers == /\ serve = "local"
                /\ \/ WriteOK(Hdr) /\ serve' = "stream"
                   \/ WriteFails /\ serve' = "gone"
                /\ UNCHANGED <<made, canceled, link, toAgent, chanVars, clientVars, fwdVars, over, lost>>

\* Mutant: a chunk may be sent again.
ReadChunkResend == /\ serve = "stream"
                   /\ made < Chunks
                   /\ made' \in {made, made + 1}
                   /\ WriteOK(Frame(made + 1))
                   /\ lost' = IF Connected THEN lost ELSE lost \cup {made + 1}
                   /\ Len(toRelay) < Chunks
                   /\ UNCHANGED <<serve, canceled, link, toAgent, chanVars, clientVars, fwdVars, over>>

\* A chunk is read and sent; serveRequest returns if the write fails.
ReadChunk == /\ serve = "stream"
             /\ made < Chunks
             /\ made' = made + 1
             /\ \/ WriteOK(Frame(made + 1)) /\ serve' = serve
                   /\ lost' = IF Connected THEN lost ELSE lost \cup {made + 1}
                \/ WriteFails /\ serve' = "gone" /\ lost' = lost \cup {made + 1}
             /\ UNCHANGED <<canceled, link, toAgent, chanVars, clientVars, fwdVars, over>>

\* EOF: Done is sent.
LocalEnds == /\ serve = "stream"
             /\ WriteOK(Done) \/ WriteFails
             /\ serve' = "gone"
             /\ UNCHANGED <<made, canceled, link, toAgent, chanVars, clientVars, fwdVars, over, lost>>

\* The request is refused, its body is not assembled, the local model fails or
\* times out, or the context is cancelled: Error is sent and serveRequest returns.
LocalFails == /\ serve \in {"local", "stream"}
              /\ WriteOK(Error) \/ WriteFails
              /\ serve' = "gone"
              /\ UNCHANGED <<made, canceled, link, toAgent, chanVars, clientVars, fwdVars, over, lost>>

\* cancelRequest finds the request while serveRequest has not returned.
ReadCancel == /\ toAgent /\ Connected
              /\ toAgent' = FALSE
              /\ canceled' = (canceled \/ serve # "gone")
              /\ UNCHANGED <<serve, made, link, toRelay, chanVars, clientVars, fwdVars, over, lost>>

-----------------------------------------------------------------------------
(***************************************************************************)
(* The connection.  The relay notices first, so nothing written later      *)
(* arrives; what was in flight is lost.                                    *)
(***************************************************************************)
ChunksIn(q) == {q[i].chunk : i \in {j \in DOMAIN q : q[j].type = "frame"}}

Break == /\ LinkBreaks /\ link = "up"
         /\ link' = "cut"
         /\ toRelay' = <<>> /\ toAgent' = FALSE
         /\ lost' = lost \cup ChunksIn(toRelay)
         /\ UNCHANGED <<agentVars, chanVars, clientVars, fwdVars, over>>

\* cancelAll turns the 16 bytes of each ID into a string, and cancelRequest
\* hashes that string again (RequestIDBytes): no request is found.
CancelAll == UNCHANGED canceled

\* The agent's read loop ends: connectOnce calls cancelAll and closes.
AgentNotices == /\ link = "cut"
                /\ link' = "down"
                /\ CancelAll
                /\ UNCHANGED <<serve, made, toRelay, toAgent, chanVars, clientVars, fwdVars, over, lost>>

\* The connector's next connectOnce registers the same node ID again.
Reconnect == /\ link = "down"
             /\ link' = "resumed"
             /\ UNCHANGED <<agentVars, toRelay, toAgent, chanVars, clientVars, fwdVars, over, lost>>

-----------------------------------------------------------------------------
(***************************************************************************)
(* The relay's read loop: dispatchControl and dispatchFrame.  A channel    *)
(* that is full does not block; pendingOwnedBy asks for the node ID alone. *)
(***************************************************************************)
\* Mutant: dispatchFrame leaves the cancel and the error to a goroutine.
ReceiveOn == toRelay # <<>> /\ Connected /\ toRelay' = Tail(toRelay)

\* The loop of a connection reads on when dispatchFrame has returned.
Receive == /\ toRelay # <<>> /\ Connected
           /\ over[link] = "none"
           /\ toRelay' = Tail(toRelay)
One(n) == IF n < 1 THEN n + 1 ELSE n   \* a non-blocking send into capacity 1

DispatchControl ==
    /\ Receive
    /\ Head(toRelay).type # "frame"
    /\ LET t == Head(toRelay).type IN
       /\ headers' = IF pending /\ t = "response_headers" THEN One(headers) ELSE headers
       /\ done' = IF pending /\ t = "done" THEN One(done) ELSE done
       /\ err' = IF pending /\ t = "error" THEN One(err) ELSE err
    /\ UNCHANGED <<agentVars, link, toAgent, frames, clientVars, fwdVars, over, lost>>

\* Mutant: the frames channel is taken to be unbounded.
DispatchFrameUnbounded ==
    /\ Receive
    /\ Head(toRelay).type = "frame"
    /\ frames' = IF pending THEN Append(frames, Head(toRelay).chunk) ELSE frames
    /\ UNCHANGED <<agentVars, link, toAgent, headers, done, err, clientVars, fwdVars, over, lost>>

DispatchFrame ==
    /\ Receive
    /\ Head(toRelay).type = "frame"
    /\ pending => Len(frames) < FrameCap
    /\ frames' = IF pending THEN Append(frames, Head(toRelay).chunk) ELSE frames
    /\ UNCHANGED <<agentVars, link, toAgent, headers, done, err, clientVars, fwdVars, over, lost>>

\* The frames channel is full: the frame is dropped ...
DispatchOverflow ==
    /\ Receive
    /\ Head(toRelay).type = "frame"
    /\ pending /\ Len(frames) = FrameCap
    /\ lost' = lost \cup {Head(toRelay).chunk}
    /\ over' = [over EXCEPT ![link] = "cancel"]
    /\ UNCHANGED <<agentVars, link, toAgent, chanVars, clientVars, fwdVars>>

\* sendToNode: to the node's handle of now; an error, because there is none, is
\* ignored.
SendCancel == toAgent' = (toAgent \/ Connected)

\* ... the agent is told to stop, a write that may take its 15 seconds ...
OverflowCancel(c) ==
    /\ over[c] = "cancel"
    /\ over' = [over EXCEPT ![c] = "report"]
    /\ SendCancel
    /\ UNCHANGED <<agentVars, link, toRelay, chanVars, clientVars, fwdVars, lost>>

\* ... and only then forwardResponse is told of an error.
OverflowReport(c) ==
    /\ over[c] = "report"
    /\ over' = [over EXCEPT ![c] = "none"]
    /\ err' = One(err)
    /\ UNCHANGED <<agentVars, linkVars, headers, frames, done, clientVars, fwdVars, lost>>

-----------------------------------------------------------------------------
(***************************************************************************)
(* forwardResponse.                                                        *)
(***************************************************************************)
\* Returning runs handleProxy's deferred pending.remove.
Return(o) == /\ fwd' = "returned" /\ outcome' = o /\ pending' = FALSE
             /\ UNCHANGED <<wroteHeader, ttft, idle>>

\* net/http keeps the first status line it is given.
StatusLine(s) == status' = IF status = "none" THEN s ELSE status

\* writeRelayError, if forwardResponse does not believe a header was written.
RelayError == IF wroteHeader
              THEN UNCHANGED <<status, errorBody>>
              ELSE StatusLine("error") /\ errorBody' = TRUE

\* Mutant: the select arm of ctx.Done forgets the Cancel.
CtxDoneQuiet == /\ fwd = "select"
                /\ client = "gone" \/ HasDeadline
                /\ UNCHANGED toAgent
                /\ RelayError
                /\ Return("canceled")
                /\ UNCHANGED <<agentVars, link, toRelay, chanVars, client, body, over, lost>>

\* case <-ctx.Done(): the client left, or the whole request took too long.
CtxDone == /\ fwd = "select"
           /\ client = "gone" \/ HasDeadline
           /\ SendCancel
           /\ RelayError
           /\ Return("canceled")
           /\ UNCHANGED <<agentVars, link, toRelay, chanVars, client, body, over, lost>>

\* case <-ttftC and case <-idleC.
TimedOut == /\ fwd = "select"
            /\ ttft \/ idle
            /\ SendCancel
            /\ RelayError
            /\ Return("timeout")
            /\ UNCHANGED <<agentVars, link, toRelay, chanVars, client, body, over, lost>>

\* case rh := <-pend.headers.
TakeHeaders == /\ fwd = "select"
               /\ headers = 1
               /\ headers' = 0
               /\ StatusLine("agent")
               /\ wroteHeader' = TRUE
               /\ ttft' = FALSE
               /\ UNCHANGED <<agentVars, linkVars, frames, done, err, client, body, errorBody,
                              fwd, idle, pending, outcome, over, lost>>

\* w.Write: an unwritten header becomes an implicit 200.  Once the client is
\* gone a write may fail, and then forwardResponse returns without a Cancel.
WriteChunk == /\ StatusLine("ok")
              /\ body' = Append(body, Head(frames))
              /\ frames' = Tail(frames)
              /\ UNCHANGED <<agentVars, linkVars, headers, done, err, client, errorBody, over, lost>>
WriteChunkFails == /\ client = "gone"
                   /\ StatusLine("ok")
                   /\ frames' = Tail(frames)
                   /\ Return("unwritten")
                   /\ UNCHANGED <<agentVars, linkVars, headers, done, err, client, body,
                                  errorBody, over, lost>>

\* Nothing bounds a write to a client that stays and does not read (http.Server
\* has no WriteTimeout): it may find room in the socket's buffer, or not return
\* while the client is there.  No timer and no ctx.Done is looked at meanwhile.
WriteBlocks == /\ client = "stalled"
               /\ fwd \in {"select", "drainDone", "drainErr"}
               /\ frames # <<>>
               /\ frames' = Tail(frames)
               /\ fwd' = "blocked"
               /\ StatusLine("ok")
               /\ UNCHANGED <<agentVars, linkVars, headers, done, err, client, body, errorBody,
                              wroteHeader, ttft, idle, pending, outcome, over, lost>>
BlockedFails == /\ fwd = "blocked"
                /\ client = "gone"
                /\ Return("unwritten")
                /\ UNCHANGED <<agentVars, linkVars, chanVars, clientVars, over, lost>>

\* Mutant: after a frame the idle timer is not armed again.
TakeFrameNoReset == /\ fwd = "select"
                    /\ frames # <<>>
                    /\ WriteChunk
                    /\ wroteHeader' = TRUE
                    /\ ttft' = FALSE
                    /\ idle' = FALSE
                    /\ UNCHANGED <<fwd, pending, outcome>>

\* case f := <-pend.frames.
TakeFrame == /\ fwd = "select"
             /\ frames # <<>>
             /\ \/ /\ WriteChunk
                   /\ wroteHeader' = TRUE
                   /\ ttft' = FALSE
                   /\ idle' = HasIdle
                   /\ UNCHANGED <<fwd, pending, outcome>>
                \/ WriteChunkFails

\* Mutant: done is believed without draining the frames.
TakeDoneAtOnce == /\ fwd = "select"
                  /\ done = 1
                  /\ done' = 0
                  /\ StatusLine("ok")
                  /\ Return("success")
                  /\ UNCHANGED <<agentVars, linkVars, headers, frames, err, client, body,
                                 errorBody, over, lost>>

\* case <-pend.done and case e := <-pend.err: the frames are drained first.
TakeDone == /\ fwd = "select"
            /\ done = 1
            /\ done' = 0
            /\ fwd' = "drainDone"
            /\ UNCHANGED <<agentVars, linkVars, headers, frames, err, clientVars, wroteHeader,
                           ttft, idle, pending, outcome, over, lost>>
TakeErr == /\ fwd = "select"
           /\ err = 1
           /\ err' = 0
           /\ fwd' = "drainErr"
           /\ UNCHANGED <<agentVars, linkVars, headers, frames, done, clientVars, wroteHeader,
                          ttft, idle, pending, outcome, over, lost>>

\* The loops drainDone and drainErr.
DrainFrame == /\ fwd \in {"drainDone", "drainErr"}
              /\ frames # <<>>
              /\ \/ WriteChunk /\ UNCHANGED fwdVars
                 \/ WriteChunkFails

\* Nothing left: success, with an implicit 200 if no header was written ...
FinishDone == /\ fwd = "drainDone"
              /\ frames = <<>>
              /\ StatusLine("ok")
              /\ Return("success")
              /\ UNCHANGED <<agentVars, linkVars, chanVars, client, body, errorBody, over, lost>>

\* ... or the agent's error, written if no header was written by the main loop.
FinishErr == /\ fwd = "drainErr"
             /\ frames = <<>>
             /\ RelayError
             /\ Return("agent_error")
             /\ UNCHANGED <<agentVars, linkVars, chanVars, client, body, over, lost>>

ClientStalls == /\ client = "here" /\ fwd # "returned"
                /\ client' = "stalled"
                /\ UNCHANGED <<agentVars, linkVars, chanVars, status, body, errorBody, fwdVars, over, lost>>
ClientLeaves == /\ client # "gone" /\ fwd # "returned"
                /\ client' = "gone"
                /\ UNCHANGED <<agentVars, linkVars, chanVars, status, body, errorBody, fwdVars, over, lost>>

-----------------------------------------------------------------------------
Serve == LocalAnswers \/ ReadChunk \/ LocalEnds \/ LocalFails
Dispatch == \/ DispatchControl \/ DispatchFrame \/ DispatchOverflow
            \/ \E c \in Conn : OverflowCancel(c) \/ OverflowReport(c)
Forwarding == \/ CtxDone \/ TimedOut \/ TakeHeaders \/ TakeFrame
              \/ TakeDone \/ TakeErr \/ DrainFrame \/ FinishDone \/ FinishErr
              \/ WriteBlocks \/ BlockedFails
Next == \/ Serve \/ ReadCancel \/ Dispatch \/ Forwarding
        \/ Break \/ AgentNotices \/ Reconnect \/ ClientStalls \/ ClientLeaves

Spec == Init /\ [][Next]_vars

(***************************************************************************)
(* Fairness: both read loops and forwardResponse run when they can (a      *)
(* write to an agent has a deadline; one to the client may block, which is *)
(* the state "blocked"), a timer that stays armed runs out (select's       *)
(* random choice then takes it), and the local HTTP client returns once    *)
(* its context is cancelled.  Nothing makes the local model produce its    *)
(* answer, the client read or leave, or the agent connect again.           *)
(***************************************************************************)
FairSpec == /\ Spec
            /\ WF_vars(DispatchControl \/ DispatchFrame \/ DispatchOverflow)
            /\ \A c \in Conn : WF_vars(OverflowCancel(c) \/ OverflowReport(c))
            /\ WF_vars(Forwarding)
            /\ WF_vars(ReadCancel)
            /\ WF_vars(canceled /\ LocalFails)

-----------------------------------------------------------------------------
(***************************************************************************)
(* Properties.                                                             *)
(***************************************************************************)
Increasing(s) == \A i, j \in DOMAIN s : i < j => s[i] < s[j]

\* Type invariant; the channels respect their capacities.
TypeOK == /\ serve \in {"local", "stream", "gone"} /\ made \in 0..Chunks
          /\ {canceled, toAgent, pending, wroteHeader, ttft, idle, errorBody} \subseteq BOOLEAN
          /\ link \in {"up", "cut", "down", "resumed"}
          /\ toRelay \in Seq(Message)
          /\ {headers, done, err} \subseteq 0..1
          /\ frames \in Seq(Chunk) /\ Len(frames) <= FrameCap
          /\ over \in [Conn -> {"none", "cancel", "report"}]
          /\ fwd \in {"select", "drainDone", "drainErr", "blocked", "returned"}
          /\ client \in {"here", "stalled", "gone"}
          /\ status \in {"none", "agent", "ok", "error"}
          /\ body \in Seq(Chunk)
          /\ outcome \in Outcome
          /\ lost \subseteq Chunk

\* Chunks reach the client in the order the local model produced them and never
\* twice, through overflow, reconnect, and the drain loops alike.
BodyInOrder == Increasing(body \o frames)

\* proxy.go:287: done and the last frame may be ready together, so the frames are
\* drained first; likewise for an error.  If no chunk was dropped on the way, a
\* client that was told the end (or the error) has every chunk that was produced.
NothingProducedIsDropped ==
    outcome \in {"success", "agent_error"} /\ lost = {} => body = [i \in 1..made |-> i]

\* wss.go:480: between the drop of a frame and the error that reports it there is a
\* write to the agent, and the channel may be emptied meanwhile.  While the agent
\* stays connected the report still comes first: whenever a response with a hole
\* could end as a success, or has, its error was ready for select as well.
HoleIsReported ==
    /\ link = "up" /\ lost # {}
    /\ (fwd = "select" /\ done = 1) \/ fwd = "drainDone" \/ outcome = "success"
    => err = 1

\* forwardResponse always returns when the idle timer is on, so the node slot,
\* the global slot and the pending entry come back even if the connection is lost
\* and nobody fails the pending request.  The exception is a client that neither
\* reads nor leaves, since the relay's http.Server has no WriteTimeout (http.go:35).
ForwardReturns == <>(fwd = "returned") \/ <>[](fwd = "blocked" /\ client = "stalled")

\* However forwardResponse ends, the generation stops at an agent that stays
\* connected: by its own end, or by a Cancel.  The exception is a write to the
\* client that fails, which returns without a Cancel (proxy.go:273, 292, 317): the
\* agent generates on, although newapi.md:47 and e2e_cancel_test.go:14 say of every
\* client that leaves that the agent stops.
CancelStopsAgent ==
    (fwd = "returned" /\ outcome # "unwritten") ~> (serve = "gone" \/ link # "up")

-----------------------------------------------------------------------------
(***************************************************************************)
(* What the repository says and the code does not do.                      *)
(***************************************************************************)

\* newapi.md:59: responses are forwarded completely.  A request that counts as a
\* success has delivered every chunk.
SuccessIsComplete == outcome = "success" => body = [i \in 1..made |-> i]

=============================================================================
