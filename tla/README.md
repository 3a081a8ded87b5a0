# A TLA+ verification of modelrelay

modelrelay forwards OpenAI-style HTTP requests from a public **relay** to
**agents** that sit beside a local model server behind NAT. An agent dials the
relay over a mutually authenticated WebSocket and keeps the connection; the
relay multiplexes requests over it (JSON control messages, binary body frames)
and streams the answers back to the HTTP clients. An admin UI drains and kicks
nodes, changes their limits and revokes their certificates; a desktop tool, the
certificate manager, makes the CAs and certificates both sides need.

The programs are Go: one goroutine per HTTP request, per connection, per
heartbeat monitor, per served request, per probe and per background writer;
shared tables under separate mutexes, atomics, channels and `select`; a SQLite
file and certificate files that outlive the processes. What is hard to test in it
is the order in which these run and where they stop, and that is what the modules
here are about. Line numbers below are those of the files under `src/internal/`.

- [Inventory](#inventory)
- [Modules](#modules)
- [Runs](#runs)
- [Fairness](#fairness)
- [Proofs](#proofs)
- [Where code and text disagree](#where-code-and-text-disagree)
- [Plan](#plan)
- [What is not modelled](#what-is-not-modelled)

## Inventory

| Component | State | Operations | Talks to |
|---|---|---|---|
| WSS handler `relay/wss.go` | `conns` (open sockets), per connection the position of `handleConnect`, its monitor | handshake, read loop, `dispatchControl`, `dispatchFrame`, `heartbeatMonitor`, `teardown`, `Close` | registry, handle table, certificate table, pending requests |
| Node registry `relay/registry.go` | `nodes`: ID to `*Node`; each `Node` has state, last heartbeat, models, limits, `Active` | `TryRegister`, `Get`, `List`, `Remove`, `RemoveIfSame`; `MarkHeartbeat`, `SetState`, `Reserve`, `Release`, `SetMaxConcurrency` | everything in the relay |
| Handle table and pending requests `relay/server.go` | `connRegistry`: ID to send handle; `pendingRegistry`: request ID to channels (`headers`, `frames`, `done`, `err`); `sem`, `waiting` | `put`, `get`, `del`, `delIf`; `add`, `get`, `remove`; `sendToNode`; `recordRequest` | proxy, WSS handler |
| Proxy `relay/proxy.go` | local to a request | `handleProxy`: `acquire`, node selection, `Reserve`, send, `forwardResponse`, deferred releases | scheduler, pending requests, HTTP client |
| Scheduler `relay/scheduler.go` | none | `Select`, `classifyNoNode`, `WaitForNode` | registry |
| Admin server `relay/admin.go` | sessions, login failures per address | login, logout, node actions, concurrency, retention, certificate revocation, views | registry, handle table, store |
| Request summaries `relay/requests.go`, `relay/server.go` | ring buffer, writer channel, retention goroutine | `add`, `list`, `submit`, `run`, `close`, `startRetention`, `Close` | store |
| Agent `agent/agent.go` | active requests, body queues, local semaphore, draining | `handleRequest`, `routeBodyFrame`, `serveRequest`, `assembleBody`, `cancelRequest`, `cancelAll`, `enterDrain`, `waitForDrain` | connector, local model |
| Connector `agent/connector.go` | current connection, stop channel, index of the relay in use | `Run`, `connectOnce`, `watchPrimary`, `readLoop`, `heartbeatLoop`, writes, `Stop` | relay |
| Probe and local client `agent/probe.go`, `agent/localclient.go` | list of models, health | `runOnce`, `publishModels`, HTTP call | local model, connector |
| Store `store/` | SQLite tables | open and migrate, certificates, users, audit, summaries, retention | relay |
| Certificates `certs/`, `certmgr/` | CA workspaces held open, certificate and key files | create, open, issue, export, inspect | operators, relay's TLS |
| Entry points `cmd/` | phase of the process | start in order, wait, shut down in order | all of the above |
| Wire protocol, configuration, web UI | none, or files | encode, parse, validate | both sides, operators |

How they interact. A request's goroutine passes `acquire` (queue and semaphore),
picks a node from snapshots of the registry, reserves a slot on the `*Node`
object, registers its channels in `pendingRegistry` and sends through the handle
table. The connection's read-loop goroutine turns what the agent sends into
sends on those channels, never blocking; the request's goroutine takes from
them in a `select` whose choice among ready cases is random. Admin goroutines
change the registry, the handle table and the certificate table, each under its
own lock, in several steps. Nothing fails the pending requests of a node that
disconnects: only the timers of `forwardResponse` do. At the agent, request
goroutines outlive the connection they came over and write to whichever
connection the connector holds when they are done; so do probes.

What makes each part correct:

- *connections*: the registry and the handle table always describe live
  connections; an old connection's cleanup never hurts its successor; a node ID
  is never blocked by an agent that is gone; drain, kick and revocation hold.
- *forwarding*: the client gets the chunks in order, once each, all of them, and
  learns of it otherwise; the request always ends on both sides.
- *admission*: every counter equals the number of its holders on every path out;
  a node's limit is respected although selection and reservation are two steps;
  nobody waits for ever.
- *agent*: the local model never sees a body with a hole; tokens are exact; each
  request is answered once and ends; a drained agent is idle.
- *connector*: it comes back after any failure, returns to the primary, stops
  when told, and the relay it works with knows its models.
- *admin API*: how far the log-in limit can be overshot; a lock-out ends; how much a
  session can still change after its end.
- *process*: summaries are written at most once and in the order of their
  submission, whatever dies when; an orderly shutdown offers the open store every
  summary it accepted, and ends.
- *certificates*: a CA's two files belong together; what is held open is what is on
  disk; CA keys stay; what is deployed is accepted, for its own node only.

`PROJECT.json` lists all of this with the hazards, each at the line where it
bites, and the properties that watch it.

## Modules

| Module | Models | Extended by |
|---|---|---|
| `NodeLifecycle` | connections at the relay, registry, handles, monitor, drain, kick, revoke | `MCNodeLifecycle`, `NodeLifecycle_proofs` |
| `Forward` | one response from the agent's `serveRequest` to the HTTP client | `MCForward`, `Forward_proofs` |
| `Admission` | the queue, the semaphore, node selection, reservation and release | `MCAdmission`, `Admission_proofs` |
| `AgentServe` | the agent's request table: bodies, tokens, cancels, drain | `MCAgentServe`, `AgentServe_proofs` |
| `Connector` | the agent's connections, its relays, probes and late writers, `Stop` | `MCConnector`, `Connector_proofs` |
| `RelayProcess` | start, migration, summaries, retention, shutdown, death and restart of the relay | `MCRelayProcess`, `RelayProcess_proofs` |
| `SummaryLog` | what the summaries promise: the abstract specification `RelayProcess` implements | instantiated by `RelayProcess` (as `Log`), proofs in `RelayProcess_proofs` |
| `AdminSession` | log-in limit, sessions, calls and the changes they make | `MCAdminSession`, `AdminSession_proofs` |
| `Certificates` | CA workspaces, issuing, exporting, the relay's and agent's use of the files | `MCCertificates`, `Certificates_proofs` |

The modules meet at named places: `Forward` and `AgentServe` share the agent's
`serveRequest` (the one has its response, the other its body and its token); the
connection that breaks and comes back in both is what `Connector` does; a node
that is registered in `NodeLifecycle` is `ready` in `Admission`; a request that
ends in `Admission` is recorded in `RelayProcess`.

Each module holds the mutated definitions used to test its properties, marked
`Mutant`; no specification refers to them.

### NodeLifecycle

A member of `Conn` is one accepted WebSocket and, since `handleConnect` makes one
`Node` object per socket, also that object and its handler goroutine. Every
lock region of the code is a step, every gap between two a place where others
run. `handler[c]` is the position of `handleConnect`: `hello` (upgraded),
`vetted` (certificate checked, 222), `recorded` (`EnsureCertMeta`, 233),
`registered` (`TryRegister`, 263), `handled` (`conns.put`, 276), `serving` (ack
sent, monitor started), `ending`, `teardown`, `unregistered`, `delisted`,
`closed`. `reg` is `Registry.nodes`, `conns` the handle table, `state` and `age`
belong to the object; `age` counts multiples of the heartbeat timeout (0 fresh,
1 suspect, 2 to be closed). `mon[c]` holds the monitor's local variables, since it
reads the age and the state in two lock regions and decides later. `adm[a]` is an
admin goroutine with the object and the handle it has read. `certs` and
`revoked` are the certificate table; it lives in the store, so the relay may start
with rows of its earlier runs, revoked ones included.

The agent's end is an environment: it sends heartbeats, leaves (`left`), vanishes
without a word (`silent`), reads its control messages and closes on `bye`.
`evicted`, `kicked` and `barred` are history variables that only properties read.

### Forward

One request that has been sent to the agent. `serve`, `made` and `canceled` are
the agent's `serveRequest`; `toRelay` is the socket; `headers`, `frames`, `done`
and `err` are the channels of `pendingRequest` (three of capacity 1, `frames` of
capacity `FrameCap`), filled by `DispatchControl` and `DispatchFrame` without
blocking, as the `select`/`default` of wss.go:406-479. A frame that finds no room takes
the three steps of wss.go:480-487: `DispatchOverflow` drops it, `OverflowCancel` writes
to the agent (up to 15 seconds), `OverflowReport` sends on `err`; `over` says how far
the read loop of each connection is with it, and the loop reads on only afterwards,
while `forwardResponse` runs all the time. The actions `CtxDone`, `TimedOut`, `TakeHeaders`, `TakeFrame`,
`TakeDone`, `TakeErr`, `DrainFrame`, `FinishDone` and `FinishErr` are the arms and
drain loops of `forwardResponse`. A write to the client fails only when it is gone;
to a client that is `stalled` (connected, not reading) it may go through or block
(`WriteBlocks`), and then it returns only when the client leaves (`BlockedFails`), since
the public `http.Server` has no `WriteTimeout` (http.go:35) and nothing else is looked
at meanwhile. Actions enabled together are the random choice
of `select`. `status`, `body` and `errorBody` are what the client sees, with
net/http's implicit 200. A chunk of the body is its number. `link` follows the
connection: `cut` when only the relay knows, `down` when the agent does, `resumed`
after the connector has registered the same node ID again, which is all
`pendingOwnedBy` asks for. `lost` records the chunks that never reached the channel.

### Admission

`pc[r]` is the position of `handleProxy` for request r. `acquire` is five steps
(`CheckQueue` reads `waiting`, `Enqueue` increments it, the semaphore, the timer,
the deferred decrement), `Select` a scan of the nodes one lock region each, `Pick`
the least loaded candidate, `Reserve` the second look at the limit. `Finish`
stands for everything from `pending.add` to the return of `forwardResponse`;
the deferred `Release` and the semaphore's release follow as steps. `ready[n]` sums
up Select's tests other than capacity and changes at any time, as do the limits.

### AgentServe

`st[r]` is where request r is: refused by `handleRequest`, or in `serveRequest`
(`assemble`, `local`, `stream`, `ending`) and its deferred function (`deleted`,
`over`). `active` is the table, `sem` the tokens of `localSem`, `bodyCh[r]` the queue
of 16, `body[r]` what `assembleBody` has. A frame is its number, so a dropped or lost
frame can be seen by a property; the code, like the model, does not look at the
numbers and compares only the length. `RouteBodyFrame` has the three cases of
`routeBodyFrame` (unknown request, room, full queue: drop and cancel); `TakeFrame`
may run although the context is cancelled, as `select` may choose it. `Break`,
`FrameLost` and `Reconnect` are the connection; `answers[r]` counts the `done` and
`error` messages that reached the relay. `cancelAll` is no action because it cancels
nothing: it looks requests up by the hash of a key that is a hash already.

### Connector

`pc` is the position of `Run` and of the `connectOnce` it is in, `idx` the relay in
hand, `link` the connection `c.conn` points to. `first` is the first message written
on it: the relay drops a connection that does not begin with `hello`, and whoever
survived the last connection (`LastWrite`) or probes (`PublishModels`) may be faster.
A list of models is its version: `ModelsForHello` copies it before `SendHello`,
`SetModels` stores it before `ReadModels` and `PublishModels` send it, and `known` is
what the relay of this connection has. The relays go down, up and refuse as they like,
and so do the certificate files (`files`), which `tlsConfig` reads anew for every dial:
`connectOnce` fails without them and tries again, `watchPrimary` returns for good
(`watch = "failed"`, connector.go:207), so that the agent then stays on a backup that
works. `MaxRequests` bounds the late writers, and with them how often a connection can
begin with something other than `hello`; probes can do it as often as they find a new
list.
`Stop` is three steps since it reads `c.conn` twice without a lock. The history
variables `late` and `overlap` mark the two cases the properties except: a dial that
succeeds after `Stop` has returned, and two probes at once.

### RelayProcess and SummaryLog

`phase` is the position of `cmd/relay`'s `run`: opening, migrating, attaching the
store, listening, serving, and the steps of the shutdown. `Restart` is possible
anywhere, so every pair of steps has a crash between them; what is in the database
(`schema`, `rows`) stays, the rest goes. The writer takes a summary from `ch` into
`hand` and writes it; `ring` is the ring buffer; `old` says how many rows are past the
cutoff, which time and a change of the number of days move. `outcome[r]` is the history
of a request's summary. `recordRequest` is two steps, `PushRequest` and `SubmitSummary`,
as `ring.push` and `submit` are under different locks (server.go:287-289): two requests
may enter the ring and the channel in opposite orders. An INSERT may fail (`failed`), or
meet a store that is closed (`closed`); the writer ignores both (requests.go:79, 85).
`Migrate` leaves the schema at v1 whether or not it was there: an error of reading the
version counts as 0 (store.go:52), and the statements, all `IF NOT EXISTS`, are then run
again and a second version row is added.

`SummaryLog` says what this amounts to: a request finishes once and is listed at once;
later its summary is submitted, that is queued or lost; the oldest one queued is written
or lost; rows go from the old end; a process that ends forgets its queue. Rows are in
the order of submission, the list in the order of finishing. `RelayProcess` implements
it under `finished <-` requests with an outcome, `waiting <-` those pushed and not
submitted, `queue <- hand \o ch`, `recent <- ring`
(`ImplementsSummaryLog`, checked by TLC as a property).

### AdminSession

`login[l]` is a log-in between the check of the limit and its result, `fails` the
count and the remaining time of the window per address, `sessions` the table,
`call[c]` an authenticated call between authorisation, change and audit row, with the
token whose session it has found; it looks at the table no more. `stale[t]` is history:
the changes made with token t after its session was removed or had expired. The audit
row is a step that may fail; rows are not kept. The address is the forwarded one behind a
trusted proxy and the peer's otherwise. Passwords are right or wrong by choice.

### Certificates

A certificate is who signed it, its key pair's number, its use and the identity it
names; a file holds nothing, half a file, a key or a certificate. An operation
(`CreateWorkspace`, `IssueAgent`, `IssueRelay`, `ExportRelay`, `ExportAgent`) fixes the
list of its writes, `WriteNext` makes the first of them, and `Interrupt` fails it,
before or in the middle, with or without the end of the manager. Both CA kinds are in
one directory, which is the case the code's legacy lookup is for. A CSR may name
anyone. The user points exports at any of the manager's files. That the CA directory, the output
directory and the directories exported to are different ones is an assumption of the
module: the code does not check it. `Accepts` is what TLS
and `certIdentityMatches` ask of an agent's certificate.

## Runs

`tlc -config X.cfg MC...`; states are distinct states.

| Run | Module | Instance | What it shows |
|---|---|---|---|
| `KickRevoke` | MCNodeLifecycle | 2 connections, 2 admins (kick, revoke), no ageing; 3.0 M states | registry and handles stay consistent and a revoked certificate cannot come back, in every interleaving of two handshakes and teardowns with two admin operations |
| `NodeLiveness` | MCNodeLifecycle | 1 connection, 1 admin (kick, drain), ages 0..2, fair; 19 k | a vanished agent leaves the registry; `bye` ends a connection |
| `Forwarding` | MCForward | 3 chunks, capacity 2, breaking link, both timers, a client that stalls or leaves, fair; 38 k | order, completeness, a hole is reported before the end, `forwardResponse` returns (unless blocked by its client), a cancelled agent stops |
| `Admission` | MCAdmission | 3 requests, 1 node, semaphore 2, queue 1, limits {1, 2}, fair; 102 k | the counters equal their holders, no overcommitment, every request ends |
| `Serving` | MCAgentServe | 2 requests, 1 token, bodies of 3 frames, queue of 1, fair; 502 k | whole bodies, exact tokens, one answer each, a drained agent is idle, every request ends |
| `Connecting` | MCConnector | 2 relays, 2 probes, 2 new lists of models, 1 late writer, certificate files that come and go, fair; 860 k | the relay in use knows the models, the agent returns to its primary (unless the watcher has failed), `Stop` ends `Run` |
| `AdminAPI` | MCAdminSession | 2 log-ins, 2 calls, a proxy and one client, a limit of 2 failures, a restart, fair; 136 k | bounded overshoot of the limit, lock-outs end, bounded changes of an ended session |
| `Process` | MCRelayProcess | 2 processes, 3 requests, channel of 1, ring of 2, fair; 178 k | the refinement of `SummaryLog`, retention, a shutdown that ends and offers the open store all it accepted |
| `Certs` | MCCertificates | 2 nodes, 1 agent directory, 4 key pairs, 1 interrupted operation; 2.0 M | matching CA files, CA keys stay, deployed certificates work |
| `RevokeGap`, `DrainLost`, `FrameHole` | | | expected violations, see [below](#where-code-and-text-disagree) |

Why these bounds are enough to meet the hard cases:

- *Connections.* All conflicts are about one node ID, so one ID and one
  certificate; two connections are an old one and its successor, which is what
  every comparison of objects in the code (`RemoveIfSame`, `delIf`) is about. Two
  admins are two operations that overlap. `MaxAge` 2 reaches both thresholds of
  the monitor; the product of ageing with two admins is too large, so
  `KickRevoke` has no ageing and `NodeLiveness` one connection. A certificate's row is
  never deleted, and a connection never reopens: a longer history is more members of
  `Conn`, which the proofs cover, ageing included.
- *Forwarding.* Three chunks and a channel of two: one overflow, and a chunk on
  either side of it. The request's deadline (`HasDeadline`) is off in this run,
  since with it `forwardResponse` would return whatever the timers do; `ctx.Done`
  is reached by the client's leaving, for good or after it has stopped reading.
- *Admission.* Three requests, of which two fit into the semaphore and one into
  the queue, and limits below, at and (after a change) under the number in use.
- *Serving.* Two requests for one token, so one is refused while the other runs and
  may follow it; three frames for a queue of one, so a frame is dropped with one
  before and one after it; any number of breaks, reconnects and drains.
- *Connecting.* Two relays are a primary and a backup; a second backup adds no new
  comparison. The files become unreadable and readable any number of times, before and
  while the watcher ticks. Two probes are the loop's and one asked for; two new lists are an older
  and a newer one in flight.
- *AdminAPI.* Two log-ins pass the check together; a limit of 2 is reached by both; a
  window of two ticks can be prolonged half way. Two calls find the one session and are
  overtaken by its end; a third change would break the bound. One token suffices since
  tokens never interact; the proof has any number.
- *Process.* Two processes give one crash or exit at any point and a successor that
  finds what it left; three requests against a channel of one and a ring of two give a
  summary written, one in hand, one queued or dropped, and one pushed out of the ring.
- *Certs.* Four pairs are both CAs, one that was cut short and a relay's; one
  interruption at any write. More are covered by the proofs.

Deadlock is checked wherever the system cannot come to rest: in `KickRevoke` and
`NodeLiveness` an admin may always ask again, in `Admission` requests keep arriving, in
`Serving` the connection comes and goes, `Connecting` has an explicit last state, and
the others have operations that are always possible. `Forwarding` and `Process` end
legitimately (the response returned, the last process over) and say
`CHECK_DEADLOCK FALSE`.

## Fairness

- *NodeLifecycle.* A goroutine that can run does (Go's scheduler); time passes
  unless a heartbeat resets it; an agent that is up reads its socket.
  `StopMonitor` is strongly fair: the monitor's `select` picks at random among a
  tick and the closed stop channel. Nobody is obliged to connect, disconnect,
  send a heartbeat or use the admin API.
- *Forward.* Both read loops and `forwardResponse` run when they can. A write to an
  agent has a deadline, so it returns; a write to the client need not, which is the
  state `blocked`, and `ForwardReturns` excepts a response that stays there because its
  client neither reads nor leaves. An armed timer runs out; the agent's HTTP client returns once its context is cancelled
  (`http.NewRequestWithContext`). Nothing obliges the local model to answer, the
  client to leave, or the agent to reconnect.
- *Admission.* A request's goroutine runs, the deadline of `WaitForNode` passes,
  and `forwardResponse` returns, which is `ForwardReturns` of `Forward` and needs
  one of the time-outs to be configured and a client that reads or leaves.
- *AgentServe.* Each `serveRequest` goes on: `assembleBody` has a timer of 30 seconds
  and the local HTTP client a timeout. Nothing is assumed of the relay, the frames or
  the connection.
- *Connector.* `Run`, `Stop`, the probes and late writers go on, `watchPrimary` ticks, a
  read from a connection that is gone returns. Nothing is assumed of the relays or
  the files; `BackToPrimary` asks for a primary that stays up and files that stay
  readable, and excepts a watcher that has failed before.
- *AdminSession.* Time passes, handlers go on; nobody has to log in or stop trying.
- *RelayProcess.* The steps of `run` and of its goroutines follow, the hourly ticker
  ticks, and pruning does not fail for ever (an error of `PruneAudit` skips the
  summaries, server.go:266). Nobody has to end the process.

## Proofs

`tlapm M.tla` checks them; all hold for every value of the constants that
satisfies the named assumptions. Every invariant, action property and refinement
that a passing run checks is also a theorem; the liveness properties are not. The
type invariants of all modules are proved; those of `NodeLifecycle`, `Admission`,
`AgentServe`, `Connector` and `Certificates` say nothing beyond types and are not run.
Every inductive invariant was checked with TLC before it was proved, on instances
the size of the runs.

**`Forward_proofs`**, from `BoundAssumption` and `SwitchAssumption`: `TypeCorrect`
(`TypeOK`), `InOrder` (`BodyInOrder`), `AllDelivered` (`NothingProducedIsDropped`),
`HoleReported` (`HoleIsReported`).

What the client has says nothing about what is still coming, so `IInv` describes the
whole way of a chunk. `Line` is the connection: perhaps the headers, then the chunks
produced last without a gap, then perhaps the end, after which the agent writes
nothing. `Ordered` says that body, channel and connection hold chunks in that order;
this survives losses, since a lost chunk is passed by and never comes back, and a
reconnection, since the old connection's frames are gone. `NoGap` counts: if nothing
was lost, body, channel and connection together are all that was made. `EndIsLast`
says that when `done` is waiting the connection is empty, so the drain loop finds the
rest in the channel; for `err` that holds unless it was raised by an overflow, in
which case something is lost. `ReportComes` is about a hole while the connection is up:
as long as the report is still to come no `done` is there, since the loop that owes it
reads nothing behind the dropped frame; once it has come, `err` waits until `select`
takes it. So a `done` behind a hole never comes without the error. `Complete` keeps the result after `forwardResponse`
has returned, when the channel may still be filled.

**`NodeLifecycle_proofs`**, from `CertAssumption` (each certificate names a node, each
connection presents one), `NoConnAssumption`: `TypeCorrect`; `RegistryLive`
(`RegistryEntryIsLive`), `RegistryComplete` (`HandledIsRegistered`), `RegistryUsable`
(`RegisteredIsNotOffline`); `HandlesCorrect` (`ServedHasHandle`);
`RevocationBarsReconnect` (`RevokedCannotReconnect`).

The inductive invariant `IInv` is their conjunction with two strengthenings. The
registry facts lean on each other: a teardown removes only its own object, so the
successor stays registered; that there is only one candidate needs
`RegisteredIsNotOffline`, because `TryRegister` replaces an offline entry. That in
turn needs to know that `KickNode` marks an object offline only after it has left
the registry for good, although other goroutines run between the two: `AdminKnows`
says what an admin goroutine's local variables still mean at each position (the
object belongs to the ID and has passed `TryRegister`, so it cannot be registered a
second time). `HistoryOK` ties the history variables to the state: a connection
opened after the revocation is stuck before the check or closed.

**`Admission_proofs`**, from `RequestAssumption` (finitely many requests),
`LimitAssumption`, `NoNodeAssumption`: `TypeCorrect`; `WaitingExact`, `SlotsExact`,
`ActiveExact`; `NeverOvercommitted` (`NoOvercommit`).

`IInv` adds only `NodeKnown` (a request past `Pick` knows its node). The work is in
counting: `Count` says what one request's move does to the cardinality of a set of
positions, `WaitingStep`, `SlotStep` and `UserStep` turn that into the three
counters. `NeverOvercommitted` follows step by step: the number in use grows only
in `Reserve`, where it is below the current limit.

**`AgentServe_proofs`**, from `RequestAssumption` and `CapacityAssumption`:
`TypeCorrect`; `WholeBody` (`LocalGetsTheWholeBody`), `TokensExact`, `DrainedIdle`,
`AnsweredOnce` (`OneAnswer`).

`WholeBody` rests on `BodyIsSent`: the frames in a request's body and queue are never
more than were sent, and if they are as many, they are all of them in order; a body
of the declared length leaves room for nothing missing. `DrainedIdle` needs that a
drain has set `draining` (`DrainIsSet`), `AnsweredOnce` that a request not at its end
has no answer yet (`NoAnswerYet`) and that a connection that never broke is up. All
moves of a request share one lemma, `Move`, about what a step does to token, table
and answer.

**`Connector_proofs`**, from `RelaysAssumption`, `SwitchAssumption`, `BoundAssumption`:
`TypeCorrect`, with `InHand` (while `connectOnce` works, its relay exists) as the
strengthening; `ModelsKnown` (`ModelsAreKnown`).

For the second, `MInv` follows the list of models from the probe to the relay.
`HelloIsCurrent`: the hello that `connectOnce` has read and not sent is the current
list, unless a probe has found another meanwhile; then that probe is still to publish,
or has written to this connection first. `KnownSinceHello`: once hello was sent, the
relay has the list whenever no probe is at work. `OneProbe` is why the proviso
(`overlap`) is needed: with one probe at a time what it publishes is what it has set.

**`RelayProcess_proofs`**, from `SizeAssumption`: `TypeCorrect` (`TypeOK`), `WritesAll`
(`ShutdownWritesAll`), `Refinement` (`ImplementsSummaryLog`), `OneRow` and
`ProcessOneRow` (`Log!AtMostOneRow`).

`WriterHasQueued` says that a request counts as queued exactly while the writer, not
yet done, has it in hand or in its channel; so a writer that ends with both empty leaves
nothing queued. `StoreOrder` says that the store is open as long as a writer that the
shutdown has stopped is not done, and `ClosedByError` that a summary meets a closed store
only after an error, after which nobody stops the writer. For the refinement the log's
queue is the hand followed by the channel: taking a summary is a stutter, writing it
(or failing to) is `Persist`, the end of a process `Forget`; `PushIsFinish`,
`SubmitIsSubmit`, `WriteIsPersist`, `PruneIsPrune`, `RestartIsForget` and `TakeIsStutter`
show one each. `OneRow` is a consequence of the abstract specification alone: rows, queue
and requests still to be submitted are finished ones, each in one place (`OnlyOnce`).
The two together give `ProcessOneRow`, about the process.

**`AdminSession_proofs`**, from `SetAssumption`, `LimitAssumption`, `BoundAssumption`:
`TypeCorrect` (`TypeOK`), `FailuresBounded` (`FailuresAreBounded`), `StaleActsBounded`
(`StaleActsAreBounded`).

The bound on failures is not inductive: nothing in it says that a locked address
cannot have many log-ins still to fail. `LockedIsFull` does: the failures of a locked
address and the log-ins under way for it are together within the bound. A failure
moves one from the latter to the former; none can join while the address is locked;
when the lock-out is over the next failure starts again at one, with at most all
other log-ins under way. `InvalidIsFull` is the same idea for sessions: the changes
made with a token that is no longer valid and the calls that hold it are together no more
than there are calls. When a session ends nothing stale has been done with it
(`ValidIsClean`), a change moves one call from the latter to the former, and no call can
join, because the token is never given out again (`UnusedIsClean`).

**`Certificates_proofs`**, from `CertificateBounds`: `TypeCorrect`; `PairMatches`
(`CAPairMatches`), `OpenOnDisk` (`OpenIsOnDisk`), `KeyStays` (`CAKeyStays`),
`AgentAccepted` (`DeployedAgentIsAccepted`). One invariant carries all: `OpForm` says
what a running operation may still write (the files of a CA whose key file does not
exist, or plain content elsewhere), `CAOnDisk` that a complete CA key is beside its
certificate, and `Outside` that everything outside the CA directory is plain: no
CA's key, and agent certificates signed by the agent CA that is on disk. That last
part is stable because a complete agent CA key is never replaced, which is what the
order of `CreateWorkspace`'s check and writes is for.

Only model-checked: the liveness properties (`VanishedAgentIsUnregistered`,
`ByeEndsTheConnection`, `ForwardReturns`, `CancelStopsAgent`, `EveryRequestEnds`,
`AcceptedEnds`, `BackToPrimary`, `StopEndsRun`, `LockoutEnds`, `OldRowsArePruned`,
`ShutdownEnds`). They need fairness and `ENABLED`, which the installed prover does not
do. The proofs use the safety part `Spec`; the runs' `FairSpec` implies it.

## Where code and text disagree

Each is a run that TLC must find violated, with the quoted text in
`PROJECT.json`.

- `RevokeGap` (`RevokedIsCut`): a certificate revoked between the handshake's check
  and `TryRegister` is served; nobody kicks it, since it was not registered yet.
- `DrainLost` (`DrainedIsNotScheduled`): the monitor turns a draining node suspect,
  and its next heartbeat turns it online; it is scheduled again.
- `FrameHole` (`SuccessIsComplete`): a dropped frame raises `err`, but `done` may be
  ready too, and `select` may take it: success with a hole in the body.

Two more promises of the repository that the code does not keep, shown by the models
but by no run of their own:

- docs/newapi.md:47 ("客户端取消 | 499，Agent 取消本地生成并释放并发"), newapi.md:68 and the
  comment of the test at internal/e2e/e2e_cancel_test.go:14 say of every client that
  leaves that the agent stops generating. A write to the client that fails before
  `select` sees `ctx.Done` returns without a `Cancel` (proxy.go:273, 292, 317), and the
  agent generates on. `CancelStopsAgent` excepts exactly these returns (`unwritten`);
  without the exception `Forwarding` violates it.
- webui/static/app.js:262 ("将强制断开该节点连接并移除注册。") promises that a kick cuts the
  connection. One between `TryRegister` and `conns.put` finds no handle, so it sends no
  `bye`, and the connection serves on outside the registry (wss.go:525).
  `HandledIsRegistered` excepts it (`evicted`).

Met on the way and left as hazards or notes:

- `select` may take a frame or `done` before the headers: the client gets an implicit
  200 without the agent's content type (proxy.go:286). Frames drained after an
  early `err` are followed by the error document in the same body (316). A client that
  stays connected and does not read keeps its request's slots for ever, as no write to
  it has a limit (http.go:35, proxy.go:273).
- Requests that pass the queue check together overshoot `queue_length` (proxy.go:339).
- `cancelAll` finds no request, so requests survive a lost connection and a drain's
  grace period (agent.go:355); `draining` is never reset, so a drained agent that
  reconnects is shown online and refuses what it is sent (agent.go:370).
- Two probes at once may publish the older list last (probe.go:105). `watchPrimary`
  takes a dial for a working primary and leaves a working backup for one that refuses
  `hello`, at every tick (connector.go:215); it ends for good if the certificate files
  cannot be read at one tick (207). The back-off is never reset after a
  success. A dial that succeeds after `Stop` keeps `Run` going until the relay closes.
- The role of an admin is checked by method (admin.go:301): a read-only session cannot
  log out, and a GET to `certs/revoke` or `settings/retention` is not refused to it
  although these change state, against the comment there. The model allows both; no
  property states the role's meaning. Expired sessions stay in the table until they are
  presented. A change may be without its audit row (441).
- An error from a server makes `run` return with the writer running: its next summary
  meets a closed store (cmd/relay). An INSERT that fails is ignored (requests.go:79), an
  unreadable schema version is taken for 0 (store.go:52).
- A CA key cut short is a file that exists and does not parse, so that
  `CreateWorkspace` and `OpenWorkspace` both refuse until it is removed by hand
  (certmgr/files.go:14).

## Plan

Done: `NodeLifecycle`, `Forward`, `Admission`, `AgentServe`, `Connector`, `RelayProcess`
with `SummaryLog`, `AdminSession`, `Certificates`, and the proofs above, which cover
every safety property of the runs. Left, in this order:

1. The safety half of the liveness properties as theorems, where it says more than
   the invariants do: a lock-out that no log-in under way prolongs only gets shorter
   (`LockoutEnds`), a phase of the shutdown is never left backwards (`ShutdownEnds`).
2. `Forward` behind an abstract specification of a response (a prefix of what was
   produced, then an end), with the refinement proved from `IInv`.

## What is not modelled

- The views of the admin API, the public HTTP routing and the API key check: they
  read and change nothing.
- Wire formats: frame header, JSON, error codes to status codes, path white list.
  Tables and fixed layouts without state; messages are records in the modules.
- Configuration: parsed and validated once; its values are the constants.
- The local model's HTTP exchange, TLS and X.509 beyond who signed what for whom.
- Statistics, logs and audit rows that nothing acts on; users and passwords.
- The order of the relay's shutdown with respect to open connections: they are cut
  when the process ends.
- The window of the certificate manager and the web pages; inspection and the client
  bundle of the certificate manager, which read or copy files.
