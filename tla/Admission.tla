----------------------------- MODULE Admission -----------------------------
(***************************************************************************)
(* Admission of proxied requests: the counters and semaphores that         *)
(* handleProxy takes and gives back.  acquire (a waiting counter read and  *)
(* then incremented, and a global semaphore), Scheduler.WaitForNode and    *)
(* Select (which look at one node after the other), Node.Reserve and       *)
(* Release, and the admin's SetMaxConcurrency.                             *)
(*                                                                         *)
(* A member of Node is a Node object; ready[n] says that Select's tests    *)
(* other than capacity hold for it (registered, online or degraded, serves *)
(* the model).  What happens between Reserve and Release is module         *)
(* Forward.                                                                *)
(***************************************************************************)
EXTENDS Naturals, FiniteSets

CONSTANTS Request,         \* goroutines serving HTTP requests
          Node,            \* Node objects
          NoNode,          \* Go's nil for *Node
          MaxConcurrency,  \* capacity of Server.sem
          QueueLength,     \* limits.queue_length
          Limits           \* the values an admin gives a node's max_concurrency

ASSUME RequestAssumption == IsFiniteSet(Request)
ASSUME LimitAssumption == /\ MaxConcurrency \in Nat \ {0}
                          /\ QueueLength \in Nat
                          /\ Limits \subseteq Nat \ {0}
                          /\ Limits # {}
ASSUME NoNodeAssumption == NoNode \notin Node

VARIABLES pc,       \* pc[r]: where handleProxy is for request r
          late,     \* late[r]: WaitForNode's deadline has passed
          todo,     \* todo[r]: snapshots Select has not looked at yet
          cand,     \* cand[r]: its candidates so far
          node,     \* node[r]: the node it selected
          waiting,  \* Server.waiting
          sem,      \* len(Server.sem)
          active,   \* Node.Active
          max,      \* Node.Limits.MaxConcurrency
          ready     \* see above

vars == <<pc, late, todo, cand, node, waiting, sem, active, max, ready>>

Queued == {"queued", "granted", "refused"}
Holding == {"select", "scan", "busy", "reserve", "running", "unreserve", "release"}
Reserved == {"running", "unreserve"}
Position == {"idle", "check", "enqueue"} \cup Queued \cup Holding

Init == /\ pc = [r \in Request |-> "idle"]
        /\ late = [r \in Request |-> FALSE]
        /\ todo = [r \in Request |-> {}]
        /\ cand = [r \in Request |-> {}]
        /\ node = [r \in Request |-> NoNode]
        /\ waiting = 0
        /\ sem = 0
        /\ active = [n \in Node |-> 0]
        /\ max \in [Node -> Limits]
        /\ ready \in [Node -> BOOLEAN]

Goto(r, at) == pc' = [pc EXCEPT ![r] = at]
scanVars == <<late, todo, cand>>
nodeVars == <<active, max, ready>>

-----------------------------------------------------------------------------
(***************************************************************************)
(* acquire.                                                                *)
(***************************************************************************)
Arrive(r) == /\ pc[r] = "idle"
             /\ Goto(r, "check")
             /\ UNCHANGED <<scanVars, node, waiting, sem, nodeVars>>

\* waiting.Load() >= QueueLength: errQueueFull.
CheckQueue(r) == /\ pc[r] = "check"
                 /\ Goto(r, IF waiting >= QueueLength THEN "idle" ELSE "enqueue")
                 /\ UNCHANGED <<scanVars, node, waiting, sem, nodeVars>>

\* waiting.Add(1), on the strength of the value read before.
Enqueue(r) == /\ pc[r] = "enqueue"
              /\ waiting' = waiting + 1
              /\ Goto(r, "queued")
              /\ UNCHANGED <<scanVars, node, sem, nodeVars>>

\* s.sem <- struct{}{}.
TakeSlot(r) == /\ pc[r] = "queued"
               /\ sem < MaxConcurrency
               /\ sem' = sem + 1
               /\ Goto(r, "granted")
               /\ UNCHANGED <<scanVars, node, waiting, nodeVars>>

\* The queue timer, or the request's context, ends the wait.
QueueTimeout(r) == /\ pc[r] = "queued"
                   /\ Goto(r, "refused")
                   /\ UNCHANGED <<scanVars, node, waiting, sem, nodeVars>>

\* Mutant: a request that timed out stays in the waiting counter.
LeaveQueueGranted(r) == /\ pc[r] \in {"granted", "refused"}
                        /\ waiting' = IF pc[r] = "granted" THEN waiting - 1 ELSE waiting
                        /\ Goto(r, IF pc[r] = "granted" THEN "select" ELSE "idle")
                        /\ UNCHANGED <<scanVars, node, sem, nodeVars>>

\* The deferred waiting.Add(-1).
LeaveQueue(r) == /\ pc[r] \in {"granted", "refused"}
                 /\ waiting' = waiting - 1
                 /\ Goto(r, IF pc[r] = "granted" THEN "select" ELSE "idle")
                 /\ UNCHANGED <<scanVars, node, sem, nodeVars>>

-----------------------------------------------------------------------------
(***************************************************************************)
(* WaitForNode and Select.                                                 *)
(***************************************************************************)
\* Registry.List, filtered by what the snapshots say.
Select(r) == /\ pc[r] = "select"
             /\ todo' = [todo EXCEPT ![r] = {n \in Node : ready[n]}]
             /\ cand' = [cand EXCEPT ![r] = {}]
             /\ Goto(r, "scan")
             /\ UNCHANGED <<late, node, waiting, sem, nodeVars>>

\* HasCapacity of one node, under that node's lock.
Scan(r, n) == /\ pc[r] = "scan"
              /\ n \in todo[r]
              /\ todo' = [todo EXCEPT ![r] = @ \ {n}]
              /\ cand' = [cand EXCEPT ![r] = IF active[n] < max[n] THEN @ \cup {n} ELSE @]
              /\ UNCHANGED <<pc, late, node, waiting, sem, nodeVars>>

\* load(a) <= load(b), multiplied out.
NoMoreLoaded(a, b) == active[a] * max[b] <= active[b] * max[a]

\* The least loaded candidate.
Pick(r, n) == /\ pc[r] = "scan" /\ todo[r] = {}
              /\ n \in cand[r]
              /\ \A m \in cand[r] : NoMoreLoaded(n, m)
              /\ node' = [node EXCEPT ![r] = n]
              /\ Goto(r, "reserve")
              /\ UNCHANGED <<scanVars, waiting, sem, nodeVars>>

\* classifyNoNode: ErrAllNodesBusy makes WaitForNode try again.  It is returned as
\* soon as some node is online and some registered node has the model; the other
\* errors need that no ready node exists.
AllNodesBusy(r) == /\ pc[r] = "scan" /\ todo[r] = {} /\ cand[r] = {}
                   /\ Goto(r, "busy")
                   /\ UNCHANGED <<scanVars, node, waiting, sem, nodeVars>>
NoNodeOnline(r) == /\ pc[r] = "scan" /\ todo[r] = {} /\ cand[r] = {}
                   /\ \A n \in Node : ~ready[n]
                   /\ Goto(r, "release")
                   /\ UNCHANGED <<scanVars, node, waiting, sem, nodeVars>>

\* Mutant: WaitForNode polls without a deadline.
PollAgainForEver(r) == /\ pc[r] = "busy"
                       /\ Goto(r, "select")
                       /\ UNCHANGED <<scanVars, node, waiting, sem, nodeVars>>

\* Wait 50 ms and select again; give up once the deadline has passed.
PollAgain(r) == /\ pc[r] = "busy"
                /\ Goto(r, IF late[r] THEN "release" ELSE "select")
                /\ UNCHANGED <<scanVars, node, waiting, sem, nodeVars>>

\* case <-ctx.Done().
PollCanceled(r) == /\ pc[r] = "busy"
                   /\ Goto(r, "release")
                   /\ UNCHANGED <<scanVars, node, waiting, sem, nodeVars>>

Deadline(r) == /\ pc[r] \in {"select", "scan", "busy"}
               /\ ~late[r]
               /\ late' = [late EXCEPT ![r] = TRUE]
               /\ UNCHANGED <<pc, todo, cand, node, waiting, sem, nodeVars>>

-----------------------------------------------------------------------------
(***************************************************************************)
(* Reserve, Release and the deferred calls of handleProxy.                 *)
(***************************************************************************)
\* Mutant: Reserve trusts the capacity that Select saw.
ReserveBlindly(r) == /\ pc[r] = "reserve"
                     /\ active' = [active EXCEPT ![node[r]] = @ + 1]
                     /\ Goto(r, "running")
                     /\ UNCHANGED <<scanVars, node, waiting, sem, max, ready>>

\* Mutant: Release is deferred before Reserve is known to have succeeded.
ReserveDeferredEarly(r) == LET n == node[r] IN
    /\ pc[r] = "reserve"
    /\ active' = [active EXCEPT ![n] = IF @ < max[n] THEN @ + 1 ELSE @]
    /\ Goto(r, IF active[n] < max[n] THEN "running" ELSE "unreserve")
    /\ UNCHANGED <<scanVars, node, waiting, sem, max, ready>>

\* The node may have filled up since Select: then the request fails (503).
Reserve(r) == LET n == node[r] IN
    /\ pc[r] = "reserve"
    /\ active' = [active EXCEPT ![n] = IF @ < max[n] THEN @ + 1 ELSE @]
    /\ Goto(r, IF active[n] < max[n] THEN "running" ELSE "release")
    /\ UNCHANGED <<scanVars, node, waiting, sem, max, ready>>

\* Sending to the node fails, or forwardResponse returns: pending is removed.
Finish(r) == /\ pc[r] = "running"
             /\ Goto(r, "unreserve")
             /\ UNCHANGED <<scanVars, node, waiting, sem, nodeVars>>

\* Node.Release.
Release(r) == /\ pc[r] = "unreserve"
              /\ active' = [active EXCEPT ![node[r]] = IF @ > 0 THEN @ - 1 ELSE @]
              /\ Goto(r, "release")
              /\ UNCHANGED <<scanVars, node, waiting, sem, max, ready>>

\* Mutant: the semaphore is given back only by requests that got a node.
ReleaseSlotIfServed(r) == /\ pc[r] = "release"
                          /\ sem' = IF node[r] # NoNode THEN sem - 1 ELSE sem
                          /\ Goto(r, "idle")
                          /\ node' = [node EXCEPT ![r] = NoNode]
                          /\ late' = [late EXCEPT ![r] = FALSE]
                          /\ UNCHANGED <<todo, cand, waiting, nodeVars>>

\* The func() { <-s.sem } that acquire returned.
ReleaseSlot(r) == /\ pc[r] = "release"
                  /\ sem' = sem - 1
                  /\ Goto(r, "idle")
                  /\ node' = [node EXCEPT ![r] = NoNode]
                  /\ late' = [late EXCEPT ![r] = FALSE]
                  /\ UNCHANGED <<todo, cand, waiting, nodeVars>>

-----------------------------------------------------------------------------
(***************************************************************************)
(* Others: the admin changes a limit, a node comes or goes.                *)
(***************************************************************************)
SetMaxConcurrency(n, v) == /\ max' = [max EXCEPT ![n] = v]
                           /\ UNCHANGED <<pc, scanVars, node, waiting, sem, active, ready>>

NodeChanges(n) == /\ ready' = [ready EXCEPT ![n] = ~@]
                  /\ UNCHANGED <<pc, scanVars, node, waiting, sem, active, max>>

Acquire(r) == \/ CheckQueue(r) \/ Enqueue(r) \/ TakeSlot(r) \/ QueueTimeout(r) \/ LeaveQueue(r)
WaitForNode(r) == \/ Select(r) \/ AllNodesBusy(r) \/ NoNodeOnline(r)
                  \/ PollAgain(r) \/ PollCanceled(r)
                  \/ \E n \in Node : Scan(r, n) \/ Pick(r, n)
HandleProxy(r) == \/ Acquire(r) \/ WaitForNode(r)
                  \/ Reserve(r) \/ Finish(r) \/ Release(r) \/ ReleaseSlot(r)
Next == \/ \E r \in Request : Arrive(r) \/ HandleProxy(r) \/ Deadline(r)
        \/ \E n \in Node : NodeChanges(n) \/ \E v \in Limits : SetMaxConcurrency(n, v)

Spec == Init /\ [][Next]_vars

(***************************************************************************)
(* Fairness: a request's goroutine runs, its timers run out, and (by       *)
(* Forward's ForwardReturns) forwardResponse returns.                      *)
(***************************************************************************)
FairSpec == Spec /\ \A r \in Request : WF_vars(HandleProxy(r)) /\ WF_vars(Deadline(r))

-----------------------------------------------------------------------------
(***************************************************************************)
(* Properties.                                                             *)
(***************************************************************************)
At(S) == {r \in Request : pc[r] \in S}
Users(n) == {r \in Request : pc[r] \in Reserved /\ node[r] = n}

\* Type invariant.
TypeOK == /\ pc \in [Request -> Position]
          /\ late \in [Request -> BOOLEAN]
          /\ todo \in [Request -> SUBSET Node]
          /\ cand \in [Request -> SUBSET Node]
          /\ node \in [Request -> Node \cup {NoNode}]
          /\ waiting \in Nat
          /\ sem \in 0..MaxConcurrency
          /\ active \in [Node -> Nat]
          /\ max \in [Node -> Limits]
          /\ ready \in [Node -> BOOLEAN]

\* Server.waiting counts exactly the requests in the queue, on every way out of
\* acquire: nothing leaks that would make the relay answer 429 for ever.
WaitingIsExact == waiting = Cardinality(At(Queued))

\* Server.sem counts exactly the requests that were granted a slot and have not
\* given it back, whichever return of handleProxy they took.
SlotsAreExact == sem = Cardinality(At({"granted"} \cup Holding))

\* Node.Active counts exactly the requests that reserved this object: a failed
\* Reserve is never released, and Release's guard against going below zero never
\* hides a surplus release.
ActiveIsExact == \A n \in Node : active[n] = Cardinality(Users(n))

\* No request enters a node that serves as many as its limit of that moment allows, however
\* many of them Select sent its way at once; a lowered limit leaves the running ones alone.
NoOvercommit ==
    [][\A n \in Node : Cardinality(Users(n)') > Cardinality(Users(n))
                          => Cardinality(Users(n)') <= max[n]]_vars

\* Every request is answered, also one that polls for a node that stays busy.
EveryRequestEnds == \A r \in Request : (pc[r] = "check") ~> (pc[r] = "idle")

=============================================================================
