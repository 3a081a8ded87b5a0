-------------------------- MODULE Admission_proofs -------------------------
(***************************************************************************)
(* Proofs about Admission, for any finite set of requests, any nodes and   *)
(* any limits.                                                             *)
(***************************************************************************)
EXTENDS Admission, FiniteSetTheorems, TLAPS

\* Strengthening: from Pick to Release a request knows its node.
NodeKnown == \A r \in Request : pc[r] \in {"reserve"} \cup Reserved => node[r] \in Node

IInv == TypeOK /\ WaitingIsExact /\ SlotsAreExact /\ ActiveIsExact /\ NodeKnown

USE RequestAssumption, LimitAssumption, NoNodeAssumption
USE DEF Goto, scanVars, nodeVars

-----------------------------------------------------------------------------
\* Counting lemmas: one request moves from pc[r] to x.

\* What the move does to the number of requests at the positions of S.
LEMMA Count ==
    ASSUME TypeOK, NEW r \in Request, NEW x, Goto(r, x), NEW S
    PROVE  /\ Cardinality(At(S)) \in Nat
           /\ (pc[r] \in S <=> x \in S) => Cardinality(At(S)') = Cardinality(At(S))
           /\ pc[r] \notin S /\ x \in S => Cardinality(At(S)') = Cardinality(At(S)) + 1
           /\ pc[r] \in S /\ x \notin S => /\ Cardinality(At(S)) > 0
                                           /\ Cardinality(At(S)') = Cardinality(At(S)) - 1
  <1>1. IsFiniteSet(At(S)) /\ Cardinality(At(S)) \in Nat
    BY FS_Subset, FS_CardinalityType DEF At
  <1>2. \A q \in Request : pc'[q] = IF q = r THEN x ELSE pc[q]
    BY DEF TypeOK
  <1>3. ASSUME pc[r] \in S <=> x \in S
        PROVE  Cardinality(At(S)') = Cardinality(At(S))
    <2>1. At(S)' = At(S)
      BY <1>2, <1>3 DEF At
    <2> QED  BY <2>1
  <1>4. ASSUME pc[r] \notin S, x \in S
        PROVE  Cardinality(At(S)') = Cardinality(At(S)) + 1
    <2>1. At(S)' = At(S) \cup {r} /\ r \notin At(S)
      BY <1>2, <1>4 DEF At
    <2> QED  BY <2>1, <1>1, FS_AddElement
  <1>5. ASSUME pc[r] \in S, x \notin S
        PROVE  Cardinality(At(S)) > 0 /\ Cardinality(At(S)') = Cardinality(At(S)) - 1
    <2>1. At(S)' = At(S) \ {r} /\ r \in At(S)
      BY <1>2, <1>5 DEF At
    <2>2. Cardinality(At(S)) # 0
      BY <2>1, <1>1, FS_EmptySet
    <2>3. Cardinality(At(S)') = Cardinality(At(S)) - 1
      <3>1. Cardinality(At(S) \ {r}) = Cardinality(At(S)) - 1
        BY <2>1, <1>1, FS_RemoveElement, Zenon
      <3> QED  BY <2>1, <3>1
    <2> QED  BY <2>2, <2>3, <1>1
  <1> QED  BY <1>1, <1>3, <1>4, <1>5

\* Server.waiting follows the moves into and out of the queue.
LEMMA WaitingStep ==
    ASSUME TypeOK, WaitingIsExact, NEW r \in Request, NEW x, Goto(r, x),
           \/ (pc[r] \in Queued <=> x \in Queued) /\ waiting' = waiting
           \/ pc[r] \notin Queued /\ x \in Queued /\ waiting' = waiting + 1
           \/ pc[r] \in Queued /\ x \notin Queued /\ waiting' = waiting - 1
    PROVE  WaitingIsExact' /\ waiting' \in Nat
  <1> DEFINE old == Cardinality(At(Queued))
             new == Cardinality(At(Queued)')
  <1>1. /\ old \in Nat
        /\ (pc[r] \in Queued <=> x \in Queued) => new = old
        /\ pc[r] \notin Queued /\ x \in Queued => new = old + 1
        /\ pc[r] \in Queued /\ x \notin Queued => old > 0 /\ new = old - 1
    BY Count
  <1>2. waiting = old /\ (waiting' = new => WaitingIsExact')
    BY DEF WaitingIsExact
  <1> HIDE DEF old, new
  <1> QED  BY <1>1, <1>2

Slots == {"granted"} \cup Holding

\* Server.sem follows the moves into and out of the positions that own a slot.
LEMMA SlotStep ==
    ASSUME TypeOK, SlotsAreExact, NEW r \in Request, NEW x, Goto(r, x),
           \/ (pc[r] \in Slots <=> x \in Slots) /\ sem' = sem
           \/ pc[r] \notin Slots /\ x \in Slots /\ sem < MaxConcurrency /\ sem' = sem + 1
           \/ pc[r] \in Slots /\ x \notin Slots /\ sem' = sem - 1
    PROVE  SlotsAreExact' /\ sem' \in 0..MaxConcurrency
  <1> DEFINE old == Cardinality(At(Slots))
             new == Cardinality(At(Slots)')
  <1>1. /\ old \in Nat
        /\ (pc[r] \in Slots <=> x \in Slots) => new = old
        /\ pc[r] \notin Slots /\ x \in Slots => new = old + 1
        /\ pc[r] \in Slots /\ x \notin Slots => old > 0 /\ new = old - 1
    BY Count
  <1>2. sem = old /\ (sem' = new => SlotsAreExact')
    BY DEF SlotsAreExact, Slots
  <1>3. sem \in 0..MaxConcurrency
    BY DEF TypeOK
  <1> HIDE DEF old, new
  <1> QED  BY <1>1, <1>2, <1>3

\* Node.Active follows Reserve and Release, and nothing else changes it.
LEMMA UserStep ==
    ASSUME IInv, NEW r \in Request, NEW x, Goto(r, x),
           \A q \in Request \ {r} : node'[q] = node[q],
           \/ pc[r] \notin Reserved /\ x \notin Reserved /\ active' = active
           \/ pc[r] \in Reserved /\ x \in Reserved /\ node' = node /\ active' = active
           \/ /\ pc[r] = "reserve" /\ x \in Reserved /\ node' = node
              /\ active' = [active EXCEPT ![node[r]] = @ + 1]
           \/ /\ pc[r] \in Reserved /\ x \notin Reserved /\ node' = node
              /\ active' = [active EXCEPT ![node[r]] = IF @ > 0 THEN @ - 1 ELSE @]
    PROVE  ActiveIsExact' /\ active' \in [Node -> Nat]
  <1> USE DEF Reserved
  <1>1. \A q \in Request : pc'[q] = IF q = r THEN x ELSE pc[q]
    BY DEF IInv, TypeOK
  <1>2. \A n \in Node : IsFiniteSet(Users(n)) /\ Cardinality(Users(n)) \in Nat
    BY FS_Subset, FS_CardinalityType DEF Users
  <1>3. active \in [Node -> Nat] /\ \A n \in Node : active[n] = Cardinality(Users(n))
    BY DEF IInv, TypeOK, ActiveIsExact
  <1>4. CASE active' = active /\ \A n \in Node : Users(n)' = Users(n)
    BY <1>3, <1>4 DEF ActiveIsExact
  <1>5. CASE pc[r] \notin Reserved /\ x \notin Reserved /\ active' = active
    <2>1. \A n \in Node : Users(n)' = Users(n)
      BY <1>1, <1>5 DEF Users
    <2> QED  BY <1>4, <1>5, <2>1
  <1>6. CASE pc[r] \in Reserved /\ x \in Reserved /\ node' = node /\ active' = active
    <2>1. \A n \in Node : Users(n)' = Users(n)
      BY <1>1, <1>6 DEF Users
    <2> QED  BY <1>4, <1>6, <2>1
  <1>7. CASE /\ pc[r] = "reserve" /\ x \in Reserved /\ node' = node
             /\ active' = [active EXCEPT ![node[r]] = @ + 1]
    <2>1. node[r] \in Node
      BY <1>7 DEF IInv, NodeKnown
    <2>2. r \notin Users(node[r]) /\ Users(node[r])' = Users(node[r]) \cup {r}
      BY <1>1, <1>7 DEF Users
    <2>3. \A n \in Node \ {node[r]} : Users(n)' = Users(n)
      BY <1>1, <1>7 DEF Users
    <2>4. Cardinality(Users(node[r])') = Cardinality(Users(node[r])) + 1
      BY <1>2, <2>1, <2>2, FS_AddElement
    <2>5. active' \in [Node -> Nat]
      BY <1>3, <1>7, <2>1
    <2>6. \A n \in Node : active'[n] = Cardinality(Users(n)')
      BY <1>3, <1>7, <2>1, <2>3, <2>4
    <2> QED  BY <2>5, <2>6 DEF ActiveIsExact
  <1>8. CASE /\ pc[r] \in Reserved /\ x \notin Reserved /\ node' = node
             /\ active' = [active EXCEPT ![node[r]] = IF @ > 0 THEN @ - 1 ELSE @]
    <2>1. node[r] \in Node
      BY <1>8 DEF IInv, NodeKnown
    <2>2. r \in Users(node[r]) /\ Users(node[r])' = Users(node[r]) \ {r}
      BY <1>1, <1>8 DEF Users
    <2>3. \A n \in Node \ {node[r]} : Users(n)' = Users(n)
      BY <1>1, <1>8 DEF Users
    <2>4. Cardinality(Users(node[r])') = Cardinality(Users(node[r])) - 1
      BY <1>2, <2>1, <2>2, FS_RemoveElement
    <2>5. Cardinality(Users(node[r])) # 0
      BY <1>2, <2>1, <2>2, FS_EmptySet
    <2>6. active[node[r]] > 0
      BY <1>2, <1>3, <2>1, <2>5
    <2>7. active' \in [Node -> Nat]
      BY <1>3, <1>8, <2>1, <2>6
    <2>8. \A n \in Node : active'[n] = Cardinality(Users(n)')
      BY <1>3, <1>8, <2>1, <2>3, <2>4, <2>6
    <2> QED  BY <2>7, <2>8 DEF ActiveIsExact
  <1> QED  BY <1>5, <1>6, <1>7, <1>8

-----------------------------------------------------------------------------
LEMMA InitIInv == Init => IInv
  <1> SUFFICES ASSUME Init PROVE IInv
    OBVIOUS
  <1>1. TypeOK /\ NodeKnown
    BY DEF Init, TypeOK, NodeKnown, Position, Queued, Holding, Reserved
  <1>2. \A S : "idle" \notin S => At(S) = {}
    BY DEF Init, At
  <1>3. WaitingIsExact /\ SlotsAreExact
    BY <1>2, FS_EmptySet DEF Init, WaitingIsExact, SlotsAreExact, Queued, Holding
  <1>4. \A n \in Node : Users(n) = {} /\ active[n] = 0
    BY DEF Init, Users, Reserved
  <1>5. ActiveIsExact
    BY <1>4, FS_EmptySet DEF ActiveIsExact
  <1> QED  BY <1>1, <1>3, <1>5 DEF IInv

\* acquire.
LEMMA AcquireStep ==
    ASSUME IInv, NEW r \in Request, Acquire(r) \/ Arrive(r)
    PROVE  IInv'
  <1> USE DEF IInv, Position, Queued, Holding, Reserved, Slots
  <1> DEFINE Keeps == /\ UNCHANGED <<late, todo, cand, node, active, max, ready>>
                      /\ pc[r] \notin {"reserve"} \cup Reserved
  <1>1. ASSUME NEW x \in Position \ ({"reserve"} \cup Reserved), Goto(r, x), Keeps,
               waiting' \in Nat, sem' \in 0..MaxConcurrency
        PROVE  TypeOK' /\ NodeKnown' /\ ActiveIsExact'
    <2>1. ActiveIsExact'
      BY <1>1, UserStep
    <2>2. TypeOK' /\ NodeKnown'
      BY <1>1 DEF TypeOK, NodeKnown
    <2> QED  BY <2>1, <2>2
  <1>2. CASE Arrive(r)
    <2>1. Goto(r, "check") /\ Keeps
      BY <1>2 DEF Arrive
    <2>2. (WaitingIsExact' /\ waiting' \in Nat) /\ (SlotsAreExact' /\ sem' \in 0..MaxConcurrency)
      BY <1>2, WaitingStep, SlotStep DEF Arrive
    <2> QED  BY <2>1, <2>2, <1>1
  <1>3. CASE CheckQueue(r)
    <2>1. PICK x \in {"idle", "enqueue"} : Goto(r, x)
      BY <1>3 DEF CheckQueue
    <2>2. (WaitingIsExact' /\ waiting' \in Nat) /\ (SlotsAreExact' /\ sem' \in 0..MaxConcurrency)
      BY <1>3, <2>1, WaitingStep, SlotStep DEF CheckQueue
    <2> QED  BY <1>3, <2>1, <2>2, <1>1 DEF CheckQueue
  <1>4. CASE Enqueue(r)
    <2>1. (WaitingIsExact' /\ waiting' \in Nat) /\ (SlotsAreExact' /\ sem' \in 0..MaxConcurrency)
      BY <1>4, WaitingStep, SlotStep DEF Enqueue
    <2> QED  BY <1>4, <2>1, <1>1 DEF Enqueue
  <1>5. CASE TakeSlot(r)
    <2>1. (WaitingIsExact' /\ waiting' \in Nat) /\ (SlotsAreExact' /\ sem' \in 0..MaxConcurrency)
      BY <1>5, WaitingStep, SlotStep DEF TakeSlot
    <2> QED  BY <1>5, <2>1, <1>1 DEF TakeSlot
  <1>6. CASE QueueTimeout(r)
    <2>1. (WaitingIsExact' /\ waiting' \in Nat) /\ (SlotsAreExact' /\ sem' \in 0..MaxConcurrency)
      BY <1>6, WaitingStep, SlotStep DEF QueueTimeout
    <2> QED  BY <1>6, <2>1, <1>1 DEF QueueTimeout
  <1>7. CASE LeaveQueue(r)
    <2>1. PICK x \in {"select", "idle"} : /\ Goto(r, x)
                                          /\ pc[r] = "granted" => x = "select"
                                          /\ pc[r] = "refused" => x = "idle"
      BY <1>7 DEF LeaveQueue
    <2>2. (WaitingIsExact' /\ waiting' \in Nat) /\ (SlotsAreExact' /\ sem' \in 0..MaxConcurrency)
      BY <1>7, <2>1, WaitingStep, SlotStep DEF LeaveQueue
    <2> QED  BY <1>7, <2>1, <2>2, <1>1 DEF LeaveQueue
  <1> QED  BY <1>2, <1>3, <1>4, <1>5, <1>6, <1>7 DEF Acquire

\* WaitForNode and Select.
LEMMA WaitForNodeStep ==
    ASSUME IInv, NEW r \in Request, WaitForNode(r) \/ Deadline(r)
    PROVE  IInv'
  <1> USE DEF IInv, Position, Queued, Holding, Reserved, Slots
  <1>1. ASSUME NEW x \in {"select", "scan", "busy", "reserve", "release"}, Goto(r, x),
               pc[r] \in {"select", "scan", "busy"},
               \A q \in Request \ {r} : node'[q] = node[q],
               UNCHANGED <<waiting, sem, active, max, ready>>
        PROVE  WaitingIsExact' /\ SlotsAreExact' /\ ActiveIsExact'
    <2>1. WaitingIsExact'
      BY <1>1, WaitingStep
    <2>2. SlotsAreExact'
      BY <1>1, SlotStep
    <2>3. ActiveIsExact'
      BY <1>1, UserStep
    <2> QED  BY <2>1, <2>2, <2>3
  <1>2. ASSUME UNCHANGED <<pc, node, waiting, sem, active, max, ready>>
        PROVE  WaitingIsExact' /\ SlotsAreExact' /\ ActiveIsExact' /\ NodeKnown'
    BY <1>2 DEF WaitingIsExact, SlotsAreExact, ActiveIsExact, NodeKnown, At, Users
  <1>3. CASE Select(r)
    <2>1. TypeOK' /\ NodeKnown'
      BY <1>3 DEF Select, TypeOK, NodeKnown
    <2> QED  BY <1>3, <2>1, <1>1 DEF Select
  <1>4. ASSUME NEW n \in Node, Scan(r, n)
        PROVE  IInv'
    <2>1. TypeOK'
      BY <1>4 DEF Scan, TypeOK
    <2> QED  BY <1>4, <2>1, <1>2 DEF Scan
  <1>5. ASSUME NEW n \in Node, Pick(r, n)
        PROVE  IInv'
    <2>1. TypeOK' /\ NodeKnown'
      BY <1>5 DEF Pick, TypeOK, NodeKnown
    <2>2. \A q \in Request \ {r} : node'[q] = node[q]
      BY <1>5 DEF Pick, TypeOK
    <2> QED  BY <1>5, <2>1, <2>2, <1>1 DEF Pick
  <1>6. CASE AllNodesBusy(r)
    <2>1. TypeOK' /\ NodeKnown'
      BY <1>6 DEF AllNodesBusy, TypeOK, NodeKnown
    <2> QED  BY <1>6, <2>1, <1>1 DEF AllNodesBusy
  <1>7. CASE NoNodeOnline(r)
    <2>1. TypeOK' /\ NodeKnown'
      BY <1>7 DEF NoNodeOnline, TypeOK, NodeKnown
    <2> QED  BY <1>7, <2>1, <1>1 DEF NoNodeOnline
  <1>8. CASE PollAgain(r)
    <2>1. PICK x \in {"release", "select"} : Goto(r, x)
      BY <1>8 DEF PollAgain
    <2>2. TypeOK' /\ NodeKnown'
      BY <1>8, <2>1 DEF PollAgain, TypeOK, NodeKnown
    <2> QED  BY <1>8, <2>1, <2>2, <1>1 DEF PollAgain
  <1>9. CASE PollCanceled(r)
    <2>1. TypeOK' /\ NodeKnown'
      BY <1>9 DEF PollCanceled, TypeOK, NodeKnown
    <2> QED  BY <1>9, <2>1, <1>1 DEF PollCanceled
  <1>10. CASE Deadline(r)
    <2>1. TypeOK'
      BY <1>10 DEF Deadline, TypeOK
    <2> QED  BY <1>10, <2>1, <1>2 DEF Deadline
  <1> QED  BY <1>3, <1>4, <1>5, <1>6, <1>7, <1>8, <1>9, <1>10 DEF WaitForNode

\* Reserve, the end of forwarding, and the deferred releases.
LEMMA ServeStep ==
    ASSUME IInv, NEW r \in Request,
           Reserve(r) \/ Finish(r) \/ Release(r) \/ ReleaseSlot(r)
    PROVE  IInv'
  <1> USE DEF IInv, Position, Queued, Holding, Reserved, Slots
  <1>1. CASE Reserve(r)
    <2>1. node[r] \in Node
      BY <1>1 DEF Reserve, NodeKnown
    <2>2. PICK x \in {"running", "release"} :
              /\ Goto(r, x)
              /\ x = "running" => active' = [active EXCEPT ![node[r]] = @ + 1]
              /\ x = "release" => active' = active
      BY <1>1, <2>1 DEF Reserve, TypeOK
    <2>3. WaitingIsExact' /\ SlotsAreExact'
      BY <1>1, <2>2, WaitingStep, SlotStep DEF Reserve
    <2>4. ActiveIsExact' /\ active' \in [Node -> Nat]
      BY <1>1, <2>2, UserStep DEF Reserve
    <2>5. TypeOK' /\ NodeKnown'
      BY <1>1, <2>1, <2>2, <2>4 DEF Reserve, TypeOK, NodeKnown
    <2> QED  BY <2>3, <2>4, <2>5
  <1>2. CASE Finish(r)
    <2>1. WaitingIsExact' /\ SlotsAreExact'
      BY <1>2, WaitingStep, SlotStep DEF Finish
    <2>2. ActiveIsExact'
      BY <1>2, UserStep DEF Finish
    <2>3. TypeOK' /\ NodeKnown'
      BY <1>2 DEF Finish, TypeOK, NodeKnown
    <2> QED  BY <2>1, <2>2, <2>3
  <1>3. CASE Release(r)
    <2>1. WaitingIsExact' /\ SlotsAreExact'
      BY <1>3, WaitingStep, SlotStep DEF Release
    <2>2. ActiveIsExact' /\ active' \in [Node -> Nat]
      BY <1>3, UserStep DEF Release
    <2>3. TypeOK' /\ NodeKnown'
      BY <1>3, <2>2 DEF Release, TypeOK, NodeKnown
    <2> QED  BY <2>1, <2>2, <2>3
  <1>4. CASE ReleaseSlot(r)
    <2>1. \A q \in Request \ {r} : node'[q] = node[q]
      BY <1>4 DEF ReleaseSlot, TypeOK
    <2>2. WaitingIsExact'
      BY <1>4, WaitingStep DEF ReleaseSlot
    <2>3. SlotsAreExact' /\ sem' \in 0..MaxConcurrency
      BY <1>4, SlotStep DEF ReleaseSlot
    <2>4. ActiveIsExact'
      BY <1>4, <2>1, UserStep DEF ReleaseSlot
    <2>5. TypeOK' /\ NodeKnown'
      BY <1>4, <2>3 DEF ReleaseSlot, TypeOK, NodeKnown
    <2> QED  BY <2>2, <2>3, <2>4, <2>5
  <1> QED  BY <1>1, <1>2, <1>3, <1>4

\* What an administrator and the nodes do leaves the counters alone.
LEMMA OtherStep ==
    ASSUME IInv,
           \/ UNCHANGED vars
           \/ \E n \in Node : NodeChanges(n) \/ \E v \in Limits : SetMaxConcurrency(n, v)
    PROVE  IInv'
  <1>1. UNCHANGED <<pc, scanVars, node, waiting, sem, active>>
    BY DEF vars, NodeChanges, SetMaxConcurrency
  <1>2. max' \in [Node -> Limits]
    BY DEF IInv, TypeOK, vars, NodeChanges, SetMaxConcurrency
  <1>3. ready' \in [Node -> BOOLEAN]
    <2>1. ready \in [Node -> BOOLEAN]
      BY DEF IInv, TypeOK
    <2>2. ready' = ready \/ \E n \in Node : ready' = [ready EXCEPT ![n] = ~ready[n]]
      BY DEF vars, NodeChanges, SetMaxConcurrency
    <2>3. \A n \in Node : (~ready[n]) \in BOOLEAN
      BY Zenon
    <2> QED  BY <2>1, <2>2, <2>3
  <1>4. TypeOK'
    BY <1>1, <1>2, <1>3 DEF IInv, TypeOK
  <1>5. WaitingIsExact' /\ SlotsAreExact' /\ ActiveIsExact' /\ NodeKnown'
    BY <1>1 DEF IInv, WaitingIsExact, SlotsAreExact, ActiveIsExact, NodeKnown, At, Users
  <1> QED  BY <1>4, <1>5 DEF IInv

LEMMA NextIInv == IInv /\ [Next]_vars => IInv'
  <1> SUFFICES ASSUME IInv, [Next]_vars PROVE IInv'
    OBVIOUS
  <1>1. ASSUME NEW r \in Request, Arrive(r) \/ HandleProxy(r) \/ Deadline(r)
        PROVE  IInv'
    BY <1>1, AcquireStep, WaitForNodeStep, ServeStep DEF HandleProxy
  <1> QED  BY <1>1, OtherStep DEF Next

\* The inductive invariant holds in every reachable state.
THEOREM Invariance == Spec => []IInv
  BY InitIInv, NextIInv, PTL DEF Spec

\* Type correctness; in particular Server.sem stays within its capacity.
THEOREM TypeCorrect == Spec => []TypeOK
  <1>1. IInv => TypeOK
    BY DEF IInv
  <1> QED  BY <1>1, Invariance, PTL

\* Server.waiting equals the number of requests in acquire, whichever way each one leaves it.
THEOREM WaitingExact == Spec => []WaitingIsExact
  <1>1. IInv => WaitingIsExact
    BY DEF IInv
  <1> QED  BY <1>1, Invariance, PTL

\* Server.sem equals the number of requests that own a slot: none leaks or is given back twice.
THEOREM SlotsExact == Spec => []SlotsAreExact
  <1>1. IInv => SlotsAreExact
    BY DEF IInv
  <1> QED  BY <1>1, Invariance, PTL

\* Node.Active equals the number of requests that reserved the node, under changing limits.
THEOREM ActiveExact == Spec => []ActiveIsExact
  <1>1. IInv => ActiveIsExact
    BY DEF IInv
  <1> QED  BY <1>1, Invariance, PTL

\* Node.Active only grows through Reserve, below the limit of the moment.
LEMMA ActiveGrowth ==
    ASSUME IInv, [Next]_vars, NEW n \in Node
    PROVE  active'[n] <= active[n] \/ active'[n] <= max[n]
  <1> USE DEF IInv, TypeOK
  <1>1. active[n] \in Nat /\ max[n] \in Nat
    OBVIOUS
  <1>2. CASE active' = active
    BY <1>1, <1>2
  <1>3. ASSUME NEW r \in Request, Reserve(r)
        PROVE  active'[n] <= active[n] \/ active'[n] <= max[n]
    <2>1. active' = [active EXCEPT ![node[r]] =
                        IF active[node[r]] < max[node[r]] THEN active[node[r]] + 1 ELSE active[node[r]]]
      BY <1>3 DEF Reserve
    <2>2. CASE node[r] = n
      BY <1>1, <2>1, <2>2
    <2>3. CASE node[r] # n
      BY <1>1, <2>1, <2>3
    <2> QED  BY <2>2, <2>3
  <1>4. ASSUME NEW r \in Request, Release(r)
        PROVE  active'[n] <= active[n]
    <2>1. active' = [active EXCEPT ![node[r]] =
                        IF active[node[r]] > 0 THEN active[node[r]] - 1 ELSE active[node[r]]]
      BY <1>4 DEF Release
    <2>2. CASE node[r] = n
      BY <1>1, <2>1, <2>2
    <2>3. CASE node[r] # n
      BY <1>1, <2>1, <2>3
    <2> QED  BY <2>2, <2>3
  <1>5. active' = active \/ (\E r \in Request : Reserve(r) \/ Release(r))
    BY DEF Next, HandleProxy, Acquire, WaitForNode, Arrive, Deadline, CheckQueue, Enqueue,
           TakeSlot, QueueTimeout, LeaveQueue, Select, Scan, Pick, AllNodesBusy, NoNodeOnline,
           PollAgain, PollCanceled, Finish, ReleaseSlot, NodeChanges, SetMaxConcurrency, vars
  <1> QED  BY <1>2, <1>3, <1>4, <1>5

\* However stale the choice of Select, a request only enters a node that serves fewer than
\* its limit of that moment allows.
THEOREM NeverOvercommitted == Spec => NoOvercommit
  <1>1. ASSUME IInv, [Next]_vars
        PROVE  \A n \in Node : Cardinality(Users(n)') > Cardinality(Users(n))
                                  => Cardinality(Users(n)') <= max[n]
    <2> SUFFICES ASSUME NEW n \in Node, Cardinality(Users(n)') > Cardinality(Users(n))
                 PROVE  Cardinality(Users(n)') <= max[n]
      OBVIOUS
    <2>1. IInv'
      BY <1>1, NextIInv
    <2>2. active[n] = Cardinality(Users(n)) /\ active'[n] = Cardinality(Users(n)')
      BY <1>1, <2>1 DEF IInv, ActiveIsExact
    <2>3. active[n] \in Nat /\ active'[n] \in Nat
      BY <1>1, <2>1 DEF IInv, TypeOK
    <2>4. active'[n] <= active[n] \/ active'[n] <= max[n]
      BY <1>1, ActiveGrowth
    <2> QED  BY <2>2, <2>3, <2>4
  <1>2. IInv /\ [Next]_vars => [\A n \in Node : Cardinality(Users(n)') > Cardinality(Users(n))
                                  => Cardinality(Users(n)') <= max[n]]_vars
    BY <1>1
  <1> QED  BY <1>2, Invariance, PTL DEF Spec, NoOvercommit
=============================================================================
