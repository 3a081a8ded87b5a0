----------------------- MODULE RelayProcess_proofs -----------------------
(***************************************************************************)
(* Proofs about RelayProcess, for any requests, any sizes of the queue and *)
(* of the ring buffer and any number of processes: its own invariants, and *)
(* that it implements SummaryLog.                                          *)
(***************************************************************************)
EXTENDS RelayProcess, SequenceTheorems, TLAPS

(***************************************************************************)
(* The inductive invariant.                                                *)
(***************************************************************************)
\* Where run is says what there is of the writer and the store; a summary is in
\* hand only while the writer works.
StoreOrder == /\ phase \in {"open", "migrate", "attach"} => writer = "none"
              /\ phase \in {"listen", "serve", "closing", "retention"} => writer = "run"
              /\ phase = "summary" => writer \in {"stop", "drain", "done"}
              /\ phase = "returned" => writer \in {"none", "run", "done"}
              /\ phase \notin {"open", "returned"} => db
              /\ hand # <<>> => writer \in {"run", "stop", "drain"}

\* Only after an error of run does the writer meet a closed store, and then nobody
\* stops it.
ClosedByError == \A r \in Request : outcome[r] = "closed" => phase = "returned" /\ writer = "run"

\* What the writer holds has been submitted, once; a summary it is to write it has.
Holds(r) == hand = <<r>> \/ \E i \in 1..Len(ch) : ch[i] = r
WriterHasQueued == /\ \A r \in Request : outcome[r] = "queued" => writer # "done" /\ Holds(r)
                   /\ \A r \in Request : Holds(r) => outcome[r] \notin {"none", "pushed"}

IInv == TypeOK /\ StoreOrder /\ ClosedByError /\ WriterHasQueued /\ ShutdownWritesAll

USE DEF dbVars, goVars, sumVars, Alive, Days, Outcome

-----------------------------------------------------------------------------
LEMMA Sizes == /\ QueueCap \in Nat /\ QueueCap >= 1
               /\ Recent \in Nat /\ Recent >= 1
               /\ MaxProcesses \in Nat /\ MaxProcesses >= 1
  BY SizeAssumption

\* What the writer holds does not change, and no outcome either.
LEMMA WriterIdle ==
    ASSUME WriterHasQueued, ShutdownWritesAll, ClosedByError, UNCHANGED sumVars,
           writer' = "done" => writer = "done",
           phase = "returned" /\ writer = "run" => phase' = "returned" /\ writer' = "run"
    PROVE  WriterHasQueued' /\ ShutdownWritesAll' /\ ClosedByError'
  BY DEF WriterHasQueued, Holds, ShutdownWritesAll, ClosedByError

\* The start of a process: the migration comes before the writer.
LEMMA StartKeeps == ASSUME IInv, StartNext PROVE IInv'
  <1> USE DEF IInv
  <1>1. CASE Open
    <2>1. TypeOK'
      BY <1>1 DEF Open, TypeOK
    <2>2. StoreOrder'
      BY <1>1 DEF Open, StoreOrder
    <2> QED  BY <1>1, <2>1, <2>2, WriterIdle DEF Open
  <1>2. CASE Migrate
    <2>1. TypeOK'
      BY <1>2 DEF Migrate, TypeOK
    <2>2. StoreOrder'
      BY <1>2 DEF Migrate, TypeOK, StoreOrder
    <2> QED  BY <1>2, <2>1, <2>2, WriterIdle DEF Migrate
  <1>3. CASE SetStore
    <2>1. TypeOK'
      BY <1>3 DEF SetStore, StartRetention, TypeOK
    <2>2. StoreOrder'
      BY <1>3 DEF SetStore, StoreOrder
    <2> QED  BY <1>3, <2>1, <2>2, WriterIdle DEF SetStore
  <1>4. CASE Listen
    <2>1. TypeOK'
      BY <1>4 DEF Listen, TypeOK
    <2>2. StoreOrder'
      BY <1>4 DEF Listen, StoreOrder
    <2> QED  BY <1>4, <2>1, <2>2, WriterIdle DEF Listen
  <1> QED  BY <1>1, <1>2, <1>3, <1>4 DEF StartNext

\* Its end, orderly or not.
LEMMA EndKeeps == ASSUME IInv, ReturnError \/ CloseServers \/ CloseNext \/ Restart PROVE IInv'
  <1> USE DEF IInv
  <1>1. CASE ReturnError
    <2>1. TypeOK' /\ StoreOrder'
      BY <1>1 DEF ReturnError, TypeOK, StoreOrder
    <2> QED  BY <1>1, <2>1, WriterIdle DEF ReturnError
  <1>2. CASE CloseServers
    <2>1. TypeOK' /\ StoreOrder'
      BY <1>2 DEF CloseServers, TypeOK, StoreOrder
    <2> QED  BY <1>2, <2>1, WriterIdle DEF CloseServers
  <1>3. CASE StopRetention
    <2>1. TypeOK' /\ StoreOrder'
      BY <1>3 DEF StopRetention, TypeOK, StoreOrder
    <2> QED  BY <1>3, <2>1, WriterIdle DEF StopRetention
  <1>4. CASE StopWriter
    <2>1. TypeOK' /\ StoreOrder'
      BY <1>4 DEF StopWriter, TypeOK, StoreOrder
    <2> QED  BY <1>4, <2>1, WriterIdle DEF StopWriter
  <1>5. CASE CloseStore
    <2>1. TypeOK' /\ StoreOrder'
      BY <1>5 DEF CloseStore, TypeOK, StoreOrder
    <2> QED  BY <1>5, <2>1, WriterIdle DEF CloseStore
  <1>6. CASE Restart
    <2>1. TypeOK' /\ StoreOrder'
      <3>1. processes' \in 1..MaxProcesses
        BY <1>6, Sizes DEF Restart, TypeOK
      <3>2. outcome' \in [Request -> Outcome]
        BY <1>6 DEF Restart, TypeOK
      <3>3. /\ ch' \in Seq(Request) /\ Len(ch') <= QueueCap
            /\ ring' \in Seq(Request) /\ Len(ring') <= Recent
        BY <1>6, Sizes DEF Restart
      <3>4. rows' \in Seq(Request) /\ old' \in 0..Len(rows') /\ schema' = schema
        BY <1>6 DEF Restart, TypeOK
      <3>5. days' \in Days /\ hand' \in {<<>>} \cup {<<r>> : r \in Request}
        BY <1>6 DEF Restart
      <3>6. TypeOK'
        BY <1>6, <3>1, <3>2, <3>3, <3>4, <3>5 DEF Restart, TypeOK
      <3> QED  BY <1>6, <3>6 DEF Restart, StoreOrder
    <2>2. WriterHasQueued' /\ ShutdownWritesAll' /\ ClosedByError'
      <3>1. \A q \in Request : outcome'[q] \notin {"queued", "closed"} /\ ~Holds(q)'
        BY <1>6 DEF Restart, TypeOK, Holds
      <3> QED  BY <3>1 DEF WriterHasQueued, ShutdownWritesAll, ClosedByError
    <2> QED  BY <2>1, <2>2
  <1> QED  BY <1>1, <1>2, <1>3, <1>4, <1>5, <1>6 DEF CloseNext

\* A request that ends enters the ring.
LEMMA PushKeeps == ASSUME IInv, NEW r \in Request, PushRequest(r) PROVE IInv'
  <1> USE DEF IInv
  <1>1. ring \in Seq(Request) /\ Len(ring) <= Recent
    BY DEF TypeOK
  <1>2. ring' \in Seq(Request) /\ Len(ring') <= Recent
    <2>1. CASE Len(ring) < Recent
      BY <1>1, <2>1, AppendProperties, Sizes DEF PushRequest, Push
    <2>2. CASE ~(Len(ring) < Recent)
      <3>1. ring # <<>> /\ Len(ring) = Recent
        BY <1>1, <2>2, Sizes
      <3>2. Tail(ring) \in Seq(Request) /\ Len(Tail(ring)) = Recent - 1
        BY <1>1, <3>1, HeadTailProperties
      <3>3. ring' = Append(Tail(ring), r)
        BY <2>2 DEF PushRequest, Push
      <3>4. ring' \in Seq(Request) /\ Len(ring') = (Recent - 1) + 1
        BY <3>2, <3>3, AppendProperties
      <3> QED  BY <3>4, Sizes
    <2> QED  BY <2>1, <2>2
  <1>3. /\ outcome' = [outcome EXCEPT ![r] = "pushed"] /\ outcome[r] = "none"
        /\ outcome \in [Request -> Outcome]
    BY DEF PushRequest, TypeOK
  <1>4. TypeOK'
    BY <1>2, <1>3 DEF PushRequest, TypeOK
  <1>5. StoreOrder'
    BY DEF PushRequest, StoreOrder
  <1>6. outcome'[r] = "pushed" /\ \A q \in Request : q # r => outcome'[q] = outcome[q]
    BY <1>3
  <1>7. ~Holds(r) /\ \A q \in Request : Holds(q)' = Holds(q)
    BY <1>3 DEF PushRequest, WriterHasQueued, Holds
  <1>8. WriterHasQueued' /\ ShutdownWritesAll' /\ ClosedByError'
    BY <1>6, <1>7 DEF PushRequest, WriterHasQueued, ShutdownWritesAll, ClosedByError
  <1> QED  BY <1>4, <1>5, <1>8

\* Its summary is submitted; what does not fit is dropped.
LEMMA SubmitKeeps == ASSUME IInv, NEW r \in Request, SubmitSummary(r) PROVE IInv'
  <1> USE DEF IInv
  <1>1. ch \in Seq(Request) /\ Len(ch) <= QueueCap
    BY DEF TypeOK
  <1>3. CASE Len(ch) < QueueCap
    <2> PICK n \in Nat : n = Len(ch)
      BY <1>1
    <2>0. /\ ch' \in Seq(Request) /\ Len(ch') = n + 1
          /\ \A i \in 1..n : ch'[i] = ch[i]
          /\ ch'[n + 1] = r
      <3>1. ch' = Append(ch, r)
        BY <1>3 DEF SubmitSummary
      <3> QED  BY <1>1, <3>1, AppendProperties
    <2>1. /\ ch' \in Seq(Request) /\ Len(ch') = Len(ch) + 1 /\ Len(ch') <= QueueCap
          /\ \A i \in 1..Len(ch) : ch'[i] = ch[i]
          /\ ch'[Len(ch) + 1] = r /\ Len(ch) \in Nat
      BY <1>3, <2>0, Sizes
    <2>2. /\ outcome' = [outcome EXCEPT ![r] = IF writer = "done" THEN "late" ELSE "queued"]
          /\ outcome \in [Request -> Outcome]
      BY <1>3 DEF SubmitSummary, TypeOK
    <2>3. TypeOK'
      BY <2>1, <2>2 DEF SubmitSummary, TypeOK
    <2>4. StoreOrder'
      BY DEF SubmitSummary, StoreOrder
    <2>5. \A q \in Request : q # r => Holds(q)' = Holds(q) /\ outcome'[q] = outcome[q]
      <3> SUFFICES ASSUME NEW q \in Request, q # r
                   PROVE  (\E i \in 1..Len(ch') : ch'[i] = q) <=> (\E i \in 1..Len(ch) : ch[i] = q)
        BY <2>2 DEF SubmitSummary, Holds
      <3> QED  BY <2>1
    <2>6. Holds(r)'
      BY <2>1 DEF Holds
    <2>7. outcome'[r] = IF writer = "done" THEN "late" ELSE "queued"
      BY <2>2
    <2>8. WriterHasQueued'
      BY <2>5, <2>6, <2>7 DEF SubmitSummary, WriterHasQueued
    <2>9. ShutdownWritesAll' /\ ClosedByError'
      BY <2>5, <2>7 DEF SubmitSummary, ShutdownWritesAll, ClosedByError
    <2> QED  BY <2>3, <2>4, <2>8, <2>9
  <1>4. CASE ~(Len(ch) < QueueCap)
    <2>1. ch' = ch /\ outcome' = [outcome EXCEPT ![r] = "dropped"]
      BY <1>4 DEF SubmitSummary
    <2>2. TypeOK'
      BY <2>1 DEF SubmitSummary, TypeOK
    <2>3. StoreOrder'
      BY <2>1 DEF SubmitSummary, StoreOrder
    <2>4. outcome'[r] = "dropped" /\ \A q \in Request : q # r => outcome'[q] = outcome[q]
      BY <2>1 DEF TypeOK
    <2>5. \A q \in Request : Holds(q)' = Holds(q)
      BY <2>1 DEF SubmitSummary, Holds
    <2>6. ~Holds(r)
      BY DEF SubmitSummary, WriterHasQueued
    <2>7. WriterHasQueued' /\ ShutdownWritesAll' /\ ClosedByError'
      BY <2>4, <2>5, <2>6 DEF SubmitSummary, WriterHasQueued, ShutdownWritesAll, ClosedByError
    <2> QED  BY <2>2, <2>3, <2>7
  <1> QED  BY <1>3, <1>4

\* The writer takes summaries from the channel and writes them.
LEMMA WriterKeeps == ASSUME IInv, WriterNext PROVE IInv'
  <1> USE DEF IInv
  <1>0. ch \in Seq(Request) /\ Len(ch) \in Nat
    BY DEF TypeOK
  <1>1. CASE TakeSummary
    <2>1. /\ ch' \in Seq(Request) /\ Len(ch) = Len(ch') + 1 /\ Len(ch') \in Nat
          /\ \A i \in 1..Len(ch') : ch'[i] = ch[i + 1]
          /\ hand' = <<ch[1]>> /\ ch[1] \in Request /\ 1 \in 1..Len(ch)
      <3>1. ch' = Tail(ch) /\ hand' = <<Head(ch)>> /\ ch # <<>>
        BY <1>1 DEF TakeSummary
      <3>2. Head(ch) = ch[1]
        BY <1>0, <3>1
      <3> QED  BY <1>0, <3>1, <3>2, HeadTailProperties
    <2>2. TypeOK' /\ StoreOrder'
      <3>1. Len(ch') <= QueueCap
        BY <1>0, <2>1, Sizes DEF TypeOK
      <3>2. TypeOK'
        BY <1>1, <2>1, <3>1 DEF TakeSummary, TypeOK
      <3> QED  BY <1>1, <3>2 DEF TakeSummary, StoreOrder
    <2>3. \A r \in Request : Holds(r)' <=> Holds(r)
      <3> SUFFICES ASSUME NEW r \in Request PROVE Holds(r)' <=> Holds(r)
        OBVIOUS
      <3>1. \A i \in 1..Len(ch) : i = 1 \/ i - 1 \in 1..Len(ch')
        BY <1>0, <2>1
      <3>2. (\E i \in 1..Len(ch) : ch[i] = r) <=> (ch[1] = r \/ \E i \in 1..Len(ch') : ch'[i] = r)
        <4>1. ASSUME NEW i \in 1..Len(ch), ch[i] = r
              PROVE  ch[1] = r \/ \E j \in 1..Len(ch') : ch'[j] = r
          <5>1. CASE i = 1
            BY <4>1, <5>1
          <5>2. CASE i - 1 \in 1..Len(ch')
            <6>1. ch'[i - 1] = ch[i]
              BY <1>0, <2>1, <5>2
            <6> QED  BY <4>1, <5>2, <6>1
          <5> QED  BY <3>1, <5>1, <5>2
        <4>2. ASSUME NEW j \in 1..Len(ch'), ch'[j] = r PROVE \E i \in 1..Len(ch) : ch[i] = r
          BY <1>0, <2>1, <4>2
        <4> QED  BY <2>1, <4>1, <4>2
      <3> QED  BY <1>1, <2>1, <3>2 DEF TakeSummary, Holds
    <2>4. WriterHasQueued' /\ ShutdownWritesAll' /\ ClosedByError'
      BY <1>1, <2>3 DEF TakeSummary, WriterHasQueued, ShutdownWritesAll, ClosedByError
    <2> QED  BY <2>2, <2>4
  <1>2. CASE AddRequestSummary
    <2>1. PICK r \in Request : hand = <<r>> /\ hand[1] = r
      BY <1>2 DEF AddRequestSummary, TypeOK
    <2>2. PICK o \in {"written", "failed", "closed"} :
             /\ outcome' = [outcome EXCEPT ![r] = o] /\ (o = "closed" => ~db)
             /\ rows' = IF o = "written" THEN Append(rows, r) ELSE rows
      BY <1>2, <2>1 DEF AddRequestSummary
    <2>3. ch' = ch /\ hand' = <<>> /\ writer' = writer /\ phase' = phase
      BY <1>2 DEF AddRequestSummary
    <2>4. TypeOK' /\ StoreOrder'
      <3>1. rows' \in Seq(Request) /\ old \in 0..Len(rows') /\ outcome' \in [Request -> Outcome]
        BY <2>2 DEF TypeOK
      <3>2. TypeOK'
        BY <1>2, <3>1 DEF AddRequestSummary, TypeOK
      <3> QED  BY <1>2, <3>2 DEF AddRequestSummary, StoreOrder
    <2>5. outcome'[r] = o /\ \A q \in Request : q # r => outcome'[q] = outcome[q]
      BY <2>2 DEF TypeOK
    <2>6. \A q \in Request : (Holds(q)' => Holds(q)) /\ (q # r /\ Holds(q) => Holds(q)')
      BY <2>1, <2>3 DEF Holds
    <2>7. o = "closed" => phase = "returned" /\ writer = "run"
      BY <2>1, <2>2 DEF StoreOrder, TypeOK
    <2>8. writer # "done"
      BY <2>1 DEF StoreOrder
    <2>9. WriterHasQueued' /\ ShutdownWritesAll' /\ ClosedByError'
      BY <2>3, <2>5, <2>6, <2>7, <2>8 DEF WriterHasQueued, ShutdownWritesAll, ClosedByError
    <2> QED  BY <2>4, <2>9
  <1>3. CASE DrainSummaries
    <2>1. TypeOK' /\ StoreOrder'
      BY <1>3 DEF DrainSummaries, TypeOK, StoreOrder
    <2> QED  BY <1>3, <2>1, WriterIdle DEF DrainSummaries
  <1>4. CASE WriterEnds
    <2>1. TypeOK' /\ StoreOrder'
      BY <1>4 DEF WriterEnds, TypeOK, StoreOrder
    <2>2. \A r \in Request : ~Holds(r)
      BY <1>4 DEF WriterEnds, Holds
    <2>3. \A r \in Request : outcome[r] \notin {"queued", "closed"}
      BY <1>4, <2>2 DEF WriterHasQueued, ClosedByError, WriterEnds
    <2> QED  BY <1>4, <2>1, <2>2, <2>3 DEF WriterEnds, WriterHasQueued, Holds, ShutdownWritesAll, ClosedByError
  <1> QED  BY <1>1, <1>2, <1>3, <1>4 DEF WriterNext

\* Retention only takes rows away.
LEMMA RetentionKeeps == ASSUME IInv, GrowOld \/ Prune \/ RetentionEnds \/ SetRetention PROVE IInv'
  <1> USE DEF IInv
  <1>1. UNCHANGED sumVars /\ writer' = writer /\ phase' = phase
    BY DEF GrowOld, Prune, RetentionEnds, SetRetention
  <1>2. WriterHasQueued' /\ ShutdownWritesAll' /\ ClosedByError'
    BY <1>1, WriterIdle
  <1>3. CASE GrowOld
    BY <1>2, <1>3 DEF GrowOld, TypeOK, StoreOrder
  <1>4. CASE Prune
    <2>1. rows' \in Seq(Request) /\ old' = 0 /\ 0 \in 0..Len(rows')
      BY <1>4 DEF Prune, TypeOK
    <2> QED  BY <1>2, <1>4, <2>1 DEF Prune, TypeOK, StoreOrder
  <1>5. CASE RetentionEnds
    BY <1>2, <1>5 DEF RetentionEnds, TypeOK, StoreOrder
  <1>6. CASE SetRetention
    <2>1. days' \in Days /\ old' \in 0..Len(rows) /\ retention' \in {"none", "run", "stop", "done"}
      BY <1>6 DEF SetRetention, StartRetention, TypeOK
    <2> QED  BY <1>2, <1>6, <2>1 DEF SetRetention, TypeOK, StoreOrder
  <1> QED  BY <1>3, <1>4, <1>5, <1>6

-----------------------------------------------------------------------------
\* IInv is inductive.
THEOREM Invariance == Spec => []IInv
  <1>1. Init => IInv
    <2> SUFFICES ASSUME Init PROVE IInv
      OBVIOUS
    <2>1. TypeOK
      <3>1. processes \in 1..MaxProcesses
        BY Sizes DEF Init
      <3>2. /\ rows \in Seq(Request) /\ old \in 0..Len(rows)
            /\ ch \in Seq(Request) /\ Len(ch) <= QueueCap
            /\ ring \in Seq(Request) /\ Len(ring) <= Recent
        BY Sizes DEF Init
      <3>3. days \in Days /\ hand \in {<<>>} \cup {<<r>> : r \in Request}
        BY DEF Init
      <3>4. outcome \in [Request -> Outcome]
        BY DEF Init
      <3> QED  BY <3>1, <3>2, <3>3, <3>4 DEF Init, TypeOK
    <2>2. StoreOrder
      BY DEF Init, StoreOrder
    <2>3. WriterHasQueued /\ ShutdownWritesAll /\ ClosedByError
      BY DEF Init, WriterHasQueued, Holds, ShutdownWritesAll, ClosedByError
    <2> QED  BY <2>1, <2>2, <2>3 DEF IInv
  <1>2. IInv /\ [Next]_vars => IInv'
    <2>1. ASSUME IInv, UNCHANGED vars PROVE IInv'
      <3>1. TypeOK' /\ StoreOrder'
        BY <2>1 DEF IInv, vars, TypeOK, StoreOrder
      <3> QED  BY <2>1, <3>1, WriterIdle DEF IInv, vars
    <2> QED  BY <2>1, StartKeeps, EndKeeps, PushKeeps, SubmitKeeps, WriterKeeps, RetentionKeeps DEF Next
  <1> QED  BY <1>1, <1>2, PTL DEF Spec

\* Type correctness: the channel and the ring buffer stay within their sizes
\* (requests.go 30-44, 61-67).
THEOREM TypeCorrect == Spec => []TypeOK
  <1>1. IInv => TypeOK
    BY DEF IInv
  <1> QED  BY <1>1, Invariance, PTL

\* A writer that an orderly shutdown has ended has offered every summary it was
\* given to a store that was open (requests.go 70-101, main.go 129-140).
THEOREM WritesAll == Spec => []ShutdownWritesAll
  <1>1. IInv => ShutdownWritesAll
    BY DEF IInv
  <1> QED  BY <1>1, Invariance, PTL

-----------------------------------------------------------------------------
(***************************************************************************)
(* RelayProcess implements SummaryLog: what the log calls its queue is the *)
(* summary in the writer's hand and those in the channel.                  *)
(***************************************************************************)
LEMMA HeadOfSeq == ASSUME NEW s \in Seq(Request), s # <<>>
                   PROVE  /\ Head(s) \in Request /\ Tail(s) \in Seq(Request)
                          /\ <<Head(s)>> \o Tail(s) = s
  <1>1. Head(s) \in Request /\ Tail(s) \in Seq(Request)
    BY HeadTailProperties
  <1>2. <<Head(s)>> \in Seq(Request) /\ Len(<<Head(s)>>) = 1 /\ <<Head(s)>>[1] = s[1]
    BY <1>1
  <1> DEFINE t == <<Head(s)>> \o Tail(s)
  <1>3. /\ t \in Seq(Request) /\ Len(t) = 1 + Len(Tail(s))
        /\ \A i \in 1..1 + Len(Tail(s)) : t[i] = IF i <= 1 THEN <<Head(s)>>[i] ELSE Tail(s)[i - 1]
    BY <1>1, <1>2, ConcatProperties
  <1>4. Len(Tail(s)) = Len(s) - 1 /\ \A i \in 1..Len(Tail(s)) : Tail(s)[i] = s[i + 1]
    BY HeadTailProperties
  <1>5. Len(t) = Len(s) /\ Len(s) \in Nat
    BY <1>3, <1>4
  <1>6. ASSUME NEW i \in 1..Len(s) PROVE t[i] = s[i]
    <2>1. CASE i = 1
      BY <1>2, <1>3, <1>5, <2>1
    <2>2. CASE i # 1
      <3>1. i - 1 \in 1..Len(Tail(s)) /\ (i - 1) + 1 = i
        BY <1>4, <1>5, <2>2
      <3> QED  BY <1>3, <1>4, <1>5, <2>2, <3>1
    <2> QED  BY <2>1, <2>2
  <1> HIDE DEF t
  <1>7. t = s
    BY <1>3, <1>5, <1>6, SeqEqual
  <1> QED  BY <1>1, <1>7 DEF t

LEMMA HeadOfConcat == ASSUME NEW r \in Request, NEW s \in Seq(Request)
                      PROVE  /\ <<r>> \o s # <<>>
                             /\ Head(<<r>> \o s) = r /\ Tail(<<r>> \o s) = s
  <1>1. <<r>> \in Seq(Request) /\ Len(<<r>>) = 1 /\ <<r>>[1] = r
    OBVIOUS
  <1> DEFINE t == <<r>> \o s
  <1>2. /\ t \in Seq(Request) /\ Len(t) = 1 + Len(s)
        /\ \A i \in 1..1 + Len(s) : t[i] = IF i <= 1 THEN <<r>>[i] ELSE s[i - 1]
    BY <1>1, ConcatProperties
  <1> HIDE DEF t
  <1>3. t # <<>> /\ Len(s) \in Nat
    BY <1>2
  <1>4. Head(t) = r
    BY <1>1, <1>2, <1>3
  <1>5. /\ Tail(t) \in Seq(Request) /\ Len(Tail(t)) = Len(s)
        /\ \A i \in 1..Len(Tail(t)) : Tail(t)[i] = t[i + 1]
    BY <1>2, <1>3, HeadTailProperties
  <1>6. \A i \in 1..Len(s) : t[i + 1] = s[i]
    BY <1>2, <1>3
  <1>7. Tail(t) = s
    BY <1>5, <1>6, SeqEqual
  <1> QED  BY <1>3, <1>4, <1>7 DEF t

\* A request that ends is finished and waits to be submitted.
LEMMA PushIsFinish == ASSUME TypeOK, NEW r \in Request, PushRequest(r) PROVE Log!Finish(r)
  <1>1. ring \in Seq(Request) /\ Len(ring) <= Recent
    BY DEF TypeOK
  <1>2. /\ r \notin {q \in Request : outcome[q] # "none"}
        /\ {q \in Request : outcome'[q] # "none"} = {q \in Request : outcome[q] # "none"} \cup {r}
        /\ {q \in Request : outcome'[q] = "pushed"} = {q \in Request : outcome[q] = "pushed"} \cup {r}
    BY DEF PushRequest, TypeOK
  <1>3. ring' = Log!Newest(Append(ring, r))
    <2>1. Len(Append(ring, r)) = Len(ring) + 1 /\ Len(ring) \in Nat
      BY <1>1, AppendProperties
    <2>2. CASE Len(ring) < Recent
      BY <2>1, <2>2, Sizes DEF PushRequest, Push, Log!Newest
    <2>3. CASE ~(Len(ring) < Recent)
      <3>1. ring # <<>> /\ Len(Append(ring, r)) > Recent
        BY <1>1, <2>1, <2>3, Sizes
      <3>2. Tail(Append(ring, r)) = Append(Tail(ring), r)
        BY <1>1, <3>1, HeadTailAppend
      <3> QED  BY <2>3, <3>1, <3>2 DEF PushRequest, Push, Log!Newest
    <2> QED  BY <2>2, <2>3
  <1>4. hand' \o ch' = hand \o ch /\ rows' = rows
    BY DEF PushRequest
  <1> QED  BY <1>2, <1>3, <1>4 DEF Log!Finish

\* Its summary is submitted, whether it fits into the channel or not.
LEMMA SubmitIsSubmit == ASSUME TypeOK, NEW r \in Request, SubmitSummary(r) PROVE Log!Submit(r)
  <1>1. ch \in Seq(Request) /\ hand \in Seq(Request)
    <2>1. <<>> \in Seq(Request) /\ \A q \in Request : <<q>> \in Seq(Request)
      OBVIOUS
    <2> QED  BY <2>1 DEF TypeOK
  <1>2. PICK o \in {"late", "queued", "dropped"} : outcome' = [outcome EXCEPT ![r] = o]
    BY DEF SubmitSummary
  <1>3. /\ r \in {q \in Request : outcome[q] = "pushed"}
        /\ {q \in Request : outcome'[q] # "none"} = {q \in Request : outcome[q] # "none"}
        /\ {q \in Request : outcome'[q] = "pushed"} = {q \in Request : outcome[q] = "pushed"} \ {r}
    BY <1>2 DEF SubmitSummary, TypeOK
  <1>4. hand' \o ch' = hand \o ch \/ hand' \o ch' = Append(hand \o ch, r)
    <2>1. CASE Len(ch) < QueueCap
      <3>1. Append(ch, r) = ch \o <<r>> /\ <<r>> \in Seq(Request)
        BY <1>1, AppendIsConcat
      <3>2. hand \o (ch \o <<r>>) = (hand \o ch) \o <<r>>
        BY <1>1, <3>1, ConcatAssociative
      <3>3. hand \o ch \in Seq(Request)
        BY <1>1, ConcatProperties
      <3>4. Append(hand \o ch, r) = (hand \o ch) \o <<r>>
        BY <3>3, AppendIsConcat
      <3> QED  BY <2>1, <3>1, <3>2, <3>4 DEF SubmitSummary
    <2>2. CASE ~(Len(ch) < QueueCap)
      BY <2>2 DEF SubmitSummary
    <2> QED  BY <2>1, <2>2
  <1>5. rows' = rows /\ ring' = ring
    BY DEF SubmitSummary
  <1> QED  BY <1>3, <1>4, <1>5 DEF Log!Submit

\* The writer writes a summary, or fails to.
LEMMA WriteIsPersist == ASSUME TypeOK, WriterHasQueued, AddRequestSummary PROVE Log!Persist
  <1>1. PICK r \in Request : hand = <<r>> /\ hand[1] = r
    BY DEF AddRequestSummary, TypeOK
  <1>2. ch \in Seq(Request)
    BY DEF TypeOK
  <1>3. PICK o \in {"written", "failed", "closed"} :
           /\ outcome' = [outcome EXCEPT ![r] = o]
           /\ rows' = IF o = "written" THEN Append(rows, r) ELSE rows
    BY <1>1 DEF AddRequestSummary
  <1>4. hand' \o ch' = ch
    BY <1>2, ConcatEmptySeq DEF AddRequestSummary
  <1>5. hand \o ch # <<>> /\ Head(hand \o ch) = r /\ Tail(hand \o ch) = ch
    BY <1>1, <1>2, HeadOfConcat
  <1>6. outcome[r] \notin {"none", "pushed"}
    BY <1>1 DEF WriterHasQueued, Holds
  <1>7. /\ {q \in Request : outcome'[q] # "none"} = {q \in Request : outcome[q] # "none"}
        /\ {q \in Request : outcome'[q] = "pushed"} = {q \in Request : outcome[q] = "pushed"}
    BY <1>3, <1>6 DEF TypeOK
  <1>8. ring' = ring
    BY DEF AddRequestSummary
  <1> QED  BY <1>3, <1>4, <1>5, <1>7, <1>8 DEF Log!Persist

\* The retention goroutine deletes at least one row, from the old end.
LEMMA PruneIsPrune == ASSUME TypeOK, Prune PROVE Log!Prune
  <1>1. old \in 1..Len(rows)
    BY DEF Prune, TypeOK
  <1> QED  BY <1>1 DEF Prune, Log!Prune

\* What a process that ends had in memory is gone.
LEMMA RestartIsForget == ASSUME TypeOK, Restart PROVE Log!Forget
  <1>1. /\ {q \in Request : outcome'[q] # "none"} = {q \in Request : outcome[q] # "none"}
        /\ {q \in Request : outcome'[q] = "pushed"} = {}
    BY DEF Restart, TypeOK
  <1>2. hand' \o ch' = <<>>
    BY ConcatEmptySeq DEF Restart
  <1> QED  BY <1>1, <1>2 DEF Restart, Log!Forget

\* What the writer takes from the channel is still on its way.
LEMMA TakeIsStutter == ASSUME TypeOK, TakeSummary PROVE UNCHANGED Log!vars
  <1>1. ch \in Seq(Request) /\ ch # <<>> /\ hand = <<>> /\ hand' = <<Head(ch)>> /\ ch' = Tail(ch)
    BY DEF TakeSummary, TypeOK
  <1>2. hand' \o ch' = ch
    BY <1>1, HeadOfSeq
  <1>3. hand \o ch = ch
    BY <1>1, ConcatEmptySeq
  <1> QED  BY <1>2, <1>3 DEF TakeSummary, Log!vars

\* The summaries are a log as SummaryLog describes it, for any number of
\* requests and processes and through full queues, shutdowns, errors and crashes
\* (requests.go 55-101, server.go 247-310).
THEOREM Refinement == Spec => ImplementsSummaryLog
  <1>1. Init => Log!Init
    BY ConcatEmptySeq DEF Init, Log!Init
  <1>2. IInv /\ [Next]_vars => [Log!Next]_(Log!vars)
    <2> SUFFICES ASSUME IInv, [Next]_vars PROVE [Log!Next]_(Log!vars)
      OBVIOUS
    <2> USE DEF IInv
    <2>1. ASSUME NEW r \in Request, PushRequest(r) \/ SubmitSummary(r) PROVE Log!Next
      BY <2>1, PushIsFinish, SubmitIsSubmit DEF Log!Next
    <2>2. CASE WriterNext
      <3>1. CASE TakeSummary
        BY <3>1, TakeIsStutter
      <3>2. CASE AddRequestSummary
        BY <3>2, WriteIsPersist DEF Log!Next
      <3>3. CASE DrainSummaries \/ WriterEnds
        BY <3>3 DEF DrainSummaries, WriterEnds, Log!vars
      <3> QED  BY <2>2, <3>1, <3>2, <3>3 DEF WriterNext
    <2>3. CASE Prune
      BY <2>3, PruneIsPrune DEF Log!Next
    <2>4. CASE Restart
      BY <2>4, RestartIsForget DEF Log!Next
    <2>5. CASE StartNext \/ ReturnError \/ CloseServers \/ CloseNext
      BY <2>5 DEF StartNext, Open, Migrate, SetStore, Listen, ReturnError, CloseServers,
                  CloseNext, StopRetention, StopWriter, CloseStore, Log!vars
    <2>6. CASE GrowOld \/ RetentionEnds \/ SetRetention
      BY <2>6 DEF GrowOld, RetentionEnds, SetRetention, Log!vars
    <2>7. CASE UNCHANGED vars
      BY <2>7 DEF vars, Log!vars
    <2> QED  BY <2>1, <2>2, <2>3, <2>4, <2>5, <2>6, <2>7 DEF Next
  <1> QED  BY <1>1, <1>2, Invariance, PTL DEF Spec, ImplementsSummaryLog, Log!Spec

-----------------------------------------------------------------------------
(***************************************************************************)
(* What follows from SummaryLog alone, and so holds of the process that    *)
(* implements it.  The rows and the queue hold finished requests that wait *)
(* no more, each in one place; fin stands for the finished requests, w for *)
(* those that wait, q and t for the log's queue and rows.                  *)
(***************************************************************************)
OnlyOnce(fin, w, q, t) ==
    /\ w \subseteq fin /\ fin \subseteq Request
    /\ q \in Seq(Request) /\ \A i \in 1..Len(q) : q[i] \in fin \ w
    /\ t \in Seq(Request) /\ \A i \in 1..Len(t) : t[i] \in fin \ w
    /\ \A i, j \in 1..Len(t) : t[i] = t[j] => i = j
    /\ \A i \in 1..Len(t), j \in 1..Len(q) : t[i] # q[j]
    /\ \A i, j \in 1..Len(q) : q[i] = q[j] => i = j

\* A request finishes.
LEMMA FinishOnce ==
    ASSUME NEW fin, NEW w, NEW q, NEW t, OnlyOnce(fin, w, q, t), NEW r \in Request, r \notin fin
    PROVE  OnlyOnce(fin \cup {r}, w \cup {r}, q, t)
  BY DEF OnlyOnce

\* A finished request that waits joins the queue, or is lost.
LEMMA SubmitOnce ==
    ASSUME NEW fin, NEW w, NEW q, NEW t, OnlyOnce(fin, w, q, t), NEW r \in w
    PROVE  OnlyOnce(fin, w \ {r}, q, t) /\ OnlyOnce(fin, w \ {r}, Append(q, r), t)
  <1> USE DEF OnlyOnce
  <1>1. OnlyOnce(fin, w \ {r}, q, t) /\ r \in Request /\ r \in fin
    OBVIOUS
  <1> DEFINE p == Append(q, r)
  <1>2. /\ p \in Seq(Request) /\ Len(p) = Len(q) + 1 /\ Len(q) \in Nat
        /\ \A i \in 1..Len(q) : p[i] = q[i]
        /\ p[Len(q) + 1] = r
    BY <1>1, AppendProperties
  <1> HIDE DEF p
  <1>3. \A i \in 1..Len(p) : (i = Len(q) + 1 /\ p[i] = r) \/ (i \in 1..Len(q) /\ p[i] = q[i])
    BY <1>2
  <1>4. /\ \A i \in 1..Len(q) : q[i] # r
        /\ \A i \in 1..Len(t) : t[i] # r
    OBVIOUS
  <1>5. \A i \in 1..Len(p) : p[i] \in fin \ (w \ {r})
    BY <1>1, <1>3
  <1>6. \A i, j \in 1..Len(p) : p[i] = p[j] => i = j
    BY <1>3, <1>4
  <1>7. \A i \in 1..Len(t), j \in 1..Len(p) : t[i] # p[j]
    BY <1>3, <1>4
  <1>8. OnlyOnce(fin, w \ {r}, p, t)
    BY <1>1, <1>2, <1>5, <1>6, <1>7
  <1> QED  BY <1>1, <1>8 DEF p

\* The head of the queue becomes a row, or is lost.
LEMMA PersistOnce ==
    ASSUME NEW fin, NEW w, NEW q, NEW t, OnlyOnce(fin, w, q, t), q # <<>>
    PROVE  OnlyOnce(fin, w, Tail(q), t) /\ OnlyOnce(fin, w, Tail(q), Append(t, Head(q)))
  <1> USE DEF OnlyOnce
  <1> DEFINE p == Tail(q)
             u == Append(t, Head(q))
  <1>1. /\ p \in Seq(Request) /\ Len(q) = Len(p) + 1 /\ Len(p) \in Nat
        /\ \A i \in 1..Len(p) : p[i] = q[i + 1]
        /\ Head(q) = q[1] /\ q[1] \in Request
    BY HeadTailProperties
  <1>2. /\ u \in Seq(Request) /\ Len(u) = Len(t) + 1 /\ Len(t) \in Nat
        /\ \A i \in 1..Len(t) : u[i] = t[i]
        /\ u[Len(t) + 1] = q[1]
    BY <1>1, AppendProperties
  <1> HIDE DEF p, u
  <1>3. 1 \in 1..Len(q) /\ \A i \in 1..Len(p) : i + 1 \in 1..Len(q) /\ i + 1 # 1 /\ p[i] = q[i + 1]
    BY <1>1
  <1>4. \A i \in 1..Len(u) : (i = Len(t) + 1 /\ u[i] = q[1]) \/ (i \in 1..Len(t) /\ u[i] = t[i])
    BY <1>2
  <1>5. \A i \in 1..Len(p) : p[i] \in fin \ w
    BY <1>3
  <1>6. \A i, j \in 1..Len(p) : p[i] = p[j] => i = j
    BY <1>3
  <1>7. \A i \in 1..Len(t), j \in 1..Len(p) : t[i] # p[j]
    BY <1>3
  <1>8. \A i \in 1..Len(u) : u[i] \in fin \ w
    BY <1>3, <1>4
  <1>9. \A i, j \in 1..Len(u) : u[i] = u[j] => i = j
    BY <1>3, <1>4
  <1>10. \A i \in 1..Len(u), j \in 1..Len(p) : u[i] # p[j]
    BY <1>3, <1>4
  <1> QED  BY <1>1, <1>2, <1>5, <1>6, <1>7, <1>8, <1>9, <1>10 DEF p, u

\* Rows are deleted from the old end.
LEMMA PruneOnce ==
    ASSUME NEW fin, NEW w, NEW q, NEW t, OnlyOnce(fin, w, q, t), NEW n \in 1..Len(t)
    PROVE  OnlyOnce(fin, w, q, SubSeq(t, n + 1, Len(t)))
  <1> USE DEF OnlyOnce
  <1> DEFINE u == SubSeq(t, n + 1, Len(t))
  <1>1. u \in Seq(Request) /\ Len(u) = Len(t) - n /\ \A i \in 1..Len(u) : u[i] = t[n + i]
    OBVIOUS
  <1> HIDE DEF u
  <1>2. \A i \in 1..Len(u) : n + i \in 1..Len(t) /\ u[i] = t[n + i]
    BY <1>1
  <1>3. \A i, j \in 1..Len(u) : n + i = n + j => i = j
    BY <1>1
  <1> QED  BY <1>1, <1>2, <1>3 DEF u

\* No request ever has two rows or is on its way to a second one, whatever is
\* lost, pruned or forgotten: of every behavior that SummaryLog allows.
THEOREM OneRow == Log!Spec => []Log!AtMostOneRow
  <1> DEFINE Finished == {r \in Request : outcome[r] # "none"}
             Waiting == {r \in Request : outcome[r] = "pushed"}
             Inv == OnlyOnce(Finished, Waiting, hand \o ch, rows)
  <1>1. Log!Init => Inv
    BY DEF Log!Init, OnlyOnce
  <1>2. Inv /\ [Log!Next]_(Log!vars) => Inv'
    <2> SUFFICES ASSUME Inv, [Log!Next]_(Log!vars) PROVE Inv'
      OBVIOUS
    <2>0. Inv' <=> OnlyOnce(Finished', Waiting', (hand \o ch)', rows')
      BY DEF OnlyOnce
    <2>1. ASSUME NEW r \in Request, Log!Finish(r) PROVE Inv'
      <3>1. /\ r \notin Finished /\ Finished' = Finished \cup {r}
            /\ Waiting' = Waiting \cup {r} /\ (hand \o ch)' = hand \o ch /\ rows' = rows
        BY <2>1 DEF Log!Finish
      <3>2. OnlyOnce(Finished \cup {r}, Waiting \cup {r}, hand \o ch, rows)
        <4> HIDE DEF Finished, Waiting
        <4> QED  BY <3>1, FinishOnce
      <3> QED  BY <2>0, <3>1, <3>2
    <2>2. ASSUME NEW r \in Request, Log!Submit(r) PROVE Inv'
      <3>1. /\ r \in Waiting /\ Finished' = Finished
            /\ Waiting' = Waiting \ {r} /\ rows' = rows
            /\ (hand \o ch)' = hand \o ch \/ (hand \o ch)' = Append(hand \o ch, r)
        BY <2>2 DEF Log!Submit
      <3>2. /\ OnlyOnce(Finished, Waiting \ {r}, hand \o ch, rows)
            /\ OnlyOnce(Finished, Waiting \ {r}, Append(hand \o ch, r), rows)
        <4> HIDE DEF Finished, Waiting
        <4> QED  BY <3>1, SubmitOnce
      <3> QED  BY <2>0, <3>1, <3>2
    <2>3. CASE Log!Persist
      <3>1. /\ hand \o ch # <<>> /\ (hand \o ch)' = Tail(hand \o ch)
            /\ Finished' = Finished /\ Waiting' = Waiting
            /\ rows' = rows \/ rows' = Append(rows, Head(hand \o ch))
        BY <2>3 DEF Log!Persist
      <3>2. /\ OnlyOnce(Finished, Waiting, Tail(hand \o ch), rows)
            /\ OnlyOnce(Finished, Waiting, Tail(hand \o ch), Append(rows, Head(hand \o ch)))
        <4> HIDE DEF Finished, Waiting
        <4> QED  BY <3>1, PersistOnce
      <3> QED  BY <2>0, <3>1, <3>2
    <2>4. CASE Log!Prune
      <3>1. /\ (hand \o ch)' = hand \o ch /\ Finished' = Finished /\ Waiting' = Waiting
            /\ \E n \in 1..Len(rows) : rows' = SubSeq(rows, n + 1, Len(rows))
        BY <2>4 DEF Log!Prune
      <3>2. PICK n \in 1..Len(rows) : rows' = SubSeq(rows, n + 1, Len(rows))
        BY <3>1
      <3>3. OnlyOnce(Finished, Waiting, hand \o ch, SubSeq(rows, n + 1, Len(rows)))
        <4> HIDE DEF Finished, Waiting
        <4> QED  BY <3>1, PruneOnce
      <3> QED  BY <2>0, <3>1, <3>2, <3>3
    <2>5. CASE Log!Forget
      <3>1. (hand \o ch)' = <<>> /\ Finished' = Finished /\ Waiting' = {} /\ rows' = rows
        BY <2>5 DEF Log!Forget
      <3> QED  BY <2>0, <3>1 DEF OnlyOnce
    <2>6. CASE UNCHANGED Log!vars
      <3>1. (hand \o ch)' = hand \o ch /\ Finished' = Finished /\ Waiting' = Waiting /\ rows' = rows
        BY <2>6 DEF Log!vars
      <3> QED  BY <2>0, <3>1
    <2> QED  BY <2>1, <2>2, <2>3, <2>4, <2>5, <2>6 DEF Log!Next
  <1>3. Inv => Log!AtMostOneRow
    BY DEF OnlyOnce, Log!AtMostOneRow
  <1> QED  BY <1>1, <1>2, <1>3, PTL DEF Log!Spec

\* No request has two rows in the database, however many processes there are and
\* however they end: what the log promises, of the process (requests.go 70-101).
THEOREM ProcessOneRow == Spec => []Log!AtMostOneRow
  BY Refinement, OneRow, PTL DEF ImplementsSummaryLog
=============================================================================
