------------------------- MODULE AgentServe_proofs -------------------------
(***************************************************************************)
(* Proofs about AgentServe, for any finite set of requests and any number  *)
(* of tokens, frames and places in a body queue.                           *)
(***************************************************************************)
EXTENDS AgentServe, FiniteSetTheorems, TLAPS

\* Strengthenings.  A drain has set draining; an unbroken connection is up; a
\* request that has not come to its end has not been answered.
DrainIsSet == drain # "none" => draining
UpUnlessBroken == ~broke => up
NoAnswerYet == \A r \in Request : st[r] \in {"none"} \cup Serving => answers[r] = 0

\* What a request has received: the frames in its body and in its queue are
\* some of those sent, and all of them, in order, if they are as many.
BodyIsSent ==
    \A r \in Request :
        /\ Len(body[r]) + Len(bodyCh[r]) <= sent[r]
        /\ \A i \in 1..Len(bodyCh[r]) : bodyCh[r][i] <= sent[r]
        /\ Len(body[r]) + Len(bodyCh[r]) = sent[r] =>
              /\ \A i \in 1..Len(body[r]) : body[r][i] = i
              /\ \A i \in 1..Len(bodyCh[r]) : bodyCh[r][i] = Len(body[r]) + i
        /\ st[r] = "none" => sent[r] = 0

IInv == TypeOK /\ TokensAreExact /\ DrainIsSet /\ DrainedIsIdle /\ UpUnlessBroken
           /\ NoAnswerYet /\ OneAnswer /\ BodyIsSent /\ LocalGetsTheWholeBody

USE RequestAssumption, CapacityAssumption
USE DEF GoTo, reqVars, tableVars, drainVars, linkVars, Serving, Holding

-----------------------------------------------------------------------------
Holders == {r \in Request : st[r] \in Holding}

\* One request moves from st[r] to x: what that does to the token count and table.
LEMMA Count ==
    ASSUME TypeOK, NEW r \in Request, NEW x, GoTo(r, x)
    PROVE  /\ Cardinality(Holders) \in Nat
           /\ (st[r] \in Holding <=> x \in Holding) => Cardinality(Holders') = Cardinality(Holders)
           /\ st[r] \notin Holding /\ x \in Holding => Cardinality(Holders') = Cardinality(Holders) + 1
           /\ st[r] \in Holding /\ x \notin Holding => /\ Cardinality(Holders) > 0
                                                       /\ Cardinality(Holders') = Cardinality(Holders) - 1
  <1>1. IsFiniteSet(Holders) /\ Cardinality(Holders) \in Nat
    BY FS_Subset, FS_CardinalityType DEF Holders
  <1>2. \A q \in Request : st'[q] = IF q = r THEN x ELSE st[q]
    BY DEF TypeOK
  <1>3. ASSUME st[r] \in Holding <=> x \in Holding
        PROVE  Cardinality(Holders') = Cardinality(Holders)
    <2>1. Holders' = Holders
      BY <1>2, <1>3 DEF Holders
    <2> QED  BY <2>1
  <1>4. ASSUME st[r] \notin Holding, x \in Holding
        PROVE  Cardinality(Holders') = Cardinality(Holders) + 1
    <2>1. Holders' = Holders \cup {r} /\ r \notin Holders
      BY <1>2, <1>4 DEF Holders
    <2> QED  BY <2>1, <1>1, FS_AddElement
  <1>5. ASSUME st[r] \in Holding, x \notin Holding
        PROVE  Cardinality(Holders) > 0 /\ Cardinality(Holders') = Cardinality(Holders) - 1
    <2>1. Holders' = Holders \ {r} /\ r \in Holders
      BY <1>2, <1>5 DEF Holders
    <2>2. Cardinality(Holders) # 0
      BY <2>1, <1>1, FS_EmptySet
    <2>3. Cardinality(Holders \ {r}) = Cardinality(Holders) - 1
      BY <2>1, <1>1, FS_RemoveElement, Zenon
    <2> QED  BY <2>1, <2>2, <2>3, <1>1
  <1> QED  BY <1>1, <1>3, <1>4, <1>5

\* sem follows the moves into and out of the positions that hold a token.
LEMMA TokenStep ==
    ASSUME TypeOK, TokensAreExact, NEW r \in Request, NEW x, GoTo(r, x),
           \/ (st[r] \in Holding <=> x \in Holding) /\ sem' = sem
           \/ st[r] \notin Holding /\ x \in Holding /\ sem < MaxConcurrency /\ sem' = sem + 1
           \/ st[r] \in Holding /\ x \notin Holding /\ sem' = sem - 1
    PROVE  sem' = Cardinality(Holders') /\ sem' \in 0..MaxConcurrency
  <1> DEFINE old == Cardinality(Holders)
             new == Cardinality(Holders')
  <1>1. /\ old \in Nat
        /\ (st[r] \in Holding <=> x \in Holding) => new = old
        /\ st[r] \notin Holding /\ x \in Holding => new = old + 1
        /\ st[r] \in Holding /\ x \notin Holding => old > 0 /\ new = old - 1
    BY Count
  <1>2. sem = old
    BY DEF TokensAreExact, Holders
  <1>3. sem \in 0..MaxConcurrency
    BY DEF TypeOK
  <1> HIDE DEF old, new
  <1>4. sem' = new /\ sem' \in 0..MaxConcurrency
    BY <1>1, <1>2, <1>3
  <1> QED  BY <1>4 DEF new

\* The table follows the moves too.
Table == {r \in Request : st[r] \in Serving \cup {"ending"}}

LEMMA TableStep ==
    ASSUME TypeOK, TokensAreExact, NEW r \in Request, NEW x, GoTo(r, x),
           \/ (st[r] \in Serving \cup {"ending"} <=> x \in Serving \cup {"ending"}) /\ active' = active
           \/ x \in Serving \cup {"ending"} /\ active' = active \cup {r}
           \/ x \notin Serving \cup {"ending"} /\ active' = active \ {r}
    PROVE  active' = Table' /\ active' \subseteq Request
  <1>1. \A q \in Request : st'[q] = IF q = r THEN x ELSE st[q]
    BY DEF TypeOK
  <1>2. active = Table
    BY DEF TokensAreExact, Table
  <1> QED  BY <1>1, <1>2 DEF Table

-----------------------------------------------------------------------------
\* What a step of request r to position x must leave true of the other parts of
\* the invariant: its answers, and the drain.
LEMMA AnswerStep ==
    ASSUME TypeOK, NoAnswerYet, OneAnswer, UpUnlessBroken,
           NEW r \in Request, NEW x, GoTo(r, x), broke' = broke,
           \/ /\ answers' = answers
              /\ \/ x \in {"none"} \cup Serving /\ st[r] \in {"none"} \cup Serving
                 \/ x \in {"ending"} /\ ~up
                 \/ x \in {"deleted", "over"} /\ st[r] \in {"ending", "deleted"}
           \/ /\ Answer(r)
              /\ x \in {"refused", "ending"} /\ st[r] \in {"none"} \cup Serving
    PROVE  /\ answers' \in [Request -> Nat]
           /\ NoAnswerYet'
           /\ OneAnswer'
  <1>1. \A q \in Request : st'[q] = IF q = r THEN x ELSE st[q]
    BY DEF TypeOK
  <1>2. /\ answers \in [Request -> Nat] /\ broke \in BOOLEAN /\ up \in BOOLEAN
        /\ st[r] \in {"none"} \cup Serving => answers[r] = 0
    BY DEF TypeOK, NoAnswerYet
  <1>3. CASE answers' = answers
    BY <1>1, <1>2, <1>3 DEF NoAnswerYet, OneAnswer, UpUnlessBroken, Answer
  <1>4. CASE answers' # answers
    <2>1. /\ answers' = [answers EXCEPT ![r] = @ + 1]
          /\ x \in {"refused", "ending"} /\ answers[r] = 0
      BY <1>2, <1>4 DEF Answer
    <2>2. \A q \in Request : answers'[q] = IF q = r THEN 1 ELSE answers[q]
      BY <1>2, <2>1
    <2> QED  BY <1>1, <1>2, <2>1, <2>2 DEF NoAnswerYet, OneAnswer
  <1> QED  BY <1>3, <1>4

\* A step that only moves request r to x, with its token, its entry and its
\* answer.
MovesTo(r, x) ==
    /\ x \in Holding \cup {"refused", "over"}
    /\ GoTo(r, x)
    /\ x \in {"local", "stream"} => st[r] \in {"local", "stream"}
    /\ UNCHANGED <<canceled, sent, bodyCh, body, drainVars, linkVars>>
    /\ active' \subseteq active \/ ~draining
    /\ \/ (st[r] \in Holding <=> x \in Holding) /\ sem' = sem
       \/ st[r] \notin Holding /\ x \in Holding /\ sem < MaxConcurrency /\ sem' = sem + 1
       \/ st[r] \in Holding /\ x \notin Holding /\ sem' = sem - 1
    /\ \/ (st[r] \in Serving \cup {"ending"} <=> x \in Serving \cup {"ending"}) /\ active' = active
       \/ x \in Serving \cup {"ending"} /\ active' = active \cup {r}
       \/ x \notin Serving \cup {"ending"} /\ active' = active \ {r}
    /\ \/ /\ answers' = answers
          /\ \/ x \in {"none"} \cup Serving /\ st[r] \in {"none"} \cup Serving
             \/ x \in {"ending"} /\ ~up
             \/ x \in {"deleted", "over"} /\ st[r] \in {"ending", "deleted"}
       \/ /\ Answer(r)
          /\ x \in {"refused", "ending"} /\ st[r] \in {"none"} \cup Serving

\* Such a step keeps the invariant.
LEMMA Move ==
    ASSUME IInv, NEW r \in Request, NEW x, MovesTo(r, x)
    PROVE  IInv'
  <1>0. TypeOK /\ TokensAreExact /\ NoAnswerYet /\ OneAnswer /\ UpUnlessBroken
    BY DEF IInv
  <1>1. \A q \in Request : st'[q] = IF q = r THEN x ELSE st[q]
    BY <1>0 DEF TypeOK, MovesTo
  <1>2. sem' = Cardinality(Holders') /\ sem' \in 0..MaxConcurrency
    BY <1>0, TokenStep DEF MovesTo
  <1>3. active' = Table' /\ active' \subseteq Request
    BY <1>0, TableStep DEF MovesTo
  <1>4. answers' \in [Request -> Nat] /\ NoAnswerYet' /\ OneAnswer'
    BY <1>0, AnswerStep DEF MovesTo
  <1>5. TypeOK'
    BY <1>0, <1>2, <1>3, <1>4 DEF TypeOK, MovesTo
  <1>6. TokensAreExact'
    BY <1>2, <1>3 DEF TokensAreExact, Holders, Table
  <1>7. DrainIsSet' /\ DrainedIsIdle' /\ UpUnlessBroken'
    BY DEF MovesTo, IInv, DrainIsSet, DrainedIsIdle, UpUnlessBroken
  <1>8. BodyIsSent' /\ LocalGetsTheWholeBody'
    BY <1>1 DEF MovesTo, IInv, BodyIsSent, LocalGetsTheWholeBody
  <1> QED  BY <1>4, <1>5, <1>6, <1>7, <1>8 DEF IInv

-----------------------------------------------------------------------------
\* The invariant holds when the agent starts.
LEMMA Start == Init => IInv
  <1> SUFFICES ASSUME Init PROVE IInv
    OBVIOUS
  <1> USE DEF Init
  <1>1. TypeOK
    <2>1. <<>> \in Seq(Frame)
      OBVIOUS
    <2>2. MaxConcurrency \in Nat /\ Frames \in Nat
      OBVIOUS
    <2>3. /\ st \in [Request -> Holding \cup {"none", "refused", "over"}]
          /\ canceled \in [Request -> BOOLEAN]
          /\ sent \in [Request -> 0..Frames]
          /\ answers \in [Request -> Nat]
      BY <2>2
    <2>4. bodyCh \in [Request -> Seq(Frame)] /\ body \in [Request -> Seq(Frame)]
      BY <2>1
    <2>5. active \subseteq Request /\ sem \in 0..MaxConcurrency /\ acked \in Nat
      BY <2>2
    <2>6. /\ draining \in BOOLEAN /\ drain \in {"none", "waiting", "acked"}
          /\ up \in BOOLEAN /\ broke \in BOOLEAN
      BY Zenon
    <2> QED  BY <2>3, <2>4, <2>5, <2>6 DEF TypeOK
  <1>2. TokensAreExact
    <2>1. {r \in Request : st[r] \in Holding} = {}
      OBVIOUS
    <2>2. {r \in Request : st[r] \in Serving \cup {"ending"}} = {}
      OBVIOUS
    <2> QED  BY <2>1, <2>2, FS_EmptySet DEF TokensAreExact
  <1>3. DrainIsSet /\ DrainedIsIdle /\ UpUnlessBroken
    BY DEF DrainIsSet, DrainedIsIdle, UpUnlessBroken
  <1>4. NoAnswerYet /\ OneAnswer /\ LocalGetsTheWholeBody
    BY DEF NoAnswerYet, OneAnswer, LocalGetsTheWholeBody
  <1>5. BodyIsSent
    BY DEF BodyIsSent
  <1> QED  BY <1>1, <1>2, <1>3, <1>4, <1>5 DEF IInv

\* The moves: everything but the frames.
LEMMA ServeKeeps ==
    ASSUME IInv, NEW r \in Request,
           \/ Refuse(r) \/ Accept(r) \/ GiveUp(r) \/ LocalAnswers(r) \/ Finish(r)
           \/ WriteFails(r) \/ Delete(r) \/ Release(r)
    PROVE  IInv'
  <1>1. CASE Refuse(r)
    <2>1. MovesTo(r, "refused")
      BY <1>1 DEF Refuse, MovesTo
    <2> QED  BY <2>1, Move
  <1>2. CASE Accept(r)
    <2>1. MovesTo(r, "assemble")
      BY <1>2 DEF Accept, MovesTo
    <2> QED  BY <2>1, Move
  <1>3. CASE GiveUp(r)
    <2>1. MovesTo(r, "ending")
      BY <1>3 DEF GiveUp, MovesTo
    <2> QED  BY <2>1, Move
  <1>4. CASE LocalAnswers(r)
    <2>1. MovesTo(r, "stream") \/ MovesTo(r, "ending")
      BY <1>4 DEF LocalAnswers, MovesTo
    <2> QED  BY <2>1, Move
  <1>5. CASE Finish(r)
    <2>1. MovesTo(r, "ending")
      BY <1>5 DEF Finish, MovesTo
    <2> QED  BY <2>1, Move
  <1>6. CASE WriteFails(r)
    <2>1. MovesTo(r, "ending")
      BY <1>6 DEF WriteFails, MovesTo
    <2> QED  BY <2>1, Move
  <1>7. CASE Delete(r)
    <2>1. MovesTo(r, "deleted")
      BY <1>7 DEF Delete, MovesTo
    <2> QED  BY <2>1, Move
  <1>8. CASE Release(r)
    <2>1. MovesTo(r, "over")
      BY <1>8 DEF Release, MovesTo
    <2> QED  BY <2>1, Move
  <1> QED  BY <1>1, <1>2, <1>3, <1>4, <1>5, <1>6, <1>7, <1>8

-----------------------------------------------------------------------------
\* A frame is routed: at the end of the queue, if nothing was dropped before.
LEMMA RouteKeeps ==
    ASSUME IInv, NEW r \in Request, RouteBodyFrame(r) \/ FrameLost(r)
    PROVE  IInv'
  <1>0. /\ st' = st /\ body' = body /\ UNCHANGED <<tableVars, drainVars, linkVars, answers>>
        /\ sent' = [sent EXCEPT ![r] = @ + 1]
        /\ st[r] # "none" /\ sent[r] < Frames
        /\ \/ bodyCh' = bodyCh
           \/ bodyCh' = [bodyCh EXCEPT ![r] = Append(@, sent[r] + 1)]
        /\ canceled' = canceled \/ canceled' = [canceled EXCEPT ![r] = TRUE]
    BY DEF RouteBodyFrame, FrameLost
  <1>1. /\ bodyCh \in [Request -> Seq(Frame)] /\ body \in [Request -> Seq(Frame)]
        /\ sent \in [Request -> 0..Frames] /\ Frames \in Nat
    BY DEF IInv, TypeOK
  <1>2. sent[r] + 1 \in Frame
    BY <1>0, <1>1 DEF Frame
  <1>3. bodyCh' \in [Request -> Seq(Frame)] /\ sent' \in [Request -> 0..Frames]
    <2>1. sent' \in [Request -> 0..Frames]
      BY <1>0, <1>1
    <2>2. Append(bodyCh[r], sent[r] + 1) \in Seq(Frame)
      BY <1>1, <1>2
    <2>3. bodyCh' \in [Request -> Seq(Frame)]
      BY <1>0, <1>1, <2>2
    <2> QED  BY <2>1, <2>3
  <1>4. TypeOK'
    BY <1>0, <1>3 DEF IInv, TypeOK
  <1>5. TokensAreExact' /\ DrainIsSet' /\ DrainedIsIdle' /\ UpUnlessBroken'
    BY <1>0 DEF IInv, TokensAreExact, DrainIsSet, DrainedIsIdle, UpUnlessBroken
  <1>6. NoAnswerYet' /\ OneAnswer' /\ LocalGetsTheWholeBody'
    BY <1>0 DEF IInv, NoAnswerYet, OneAnswer, LocalGetsTheWholeBody
  <1>7. BodyIsSent'
    <2> SUFFICES ASSUME NEW q \in Request
                 PROVE  /\ Len(body[q]) + Len(bodyCh'[q]) <= sent'[q]
                        /\ \A i \in 1..Len(bodyCh'[q]) : bodyCh'[q][i] <= sent'[q]
                        /\ Len(body[q]) + Len(bodyCh'[q]) = sent'[q] =>
                              /\ \A i \in 1..Len(body[q]) : body[q][i] = i
                              /\ \A i \in 1..Len(bodyCh'[q]) : bodyCh'[q][i] = Len(body[q]) + i
                        /\ st[q] = "none" => sent'[q] = 0
      BY <1>0 DEF BodyIsSent
    <2> DEFINE b == body[q]
               c == bodyCh[q]
               n == sent[q]
    <2>1. /\ Len(b) + Len(c) <= n
          /\ \A i \in 1..Len(c) : c[i] <= n
          /\ Len(b) + Len(c) = n => /\ \A i \in 1..Len(b) : b[i] = i
                                    /\ \A i \in 1..Len(c) : c[i] = Len(b) + i
          /\ st[q] = "none" => n = 0
      BY DEF IInv, BodyIsSent
    <2>2. b \in Seq(Frame) /\ c \in Seq(Frame) /\ n \in Nat
      BY <1>1
    <2>3. CASE q # r
      <3>1. bodyCh'[q] = c /\ sent'[q] = n
        BY <2>3, <1>0, <1>1
      <3> QED  BY <3>1, <2>1
    <2>4. CASE q = r /\ bodyCh' = bodyCh
      <3>1. bodyCh'[q] = c /\ sent'[q] = n + 1 /\ st[q] # "none"
        BY <2>4, <1>0, <1>1
      <3>2. Len(b) \in Nat /\ Len(c) \in Nat /\ \A i \in 1..Len(c) : c[i] \in Nat
        BY <2>2, <1>1 DEF Frame
      <3> HIDE DEF b, c, n
      <3>3. /\ Len(b) + Len(c) <= n + 1 /\ Len(b) + Len(c) # n + 1
            /\ \A i \in 1..Len(c) : c[i] <= n + 1
        BY <2>1, <2>2, <3>2
      <3> QED  BY <3>1, <3>3 DEF b, c, n
    <2>5. CASE q = r /\ bodyCh' = [bodyCh EXCEPT ![r] = Append(@, sent[r] + 1)]
      <3>1. bodyCh'[q] = Append(c, n + 1) /\ sent'[q] = n + 1 /\ st[q] # "none"
        BY <2>5, <1>0, <1>1
      <3>2. Len(b) \in Nat /\ Len(c) \in Nat /\ \A i \in 1..Len(c) : c[i] \in Nat
        BY <2>2, <1>1 DEF Frame
      <3> HIDE DEF b, c, n
      <3>3. /\ Len(Append(c, n + 1)) = Len(c) + 1
            /\ \A i \in 1..(Len(c) + 1) : Append(c, n + 1)[i] = IF i = Len(c) + 1 THEN n + 1 ELSE c[i]
        BY <2>2
      <3>4. /\ Len(b) + Len(Append(c, n + 1)) <= n + 1
            /\ \A i \in 1..Len(Append(c, n + 1)) : Append(c, n + 1)[i] <= n + 1
            /\ Len(b) + Len(Append(c, n + 1)) = n + 1 =>
                  /\ \A i \in 1..Len(b) : b[i] = i
                  /\ \A i \in 1..Len(Append(c, n + 1)) : Append(c, n + 1)[i] = Len(b) + i
        <4> DEFINE a == Append(c, n + 1)
        <4>0. Len(a) = Len(c) + 1 /\ \A i \in 1..Len(a) : a[i] = IF i = Len(c) + 1 THEN n + 1 ELSE c[i]
          BY <3>3
        <4> HIDE DEF a
        <4>1. Len(b) + Len(a) <= n + 1
          BY <4>0, <2>1, <2>2, <3>2
        <4>2. ASSUME NEW i \in 1..Len(a) PROVE a[i] <= n + 1
          BY <4>0, <2>1, <2>2, <3>2
        <4>3. ASSUME Len(b) + Len(a) = n + 1
              PROVE  /\ \A i \in 1..Len(b) : b[i] = i
                     /\ \A i \in 1..Len(a) : a[i] = Len(b) + i
          <5>1. Len(b) + Len(c) = n
            BY <4>0, <4>3, <2>2, <3>2
          <5>2. \A i \in 1..Len(b) : b[i] = i
            BY <5>1, <2>1
          <5>3. \A i \in 1..Len(c) : c[i] = Len(b) + i
            BY <5>1, <2>1
          <5>4. ASSUME NEW i \in 1..Len(a) PROVE a[i] = Len(b) + i
            <6>1. a[i] = IF i = Len(c) + 1 THEN n + 1 ELSE c[i]
              BY <4>0, <5>4
            <6>2. i # Len(c) + 1 => i \in 1..Len(c)
              BY <4>0, <5>4, <3>2
            <6> QED  BY <6>1, <6>2, <5>1, <5>3, <2>2, <3>2
          <5> QED  BY <5>2, <5>4
        <4> QED  BY <4>1, <4>2, <4>3 DEF a
      <3> QED  BY <3>1, <3>4 DEF b, c, n
    <2> QED  BY <2>3, <2>4, <2>5, <1>0
  <1> QED  BY <1>4, <1>5, <1>6, <1>7 DEF IInv

\* A frame is taken: the body and the queue together stay what they were, and a
\* body of the declared length is the whole of it.
LEMMA TakeKeepsBody ==
    ASSUME IInv, NEW r \in Request, TakeFrame(r)
    PROVE  /\ bodyCh' \in [Request -> Seq(Frame)] /\ body' \in [Request -> Seq(Frame)]
           /\ BodyIsSent' /\ LocalGetsTheWholeBody'
  <1> DEFINE f == Head(bodyCh[r])
  <1>0. /\ st[r] = "assemble" /\ bodyCh[r] # <<>>
        /\ bodyCh' = [bodyCh EXCEPT ![r] = Tail(@)]
        /\ body' = [body EXCEPT ![r] = Append(@, f)]
        /\ sent' = sent
        /\ st' = st \/ GoTo(r, "ending") \/ (Len(body[r]) + 1 = Frames /\ GoTo(r, "local"))
    BY DEF TakeFrame
  <1>1. /\ bodyCh \in [Request -> Seq(Frame)] /\ body \in [Request -> Seq(Frame)]
        /\ sent \in [Request -> 0..Frames] /\ Frames \in Nat
        /\ st \in [Request -> Holding \cup {"none", "refused", "over"}]
    BY DEF IInv, TypeOK
  <1>2. f \in Frame /\ Tail(bodyCh[r]) \in Seq(Frame)
    BY <1>0, <1>1
  <1>3. bodyCh' \in [Request -> Seq(Frame)] /\ body' \in [Request -> Seq(Frame)]
    BY <1>0, <1>1, <1>2
  <1>4. \A q \in Request : /\ q # r => st'[q] = st[q] /\ bodyCh'[q] = bodyCh[q] /\ body'[q] = body[q]
                           /\ st'[q] = "none" => st[q] = "none"
    BY <1>0, <1>1
  <1> DEFINE b == body[r]
             c == bodyCh[r]
             n == sent[r]
             d == Append(b, f)
             t == Tail(c)
  <1>5. /\ Len(b) + Len(c) <= n
        /\ \A i \in 1..Len(c) : c[i] <= n
        /\ Len(b) + Len(c) = n => /\ \A i \in 1..Len(b) : b[i] = i
                                  /\ \A i \in 1..Len(c) : c[i] = Len(b) + i
        /\ n \in 0..Frames /\ b \in Seq(Frame) /\ c \in Seq(Frame) /\ c # <<>>
    BY <1>0, <1>1 DEF IInv, BodyIsSent
  <1>6. /\ Len(b) \in Nat /\ Len(c) \in Nat /\ Len(c) >= 1
        /\ f = c[1] /\ Len(t) = Len(c) - 1 /\ \A i \in 1..Len(t) : t[i] = c[i + 1]
        /\ Len(d) = Len(b) + 1 /\ \A i \in 1..Len(d) : d[i] = IF i = Len(b) + 1 THEN f ELSE b[i]
    BY <1>5, <1>2
  <1>7. bodyCh'[r] = t /\ body'[r] = d
    BY <1>0, <1>1
  <1> HIDE DEF b, c, d, t, n, f
  <1>8. /\ Len(d) + Len(t) <= n
        /\ \A i \in 1..Len(t) : t[i] <= n
        /\ Len(d) + Len(t) = n => /\ \A i \in 1..Len(d) : d[i] = i
                                  /\ \A i \in 1..Len(t) : t[i] = Len(d) + i
    <2>1. Len(d) + Len(t) = Len(b) + Len(c)
      BY <1>6
    <2>2. \A i \in 1..Len(t) : i + 1 \in 1..Len(c)
      BY <1>6
    <2>3. \A i \in 1..Len(t) : t[i] <= n
      BY <2>2, <1>5, <1>6
    <2>4. ASSUME Len(b) + Len(c) = n
          PROVE  /\ \A i \in 1..Len(d) : d[i] = i
                 /\ \A i \in 1..Len(t) : t[i] = Len(d) + i
      <3>1. \A i \in 1..Len(b) : b[i] = i
        BY <2>4, <1>5
      <3>2. \A i \in 1..Len(c) : c[i] = Len(b) + i
        BY <2>4, <1>5
      <3>3. f = Len(b) + 1
        BY <3>2, <1>6
      <3>4. ASSUME NEW i \in 1..Len(t) PROVE t[i] = Len(d) + i
        BY <3>2, <2>2, <1>6
      <3> QED  BY <3>1, <3>3, <3>4, <1>6
    <2> QED  BY <2>1, <2>3, <2>4, <1>5
  <1>9. BodyIsSent'
    <2> SUFFICES ASSUME NEW q \in Request
                 PROVE  /\ Len(body'[q]) + Len(bodyCh'[q]) <= sent[q]
                        /\ \A i \in 1..Len(bodyCh'[q]) : bodyCh'[q][i] <= sent[q]
                        /\ Len(body'[q]) + Len(bodyCh'[q]) = sent[q] =>
                              /\ \A i \in 1..Len(body'[q]) : body'[q][i] = i
                              /\ \A i \in 1..Len(bodyCh'[q]) : bodyCh'[q][i] = Len(body'[q]) + i
                        /\ st'[q] = "none" => sent[q] = 0
      BY <1>0 DEF BodyIsSent
    <2>1. CASE q = r
      BY <2>1, <1>0, <1>4, <1>7, <1>8 DEF n
    <2>2. CASE q # r
      BY <2>2, <1>4 DEF IInv, BodyIsSent
    <2> QED  BY <2>1, <2>2
  <1>10. LocalGetsTheWholeBody'
    <2> SUFFICES ASSUME NEW q \in Request, st'[q] \in {"local", "stream"}
                 PROVE  body'[q] = Whole
      BY DEF LocalGetsTheWholeBody, Whole, Frame
    <2>1. CASE q # r
      BY <2>1, <1>4 DEF IInv, LocalGetsTheWholeBody
    <2>2. CASE q = r
      <3>1. Len(b) + 1 = Frames
        BY <2>2, <1>0, <1>1 DEF b
      <3>2. Len(d) = Frames /\ \A i \in 1..Len(d) : d[i] = i
        BY <3>1, <1>1, <1>5, <1>6, <1>8
      <3>3. d \in Seq(Frame)
        BY <1>3, <1>7
      <3>4. d = [i \in 1..Frames |-> i]
        BY <3>2, <3>3, <1>1
      <3> QED  BY <2>2, <3>4, <1>7 DEF Whole, Frame
    <2> QED  BY <2>1, <2>2
  <1> QED  BY <1>3, <1>9, <1>10

\* assembleBody's step keeps the rest too: the request moves or stays.
LEMMA TakeKeeps ==
    ASSUME IInv, NEW r \in Request, TakeFrame(r)
    PROVE  IInv'
  <1>0. TypeOK /\ TokensAreExact /\ NoAnswerYet /\ OneAnswer /\ UpUnlessBroken
    BY DEF IInv
  <1>1. /\ bodyCh' \in [Request -> Seq(Frame)] /\ body' \in [Request -> Seq(Frame)]
        /\ BodyIsSent' /\ LocalGetsTheWholeBody'
    BY TakeKeepsBody
  <1>2. /\ st[r] = "assemble"
        /\ \/ st' = st /\ answers' = answers
           \/ GoTo(r, "local") /\ answers' = answers
           \/ GoTo(r, "ending") /\ Answer(r)
        /\ UNCHANGED <<canceled, sent, tableVars, drainVars, linkVars>>
    BY DEF TakeFrame
  <1>3. PICK x \in Serving \cup {"ending"} :
           /\ GoTo(r, x)
           /\ \/ x \in Serving /\ answers' = answers
              \/ x = "ending" /\ Answer(r)
    <2>1. st' = st => GoTo(r, "assemble")
      BY <1>0, <1>2 DEF TypeOK
    <2> QED  BY <1>2, <2>1
  <1>4. sem' = Cardinality(Holders') /\ sem' \in 0..MaxConcurrency
    BY <1>0, <1>2, <1>3, TokenStep
  <1>5. active' = Table' /\ active' \subseteq Request
    BY <1>0, <1>2, <1>3, TableStep
  <1>6. answers' \in [Request -> Nat] /\ NoAnswerYet' /\ OneAnswer'
    BY <1>0, <1>2, <1>3, AnswerStep
  <1>7. st' \in [Request -> Holding \cup {"none", "refused", "over"}]
    BY <1>0, <1>3 DEF TypeOK
  <1>8. TypeOK'
    BY <1>0, <1>1, <1>2, <1>4, <1>5, <1>6, <1>7 DEF TypeOK
  <1>9. TokensAreExact'
    BY <1>4, <1>5 DEF TokensAreExact, Holders, Table
  <1>10. DrainIsSet' /\ DrainedIsIdle' /\ UpUnlessBroken'
    BY <1>2 DEF IInv, DrainIsSet, DrainedIsIdle, UpUnlessBroken
  <1> QED  BY <1>1, <1>6, <1>8, <1>9, <1>10 DEF IInv

\* The other steps leave the requests where they are.
LEMMA RestKeeps ==
    ASSUME IInv,
           \/ \E r \in Request : CancelRequest(r)
           \/ EnterDrain \/ WaitForDrain \/ DrainDeadline \/ Break \/ Reconnect
           \/ UNCHANGED vars
    PROVE  IInv'
  <1>1. /\ UNCHANGED <<st, sent, bodyCh, body, active, sem, answers>>
        /\ broke' = broke \/ broke' = TRUE
    BY DEF CancelRequest, EnterDrain, WaitForDrain, DrainDeadline, DrainAck, Break, Reconnect, vars
  <1>2. TypeOK'
    <2>1. canceled' \in [Request -> BOOLEAN]
      BY DEF IInv, TypeOK, CancelRequest, EnterDrain, WaitForDrain, DrainDeadline, DrainAck, Break,
             Reconnect, vars
    <2>2. Cardinality(active) \in Nat
      BY FS_Subset, FS_CardinalityType DEF IInv, TypeOK
    <2>3. acked' \in Nat /\ drain' \in {"none", "waiting", "acked"}
      BY <2>2 DEF IInv, TypeOK, CancelRequest, EnterDrain, WaitForDrain, DrainDeadline, DrainAck, Break,
             Reconnect, vars
    <2>4. draining' \in BOOLEAN /\ up' \in BOOLEAN /\ broke' \in BOOLEAN
      BY DEF IInv, TypeOK, CancelRequest, EnterDrain, WaitForDrain, DrainDeadline, DrainAck, Break,
             Reconnect, vars
    <2> QED  BY <1>1, <2>1, <2>3, <2>4 DEF IInv, TypeOK
  <1>3. TokensAreExact' /\ BodyIsSent' /\ LocalGetsTheWholeBody'
    BY <1>1 DEF IInv, TokensAreExact, BodyIsSent, LocalGetsTheWholeBody
  <1>4. NoAnswerYet' /\ OneAnswer'
    BY <1>1 DEF IInv, NoAnswerYet, OneAnswer
  <1>5. DrainIsSet' /\ UpUnlessBroken'
    BY DEF IInv, DrainIsSet, UpUnlessBroken, CancelRequest, EnterDrain, WaitForDrain, DrainDeadline,
           DrainAck, Break, Reconnect, vars
  <1>6. DrainedIsIdle'
    <2>1. CASE DrainDeadline
      <3>1. IsFiniteSet(active)
        BY FS_Subset DEF IInv, TypeOK
      <3>2. Cardinality(active) # 0
        BY <2>1, <3>1, FS_EmptySet DEF DrainDeadline
      <3> QED  BY <2>1, <3>2 DEF DrainDeadline, DrainAck, DrainedIsIdle
    <2>2. CASE ~DrainDeadline
      BY <2>2 DEF IInv, DrainedIsIdle, CancelRequest, EnterDrain, WaitForDrain, DrainAck, Break,
                  Reconnect, vars
    <2> QED  BY <2>1, <2>2
  <1> QED  BY <1>2, <1>3, <1>4, <1>5, <1>6 DEF IInv

-----------------------------------------------------------------------------
\* IInv is inductive.
THEOREM Invariance == Spec => []IInv
  <1>1. Init => IInv
    BY Start
  <1>2. IInv /\ [Next]_vars => IInv'
    <2> SUFFICES ASSUME IInv, [Next]_vars PROVE IInv'
      OBVIOUS
    <2>1. CASE \E r \in Request : Serve(r) \/ ReadLoop(r) \/ FrameLost(r)
      <3> PICK r \in Request : Serve(r) \/ ReadLoop(r) \/ FrameLost(r)
        BY <2>1
      <3>1. CASE TakeFrame(r)
        BY <3>1, TakeKeeps
      <3>2. CASE RouteBodyFrame(r) \/ FrameLost(r)
        BY <3>2, RouteKeeps
      <3>3. CASE CancelRequest(r)
        BY <3>3, RestKeeps
      <3>4. CASE \/ Refuse(r) \/ Accept(r) \/ GiveUp(r) \/ LocalAnswers(r) \/ Finish(r)
                 \/ WriteFails(r) \/ Delete(r) \/ Release(r)
        BY <3>4, ServeKeeps
      <3> QED  BY <3>1, <3>2, <3>3, <3>4 DEF Serve, ReadLoop
    <2>2. CASE EnterDrain \/ WaitForDrain \/ DrainDeadline \/ Break \/ Reconnect \/ UNCHANGED vars
      BY <2>2, RestKeeps
    <2> QED  BY <2>1, <2>2 DEF Next
  <1> QED  BY <1>1, <1>2, PTL DEF Spec

\* Type correctness, for any number of requests, tokens, frames and places: no
\* more tokens of localSem are out than max_concurrency (agent.go 151-207).
THEOREM TypeCorrect == Spec => []TypeOK
  <1>1. IInv => TypeOK
    BY DEF IInv
  <1> QED  BY <1>1, Invariance, PTL

\* The local model is asked with the whole body or not at all, for any length
\* of the body and of the queue (routeBodyFrame, assembleBody).
THEOREM WholeBody == Spec => []LocalGetsTheWholeBody
  <1>1. IInv => LocalGetsTheWholeBody
    BY DEF IInv
  <1> QED  BY <1>1, Invariance, PTL

\* No way out of serveRequest leaks a token or gives one back twice.
THEOREM TokensExact == Spec => []TokensAreExact
  <1>1. IInv => TokensAreExact
    BY DEF IInv
  <1> QED  BY <1>1, Invariance, PTL

\* An agent that acknowledged its drain with no active request stays idle.
THEOREM DrainedIdle == Spec => []DrainedIsIdle
  <1>1. IInv => DrainedIsIdle
    BY DEF IInv
  <1> QED  BY <1>1, Invariance, PTL

\* One done or error per request, on a connection that held.
THEOREM AnsweredOnce == Spec => []OneAnswer
  <1>1. IInv => OneAnswer
    BY DEF IInv
  <1> QED  BY <1>1, Invariance, PTL
=============================================================================
