-------------------------- MODULE Forward_proofs --------------------------
(***************************************************************************)
(* Proofs about Forward, for any number of chunks, any capacity of the     *)
(* frames channel and any setting of the timers.                           *)
(***************************************************************************)
EXTENDS Forward, TLAPS

USE BoundAssumption, SwitchAssumption

(***************************************************************************)
(* The inductive invariant.                                                *)
(***************************************************************************)
Ending == {"done", "error"}
HasHeaders == toRelay # <<>> /\ toRelay[1].type = "response_headers"
HasEnd == toRelay # <<>> /\ toRelay[Len(toRelay)].type \in Ending

\* The frames on the connection are those from FirstFrame to LastFrame.
FirstFrame == IF HasHeaders THEN 2 ELSE 1
LastFrame == IF HasEnd THEN Len(toRelay) - 1 ELSE Len(toRelay)

\* What is on a connection: perhaps the headers, then the chunks produced last
\* without a gap, then perhaps the end, after which the agent writes nothing.
Line == /\ ~Connected => toRelay = <<>>
        /\ serve = "local" => toRelay = <<>> /\ made = 0
        /\ HasEnd => serve = "gone"
        /\ \A i \in 1..Len(toRelay) :
              \/ i = 1 /\ toRelay[i].type = "response_headers"
              \/ i = Len(toRelay) /\ toRelay[i].type \in Ending
              \/ toRelay[i].type = "frame" /\ toRelay[i].chunk + LastFrame = made + i

\* Body, frames channel and connection hold chunks in this order.
Ordered == /\ Increasing(body) /\ Increasing(frames)
           /\ \A i \in 1..Len(body), j \in 1..Len(frames) : body[i] < frames[j]
           /\ \A i \in 1..Len(body) : body[i] <= made
           /\ \A i \in 1..Len(frames) : frames[i] <= made
           /\ \A k \in 1..Len(toRelay) : toRelay[k].type = "frame" =>
                 /\ \A i \in 1..Len(body) : body[i] < toRelay[k].chunk
                 /\ \A i \in 1..Len(frames) : frames[i] < toRelay[k].chunk

\* While forwardResponse runs, is not stuck in a write and nothing was lost, they
\* hold every chunk.
NoGap == pending /\ fwd # "blocked" /\ lost = {} =>
            /\ \A i \in 1..Len(body) : body[i] = i
            /\ \A i \in 1..Len(frames) : frames[i] = Len(body) + i
            /\ Len(body) + Len(frames) + LastFrame + 1 = made + FirstFrame

\* The end was the last thing the agent wrote; an error may also be an overflow.
AtEnd == serve = "gone" /\ toRelay = <<>>
EndIsLast == /\ done = 1 \/ fwd = "drainDone" => AtEnd
             /\ err = 1 \/ fwd = "drainErr" => AtEnd \/ lost # {}

\* The pending entry is there while forwardResponse runs.
PendingWhileRunning == /\ pending <=> fwd # "returned"
                       /\ pending <=> outcome = "none"

Complete == outcome \in {"success", "agent_error"} /\ lost = {} =>
               serve = "gone" /\ body = [i \in 1..made |-> i]

\* A frame that was dropped and is not reported yet keeps the read loop of its
\* connection, and so done, away.
ReportComes ==
    /\ \A c \in Conn : over[c] # "none" => lost # {}
    /\ link = "up" /\ over["up"] # "none" =>
          done = 0 /\ fwd # "drainDone" /\ outcome # "success"
    /\ link = "up" /\ lost # {} /\ fwd = "select" => err = 1 \/ over["up"] # "none"
    /\ HoleIsReported

IInv == /\ TypeOK /\ Line /\ Ordered /\ NoGap /\ EndIsLast
        /\ PendingWhileRunning /\ Complete /\ ReportComes

\* The messages, told apart by their type.
LEMMA Messages ==
    /\ {Hdr, Done, Error} \subseteq Message /\ \A i \in Chunk : Frame(i) \in Message
    /\ Hdr.type = "response_headers" /\ Done.type = "done" /\ Error.type = "error"
    /\ \A i \in Chunk : Frame(i).type = "frame" /\ Frame(i).chunk = i
    /\ \A m \in Message : /\ m.type \in {"response_headers", "frame"} \cup Ending
                          /\ m.type = "frame" => m.chunk \in Chunk
  <1> USE DEF Hdr, Done, Error, Frame, Ending
  <1>1. {Hdr, Done, Error} \subseteq Message /\ \A i \in Chunk : Frame(i) \in Message
    BY DEF Message
  <1>2. ASSUME NEW m \in Message
        PROVE  /\ m.type \in {"response_headers", "frame"} \cup Ending
               /\ m.type = "frame" => m.chunk \in Chunk
    <2>1. CASE m \in {Hdr, Done, Error}
      BY <2>1
    <2>2. CASE \E i \in Chunk : m = Frame(i)
      BY <2>2
    <2> QED  BY <2>1, <2>2 DEF Message
  <1> QED  BY <1>1, <1>2

USE DEF Conn, Chunk, Outcome, Connected
USE DEF agentVars, linkVars, chanVars, clientVars, fwdVars

-----------------------------------------------------------------------------
\* What the agent writes comes last, and leaves the rest as it is.
LEMMA WriteAppends ==
    ASSUME TypeOK, Line, serve # "gone", NEW m \in Message, WriteOK(m)
    PROVE  /\ toRelay' \in Seq(Message)
           /\ \/ toRelay' = toRelay /\ ~Connected
              \/ /\ Connected /\ Len(toRelay') = Len(toRelay) + 1
                 /\ \A i \in 1..Len(toRelay) : toRelay'[i] = toRelay[i]
                 /\ toRelay'[Len(toRelay')] = m
  BY DEF TypeOK, WriteOK

\* Until the agent has written the end, the frames go on to the last message.
LEMMA Open == ASSUME Line, serve # "gone" PROVE ~HasEnd /\ LastFrame = Len(toRelay)
  BY DEF Line, LastFrame

\* A step that writes the end keeps the line in order.
LEMMA EndWritten ==
    ASSUME IInv, serve # "gone", serve' = "gone", made' = made, link' = link,
           NEW m \in {Done, Error}, WriteOK(m)
    PROVE  /\ toRelay' \in Seq(Message) /\ Line'
           /\ LastFrame' = LastFrame /\ FirstFrame' = FirstFrame
           /\ \A i \in 1..Len(toRelay') : toRelay'[i].type = "frame" =>
                i \in 1..Len(toRelay) /\ toRelay'[i] = toRelay[i]
  <1> USE DEF IInv
  <1>1. CASE toRelay' = toRelay
    <2>1. Line' /\ LastFrame' = LastFrame /\ FirstFrame' = FirstFrame
      BY <1>1 DEF Line, LastFrame, FirstFrame, HasEnd, HasHeaders
    <2> QED  BY <1>1, <2>1 DEF TypeOK
  <1>2. CASE Connected /\ toRelay' = Append(toRelay, m)
    <2>1. /\ toRelay' \in Seq(Message) /\ Len(toRelay') = Len(toRelay) + 1
          /\ \A i \in 1..Len(toRelay) : toRelay'[i] = toRelay[i]
          /\ toRelay'[Len(toRelay')] = m /\ m.type \in Ending /\ Len(toRelay) \in Nat
      BY <1>2, Messages DEF Ending, TypeOK
    <2>2. LastFrame' = Len(toRelay) /\ HasEnd'
      BY <2>1 DEF LastFrame, HasEnd
    <2>3. LastFrame' = LastFrame /\ ~HasEnd
      BY <2>2, Open
    <2>4. FirstFrame' = FirstFrame
      <3>1. CASE toRelay = <<>>
        BY <2>1, <3>1 DEF FirstFrame, HasHeaders, Ending
      <3>2. CASE toRelay # <<>>
        BY <2>1, <3>2 DEF FirstFrame, HasHeaders
      <3> QED  BY <3>1, <3>2
    <2>5. Line'
      <3>1. ASSUME NEW i \in 1..Len(toRelay')
            PROVE  \/ i = 1 /\ toRelay'[i].type = "response_headers"
                   \/ i = Len(toRelay') /\ toRelay'[i].type \in Ending
                   \/ toRelay'[i].type = "frame" /\ toRelay'[i].chunk + LastFrame' = made' + i
        <4>1. CASE i = Len(toRelay')
          BY <2>1, <4>1
        <4>2. CASE i \in 1..Len(toRelay)
          <5>1. toRelay # <<>> /\ toRelay'[i] = toRelay[i]
            BY <2>1, <4>2
          <5>2. ~(i = Len(toRelay) /\ toRelay[i].type \in Ending)
            BY <2>3, <5>1 DEF HasEnd
          <5> QED  BY <2>3, <4>2, <5>1, <5>2 DEF Line
        <4> QED  BY <2>1, <4>1, <4>2
      <3>2. Connected' /\ serve' = "gone"
        BY <1>2
      <3> QED  BY <3>1, <3>2 DEF Line
    <2> QED  BY <2>1, <2>3, <2>4, <2>5 DEF Ending
  <1> QED  BY <1>1, <1>2 DEF WriteOK

\* A step that only ends serveRequest keeps the invariant.
LEMMA ServeEnds ==
    ASSUME IInv, serve # "gone", serve' = "gone",
           WriteOK(Done) \/ WriteOK(Error) \/ WriteFails,
           UNCHANGED <<made, canceled, link, toAgent, chanVars, clientVars, fwdVars, over, lost>>
    PROVE  IInv'
  <1> USE DEF IInv
  <1>1. /\ toRelay' \in Seq(Message) /\ Line'
        /\ LastFrame' = LastFrame /\ FirstFrame' = FirstFrame
        /\ \A i \in 1..Len(toRelay') : toRelay'[i].type = "frame" =>
             i \in 1..Len(toRelay) /\ toRelay'[i] = toRelay[i]
    <2>1. CASE WriteOK(Done)
      <3>1. Done \in {Done, Error}
        OBVIOUS
      <3> QED  BY <2>1, <3>1, EndWritten
    <2>2. CASE WriteOK(Error)
      <3>1. Error \in {Done, Error}
        OBVIOUS
      <3> QED  BY <2>2, <3>1, EndWritten
    <2>3. CASE WriteFails
      BY <2>3 DEF WriteFails, TypeOK, Line, LastFrame, FirstFrame, HasEnd, HasHeaders
    <2> QED  BY <2>1, <2>2, <2>3
  <1>2. TypeOK'
    BY <1>1 DEF TypeOK
  <1>3. Ordered'
    BY <1>1 DEF Ordered, Increasing
  <1>4. NoGap'
    BY <1>1 DEF NoGap
  <1>5. EndIsLast' /\ PendingWhileRunning' /\ ReportComes'
    BY DEF EndIsLast, AtEnd, PendingWhileRunning, ReportComes, HoleIsReported
  <1>6. Complete'
    BY DEF Complete
  <1> QED  BY <1>1, <1>2, <1>3, <1>4, <1>5, <1>6

\* A step that writes the headers keeps it.
LEMMA LocalAnswersKeeps == ASSUME IInv, LocalAnswers PROVE IInv'
  <1> USE DEF IInv
  <1>1. CASE WriteFails /\ serve' = "gone"
    BY <1>1, ServeEnds DEF LocalAnswers
  <1>2. CASE WriteOK(Hdr) /\ serve' = "stream"
    <2> USE <1>2 DEF LocalAnswers
    <2>1. toRelay = <<>> /\ made = 0 /\ made' = 0
      BY DEF Line
    <2>2. /\ toRelay' \in Seq(Message)
          /\ \/ toRelay' = <<>>
             \/ Connected /\ Len(toRelay') = 1 /\ toRelay'[1] = Hdr
      BY <2>1, Messages DEF WriteOK
    <2>3. Line'
      BY <2>1, <2>2, Messages DEF Line, HasEnd, Ending
    <2>4. LastFrame' + 1 = FirstFrame' /\ LastFrame + 1 = FirstFrame
      BY <2>1, <2>2, Messages DEF LastFrame, FirstFrame, HasEnd, HasHeaders, Ending
    <2>5. \A i \in 1..Len(toRelay') : toRelay'[i].type # "frame"
      BY <2>2, Messages
    <2>6. TypeOK'
      BY <2>2 DEF TypeOK
    <2>7. Ordered'
      BY <2>5 DEF Ordered, Increasing
    <2>8. NoGap'
      <3>1. LastFrame = 0 /\ FirstFrame = 1 /\ Len(body) \in Nat /\ Len(frames) \in Nat
        BY <2>1 DEF FirstFrame, LastFrame, HasEnd, HasHeaders, TypeOK
      <3>2. PICK n \in Nat : n = LastFrame' /\ n + 1 = FirstFrame'
        BY <2>2, <2>4 DEF LastFrame, HasEnd
      <3>3. ASSUME Len(body) + Len(frames) + LastFrame + 1 = made + FirstFrame
            PROVE  Len(body) + Len(frames) + n + 1 = made + (n + 1)
        BY <2>1, <3>1, <3>3
      <3> QED  BY <2>1, <3>2, <3>3 DEF NoGap
    <2>9. EndIsLast' /\ PendingWhileRunning' /\ ReportComes'
      BY DEF EndIsLast, AtEnd, PendingWhileRunning, ReportComes, HoleIsReported
    <2>10. Complete'
      BY DEF Complete
    <2> QED  BY <2>3, <2>6, <2>7, <2>8, <2>9, <2>10
  <1> QED  BY <1>1, <1>2 DEF LocalAnswers

\* A chunk that is read and sent is the next one.
LEMMA ReadChunkKeeps == ASSUME IInv, ReadChunk PROVE IInv'
  <1> USE DEF IInv, ReadChunk
  <1>1. /\ made \in Nat /\ made' = made + 1 /\ made' \in Chunk /\ made' \in 0..Chunks
        /\ lost' \subseteq Chunk /\ lost \subseteq lost'
    <2>1. made \in Nat /\ made' = made + 1 /\ made + 1 \in Chunk /\ made' \in 0..Chunks
      BY DEF TypeOK
    <2>2. lost' \in {lost, lost \cup {made + 1}}
      OBVIOUS
    <2> QED  BY <2>1, <2>2 DEF TypeOK
  <1>2. ~HasEnd /\ LastFrame = Len(toRelay)
    BY Open
  <1>3. EndIsLast' /\ PendingWhileRunning' /\ ReportComes' /\ Complete'
    BY <1>1 DEF EndIsLast, AtEnd, PendingWhileRunning, ReportComes, HoleIsReported, Complete, WriteFails
  <1>4. CASE toRelay' = toRelay /\ ~Connected
    <2>1. lost' # {}
      BY <1>4 DEF WriteFails
    <2>2. toRelay = <<>> /\ toRelay' = <<>> /\ ~Connected'
      BY <1>4 DEF Line
    <2>3. TypeOK'
      BY <1>1, <1>4 DEF TypeOK
    <2>4. Line' /\ NoGap'
      BY <1>4, <2>1, <2>2 DEF Line, NoGap, HasEnd
    <2>5. Ordered'
      <3>1. body' = body /\ frames' = frames
        OBVIOUS
      <3>2. /\ \A i \in 1..Len(body) : body[i] \in Nat /\ body[i] <= made
            /\ \A i \in 1..Len(frames) : frames[i] \in Nat /\ frames[i] <= made
        BY DEF Ordered, TypeOK, Chunk
      <3>3. /\ \A i \in 1..Len(body) : body[i] <= made'
            /\ \A i \in 1..Len(frames) : frames[i] <= made'
        BY <1>1, <3>2
      <3>4. 1..Len(toRelay') = {}
        BY <2>2
      <3> QED  BY <3>1, <3>3, <3>4 DEF Ordered, Increasing
    <2> QED  BY <1>3, <2>3, <2>4, <2>5
  <1>5. CASE Connected /\ toRelay' = Append(toRelay, Frame(made + 1)) /\ serve' = serve /\ lost' = lost
    <2>1. /\ toRelay' \in Seq(Message) /\ Len(toRelay') = Len(toRelay) + 1 /\ Len(toRelay) \in Nat
          /\ \A i \in 1..Len(toRelay) : toRelay'[i] = toRelay[i]
          /\ toRelay'[Len(toRelay')].type = "frame" /\ toRelay'[Len(toRelay')].chunk = made + 1
      BY <1>1, <1>5, Messages DEF TypeOK
    <2>2. ~HasEnd' /\ LastFrame' = LastFrame + 1
      BY <1>2, <2>1 DEF HasEnd, LastFrame, Ending
    <2>3. FirstFrame' = FirstFrame
      <3>1. CASE toRelay = <<>>
        BY <2>1, <3>1 DEF FirstFrame, HasHeaders
      <3>2. CASE toRelay # <<>>
        BY <2>1, <3>2 DEF FirstFrame, HasHeaders
      <3> QED  BY <3>1, <3>2
    <2>4. Line'
      <3>1. ASSUME NEW i \in 1..Len(toRelay')
            PROVE  \/ i = 1 /\ toRelay'[i].type = "response_headers"
                   \/ toRelay'[i].type = "frame" /\ toRelay'[i].chunk + LastFrame' = made' + i
        <4>1. CASE i = Len(toRelay')
          BY <1>1, <1>2, <2>1, <2>2, <4>1
        <4>2. CASE i \in 1..Len(toRelay)
          <5>1. toRelay'[i] = toRelay[i] /\ ~(i = Len(toRelay) /\ toRelay[i].type \in Ending)
            BY <1>2, <2>1, <4>2 DEF HasEnd
          <5>2. toRelay[i].type = "frame" => toRelay[i].chunk \in Nat
            BY <4>2, Messages DEF TypeOK
          <5>3. CASE i = 1 /\ toRelay[i].type = "response_headers"
            BY <5>1, <5>3
          <5>4. CASE toRelay[i].type = "frame" /\ toRelay[i].chunk + LastFrame = made + i
            BY <1>1, <1>2, <2>1, <2>2, <5>1, <5>2, <5>4
          <5> QED  BY <4>2, <5>1, <5>3, <5>4 DEF Line
        <4> QED  BY <2>1, <4>1, <4>2
      <3> QED  BY <1>5, <2>2, <3>1 DEF Line
    <2>5. TypeOK'
      BY <1>1, <1>5, <2>1 DEF TypeOK
    <2>6. Ordered'
      <3>1. ASSUME NEW k \in 1..Len(toRelay'), toRelay'[k].type = "frame"
            PROVE  /\ \A i \in 1..Len(body) : body[i] < toRelay'[k].chunk
                   /\ \A i \in 1..Len(frames) : frames[i] < toRelay'[k].chunk
        <4>1. CASE k = Len(toRelay')
          <5>1. /\ \A i \in 1..Len(body) : body[i] \in Nat /\ body[i] <= made
                /\ \A i \in 1..Len(frames) : frames[i] \in Nat /\ frames[i] <= made
            <6>1. body \in Seq(Chunk) /\ frames \in Seq(Chunk)
              BY DEF TypeOK
            <6>2. /\ \A i \in 1..Len(body) : body[i] \in Chunk
                  /\ \A i \in 1..Len(frames) : frames[i] \in Chunk
              BY <6>1
            <6> QED  BY <6>2 DEF Ordered
          <5> QED  BY <1>1, <2>1, <4>1, <5>1
        <4>2. CASE k \in 1..Len(toRelay)
          BY <2>1, <3>1, <4>2 DEF Ordered
        <4> QED  BY <2>1, <4>1, <4>2
      <3>2. body \in Seq(Chunk) /\ frames \in Seq(Chunk)
        BY DEF TypeOK
      <3>3. /\ \A i \in 1..Len(body) : body[i] <= made'
            /\ \A i \in 1..Len(frames) : frames[i] <= made'
        <4>1. /\ \A i \in 1..Len(body) : body[i] \in Nat /\ body[i] <= made
              /\ \A i \in 1..Len(frames) : frames[i] \in Nat /\ frames[i] <= made
          BY <3>2 DEF Ordered
        <4> QED  BY <1>1, <4>1
      <3> QED  BY <3>1, <3>3 DEF Ordered, Increasing
    <2>7. NoGap'
      <3>1. FirstFrame \in Nat /\ LastFrame \in Nat /\ Len(body) \in Nat /\ Len(frames) \in Nat
        BY <1>2, <2>1 DEF FirstFrame, TypeOK
      <3>2. ASSUME Len(body) + Len(frames) + LastFrame + 1 = made + FirstFrame
            PROVE  Len(body) + Len(frames) + (LastFrame + 1) + 1 = (made + 1) + FirstFrame
        BY <1>1, <3>1, <3>2
      <3> QED  BY <1>1, <1>5, <2>2, <2>3, <3>2 DEF NoGap
    <2> QED  BY <1>3, <2>4, <2>5, <2>6, <2>7
  <1> QED  BY <1>4, <1>5 DEF WriteOK, WriteFails

\* So does everything the agent does in serveRequest.
LEMMA ServeKeeps == ASSUME IInv, Serve PROVE IInv'
  <1>1. CASE LocalEnds
    BY <1>1, ServeEnds DEF LocalEnds
  <1>2. CASE LocalFails
    BY <1>2, ServeEnds DEF LocalFails
  <1> QED  BY <1>1, <1>2, LocalAnswersKeeps, ReadChunkKeeps DEF Serve

-----------------------------------------------------------------------------
\* A step that moves no chunk and ends nothing keeps the invariant.
LEMMA NothingMoves ==
    ASSUME IInv, TypeOK', Connected' = Connected \/ toRelay = <<>>,
           UNCHANGED <<serve, made, toRelay, frames, done, err, body, fwd, pending, outcome, over, lost>>,
           link' = "up" => link = "up"
    PROVE  IInv'
  <1> USE DEF IInv
  <1>1. LastFrame' = LastFrame /\ FirstFrame' = FirstFrame /\ HasEnd' = HasEnd
    BY DEF LastFrame, FirstFrame, HasEnd, HasHeaders
  <1>2. Line' /\ Ordered' /\ NoGap'
    BY <1>1 DEF Line, Ordered, Increasing, NoGap
  <1>3. EndIsLast' /\ PendingWhileRunning' /\ Complete' /\ ReportComes'
    BY DEF EndIsLast, AtEnd, PendingWhileRunning, Complete, ReportComes, HoleIsReported
  <1> QED  BY <1>2, <1>3

\* A line without frames has at most the headers and the end.
LEMMA NoFrames ==
    ASSUME toRelay \in Seq(Message), Line,
           \A i \in 1..Len(toRelay) : toRelay[i].type # "frame"
    PROVE  LastFrame + 1 = FirstFrame
  <1>1. \A i \in 1..Len(toRelay) : \/ i = 1 /\ toRelay[i].type = "response_headers"
                                   \/ i = Len(toRelay) /\ toRelay[i].type \in Ending
    BY DEF Line
  <1>2. Len(toRelay) \in Nat /\ (toRelay = <<>> <=> Len(toRelay) = 0)
    OBVIOUS
  <1>3. PICK n \in Nat : n = Len(toRelay)
    BY <1>2
  <1>4. CASE n = 0
    BY <1>2, <1>3, <1>4 DEF LastFrame, FirstFrame, HasEnd, HasHeaders
  <1>5. CASE n = 1
    BY <1>1, <1>2, <1>3, <1>5 DEF LastFrame, FirstFrame, HasEnd, HasHeaders, Ending
  <1>6. CASE n > 1
    <2>1. 1 \in 1..n /\ 2 \in 1..n /\ n \in 1..n /\ n # 1
      BY <1>6
    <2>2. n = 2
      BY <1>1, <1>3, <2>1
    <2>3. toRelay[1].type = "response_headers" /\ toRelay[n].type \in Ending
      BY <1>1, <1>3, <2>1, <2>2
    <2> QED  BY <1>2, <1>3, <2>2, <2>3 DEF LastFrame, FirstFrame, HasEnd, HasHeaders
  <1> QED  BY <1>4, <1>5, <1>6

\* A connection that breaks takes with it what was under way.
LEMMA BreakKeeps == ASSUME IInv, Break PROVE IInv'
  <1> USE DEF IInv, Break
  <1>1. ~Connected' /\ toRelay' = <<>> /\ toRelay' \in Seq(Message) /\ lost' = lost \cup ChunksIn(toRelay)
    OBVIOUS
  <1>2. ChunksIn(toRelay) \subseteq Chunk
    BY Messages DEF TypeOK, ChunksIn
  <1>3. TypeOK'
    BY <1>1, <1>2 DEF TypeOK
  <1>4. Line' /\ Ordered'
    BY <1>1 DEF Line, Ordered, Increasing, HasEnd
  <1>5. NoGap'
    <2> SUFFICES ASSUME pending, fwd # "blocked", lost = {}, ChunksIn(toRelay) = {}
                 PROVE  Len(body) + Len(frames) + LastFrame' + 1 = made + FirstFrame'
      BY <1>1 DEF NoGap
    <2>1. LastFrame' = 0 /\ FirstFrame' = 1
      BY <1>1 DEF LastFrame, FirstFrame, HasEnd, HasHeaders
    <2>2. \A i \in 1..Len(toRelay) : toRelay[i].type # "frame"
      <3>1. DOMAIN toRelay = 1..Len(toRelay)
        BY DEF TypeOK
      <3> QED  BY <3>1 DEF ChunksIn
    <2>3. LastFrame + 1 = FirstFrame
      BY <2>2, NoFrames DEF TypeOK
    <2>4. LastFrame \in Nat /\ FirstFrame \in Nat /\ made \in Nat /\ Len(body) \in Nat /\ Len(frames) \in Nat
      BY DEF LastFrame, FirstFrame, HasEnd, TypeOK
    <2> QED  BY <2>1, <2>3, <2>4 DEF NoGap
  <1>6. EndIsLast' /\ PendingWhileRunning' /\ Complete' /\ ReportComes'
    BY <1>1 DEF EndIsLast, AtEnd, PendingWhileRunning, Complete, ReportComes, HoleIsReported
  <1> QED  BY <1>3, <1>4, <1>5, <1>6

\* The connection, a Cancel that arrives and the client keep it.
LEMMA LinkKeeps ==
    ASSUME IInv, ReadCancel \/ Break \/ AgentNotices \/ Reconnect \/ ClientStalls \/ ClientLeaves
    PROVE  IInv'
  <1>1. CASE ReadCancel
    <2>1. TypeOK'
      BY <1>1 DEF IInv, TypeOK, ReadCancel
    <2> QED  BY <1>1, <2>1, NothingMoves DEF ReadCancel
  <1>2. CASE AgentNotices
    <2>1. TypeOK'
      BY <1>2 DEF IInv, TypeOK, AgentNotices, CancelAll
    <2> QED  BY <1>2, <2>1, NothingMoves DEF AgentNotices
  <1>3. CASE Reconnect
    <2>1. TypeOK' /\ toRelay = <<>>
      BY <1>3 DEF IInv, TypeOK, Line, Reconnect
    <2> QED  BY <1>3, <2>1, NothingMoves DEF Reconnect
  <1>4. CASE ClientStalls \/ ClientLeaves
    <2>1. TypeOK'
      <3>1. /\ UNCHANGED <<agentVars, linkVars, chanVars, status, body, errorBody, fwdVars, over, lost>>
            /\ client' \in {"stalled", "gone"}
        BY <1>4 DEF ClientStalls, ClientLeaves
      <3> QED  BY <3>1 DEF IInv, TypeOK
    <2> QED  BY <1>4, <2>1, NothingMoves DEF ClientStalls, ClientLeaves
  <1> QED  BY <1>1, <1>2, <1>3, <1>4, BreakKeeps

-----------------------------------------------------------------------------
\* What the relay reads comes first, and the rest stays as it is.
LEMMA ReceiveTakesFirst ==
    ASSUME IInv, Receive
    PROVE  /\ toRelay' \in Seq(Message) /\ Len(toRelay') \in Nat
           /\ Len(toRelay) = Len(toRelay') + 1
           /\ \A i \in 1..Len(toRelay') : toRelay'[i] = toRelay[i + 1]
           /\ Head(toRelay) = toRelay[1] /\ toRelay[1] \in Message
  BY DEF IInv, TypeOK, Receive

\* The line stays in order and its frames are those that were there.
LEMMA ReceiveKeepsLine ==
    ASSUME IInv, Receive, link' = link, UNCHANGED <<serve, made>>
    PROVE  /\ Line'
           /\ toRelay'[1].type # "response_headers" \/ toRelay' = <<>>
           /\ Head(toRelay).type \in Ending => toRelay' = <<>> /\ serve = "gone"
           /\ \A k \in 1..Len(toRelay') : toRelay'[k].type = "frame" =>
                k + 1 \in 1..Len(toRelay) /\ toRelay'[k] = toRelay[k + 1]
  <1> USE DEF IInv
  <1>1. /\ toRelay' \in Seq(Message) /\ Len(toRelay') \in Nat
        /\ Len(toRelay) = Len(toRelay') + 1
        /\ \A i \in 1..Len(toRelay') : i + 1 \in 1..Len(toRelay) /\ toRelay'[i] = toRelay[i + 1]
        /\ Head(toRelay) = toRelay[1] /\ 1 \in 1..Len(toRelay) /\ toRelay # <<>>
    BY ReceiveTakesFirst DEF Receive
  <1>2. \A i \in 1..Len(toRelay') : toRelay'[i].type # "response_headers"
    BY <1>1 DEF Line, Ending
  <1>3. ASSUME Head(toRelay).type \in Ending PROVE toRelay' = <<>> /\ serve = "gone"
    <2>1. 1 = Len(toRelay)
      BY <1>1, <1>3 DEF Line, Ending
    <2>2. HasEnd
      BY <1>1, <1>3, <2>1 DEF HasEnd
    <2> QED  BY <1>1, <2>1, <2>2 DEF Line
  <1>4. Line'
    <2>1. CASE toRelay' = <<>>
      <3>1. /\ Len(toRelay') = 0 /\ ~HasEnd' /\ (serve = "local" => made = 0)
        BY <1>1, <2>1 DEF HasEnd, Line
      <3> QED  BY <2>1, <3>1 DEF Line
    <2>2. CASE toRelay' # <<>>
      <3>1. toRelay'[Len(toRelay')] = toRelay[Len(toRelay)]
        BY <1>1, <2>2
      <3>2. HasEnd' = HasEnd
        BY <1>1, <2>2, <3>1 DEF HasEnd
      <3>3. LastFrame = LastFrame' + 1 /\ LastFrame' \in Nat
        BY <1>1, <2>2, <3>2 DEF LastFrame
      <3>4. ASSUME NEW i \in 1..Len(toRelay')
            PROVE  \/ i = Len(toRelay') /\ toRelay'[i].type \in Ending
                   \/ toRelay'[i].type = "frame" /\ toRelay'[i].chunk + LastFrame' = made + i
        <4>1. toRelay[i + 1] \in Message /\ i + 1 \in 1..Len(toRelay) /\ i + 1 # 1 /\ made \in Nat
          BY <1>1 DEF TypeOK
        <4>2. toRelay[i + 1].type = "frame" => toRelay[i + 1].chunk \in Nat
          BY <4>1, Messages
        <4>3. CASE i + 1 = Len(toRelay) /\ toRelay[i + 1].type \in Ending
          BY <1>1, <4>3
        <4>4. CASE toRelay[i + 1].type = "frame" /\ toRelay[i + 1].chunk + LastFrame = made + (i + 1)
          BY <1>1, <3>3, <4>1, <4>2, <4>4
        <4> QED  BY <4>1, <4>3, <4>4 DEF Line
      <3>5. Connected' /\ (serve = "local" => toRelay = <<>>)
        BY DEF Receive, Line
      <3> QED  BY <1>1, <3>2, <3>4, <3>5 DEF Line
    <2> QED  BY <2>1, <2>2
  <1> QED  BY <1>1, <1>2, <1>3, <1>4

\* How many frames are left on the connection after one message is read.
LEMMA ReceiveCounts ==
    ASSUME IInv, Receive, link' = link, UNCHANGED <<serve, made>>
    PROVE  \E n \in Nat :
             /\ LastFrame' = n /\ FirstFrame' = 1
             /\ Head(toRelay).type = "frame" =>
                  /\ FirstFrame = 1 /\ LastFrame = n + 1
                  /\ Head(toRelay).chunk + n = made
             /\ Head(toRelay).type # "frame" =>
                  LastFrame \in Nat /\ FirstFrame \in Nat /\ LastFrame + 1 = n + FirstFrame
  <1> USE DEF IInv
  <1>1. /\ toRelay' \in Seq(Message) /\ Len(toRelay') \in Nat
        /\ Len(toRelay) = Len(toRelay') + 1 /\ toRelay # <<>>
        /\ \A i \in 1..Len(toRelay') : toRelay'[i] = toRelay[i + 1]
        /\ Head(toRelay) = toRelay[1] /\ 1 \in 1..Len(toRelay) /\ toRelay[1] \in Message
    BY ReceiveTakesFirst DEF Receive
  <1>2. FirstFrame' = 1 /\ LastFrame' \in Nat
    BY <1>1, ReceiveKeepsLine DEF FirstFrame, LastFrame, HasHeaders, HasEnd
  <1>3. PICK n \in Nat : LastFrame' = n
    BY <1>2
  <1>4. Head(toRelay).type = "frame" =>
           toRelay[1].chunk \in Nat /\ toRelay[1].chunk + LastFrame = made + 1 /\ FirstFrame = 1
    <2>1. toRelay[1].type = "frame" => toRelay[1].chunk \in Nat
      BY <1>1, Messages
    <2> QED  BY <1>1, <2>1 DEF Line, FirstFrame, HasHeaders, Ending
  <1>5. CASE toRelay' = <<>>
    <2>1. Len(toRelay) = 1 /\ n = 0
      BY <1>1, <1>3, <1>5 DEF LastFrame, HasEnd
    <2>2. CASE Head(toRelay).type = "frame"
      <3>1. LastFrame = 1
        BY <1>1, <2>1, <2>2 DEF LastFrame, HasEnd, Ending
      <3>2. Head(toRelay).chunk + n = made
        BY <1>1, <1>4, <2>1, <2>2, <3>1 DEF TypeOK
      <3> QED  BY <1>2, <1>3, <1>4, <2>1, <2>2, <3>1, <3>2
    <2>3. CASE Head(toRelay).type # "frame"
      <3>1. Head(toRelay).type \in {"response_headers"} \cup Ending
        BY <1>1, <2>3, Messages
      <3>2. LastFrame + 1 = n + FirstFrame /\ LastFrame \in Nat /\ FirstFrame \in Nat
        <4>1. CASE toRelay[1].type = "response_headers"
          <5>1. ~HasEnd /\ HasHeaders
            BY <1>1, <2>1, <4>1 DEF HasEnd, HasHeaders, Ending
          <5> QED  BY <2>1, <5>1 DEF LastFrame, FirstFrame
        <4>2. CASE toRelay[1].type \in Ending
          <5>1. HasEnd /\ ~HasHeaders
            BY <1>1, <2>1, <4>2 DEF HasEnd, HasHeaders, Ending
          <5> QED  BY <2>1, <5>1 DEF LastFrame, FirstFrame
        <4> QED  BY <1>1, <3>1, <4>1, <4>2
      <3> QED  BY <1>2, <1>3, <2>3, <3>2
    <2> QED  BY <2>2, <2>3
  <1>6. CASE toRelay' # <<>>
    <2>1. HasEnd' = HasEnd /\ LastFrame = n + 1
      BY <1>1, <1>3, <1>6 DEF HasEnd, LastFrame
    <2>2. CASE Head(toRelay).type = "frame"
      <3>1. Head(toRelay).chunk + n = made
        BY <1>1, <1>4, <2>1, <2>2 DEF TypeOK
      <3> QED  BY <1>2, <1>3, <1>4, <2>1, <2>2, <3>1
    <2>3. CASE Head(toRelay).type # "frame"
      <3>1. Head(toRelay).type \notin Ending
        BY <1>6, ReceiveKeepsLine
      <3>2. toRelay[1].type = "response_headers"
        BY <1>1, <2>3, <3>1, Messages
      <3>3. FirstFrame = 2
        BY <1>1, <3>2 DEF FirstFrame, HasHeaders
      <3> QED  BY <1>2, <1>3, <2>1, <2>3, <3>3
    <2> QED  BY <2>2, <2>3
  <1> QED  BY <1>5, <1>6

\* A message that carries no chunk, and a frame that is not taken, leave the
\* order of the chunks as it is.
LEMMA ReceiveKeepsOrder ==
    ASSUME IInv, Receive, UNCHANGED <<link, serve, made, body, frames>>
    PROVE  Ordered'
  BY ReceiveKeepsLine DEF IInv, Ordered, Increasing

LEMMA DispatchControlKeeps == ASSUME IInv, DispatchControl PROVE IInv'
  <1> USE DEF IInv, DispatchControl
  <1>1. Line' /\ Ordered' /\ toRelay' \in Seq(Message)
    BY ReceiveKeepsLine, ReceiveKeepsOrder, ReceiveTakesFirst
  <1>2. TypeOK'
    BY <1>1 DEF TypeOK, One
  <1>3. NoGap'
    <2>1. PICK n \in Nat : /\ LastFrame' = n /\ FirstFrame' = 1
                           /\ LastFrame \in Nat /\ FirstFrame \in Nat /\ LastFrame + 1 = n + FirstFrame
      BY ReceiveCounts
    <2>2. made \in Nat /\ Len(body) \in Nat /\ Len(frames) \in Nat
      BY DEF TypeOK
    <2>3. ASSUME Len(body) + Len(frames) + LastFrame + 1 = made + FirstFrame
          PROVE  Len(body) + Len(frames) + n + 1 = made + 1
      BY <2>1, <2>2, <2>3
    <2> QED  BY <2>1, <2>3 DEF NoGap
  <1>4. EndIsLast'
    <2>1. Head(toRelay).type \in Ending => AtEnd'
      BY ReceiveKeepsLine DEF AtEnd
    <2>2. AtEnd => FALSE
      BY DEF AtEnd, Receive
    <2>3. done' = 1 => done = 1 \/ Head(toRelay).type \in Ending
      BY DEF Ending
    <2>4. err' = 1 => err = 1 \/ Head(toRelay).type \in Ending
      BY DEF Ending
    <2> QED  BY <2>1, <2>2, <2>3, <2>4 DEF EndIsLast
  <1>5. ReportComes'
    <2>1. over[link] = "none" /\ err \in 0..1 /\ err' \in {err, 1}
      BY DEF Receive, TypeOK, One
    <2>2. link = "up" => over["up"] = "none"
      BY <2>1
    <2> QED  BY <2>1, <2>2 DEF ReportComes, HoleIsReported
  <1>6. PendingWhileRunning' /\ Complete'
    BY DEF PendingWhileRunning, Complete
  <1> QED  BY <1>1, <1>2, <1>3, <1>4, <1>5, <1>6

LEMMA DispatchFrameKeeps == ASSUME IInv, DispatchFrame PROVE IInv'
  <1> USE DEF IInv, DispatchFrame
  <1> DEFINE c == Head(toRelay).chunk
  <1>1. Line' /\ toRelay' \in Seq(Message)
    BY ReceiveKeepsLine, ReceiveTakesFirst
  <1>2. c \in Chunk /\ 1 \in 1..Len(toRelay) /\ c = toRelay[1].chunk /\ toRelay[1].type = "frame"
    BY ReceiveTakesFirst, Messages
  <1>3. made \in Nat /\ Len(body) \in Nat /\ Len(frames) \in Nat /\ body \in Seq(Chunk) /\ frames \in Seq(Chunk)
    BY DEF TypeOK
  <1>4. EndIsLast' /\ ReportComes' /\ PendingWhileRunning' /\ Complete'
    BY DEF EndIsLast, AtEnd, Receive, ReportComes, HoleIsReported, PendingWhileRunning, Complete
  <1>5. CASE ~pending
    <2>1. frames' = frames
      BY <1>5
    <2>2. TypeOK' /\ Ordered' /\ NoGap'
      BY <1>1, <1>5, <2>1, ReceiveKeepsOrder DEF TypeOK, NoGap
    <2> QED  BY <1>1, <1>4, <2>2
  <1>6. CASE pending
    <2>1. /\ frames' \in Seq(Chunk) /\ Len(frames') = Len(frames) + 1 /\ Len(frames') <= FrameCap
          /\ \A i \in 1..Len(frames) : frames'[i] = frames[i]
          /\ frames'[Len(frames) + 1] = c
      BY <1>2, <1>3, <1>6
    <2>2. TypeOK'
      BY <1>1, <2>1 DEF TypeOK
    <2>3. \A k \in 1..Len(toRelay') : toRelay'[k].type = "frame" => c < toRelay'[k].chunk
      <3> SUFFICES ASSUME NEW k \in 1..Len(toRelay'), toRelay'[k].type = "frame"
                   PROVE  c < toRelay'[k].chunk
        OBVIOUS
      <3>1. PICK n \in Nat : c + n = made /\ LastFrame' = n
        BY ReceiveCounts
      <3>2. toRelay'[k].chunk + n = made + k /\ toRelay'[k].chunk \in Nat /\ k \in Nat /\ k >= 1
        <4>1. toRelay'[k] \in Message /\ k \in Nat /\ k >= 1
          BY <1>1
        <4>2. toRelay'[k].chunk + LastFrame' = made' + k
          BY <1>1 DEF Line, Ending
        <4> QED  BY <3>1, <4>1, <4>2, Messages
      <3>3. c \in Nat /\ made \in Nat
        BY <1>2, <1>3
      <3> QED  BY <3>1, <3>2, <3>3
    <2>4. Ordered'
      <3>1. \A i \in 1..Len(frames') : i \in 1..Len(frames) \/ i = Len(frames) + 1
        BY <1>3, <2>1
      <3>2. /\ \A i \in 1..Len(body) : body[i] < c
            /\ \A i \in 1..Len(frames) : frames[i] < c
        BY <1>2 DEF Ordered
      <3>3. c <= made
        <4>1. PICK n \in Nat : c + n = made
          BY ReceiveCounts
        <4> QED  BY <1>2, <1>3, <4>1
      <3>4. \A k \in 1..Len(toRelay') : toRelay'[k].type = "frame" =>
              /\ \A i \in 1..Len(body) : body[i] < toRelay'[k].chunk
              /\ \A i \in 1..Len(frames) : frames[i] < toRelay'[k].chunk
        BY ReceiveKeepsLine DEF Ordered
      <3>5. Increasing(frames')
        <4>1. DOMAIN frames' = 1..Len(frames') /\ DOMAIN frames = 1..Len(frames)
          BY <1>3, <2>1
        <4> QED  BY <1>3, <2>1, <3>1, <3>2, <4>1 DEF Increasing, Ordered
      <3>6. \A i \in 1..Len(body), j \in 1..Len(frames') : body[i] < frames'[j]
        BY <2>1, <3>1, <3>2 DEF Ordered
      <3>7. \A i \in 1..Len(frames') : frames'[i] <= made
        BY <2>1, <3>1, <3>3 DEF Ordered
      <3>8. \A k \in 1..Len(toRelay') : toRelay'[k].type = "frame" =>
              \A i \in 1..Len(frames') : frames'[i] < toRelay'[k].chunk
        BY <2>1, <2>3, <3>1, <3>4
      <3> QED  BY <3>4, <3>5, <3>6, <3>7, <3>8 DEF Ordered, Increasing
    <2>5. NoGap'
      <3>1. PICK n \in Nat : /\ LastFrame' = n /\ FirstFrame' = 1 /\ FirstFrame = 1
                             /\ LastFrame = n + 1 /\ c + n = made
        BY ReceiveCounts
      <3>2. c \in Nat /\ made \in Nat /\ Len(body) \in Nat /\ Len(frames) \in Nat
        BY <1>2, <1>3
      <3>3. ASSUME lost = {}, fwd # "blocked"
            PROVE  /\ \A i \in 1..Len(frames') : frames'[i] = Len(body) + i
                   /\ Len(body) + Len(frames') + n + 1 = made + 1
        <4>1. /\ \A i \in 1..Len(frames) : frames[i] = Len(body) + i
              /\ Len(body) + Len(frames) + (n + 1) + 1 = made + 1
          BY <1>6, <3>1, <3>3 DEF NoGap
        <4>2. c = Len(body) + (Len(frames) + 1)
          <5>1. PICK d \in Nat : d = c
            BY <3>2
          <5>2. d = Len(body) + (Len(frames) + 1)
            BY <3>1, <3>2, <4>1, <5>1
          <5> QED  BY <5>1, <5>2
        <4>3. \A i \in 1..Len(frames') : i \in 1..Len(frames) \/ i = Len(frames) + 1
          BY <1>3, <2>1
        <4>4. \A i \in 1..Len(frames') : frames'[i] = Len(body) + i
          BY <2>1, <4>1, <4>2, <4>3
        <4>5. Len(body) + Len(frames') + n + 1 = made + 1
          BY <2>1, <3>2, <4>1
        <4> QED  BY <4>4, <4>5
      <3> QED  BY <3>1, <3>3 DEF NoGap
    <2> QED  BY <1>1, <1>4, <2>2, <2>4, <2>5
  <1> QED  BY <1>5, <1>6

LEMMA DispatchOverflowKeeps == ASSUME IInv, DispatchOverflow PROVE IInv'
  <1> USE DEF IInv, DispatchOverflow
  <1>1. Line' /\ Ordered' /\ toRelay' \in Seq(Message)
    BY ReceiveKeepsLine, ReceiveKeepsOrder, ReceiveTakesFirst
  <1>2. Head(toRelay).chunk \in Chunk /\ lost' # {} /\ lost' = lost \cup {Head(toRelay).chunk}
    BY ReceiveTakesFirst, Messages
  <1>3. TypeOK'
    <2>1. lost' \subseteq Chunk
      BY <1>2 DEF TypeOK
    <2>2. over' \in [Conn -> {"none", "cancel", "report"}]
      BY DEF TypeOK
    <2> QED  BY <1>1, <2>1, <2>2 DEF TypeOK
  <1>4. NoGap' /\ Complete'
    BY <1>2 DEF NoGap, Complete
  <1>5. EndIsLast' /\ PendingWhileRunning'
    BY <1>2 DEF EndIsLast, AtEnd, Receive, PendingWhileRunning
  <1>6. ReportComes'
    <2>1. done # 1 /\ fwd # "drainDone" /\ outcome = "none" /\ done \in 0..1
      BY DEF EndIsLast, AtEnd, Receive, PendingWhileRunning, TypeOK
    <2>2. link = "up" => over'["up"] = "cancel"
      BY DEF TypeOK
    <2> QED  BY <1>2, <2>1, <2>2 DEF ReportComes, HoleIsReported
  <1> QED  BY <1>1, <1>3, <1>4, <1>5, <1>6

\* The Cancel moves nothing, the report raises err for a chunk that is lost.
LEMMA OverflowStepsKeep ==
    ASSUME IInv, NEW c \in Conn, OverflowCancel(c) \/ OverflowReport(c) PROVE IInv'
  <1> USE DEF IInv
  <1>1. /\ lost # {} /\ over \in [Conn -> {"none", "cancel", "report"}]
        /\ over[c] # "none" /\ over' = [over EXCEPT ![c] = over'[c]]
        /\ over'[c] \in {"none", "report"} /\ (over'[c] = "none" => err' = 1)
        /\ err' \in {err, 1} /\ err' \in 0..1
    BY DEF OverflowCancel, OverflowReport, ReportComes, TypeOK, One
  <1>2. UNCHANGED <<serve, made, canceled, link, toRelay, headers, frames, done, clientVars,
                    fwdVars, lost>>
    BY DEF OverflowCancel, OverflowReport
  <1>3. TypeOK'
    <2>1. toAgent' \in BOOLEAN
      BY DEF OverflowCancel, OverflowReport, SendCancel, TypeOK
    <2>2. over' \in [Conn -> {"none", "cancel", "report"}]
      BY <1>1
    <2> QED  BY <1>1, <1>2, <2>1, <2>2 DEF TypeOK
  <1>4. Line' /\ LastFrame' = LastFrame /\ FirstFrame' = FirstFrame
    BY <1>2 DEF Line, LastFrame, FirstFrame, HasEnd, HasHeaders
  <1>5. Ordered' /\ NoGap'
    BY <1>2, <1>4 DEF Ordered, Increasing, NoGap
  <1>6. EndIsLast' /\ PendingWhileRunning' /\ Complete'
    BY <1>1, <1>2 DEF EndIsLast, AtEnd, PendingWhileRunning, Complete
  <1>7. ReportComes'
    <2>1. err' = err \/ err' = 1
      BY <1>1
    <2>2. over'["up"] # "none" => over["up"] # "none"
      BY <1>1
    <2>3. over["up"] # "none" => over'["up"] # "none" \/ err' = 1
      BY <1>1
    <2> QED  BY <1>1, <1>2, <2>1, <2>2, <2>3 DEF ReportComes, HoleIsReported
  <1> QED  BY <1>3, <1>4, <1>5, <1>6, <1>7

\* So does the relay's read loop.
LEMMA DispatchKeeps == ASSUME IInv, Dispatch PROVE IInv'
  BY DispatchControlKeeps, DispatchFrameKeeps, DispatchOverflowKeeps, OverflowStepsKeep DEF Dispatch

-----------------------------------------------------------------------------
\* What forwardResponse does to the state of the agent and the connection: at
\* most it asks for a Cancel.
LEMMA LineStays ==
    ASSUME Line, UNCHANGED <<serve, made, link, toRelay>>
    PROVE  Line' /\ LastFrame' = LastFrame /\ FirstFrame' = FirstFrame
  BY DEF Line, LastFrame, FirstFrame, HasEnd, HasHeaders

\* Returning without success keeps the invariant.
LEMMA ReturnKeeps ==
    ASSUME IInv, TypeOK', UNCHANGED <<serve, made, link, toRelay, frames, done, err, body, over, lost>>,
           fwd' = "returned", ~pending', outcome' # "none",
           outcome' = "success" => fwd = "drainDone",
           outcome' \in {"success", "agent_error"} /\ lost = {} =>
               serve = "gone" /\ body = [i \in 1..made |-> i]
    PROVE  IInv'
  <1> USE DEF IInv
  <1>1. Line' /\ Ordered' /\ NoGap'
    BY LineStays DEF Ordered, Increasing, NoGap
  <1>2. EndIsLast' /\ ReportComes'
    BY DEF EndIsLast, AtEnd, ReportComes, HoleIsReported
  <1>3. PendingWhileRunning' /\ Complete'
    BY DEF PendingWhileRunning, Complete, TypeOK
  <1> QED  BY <1>1, <1>2, <1>3

\* A chunk that is written to the client stays before the chunks that follow.
LEMMA WriteKeepsOrder ==
    ASSUME IInv, frames # <<>>, WriteChunk \/ WriteChunkFails \/ WriteBlocks
    PROVE  /\ body' \in Seq(Chunk) /\ frames' \in Seq(Chunk) /\ Len(frames') <= FrameCap
           /\ Ordered'
           /\ WriteChunk => /\ Len(body') = Len(body) + 1 /\ Len(frames) = Len(frames') + 1
                            /\ body'[Len(body) + 1] = frames[1]
                            /\ \A i \in 1..Len(body) : body'[i] = body[i]
                            /\ \A i \in 1..Len(frames') : frames'[i] = frames[i + 1]
  <1> USE DEF IInv
  <1>1. body \in Seq(Chunk) /\ frames \in Seq(Chunk) /\ Len(frames) <= FrameCap
    BY DEF TypeOK
  <1>2. /\ frames' \in Seq(Chunk) /\ Len(frames) = Len(frames') + 1
        /\ \A i \in 1..Len(frames') : i + 1 \in 1..Len(frames) /\ frames'[i] = frames[i + 1]
        /\ 1 \in 1..Len(frames) /\ frames[1] \in Chunk /\ Head(frames) = frames[1]
        /\ Len(frames') \in Nat /\ Len(body) \in Nat
    <2>1. frames' = Tail(frames)
      BY DEF WriteChunk, WriteChunkFails, WriteBlocks
    <2> QED  BY <1>1, <2>1
  <1>3. Increasing(frames')
    <2>1. DOMAIN frames' = 1..Len(frames') /\ DOMAIN frames = 1..Len(frames)
      BY <1>1, <1>2
    <2>2. ASSUME NEW i \in 1..Len(frames'), NEW j \in 1..Len(frames'), i < j
          PROVE  frames'[i] < frames'[j]
      <3>1. i + 1 \in DOMAIN frames /\ j + 1 \in DOMAIN frames /\ i + 1 < j + 1
        BY <1>2, <2>1, <2>2
      <3>2. frames[i + 1] < frames[j + 1]
        BY <3>1 DEF Ordered, Increasing
      <3> QED  BY <1>2, <3>2
    <2> QED  BY <2>1, <2>2 DEF Increasing
  <1>4. toRelay' = toRelay /\ made' = made
    BY DEF WriteChunk, WriteChunkFails, WriteBlocks
  <1>5. \A i \in 1..Len(frames') : frames'[i] <= made'
    BY <1>2, <1>4 DEF Ordered
  <1>6. CASE WriteChunk
    <2>1. /\ body' \in Seq(Chunk) /\ Len(body') = Len(body) + 1
          /\ \A i \in 1..Len(body) : body'[i] = body[i]
          /\ body'[Len(body) + 1] = frames[1]
          /\ \A i \in 1..Len(body') : i \in 1..Len(body) \/ i = Len(body) + 1
      BY <1>1, <1>2, <1>6 DEF WriteChunk
    <2>2. \A i \in 1..Len(body) : body[i] < frames[1]
      BY <1>2 DEF Ordered
    <2>3. Increasing(body')
      <3>1. DOMAIN body' = 1..Len(body') /\ DOMAIN body = 1..Len(body)
        BY <1>1, <2>1
      <3>2. ASSUME NEW i \in 1..Len(body'), NEW j \in 1..Len(body'), i < j
            PROVE  body'[i] < body'[j]
        <4>1. i \in 1..Len(body)
          BY <1>2, <2>1, <3>2
        <4>2. CASE j = Len(body) + 1
          BY <2>1, <2>2, <4>1, <4>2
        <4>3. CASE j \in 1..Len(body)
          BY <2>1, <3>1, <3>2, <4>1, <4>3 DEF Ordered, Increasing
        <4> QED  BY <2>1, <4>2, <4>3
      <3> QED  BY <3>1, <3>2 DEF Increasing
    <2>4. \A j \in 1..Len(frames') : frames[1] < frames'[j]
      <3> SUFFICES ASSUME NEW j \in 1..Len(frames') PROVE frames[1] < frames[j + 1]
        BY <1>2
      <3>1. 1 \in DOMAIN frames /\ j + 1 \in DOMAIN frames
        BY <1>1, <1>2
      <3>2. 1 < j + 1
        OBVIOUS
      <3>3. Increasing(frames)
        BY DEF Ordered
      <3> QED  BY <3>1, <3>2, <3>3 DEF Increasing
    <2>5. \A i \in 1..Len(body'), j \in 1..Len(frames') : body'[i] < frames'[j]
      BY <1>2, <2>1, <2>4 DEF Ordered
    <2>6. \A i \in 1..Len(body') : body'[i] <= made'
      BY <1>2, <1>4, <2>1 DEF Ordered
    <2>7. \A k \in 1..Len(toRelay') : toRelay'[k].type = "frame" =>
            /\ \A i \in 1..Len(body') : body'[i] < toRelay'[k].chunk
            /\ \A i \in 1..Len(frames') : frames'[i] < toRelay'[k].chunk
      BY <1>2, <1>4, <2>1 DEF Ordered
    <2>8. Ordered'
      BY <1>3, <1>5, <2>3, <2>5, <2>6, <2>7 DEF Ordered
    <2> QED  BY <1>1, <1>2, <2>1, <2>8
  <1>7. CASE (WriteChunkFails \/ WriteBlocks) /\ ~WriteChunk
    <2>1. body' = body
      BY <1>7 DEF WriteChunkFails, WriteBlocks
    <2>2. Ordered'
      BY <1>2, <1>3, <1>4, <1>5, <2>1 DEF Ordered, Increasing
    <2> QED  BY <1>1, <1>2, <1>7, <2>1, <2>2
  <1> QED  BY <1>6, <1>7

\* A step that writes the first chunk of the channel to the client, or fails to,
\* keeps the invariant.
LEMMA WriteKeeps ==
    ASSUME IInv, TypeOK', fwd \notin {"blocked", "returned"}, frames # <<>>,
           \/ WriteChunk /\ fwd' = fwd /\ pending' = pending /\ outcome' = outcome
           \/ WriteChunkFails
           \/ WriteBlocks
    PROVE  IInv'
  <1> USE DEF IInv
  <1>1. UNCHANGED <<serve, made, link, toRelay, done, err, over, lost>>
    BY DEF WriteChunk, WriteChunkFails, WriteBlocks
  <1>2. Line' /\ Ordered' /\ LastFrame' = LastFrame /\ FirstFrame' = FirstFrame
    BY <1>1, LineStays, WriteKeepsOrder
  <1>3. CASE WriteChunkFails
    <2>1. fwd' = "returned" /\ outcome' = "unwritten" /\ ~pending'
      BY <1>3 DEF WriteChunkFails, Return
    <2>2. NoGap' /\ EndIsLast' /\ ReportComes'
      BY <1>1, <2>1 DEF NoGap, EndIsLast, AtEnd, ReportComes, HoleIsReported
    <2>3. PendingWhileRunning' /\ Complete'
      BY <2>1 DEF PendingWhileRunning, Complete
    <2> QED  BY <1>2, <2>2, <2>3
  <1>5. CASE WriteBlocks
    <2>1. fwd' = "blocked" /\ outcome' = outcome /\ pending' = pending
      BY <1>5 DEF WriteBlocks
    <2>2. NoGap' /\ EndIsLast' /\ ReportComes'
      BY <1>1, <2>1 DEF NoGap, EndIsLast, AtEnd, ReportComes, HoleIsReported
    <2>3. PendingWhileRunning' /\ Complete'
      BY <2>1 DEF PendingWhileRunning, Complete
    <2> QED  BY <1>2, <2>2, <2>3
  <1>4. CASE WriteChunk /\ fwd' = fwd /\ pending' = pending /\ outcome' = outcome
    <2>1. PICK m \in Nat, n \in Nat :
             /\ m = Len(body) /\ n = Len(frames')
             /\ Len(body') = m + 1 /\ Len(frames) = n + 1
             /\ body'[m + 1] = frames[1]
             /\ \A i \in 1..m : body'[i] = body[i]
             /\ \A i \in 1..n : frames'[i] = frames[i + 1]
      <3>0. body \in Seq(Chunk) /\ frames' \in Seq(Chunk)
        BY <1>4, WriteKeepsOrder DEF TypeOK
      <3>1. Len(body) \in Nat /\ Len(frames') \in Nat
        BY <3>0
      <3>2. /\ Len(body') = Len(body) + 1 /\ Len(frames) = Len(frames') + 1
            /\ body'[Len(body) + 1] = frames[1]
            /\ \A i \in 1..Len(body) : body'[i] = body[i]
            /\ \A i \in 1..Len(frames') : frames'[i] = frames[i + 1]
        BY <1>4, WriteKeepsOrder
      <3> QED  BY <3>1, <3>2
    <2>2. NoGap'
      <3> SUFFICES ASSUME pending, lost = {}
                   PROVE  /\ \A i \in 1..Len(body') : body'[i] = i
                          /\ \A i \in 1..Len(frames') : frames'[i] = Len(body') + i
                          /\ Len(body') + Len(frames') + LastFrame + 1 = made + FirstFrame
        BY <1>1, <1>2, <1>4 DEF NoGap
      <3>1. /\ \A i \in 1..m : body[i] = i
            /\ \A i \in 1..(n + 1) : frames[i] = m + i
            /\ m + (n + 1) + LastFrame + 1 = made + FirstFrame
        BY <2>1 DEF NoGap
      <3>2. \A i \in 1..(m + 1) : body'[i] = i
        BY <2>1, <3>1
      <3>3. \A i \in 1..n : frames'[i] = (m + 1) + i
        BY <2>1, <3>1
      <3>4. LastFrame \in Nat
        BY DEF LastFrame, HasEnd, TypeOK
      <3>5. (m + 1) + n + LastFrame + 1 = made + FirstFrame
        BY <3>1, <3>4
      <3> QED  BY <2>1, <3>2, <3>3, <3>5
    <2>3. EndIsLast' /\ ReportComes'
      BY <1>1, <1>4 DEF EndIsLast, AtEnd, ReportComes, HoleIsReported
    <2>4. PendingWhileRunning' /\ Complete'
      BY <1>4 DEF PendingWhileRunning, Complete
    <2> QED  BY <1>2, <2>2, <2>3, <2>4
  <1> QED  BY <1>3, <1>4, <1>5

\* The body is complete when the end has been reached and nothing was lost.
LEMMA BodyIsComplete ==
    ASSUME IInv, pending, fwd # "blocked", AtEnd, frames = <<>>, lost = {}
    PROVE  body = [i \in 1..made |-> i]
  <1>1. LastFrame = 0 /\ FirstFrame = 1 /\ Len(frames) = 0 /\ body \in Seq(Chunk) /\ made \in Nat
    BY DEF IInv, AtEnd, LastFrame, FirstFrame, HasEnd, HasHeaders, TypeOK
  <1>2. PICK n \in Nat : n = Len(body)
    BY <1>1
  <1>3. n = made /\ \A i \in 1..n : body[i] = i
    <2>1. Len(body) + Len(frames) + LastFrame + 1 = made + FirstFrame /\ \A i \in 1..Len(body) : body[i] = i
      BY DEF IInv, NoGap
    <2>2. n + 0 + 0 + 1 = made + 1
      BY <1>1, <1>2, <2>1
    <2> QED  BY <1>1, <1>2, <2>1, <2>2
  <1>4. body = [i \in 1..n |-> body[i]]
    BY <1>1, <1>2
  <1> QED  BY <1>3, <1>4

\* So does forwardResponse.
LEMMA ForwardingKeeps == ASSUME IInv, Forwarding PROVE IInv'
  <1> USE DEF IInv
  <1>1. CASE CtxDone
    <2>1. TypeOK'
      BY <1>1 DEF TypeOK, CtxDone, SendCancel, RelayError, StatusLine, Return
    <2> QED  BY <1>1, <2>1, ReturnKeeps DEF CtxDone, Return
  <1>2. CASE TimedOut
    <2>1. TypeOK'
      BY <1>2 DEF TypeOK, TimedOut, SendCancel, RelayError, StatusLine, Return
    <2> QED  BY <1>2, <2>1, ReturnKeeps DEF TimedOut, Return
  <1>3. CASE TakeHeaders
    <2>1. TypeOK'
      <3>1. {canceled, toAgent, pending, wroteHeader', ttft', idle, errorBody} \subseteq BOOLEAN
        BY <1>3, Zenon DEF TypeOK, TakeHeaders
      <3>2. {headers', done, err} \subseteq 0..1 /\ status' \in {"none", "agent", "ok", "error"}
        BY <1>3 DEF TypeOK, TakeHeaders, StatusLine
      <3> QED  BY <1>3, <3>1, <3>2 DEF TypeOK, TakeHeaders
    <2> QED  BY <1>3, <2>1, NothingMoves DEF TakeHeaders
  <1>4. CASE TakeFrame
    <2>1. TypeOK'
      <3>1. CASE WriteChunk /\ wroteHeader' = TRUE /\ ttft' = FALSE /\ idle' = HasIdle
                 /\ UNCHANGED <<fwd, pending, outcome>>
        <4>1. UNCHANGED <<serve, made, canceled, link, toRelay, toAgent, headers, done, err, client,
                          errorBody, fwd, pending, outcome, over, lost>>
          BY <3>1 DEF WriteChunk
        <4>2. /\ status' \in {"none", "agent", "ok", "error"}
              /\ {wroteHeader', ttft', idle'} \subseteq BOOLEAN
          BY <3>1, SwitchAssumption DEF TypeOK, WriteChunk, StatusLine
        <4>3. body' \in Seq(Chunk) /\ frames' \in Seq(Chunk) /\ Len(frames') <= FrameCap
          BY <1>4, <3>1, WriteKeepsOrder DEF TakeFrame
        <4> QED  BY <4>1, <4>2, <4>3 DEF TypeOK
      <3>2. CASE WriteChunkFails
        BY <1>4, <3>2, WriteKeepsOrder DEF TypeOK, TakeFrame, WriteChunkFails, StatusLine, Return
      <3> QED  BY <1>4, <3>1, <3>2 DEF TakeFrame
    <2> QED  BY <1>4, <2>1, WriteKeeps DEF TakeFrame
  <1>5. CASE DrainFrame
    <2>1. TypeOK'
      <3>1. CASE WriteChunk /\ UNCHANGED fwdVars
        BY <1>5, <3>1, WriteKeepsOrder DEF TypeOK, DrainFrame, WriteChunk, StatusLine
      <3>2. CASE WriteChunkFails
        BY <1>5, <3>2, WriteKeepsOrder DEF TypeOK, DrainFrame, WriteChunkFails, StatusLine, Return
      <3> QED  BY <1>5, <3>1, <3>2 DEF DrainFrame
    <2> QED  BY <1>5, <2>1, WriteKeeps DEF DrainFrame
  <1>6. CASE TakeDone \/ TakeErr
    <2>1. TypeOK'
      <3>1. {headers', done', err'} \subseteq 0..1 /\ fwd' \in {"drainDone", "drainErr"}
        BY <1>6 DEF TypeOK, TakeDone, TakeErr
      <3>2. UNCHANGED <<agentVars, linkVars, frames, clientVars, wroteHeader, ttft, idle, pending,
                        outcome, over, lost>>
        BY <1>6 DEF TakeDone, TakeErr
      <3> QED  BY <3>1, <3>2 DEF TypeOK
    <2>2. Line' /\ Ordered' /\ NoGap'
      <3>1. /\ UNCHANGED <<serve, made, link, toRelay, body, frames, pending, lost>>
            /\ fwd = "select"
        BY <1>6 DEF TakeDone, TakeErr
      <3>2. Line' /\ LastFrame' = LastFrame /\ FirstFrame' = FirstFrame
        BY <3>1, LineStays
      <3> QED  BY <3>1, <3>2 DEF Ordered, Increasing, NoGap
    <2>3. EndIsLast'
      BY <1>6 DEF TakeDone, TakeErr, EndIsLast, AtEnd
    <2>4. PendingWhileRunning' /\ Complete' /\ ReportComes'
      BY <1>6 DEF TakeDone, TakeErr, PendingWhileRunning, Complete, ReportComes, HoleIsReported
    <2> QED  BY <2>1, <2>2, <2>3, <2>4
  <1>7. CASE FinishDone
    <2>1. TypeOK'
      BY <1>7 DEF TypeOK, FinishDone, StatusLine, Return
    <2>2. AtEnd /\ pending
      BY <1>7 DEF FinishDone, EndIsLast, PendingWhileRunning
    <2>3. lost = {} => serve = "gone" /\ body = [i \in 1..made |-> i]
      BY <1>7, <2>2, BodyIsComplete DEF FinishDone, AtEnd
    <2> QED  BY <1>7, <2>1, <2>3, ReturnKeeps DEF FinishDone, Return
  <1>8. CASE FinishErr
    <2>1. TypeOK'
      BY <1>8 DEF TypeOK, FinishErr, RelayError, StatusLine, Return
    <2>2. (AtEnd \/ lost # {}) /\ pending
      BY <1>8 DEF FinishErr, EndIsLast, PendingWhileRunning
    <2>3. lost = {} => serve = "gone" /\ body = [i \in 1..made |-> i]
      BY <1>8, <2>2, BodyIsComplete DEF FinishErr, AtEnd
    <2> QED  BY <1>8, <2>1, <2>3, ReturnKeeps DEF FinishErr, Return
  <1>9. CASE WriteBlocks
    <2>1. TypeOK'
      BY <1>9, WriteKeepsOrder DEF TypeOK, WriteBlocks, StatusLine
    <2> QED  BY <1>9, <2>1, WriteKeeps DEF WriteBlocks
  <1>10. CASE BlockedFails
    <2>1. TypeOK'
      BY <1>10 DEF TypeOK, BlockedFails, Return
    <2> QED  BY <1>10, <2>1, ReturnKeeps DEF BlockedFails, Return
  <1> QED  BY <1>1, <1>2, <1>3, <1>4, <1>5, <1>6, <1>7, <1>8, <1>9, <1>10 DEF Forwarding

-----------------------------------------------------------------------------
\* IInv is inductive.
THEOREM Invariance == Spec => []IInv
  <1>1. Init => IInv
    <2> SUFFICES ASSUME Init PROVE IInv
      OBVIOUS
    <2> USE DEF Init
    <2>1. TypeOK
      <3>1. {canceled, toAgent, pending, wroteHeader, ttft, idle, errorBody} \subseteq BOOLEAN
        <4>1. HasTTFT \in BOOLEAN /\ HasIdle \in BOOLEAN
          BY Zenon
        <4> QED  BY <4>1, Zenon
      <3> QED  BY <3>1 DEF TypeOK
    <2>2. Line /\ Ordered /\ NoGap
      BY DEF Line, Ordered, Increasing, NoGap, HasEnd, HasHeaders, LastFrame, FirstFrame
    <2>3. EndIsLast /\ PendingWhileRunning /\ Complete /\ ReportComes
      BY DEF EndIsLast, PendingWhileRunning, Complete, ReportComes, HoleIsReported
    <2> QED  BY <2>1, <2>2, <2>3 DEF IInv
  <1>2. IInv /\ [Next]_vars => IInv'
    <2>1. ASSUME IInv, UNCHANGED vars PROVE IInv'
      <3>1. TypeOK'
        BY <2>1 DEF IInv, TypeOK, vars
      <3> QED  BY <2>1, <3>1, NothingMoves DEF vars
    <2> QED  BY <2>1, ServeKeeps, LinkKeeps, DispatchKeeps, ForwardingKeeps DEF Next
  <1> QED  BY <1>1, <1>2, PTL DEF Spec

\* Type correctness: no channel is ever filled beyond its capacity, so the relay's
\* read loop, which does not block, never has to (pending.go).
THEOREM TypeCorrect == Spec => []TypeOK
  <1>1. IInv => TypeOK
    BY DEF IInv
  <1> QED  BY <1>1, Invariance, PTL

\* Chunks reach the client in the order in which the local model produced them and
\* none twice, whatever is dropped, cut off or written by an older connection
\* (proxy.go, select loop and drain loops).
THEOREM InOrder == Spec => []BodyInOrder
  <1>1. IInv => BodyInOrder
    <2> SUFFICES ASSUME IInv PROVE Increasing(body \o frames)
      BY DEF BodyInOrder
    <2>1. body \in Seq(Chunk) /\ frames \in Seq(Chunk)
      BY DEF IInv, TypeOK
    <2>2. PICK m \in Nat, n \in Nat : m = Len(body) /\ n = Len(frames)
      BY <2>1
    <2>3. /\ DOMAIN (body \o frames) = 1..(m + n)
          /\ \A i \in 1..(m + n) : (body \o frames)[i] = IF i <= m THEN body[i] ELSE frames[i - m]
      BY <2>1, <2>2
    <2>4. /\ \A i, j \in 1..m : i < j => body[i] < body[j]
          /\ \A i, j \in 1..n : i < j => frames[i] < frames[j]
          /\ \A i \in 1..m, j \in 1..n : body[i] < frames[j]
      <3>1. DOMAIN body = 1..m /\ DOMAIN frames = 1..n
        BY <2>1, <2>2
      <3> QED  BY <2>2, <3>1 DEF IInv, Ordered, Increasing
    <2>5. ASSUME NEW i \in 1..(m + n), NEW j \in 1..(m + n), i < j
          PROVE  (body \o frames)[i] < (body \o frames)[j]
      <3>1. CASE j <= m
        <4>1. i \in 1..m /\ j \in 1..m
          BY <2>5, <3>1
        <4> QED  BY <2>3, <2>4, <2>5, <3>1, <4>1
      <3>2. CASE i <= m /\ j > m
        BY <2>3, <2>4, <3>2
      <3>3. CASE i > m
        <4>1. PICK k \in 1..n, l \in 1..n : k = i - m /\ l = j - m
          BY <2>5, <3>3
        <4>2. k < l /\ j > m
          BY <2>5, <3>3, <4>1
        <4>3. (body \o frames)[i] = frames[k] /\ (body \o frames)[j] = frames[l]
          <5>1. ~(i <= m) /\ ~(j <= m)
            BY <2>2, <2>5, <3>3
          <5> QED  BY <2>3, <4>1, <5>1
        <4> QED  BY <2>4, <4>2, <4>3
      <3>4. j <= m \/ (i <= m /\ j > m) \/ i > m
        OBVIOUS
      <3> QED  BY <3>1, <3>2, <3>3, <3>4
    <2> QED  BY <2>3, <2>5 DEF Increasing
  <1> QED  BY <1>1, Invariance, PTL

\* A client that was told the end, or the agent's error, has every chunk that was
\* produced, unless one was dropped on the way (proxy.go 287, drain loops).
THEOREM AllDelivered == Spec => []NothingProducedIsDropped
  <1>1. IInv => NothingProducedIsDropped
    BY DEF IInv, Complete, NothingProducedIsDropped
  <1> QED  BY <1>1, Invariance, PTL

\* A dropped frame is reported before done can be believed: a response with a hole
\* ends as a success only where select had its error to choose as well (wss.go,
\* dispatchFrame; proxy.go, select loop).
THEOREM HoleReported == Spec => []HoleIsReported
  <1>1. IInv => HoleIsReported
    BY DEF IInv, ReportComes
  <1> QED  BY <1>1, Invariance, PTL
=============================================================================
