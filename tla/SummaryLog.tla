---------------------------- MODULE SummaryLog ----------------------------
(***************************************************************************)
(* What the relay promises about the summaries of finished requests: each  *)
(* finished request may get one row in the database, rows are written in   *)
(* the order in which the summaries were submitted, and the newest Recent  *)
(* of the finished requests can be listed from memory.  The two orders may *)
(* differ, since a request finishes and submits in two steps.  Summaries   *)
(* may be lost, never repeated; rows are only deleted from the old end.    *)
(***************************************************************************)
EXTENDS Naturals, Sequences

CONSTANTS Request, Recent

VARIABLES finished,  \* requests that have ended, of this and earlier processes
          waiting,   \* those whose summary is not submitted yet
          queue,     \* their summaries on the way to the database
          rows,      \* the table request_summaries
          recent     \* what RecentRequests lists, oldest first

vars == <<finished, waiting, queue, rows, recent>>

Newest(s) == IF Len(s) > Recent THEN Tail(s) ELSE s

Init == finished = {} /\ waiting = {} /\ queue = <<>> /\ rows = <<>> /\ recent = <<>>

Finish(r) == /\ r \notin finished
             /\ finished' = finished \cup {r}
             /\ waiting' = waiting \cup {r}
             /\ recent' = Newest(Append(recent, r))
             /\ UNCHANGED <<queue, rows>>

Submit(r) == /\ r \in waiting
             /\ waiting' = waiting \ {r}
             /\ queue' = queue \/ queue' = Append(queue, r)
             /\ UNCHANGED <<finished, rows, recent>>

Persist == /\ queue # <<>>
           /\ queue' = Tail(queue)
           /\ rows' = rows \/ rows' = Append(rows, Head(queue))
           /\ UNCHANGED <<finished, waiting, recent>>

Prune == /\ \E n \in 1..Len(rows) : rows' = SubSeq(rows, n + 1, Len(rows))
         /\ UNCHANGED <<finished, waiting, queue, recent>>

\* The process ends: what was only in memory is gone.
Forget == /\ waiting' = {} /\ queue' = <<>> /\ recent' = <<>>
          /\ UNCHANGED <<finished, rows>>

Next == (\E r \in Request : Finish(r) \/ Submit(r)) \/ Persist \/ Prune \/ Forget

Spec == Init /\ [][Next]_vars

\* No request has two rows, and none is on its way to a second one.
AtMostOneRow == /\ \A i, j \in 1..Len(rows) : rows[i] = rows[j] => i = j
                /\ \A i \in 1..Len(rows), j \in 1..Len(queue) : rows[i] # queue[j]
=============================================================================
