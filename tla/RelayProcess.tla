--------------------------- MODULE RelayProcess ---------------------------
(***************************************************************************)
(* The life of a relay process (cmd/relay run): the database is opened and *)
(* migrated, the summary writer and the retention goroutine are started,   *)
(* requests end and are recorded, the process shuts down in order, or      *)
(* leaves with an error, or dies.  The next process finds the database.    *)
(*                                                                         *)
(* A summary is the request it belongs to.  The listeners and what they    *)
(* serve are in the other modules: closing them only means that requests   *)
(* end, or are still running when their 10 seconds are over.               *)
(***************************************************************************)
EXTENDS Naturals, Sequences, FiniteSets

CONSTANTS Request,
          QueueCap,      \* capacity of summaryWriter.ch (256)
          Recent,        \* size of the ring buffer (500)
          ConfigDays,    \* retention_days of the configuration
          MaxProcesses   \* bound: processes, that is restarts + 1

ASSUME RequestAssumption == IsFiniteSet(Request)
ASSUME SizeAssumption == {QueueCap, Recent, MaxProcesses} \subseteq Nat \ {0}
ASSUME DaysAssumption == ConfigDays \in Nat \ {0}   \* Validate makes it 30 otherwise

VARIABLES phase,      \* where run is
          processes,  \* processes started so far
          schema,     \* schema_version: "none" (no table), "empty", "v1"
          db,         \* the process has the database open
          rows,       \* request_summaries, oldest first
          old,        \* how many of them are past the cutoff
          days,       \* Server.retentionD
          retention,  \* its goroutine: "none", "run", "stop" (told to), "done"
          writer,     \* the summary writer: "none", "run", "stop", "drain", "done"
          ch, hand,   \* its channel, and the summary it has taken from it
          ring,
          outcome     \* history: what became of a request's summary

dbVars == <<schema, db, rows, old>>
goVars == <<days, retention, writer>>
sumVars == <<ch, hand, ring, outcome>>
vars == <<phase, processes, dbVars, goVars, sumVars>>

Outcome == {"none", "pushed", "queued", "written", "failed", "closed", "dropped", "late", "crashed"}
Days == {1, 30, ConfigDays}
Alive == {"listen", "serve", "closing", "retention", "summary", "returned"}

Init == /\ phase = "open" /\ processes = 1
        /\ schema = "none" /\ db = FALSE /\ rows = <<>> /\ old = 0
        /\ days = ConfigDays /\ retention = "none" /\ writer = "none"
        /\ ch = <<>> /\ hand = <<>> /\ ring = <<>>
        /\ outcome = [r \in Request |-> "none"]

-----------------------------------------------------------------------------
(***************************************************************************)
(* Start.  SetRetention comes before there is a store, so SetStore has to  *)
(* start the retention goroutine.                                          *)
(***************************************************************************)
\* store.Open: the table schema_version is made if it is not there.
Open == /\ phase = "open"
        /\ db' = TRUE
        /\ schema' = IF schema = "none" THEN "empty" ELSE schema
        /\ phase' = "migrate"
        /\ UNCHANGED <<processes, rows, old, goVars, sumVars>>

\* migrate: the tables (IF NOT EXISTS) and the version are one transaction.  An error
\* of reading the version counts as version 0, so that the migration of a database
\* at v1 is left out or, after such an error, repeated; its rows stay.
Migrate == /\ phase = "migrate"
           /\ schema' = "v1"
           /\ phase' = "attach"
           /\ UNCHANGED <<processes, db, rows, old, goVars, sumVars>>

\* startRetention: once, with a store, when there is a number of days.
StartRetention == retention' = IF retention = "none" /\ days' > 0 THEN "run" ELSE retention

\* Mutant: only SetRetention starts the goroutine.
SetStoreOnly == /\ phase = "attach"
                /\ writer' = "run"
                /\ phase' = "listen"
                /\ UNCHANGED <<processes, dbVars, days, retention, sumVars>>

SetStore == /\ phase = "attach"
            /\ writer' = "run"
            /\ UNCHANGED days /\ StartRetention
            /\ phase' = "listen"
            /\ UNCHANGED <<processes, dbVars, sumVars>>

Listen == /\ phase = "listen"
          /\ phase' = "serve"
          /\ UNCHANGED <<processes, dbVars, goVars, sumVars>>

\* An error while starting, or from a server (errCh): run returns, its deferred
\* Close closes the store, and nobody stops the writer.
ReturnError == /\ phase \in {"open", "migrate", "listen", "serve"}
               /\ phase' = "returned" /\ db' = FALSE
               /\ UNCHANGED <<processes, schema, rows, old, goVars, sumVars>>

-----------------------------------------------------------------------------
(***************************************************************************)
(* Shutdown: the servers, then Server.Close, then the deferred st.Close.   *)
(***************************************************************************)
CloseServers == /\ phase = "serve"
                /\ phase' = "closing"
                /\ UNCHANGED <<processes, dbVars, goVars, sumVars>>

StopRetention == /\ phase = "closing"
                 /\ retention' = IF retention = "run" THEN "stop" ELSE retention
                 /\ phase' = "retention"
                 /\ UNCHANGED <<processes, dbVars, days, writer, sumVars>>

StopWriter == /\ phase = "retention" /\ retention # "stop"
              /\ writer' = "stop"
              /\ phase' = "summary"
              /\ UNCHANGED <<processes, dbVars, days, retention, sumVars>>

\* Mutant: the store is closed without waiting for the writer.
CloseStoreAtOnce == /\ phase = "summary"
                    /\ db' = FALSE
                    /\ phase' = "returned"
                    /\ UNCHANGED <<processes, schema, rows, old, goVars, sumVars>>

CloseStore == /\ phase = "summary" /\ writer = "done"
              /\ db' = FALSE
              /\ phase' = "returned"
              /\ UNCHANGED <<processes, schema, rows, old, goVars, sumVars>>

\* The process is gone, at the end of main or at any other time; another one
\* is started.
Restart == /\ processes < MaxProcesses
           /\ processes' = processes + 1
           /\ phase' = "open" /\ db' = FALSE
           /\ days' = ConfigDays /\ retention' = "none" /\ writer' = "none"
           /\ ch' = <<>> /\ hand' = <<>> /\ ring' = <<>>
           /\ outcome' = [r \in Request |-> IF outcome[r] \in {"pushed", "queued", "closed"}
                                         THEN "crashed" ELSE outcome[r]]
           /\ UNCHANGED <<schema, rows, old>>

-----------------------------------------------------------------------------
(***************************************************************************)
(* recordRequest, when a request's handler returns: the ring and the       *)
(* channel are two steps, so two requests may enter them in either order.  *)
(***************************************************************************)
\* Mutant: the ring is never cut.
PushAll(r) == ring' = Append(ring, r)

Push(r) == ring' = IF Len(ring) < Recent THEN Append(ring, r) ELSE Append(Tail(ring), r)

PushRequest(r) ==
    /\ phase \in Alive /\ writer # "none" /\ outcome[r] = "none"
    /\ Push(r)
    /\ outcome' = [outcome EXCEPT ![r] = "pushed"]
    /\ UNCHANGED <<phase, processes, dbVars, goVars, ch, hand>>

\* submit: a summary that finds no room is dropped, one that finds no writer stays.
SubmitSummary(r) ==
    /\ outcome[r] = "pushed"
    /\ IF Len(ch) < QueueCap
       THEN /\ ch' = Append(ch, r)
            /\ outcome' = [outcome EXCEPT ![r] = IF writer = "done" THEN "late" ELSE "queued"]
       ELSE /\ UNCHANGED ch
            /\ outcome' = [outcome EXCEPT ![r] = "dropped"]
    /\ UNCHANGED <<phase, processes, dbVars, goVars, hand, ring>>

-----------------------------------------------------------------------------
(***************************************************************************)
(* The summary writer.  Its select may prefer the channel to stop.         *)
(***************************************************************************)
TakeSummary == /\ writer \in {"run", "stop", "drain"} /\ hand = <<>> /\ ch # <<>>
               /\ hand' = <<Head(ch)>> /\ ch' = Tail(ch)
               /\ UNCHANGED <<phase, processes, dbVars, goVars, ring, outcome>>

\* Mutant: the summary stays in hand when it is written.
AddRequestSummaryAgain ==
    /\ hand # <<>> /\ db /\ Len(rows) < Cardinality(Request)
    /\ rows' = Append(rows, hand[1])
    /\ outcome' = [outcome EXCEPT ![hand[1]] = "written"]
    /\ UNCHANGED <<phase, processes, schema, db, old, goVars, hand, ch, ring>>

\* AddRequestSummary, whose error is ignored: an INSERT that fails, or a store
\* that is closed already.
AddRequestSummary ==
    /\ hand # <<>>
    /\ hand' = <<>>
    /\ \E o \in IF db THEN {"written", "failed"} ELSE {"closed"} :
          /\ outcome' = [outcome EXCEPT ![hand[1]] = o]
          /\ rows' = IF o = "written" THEN Append(rows, hand[1]) ELSE rows
    /\ UNCHANGED <<phase, processes, schema, db, old, goVars, ch, ring>>

DrainSummaries == /\ writer = "stop" /\ hand = <<>>
                  /\ writer' = "drain"
                  /\ UNCHANGED <<phase, processes, dbVars, days, retention, sumVars>>

WriterEnds == /\ writer = "drain" /\ hand = <<>> /\ ch = <<>>
              /\ writer' = "done"
              /\ UNCHANGED <<phase, processes, dbVars, days, retention, sumVars>>

-----------------------------------------------------------------------------
(***************************************************************************)
(* Retention: rows grow old, the goroutine deletes them; an administrator  *)
(* changes the number of days (for this process).                          *)
(***************************************************************************)
GrowOld == /\ old < Len(rows)
           /\ old' = old + 1
           /\ UNCHANGED <<phase, processes, schema, db, rows, goVars, sumVars>>

Prune == /\ retention \in {"run", "stop"} /\ days > 0 /\ db /\ old > 0
         /\ rows' = SubSeq(rows, old + 1, Len(rows)) /\ old' = 0
         /\ UNCHANGED <<phase, processes, schema, db, goVars, sumVars>>

\* Mutant: the goroutine finishes its work before it looks at the stop channel.
RetentionEndsIdle == /\ retention = "stop" /\ old = 0
                     /\ retention' = "done"
                     /\ UNCHANGED <<phase, processes, dbVars, days, writer, sumVars>>

RetentionEnds == /\ retention = "stop"
                 /\ retention' = "done"
                 /\ UNCHANGED <<phase, processes, dbVars, days, writer, sumVars>>

\* handleRetention, whose default for no days is 30.  It may still be running
\* when the admin server is closed.
SetRetention == /\ phase \in Alive \ {"listen"}
                /\ days' \in Days \ {days}
                /\ old' \in IF days' > days THEN 0..old ELSE old..Len(rows)
                /\ StartRetention
                /\ UNCHANGED <<phase, processes, schema, db, rows, writer, sumVars>>

-----------------------------------------------------------------------------
StartNext == Open \/ Migrate \/ SetStore \/ Listen
CloseNext == StopRetention \/ StopWriter \/ CloseStore
WriterNext == TakeSummary \/ AddRequestSummary \/ DrainSummaries \/ WriterEnds

Next == \/ StartNext \/ ReturnError \/ CloseServers \/ CloseNext \/ Restart
        \/ \E r \in Request : PushRequest(r) \/ SubmitSummary(r)
        \/ WriterNext
        \/ GrowOld \/ Prune \/ RetentionEnds \/ SetRetention

Spec == Init /\ [][Next]_vars

\* run goes on, the goroutines are scheduled, the hourly ticker ticks, and pruning
\* does not fail for ever (a failing PruneAudit leaves the summaries as they are).
FairSpec == /\ Spec
            /\ WF_vars(StartNext) /\ WF_vars(CloseNext) /\ WF_vars(WriterNext)
            /\ WF_vars(Prune) /\ WF_vars(RetentionEnds)

-----------------------------------------------------------------------------
\* Types; the channel and the ring buffer stay within their sizes
\* (requests.go 30-44, 61-67).
TypeOK == /\ phase \in Alive \cup {"open", "migrate", "attach"}
          /\ processes \in 1..MaxProcesses
          /\ schema \in {"none", "empty", "v1"} /\ db \in BOOLEAN
          /\ rows \in Seq(Request) /\ old \in 0..Len(rows)
          /\ days \in Days
          /\ retention \in {"none", "run", "stop", "done"}
          /\ writer \in {"none", "run", "stop", "drain", "done"}
          /\ ch \in Seq(Request) /\ Len(ch) <= QueueCap
          /\ hand \in {<<>>} \cup {<<r>> : r \in Request}
          /\ ring \in Seq(Request) /\ Len(ring) <= Recent
          /\ outcome \in [Request -> Outcome]

\* The summaries are a log as SummaryLog describes it, through full queues,
\* shutdowns, errors and crashes (requests.go 55-101, server.go 247-310).
Log == INSTANCE SummaryLog WITH finished <- {r \in Request : outcome[r] # "none"},
                                waiting <- {r \in Request : outcome[r] = "pushed"},
                                queue <- hand \o ch, recent <- ring
ImplementsSummaryLog == Log!Spec

\* When an orderly shutdown has stopped the writer, every summary it was given has
\* been offered to a store that was open: none is left in the channel and none met a
\* closed store.  A row is missing only because its INSERT failed, or because the
\* summary was never given to the writer (dropped, or late).  An error of a server
\* is no orderly shutdown: there the writer runs on beside a closed store
\* (requests.go 70-101, main.go 129-140).
ShutdownWritesAll ==
    writer = "done" => \A r \in Request : outcome[r] \notin {"queued", "closed"}

\* Rows past the cutoff go away while the relay runs, although the retention is
\* set before there is a store and changed while it works (server.go 230-283).
OldRowsArePruned == (old > 0 /\ phase = "serve") ~> (old = 0 \/ phase # "serve")

\* An orderly shutdown comes to its end: nobody waits for a goroutine that
\* waits for something else (server.go 247-255).
ShutdownEnds == phase = "closing" ~> phase \in {"returned", "open"}
=============================================================================
