-------------------------- MODULE AnalyticsWriter --------------------------
(***************************************************************************)
(* The task behind AnalyticsHandle: a bounded channel, six ClickHouse        *)
(* inserters that batch their rows, the cached table metadata they validate  *)
(* against, and the gauge that tells an operator the schema is stale.  The   *)
(* worker's migrations, which make the table current, run in another         *)
(* process; a roll-back makes it stale again.                                *)
(***************************************************************************)
EXTENDS Naturals, Sequences

CONSTANTS
  Side,         \* the tables beside request_events
  Events,       \* the side tables an event has rows for
  Capacity,     \* slots of the channel
  BatchRows     \* BATCH_MAX_ROWS

VARIABLES
  layout,       \* of request_events: "current" or "stale"
  up,           \* ClickHouse answers
  metadata,     \* the layout the client has cached, or "none"
  channel,
  task,         \* where the consumer is, with the event in its hands
  batch,        \* rows of the open request_events insert
  side,         \* the side tables with an open insert
  gauge,        \* secureprompt_clickhouse_schema_mismatch
  probe         \* the startup probe: waiting for its answer, about to report, or over

writerVars == <<layout, up, metadata, channel, task, batch, side, gauge, probe>>

Receiving == [pc |-> "recv", rows |-> {}]

(* enqueue: try_send, and an event that finds the channel full is dropped and counted. *)
Enqueue ==
  /\ \E e \in Events :
       channel' = IF Len(channel) < Capacity THEN Append(channel, e) ELSE channel
  /\ UNCHANGED <<layout, up, metadata, task, batch, side, gauge, probe>>

Receive ==
  /\ task.pc = "recv"
  /\ channel # <<>>
  /\ task' = [pc |-> "write", rows |-> Head(channel)]
  /\ channel' = Tail(channel)
  /\ UNCHANGED <<layout, up, metadata, batch, side, gauge, probe>>

(* Inserter::write, as the loop uses it.  The first row of a batch is validated against the cached
   metadata, or against a DESCRIBE that fills the cache; the others are buffered.  An error closes
   the insert and its rows are lost. *)
Known == IF metadata = "none" THEN layout ELSE metadata
Described == IF batch = 0 /\ up THEN Known ELSE metadata
WriteResult ==
  IF batch > 0 THEN {"ok"} \cup (IF up THEN {} ELSE {"transport"})
  ELSE IF ~up /\ metadata = "none" THEN {"transport"}
  ELSE IF Known = "current" THEN {"ok"} ELSE {"mismatch"}

(* The write of request_events: success is the proof that lowers the gauge, SchemaMismatch raises
   it and drops the cached metadata, anything else is only retried. *)
Write ==
  /\ task.pc = "write"
  /\ \E r \in WriteResult :
       /\ task' = [task EXCEPT !.pc = IF r = "ok" THEN "side" ELSE "retry"]
       /\ gauge' = (IF r = "ok" THEN FALSE ELSE IF r = "mismatch" THEN TRUE ELSE gauge)
       /\ metadata' = IF r = "mismatch" THEN "none" ELSE Described
       /\ batch' = IF r = "ok" THEN batch + 1 ELSE 0
  /\ UNCHANGED <<layout, up, channel, side, probe>>

(* After 500 ms, once.  A second failure abandons the event, side rows included. *)
Retry ==
  /\ task.pc = "retry"
  /\ \E r \in WriteResult :
       /\ task' = IF r = "ok" THEN [task EXCEPT !.pc = "side"] ELSE Receiving
       /\ gauge' = (IF r = "ok" THEN FALSE ELSE gauge)
       /\ metadata' = Described
       /\ batch' = IF r = "ok" THEN batch + 1 ELSE 0
  /\ UNCHANGED <<layout, up, channel, side, probe>>

(* The rows for the other tables.  An error is counted, closes that insert and costs nothing else. *)
WriteSide ==
  /\ task.pc = "side"
  /\ \E failed \in SUBSET task.rows :
       /\ up => failed = {}
       /\ side' = (side \cup task.rows) \ failed
  /\ task' = [task EXCEPT !.pc = "commit"]
  /\ UNCHANGED <<layout, up, metadata, channel, batch, gauge, probe>>

(* Mutant: a commit error is counted and nothing else. *)
DropMetadataNever(failed) == metadata

(* A failed commit of request_events is not diagnosed, but the next write describes again. *)
DropMetadata(failed) == IF failed THEN "none" ELSE metadata

(* Inserter::commit ends the insert when its rows or its period are used up: a full batch always,
   another one when the second has passed.  Rows the server refuses are lost. *)
Commit ==
  /\ task.pc = "commit"
  /\ \E due \in BOOLEAN, ended \in SUBSET side :
       LET flush == due \/ batch >= BatchRows
           failed == flush /\ batch > 0 /\ (~up \/ layout = "stale")
       IN /\ metadata' = DropMetadata(failed)
          /\ batch' = IF flush THEN 0 ELSE batch
          /\ side' = side \ ended
  /\ task' = Receiving
  /\ UNCHANGED <<layout, up, channel, gauge, probe>>

(* verify_request_events_schema, spawned beside the loop: it reads the columns once and reports
   what it read some time later, unless it times out. *)
ProbeReads ==
  /\ probe = "waiting"
  /\ probe' = IF up /\ layout = "stale" THEN "report" ELSE "over"
  /\ UNCHANGED <<layout, up, metadata, channel, task, batch, side, gauge>>

ProbeReports ==
  /\ probe = "report"
  /\ gauge' = TRUE
  /\ probe' = "over"
  /\ UNCHANGED <<layout, up, metadata, channel, task, batch, side>>

(* The worker migrates the table or an older release takes its column away; ClickHouse goes away
   and comes back. *)
LayoutChanges ==
  /\ layout' = IF layout = "stale" THEN "current" ELSE "stale"
  /\ UNCHANGED <<up, metadata, channel, task, batch, side, gauge, probe>>

Outage ==
  /\ up' = ~up
  /\ UNCHANGED <<layout, metadata, channel, task, batch, side, gauge, probe>>

Init ==
  /\ layout \in {"stale", "current"}
  /\ up = TRUE
  /\ metadata = "none"
  /\ channel = <<>>
  /\ task = Receiving
  /\ batch = 0
  /\ side = {}
  /\ gauge = FALSE
  /\ probe = "waiting"

Step == Receive \/ Write \/ Retry \/ WriteSide \/ Commit \/ ProbeReads \/ ProbeReports

Next == Enqueue \/ Step \/ LayoutChanges \/ Outage

Spec == Init /\ [][Next]_writerVars

(* The runtime schedules the task and the probe. *)
Fairness ==
  /\ WF_writerVars(Receive \/ Write \/ Retry \/ WriteSide \/ Commit)
  /\ WF_writerVars(ProbeReads \/ ProbeReports)

FairSpec == Spec /\ Fairness

(***************************************************************************)
(* Properties.                                                              *)
(***************************************************************************)

Traffic == []<>(task.pc = "write")

(* While requests keep arriving, the gauge comes to agree with a table that has settled: a layout
   that drifts under a warm cache is noticed although only commits fail, a migration is noticed
   although the cache holds the old layout, and a probe that answers late leaves no false alarm
   behind.  And no row stays in a batch for good, although a batch is only ever ended by the event
   that follows it. *)
WriterSettles ==
  Traffic => /\ <>[](up /\ layout = "stale") => <>[]gauge
             /\ <>[](up /\ layout = "current") => <>[]~gauge
             /\ []<>(batch = 0)

=============================================================================
