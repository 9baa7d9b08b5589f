---------------------------- MODULE AuditExport ----------------------------
(***************************************************************************)
(* The life of an audit export: create_export in the API records the       *)
(* request in Postgres and pushes a task on a Redis list; the worker's     *)
(* drain loop pops it and runs audit_export::run_with, which reads the     *)
(* control plane (Postgres) and the request log (ClickHouse), builds and   *)
(* signs the pages (ExportChain) and persists them; a client polls the     *)
(* status and downloads the pages one by one.                              *)
(*                                                                         *)
(* One workspace: every statement is scoped to the export's own.  An event *)
(* or an audited action is known by the order in which it was recorded.    *)
(* Time counts half seconds: ClickHouse keeps whole seconds, Postgres and  *)
(* a request's window do not.                                              *)
(***************************************************************************)
EXTENDS ExportChain, FiniteSets

CONSTANTS Export,      \* export requests
          Worker,      \* worker processes
          Keyed,       \* those whose environment has a usable signing key
          Windows,     \* the windows <<from, to>> requested
          PageSize,    \* page_size
          Cap,         \* MAX_EXPORT_ROWS
          Ttl,         \* SOURCE_TTL_DAYS
          Faults,      \* what may go wrong, a subset of FaultKinds
          MaxTime,     \* bound on the clock
          MaxEvents,   \* bound on the request events recorded
          MaxActions   \* bound on the audited actions recorded

FaultKinds == {"crash", "pg_error", "pg_lost", "redis_error", "redis_lost", "ch_error"}

ASSUME ExportAssumption ==
  /\ Keyed \subseteq Worker
  /\ \A w \in Windows : w[1] \in Nat /\ w[2] \in Nat /\ w[1] < w[2]
  /\ PageSize \in Nat \ {0}
  /\ {Cap, Ttl, MaxTime, MaxEvents, MaxActions} \subseteq Nat
  /\ Faults \subseteq FaultKinds

VARIABLES
  now,      \* the clock
  events,   \* request_events: created_at of each, whole seconds
  expired,  \* the events ClickHouse's TTL has removed
  actions,  \* the control-plane audit tables: when each row was recorded
  row,      \* audit_exports: status and window of each export
  stored,   \* audit_exports' manifest and signature with audit_export_pages
  queue,    \* the Redis list queue:audit_export
  api,      \* where create_export stands for each export
  worker,   \* the task each worker runs
  client,   \* a client downloading an export
  owed      \* history: how many events and actions preceded the request, and
            \* whether the task was given up without recording its end

vars == <<now, events, expired, actions, row, stored, queue, api, worker, client, owed>>

None == "none"
NoManifest == [total_pages |-> 0]
NoSignature == Sign(None, NoManifest)
NoExport == [manifest |-> NoManifest, signature |-> NoSignature, files |-> <<>>]
NoTask == [pc |-> "idle", export |-> None, gen |-> 0, control |-> <<>>, rows |-> <<>>]
NoClient == [pc |-> "idle", export |-> None, manifest |-> NoManifest,
             signature |-> NoSignature, files |-> <<>>]
SigningKey == "key"

Status == {"none", "queued", "running", "complete", "failed"}

(* The outcome of a write: applied and answered, refused, or applied with   *)
(* the answer lost.                                                         *)
Outcomes(error, lost) ==
  {"ok"} \cup {o \in {"error", "lost"} :
                 \/ o = "error" /\ error \in Faults
                 \/ o = "lost" /\ lost \in Faults}
PgOutcomes == Outcomes("pg_error", "pg_lost")
RedisOutcomes == Outcomes("redis_error", "redis_lost")
Applied(o) == o # "error"

(* The whole second an instant falls in. *)
Second(t) == t - (t % 2)

(* SCOPE: the window bound as UNIX seconds. *)
InScope(e, t) == Second(row[e].from) <= t /\ t < Second(row[e].to)

(* The window of the control-plane reads, bound as timestamptz. *)
InWindow(e, t) == row[e].from <= t /\ t < row[e].to

ScopedEvents(e) == {i \in DOMAIN events \ expired : InScope(e, events[i])}
WindowedActions(e) == {i \in DOMAIN actions : InWindow(e, actions[i])}

(* Rows in the order of ORDER BY created_at, id and of control_sort_key. *)
Before(S, at, i) == {j \in S : at[j] < at[i] \/ (at[j] = at[i] /\ j < i)}
InOrder(S, at, kind) ==
  [n \in 1..Cardinality(S) |->
    <<kind, CHOOSE i \in S : Cardinality(Before(S, at, i)) = n - 1>>]

(* What the manifest declares of request_events' TTL, as of generated_at. *)
RetentionFor(from, to, gen) ==
  CASE to <= gen - Ttl -> "wholly_expired"
    [] to > gen - Ttl /\ from < gen - Ttl -> "partially_expired"
    [] OTHER -> "within_retention"

Init ==
  /\ now = 0
  /\ events = <<>>
  /\ expired = {}
  /\ actions = <<>>
  /\ row = [e \in Export |-> [status |-> "none", from |-> 0, to |-> 0]]
  /\ stored = [e \in Export |-> NoExport]
  /\ queue = <<>>
  /\ api = [e \in Export |-> "idle"]
  /\ worker = [w \in Worker |-> NoTask]
  /\ client = NoClient
  /\ owed = [e \in Export |-> [events |-> 0, actions |-> 0, lost |-> FALSE]]

-----------------------------------------------------------------------------
(* The environment. *)

Tick ==
  /\ now < MaxTime
  /\ now' = now + 1
  /\ UNCHANGED <<events, expired, actions, row, stored, queue, api, worker, client, owed>>

(* A batch of the gateway's writer commits: an event is stamped when it is  *)
(* taken off the channel, and its batch may commit any time later.          *)
RecordEvent ==
  /\ Len(events) < MaxEvents
  /\ \E t \in 0..now : events' = Append(events, Second(t))
  /\ UNCHANGED <<now, expired, actions, row, stored, queue, api, worker, client, owed>>

RecordAction ==
  /\ Len(actions) < MaxActions
  /\ actions' = Append(actions, now)
  /\ UNCHANGED <<now, events, expired, row, stored, queue, api, worker, client, owed>>

(* A merge applies TTL created_at + INTERVAL 90 DAY to one row. *)
Expire(i) ==
  /\ i \notin expired
  /\ events[i] + Ttl <= now
  /\ expired' = expired \cup {i}
  /\ UNCHANGED <<now, events, actions, row, stored, queue, api, worker, client, owed>>

-----------------------------------------------------------------------------
(* create_export. *)

SetStatus(e, status) == row' = [row EXCEPT ![e].status = status]

(* INSERT ... 'queued' and its commit. *)
CreateExport(e) ==
  /\ api[e] = "idle"
  /\ \E w \in Windows, o \in PgOutcomes :
       /\ row' = IF Applied(o)
                 THEN [row EXCEPT ![e] = [status |-> "queued", from |-> w[1], to |-> w[2]]]
                 ELSE row
       /\ api' = [api EXCEPT ![e] = IF o = "ok" THEN "enqueue" ELSE "refused"]
  /\ owed' = [owed EXCEPT ![e].events = Len(events), ![e].actions = Len(actions)]
  /\ UNCHANGED <<now, events, expired, actions, stored, queue, worker, client>>

(* enqueue_task: RPUSH. *)
Enqueue(e) ==
  /\ api[e] = "enqueue"
  /\ \E o \in RedisOutcomes :
       /\ queue' = IF Applied(o) THEN Append(queue, e) ELSE queue
       /\ api' = [api EXCEPT ![e] = IF o = "ok" THEN "accepted" ELSE "marking"]
  /\ UNCHANGED <<now, events, expired, actions, row, stored, worker, client, owed>>

(* mark_enqueue_failed, its own result ignored, and the 503. *)
MarkEnqueueFailed(e) ==
  /\ api[e] = "marking"
  /\ api' = [api EXCEPT ![e] = "unqueued"]
  /\ \E o \in PgOutcomes : IF Applied(o) THEN SetStatus(e, "failed") ELSE UNCHANGED row
  /\ UNCHANGED <<now, events, expired, actions, stored, queue, worker, client, owed>>

(* The gateway process stops inside the handler. *)
ApiCrash(e) ==
  /\ "crash" \in Faults
  /\ api[e] \in {"enqueue", "marking"}
  /\ api' = [api EXCEPT ![e] = "dead"]
  /\ UNCHANGED <<now, events, expired, actions, row, stored, queue, worker, client, owed>>

-----------------------------------------------------------------------------
(* run_queue_drain and run_with. *)

At(w, pc) == worker[w].pc = pc
Goto(w, pc) == worker' = [worker EXCEPT ![w].pc = pc]
Return(w) == worker' = [worker EXCEPT ![w] = NoTask]
GiveUp(w) == owed' = [owed EXCEPT ![worker[w].export].lost = TRUE]

(* BLPOP takes the task off the list; run reads the clock for generated_at. *)
(* An error of the call reads as an empty queue (unwrap_or(None)): when the *)
(* list was popped and only the reply was lost, nobody holds the task.      *)
Pop(w) ==
  /\ At(w, "idle")
  /\ queue # <<>>
  /\ queue' = Tail(queue)
  /\ \/ /\ worker' = [worker EXCEPT ![w] = [NoTask EXCEPT !.pc = "mark", !.export = Head(queue),
                                                          !.gen = now]]
        /\ UNCHANGED owed
     \/ /\ "redis_lost" \in Faults
        /\ owed' = [owed EXCEPT ![Head(queue)].lost = TRUE]
        /\ UNCHANGED worker
  /\ UNCHANGED <<now, events, expired, actions, row, stored, api, client>>

(* mark_running; when it reports an error the task returns as it is. *)
MarkRunning(w) ==
  /\ At(w, "mark")
  /\ \E o \in PgOutcomes :
       /\ IF Applied(o) THEN SetStatus(worker[w].export, "running") ELSE UNCHANGED row
       /\ IF o = "ok" THEN Goto(w, IF w \in Keyed THEN "control" ELSE "fail") /\ UNCHANGED owed
          ELSE Return(w) /\ GiveUp(w)
  /\ UNCHANGED <<now, events, expired, actions, stored, queue, api, client>>

(* fetch_control_rows. *)
FetchControl(w) ==
  /\ At(w, "control")
  /\ \/ worker' = [worker EXCEPT ![w].pc = "count",
                     ![w].control = InOrder(WindowedActions(worker[w].export), actions, "action")]
     \/ "pg_error" \in Faults /\ Goto(w, "fail")
  /\ UNCHANGED <<now, events, expired, actions, row, stored, queue, api, client, owed>>

(* Mutant: over the cap the task returns without recording it. *)
CountRowsSilent(w) ==
  /\ At(w, "count")
  /\ \/ LET count == Cardinality(ScopedEvents(worker[w].export)) + Len(worker[w].control)
        IN IF count > Cap THEN Return(w) ELSE Goto(w, "fetch")
     \/ "ch_error" \in Faults /\ Goto(w, "fail")
  /\ UNCHANGED <<now, events, expired, actions, row, stored, queue, api, client, owed>>

(* count_rows, and the refusal of an export over the cap. *)
CountRows(w) ==
  /\ At(w, "count")
  /\ \/ LET count == Cardinality(ScopedEvents(worker[w].export)) + Len(worker[w].control)
        IN Goto(w, IF count > Cap THEN "fail" ELSE "fetch")
     \/ "ch_error" \in Faults /\ Goto(w, "fail")
  /\ UNCHANGED <<now, events, expired, actions, row, stored, queue, api, client, owed>>

(* Mutant: an unreadable store read as an empty one. *)
FetchRowsOrNone(w) ==
  /\ At(w, "fetch")
  /\ \/ worker' = [worker EXCEPT ![w].pc = "persist",
                     ![w].rows = InOrder(ScopedEvents(worker[w].export), events, "event")]
     \/ "ch_error" \in Faults /\ Goto(w, "persist")
  /\ UNCHANGED <<now, events, expired, actions, row, stored, queue, api, client, owed>>

(* fetch_rows. *)
FetchRows(w) ==
  /\ At(w, "fetch")
  /\ \/ worker' = [worker EXCEPT ![w].pc = "persist",
                     ![w].rows = InOrder(ScopedEvents(worker[w].export), events, "event")]
     \/ "ch_error" \in Faults /\ Goto(w, "fail")
  /\ UNCHANGED <<now, events, expired, actions, row, stored, queue, api, client, owed>>

(* Mutant: the control pages are stored first. *)
ProduceSwapped(w) ==
  LET e == worker[w].export
      sections == <<SectionInput(SECTION_REQUEST_EVENTS, worker[w].rows, PageSize, "csv"),
                    SectionInput(SECTION_CONTROL_PLANE, worker[w].control, PageSize, "csv")>>
      manifest == BuildManifest([export |-> e, from |-> row[e].from, to |-> row[e].to],
                    sections,
                    RetentionFor(row[e].from, row[e].to, worker[w].gen), worker[w].gen)
  IN [manifest |-> manifest, signature |-> Sign(SigningKey, manifest),
      files |-> sections[2].pages \o sections[1].pages]

(* produce: both sections paginated, the manifest built and signed. *)
Produce(w) ==
  LET e == worker[w].export
      sections == <<SectionInput(SECTION_REQUEST_EVENTS, worker[w].rows, PageSize, "csv"),
                    SectionInput(SECTION_CONTROL_PLANE, worker[w].control, PageSize, "csv")>>
      manifest == BuildManifest([export |-> e, from |-> row[e].from, to |-> row[e].to],
                    sections,
                    RetentionFor(row[e].from, row[e].to, worker[w].gen), worker[w].gen)
  IN [manifest |-> manifest, signature |-> Sign(SigningKey, manifest),
      files |-> PageFiles(sections)]

(* persist: pages, manifest and status in one transaction. *)
Persist(w) ==
  /\ At(w, "persist")
  /\ \E o \in PgOutcomes :
       /\ IF Applied(o)
          THEN /\ stored' = [stored EXCEPT ![worker[w].export] = Produce(w)]
               /\ SetStatus(worker[w].export, "complete")
          ELSE UNCHANGED <<stored, row>>
       /\ IF o = "ok" THEN Return(w) ELSE Goto(w, "fail")
  /\ UNCHANGED <<now, events, expired, actions, queue, api, client, owed>>

(* mark_failed, whose own failure is only logged. *)
MarkFailed(w) ==
  /\ At(w, "fail")
  /\ \E o \in PgOutcomes :
       IF Applied(o) THEN SetStatus(worker[w].export, "failed") /\ UNCHANGED owed
       ELSE GiveUp(w) /\ UNCHANGED row
  /\ Return(w)
  /\ UNCHANGED <<now, events, expired, actions, stored, queue, api, client>>

(* The worker process stops; it starts again with no task. *)
WorkerCrash(w) ==
  /\ "crash" \in Faults
  /\ ~At(w, "idle")
  /\ Return(w)
  /\ GiveUp(w)
  /\ UNCHANGED <<now, events, expired, actions, row, stored, queue, api, client>>

-----------------------------------------------------------------------------
(* A client: get_export until complete, then get_export_page in page order. *)

GetExport(e) ==
  /\ client.pc = "idle"
  /\ row[e].status = "complete"
  /\ client' = [pc |-> "pages", export |-> e, manifest |-> stored[e].manifest,
                signature |-> stored[e].signature, files |-> <<>>]
  /\ UNCHANGED <<now, events, expired, actions, row, stored, queue, api, worker, owed>>

(* The page is looked up by its number, whatever the export's status. *)
GetExportPage ==
  /\ client.pc = "pages"
  /\ LET next == Len(client.files) + 1
         files == stored[client.export].files
     IN IF next \in DOMAIN files
        THEN client' = [client EXCEPT
               !.files = Append(@, files[next]),
               !.pc = IF next = client.manifest.total_pages THEN "done" ELSE "pages"]
        ELSE client' = [client EXCEPT !.pc = "missing"]
  /\ UNCHANGED <<now, events, expired, actions, row, stored, queue, api, worker, owed>>

-----------------------------------------------------------------------------
Environment == Tick \/ RecordEvent \/ RecordAction \/ \E i \in DOMAIN events : Expire(i)
ApiStep(e) == CreateExport(e) \/ Enqueue(e) \/ MarkEnqueueFailed(e)
WorkerStep(w) ==
  \/ Pop(w) \/ MarkRunning(w) \/ FetchControl(w) \/ CountRows(w)
  \/ FetchRows(w) \/ Persist(w) \/ MarkFailed(w)

Next ==
  \/ Environment
  \/ \E e \in Export : ApiStep(e) \/ ApiCrash(e) \/ GetExport(e)
  \/ \E w \in Worker : WorkerStep(w) \/ WorkerCrash(w)
  \/ GetExportPage

(* A handler and a worker that do not crash run on. *)
Fairness ==
  /\ \A e \in Export : WF_vars(Enqueue(e) \/ MarkEnqueueFailed(e))
  /\ \A w \in Worker : WF_vars(WorkerStep(w))

Spec == Init /\ [][Next]_vars /\ Fairness

-----------------------------------------------------------------------------
(* Properties. *)

Published(e) == stored[e].files # <<>>

OnPage(page) == {page.rows[i] : i \in DOMAIN page.rows}
Rows(e) == UNION {OnPage(stored[e].files[p]) : p \in DOMAIN stored[e].files}

(* A client that sees an export complete and fetches its pages one request  *)
(* at a time finds every page, and what it assembled verifies, whatever the *)
(* worker, the stores and other handlers do meanwhile.                      *)
DownloadVerifies ==
  /\ client.pc # "missing"
  /\ client.pc = "done" =>
       VerifyExport(client.manifest, client.signature, SigningKey, client.files)

(* An export published leaves out nothing that was recorded in its window   *)
(* before it was requested: every action is there, and an event is missing  *)
(* only when it expired, which the manifest says unless the event expired   *)
(* after generated_at (its TTL ran out while the worker was reading).       *)
NothingOmitted ==
  \A e \in Export : Published(e) =>
    /\ \A i \in WindowedActions(e) : i <= owed[e].actions => <<"action", i>> \in Rows(e)
    /\ \A i \in DOMAIN events :
         (/\ i <= owed[e].events
          /\ InScope(e, events[i]) /\ row[e].from <= events[i]
          /\ <<"event", i>> \notin Rows(e))
         => /\ i \in expired
            /\ \/ stored[e].manifest.retention # "within_retention"
               \/ events[i] + Ttl >= stored[e].manifest.generated_at

(* An accepted export ends complete or failed, what the 202 tells the       *)
(* client to poll for, unless a worker stopped or could not write its       *)
(* status while it held the task, or the reply to the BLPOP that took it    *)
(* off the list was lost: nothing takes such a task up again.               *)
AcceptedSettles ==
  \A e \in Export :
    (api[e] = "accepted") ~> (owed[e].lost \/ row[e].status \in {"complete", "failed"})
=============================================================================
