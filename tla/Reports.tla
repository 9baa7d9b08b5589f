------------------------------ MODULE Reports ------------------------------
(***************************************************************************)
(* What an administrator reads of the traffic: the paged request list and     *)
(* the leak report.  A reader asks ClickHouse several times while the         *)
(* analytics writer appends to the raw tables, each at its own moment, and    *)
(* their time to live removes rows.  Reads write nothing, so a behaviour is   *)
(* one reader and what goes on around it.                                     *)
(*                                                                            *)
(* A request id names no single event: the gateway adopts the x-request-id    *)
(* of its caller, so that events share an id, also within one second.         *)
(***************************************************************************)
EXTENDS Naturals, Sequences, FiniteSets, Sums

CONSTANTS
  Event,        \* served requests
  Made,         \* Event -> [id, ws, user, model, known, legacy, at, found]
  Caller,       \* [ws, user, audit: may read all, admin]
  Model,        \* the names an administrator may register
  KnownClass,   \* CANONICAL_CLASSES
  DaySeconds, Oldest, MaxSpan,   \* a day; now - 90 days; MAX_WINDOW_DAYS
  Seconds,      \* the seconds a list may be bounded by
  Limits, MaxLimit,              \* page sizes asked for; the cap of 200
  MaxWrites,   \* bound on what the writer, the TTL and administrators do
  Unset

ASSUME ReportsAssumption ==
  /\ IsFiniteSet(Event)
  /\ \A e \in Event : /\ Made[e].id \in Nat /\ Made[e].at \in Nat
                      /\ Made[e].found \in Seq(STRING \X STRING)
  /\ Unset \notin [at : Nat, id : Nat]
  /\ DaySeconds \in Nat \ {0} /\ Seconds \subseteq Nat
  /\ Limits \subseteq Nat /\ MaxLimit \in Nat

VARIABLES
  table,        \* raw table -> the events that have rows in it
  catalogue,    \* workspace -> registered model names
  reader,       \* the handler under way
  changes

reportVars == <<table, catalogue, reader, changes>>

Table == {"request_events", "policy_events", "detection_class_counts"}
Workspaces == {Made[e].ws : e \in Event} \cup {c.ws : c \in Caller}
UNREGISTERED_MODEL == "unregistered"
OtherClass == "other"

-----------------------------------------------------------------------------
(***************************************************************************)
(* What the writer stores of an event.                                       *)
(***************************************************************************)

(* The name kept for a destination: that of a model which was registered, and within the bounds of
   a name, when the request was resolved. *)
canonicalize_model(model, known) == IF known THEN model ELSE UNREGISTERED_MODEL

(* Rows of before the bound hold what was asked for. *)
StoredModel(e) ==
  IF Made[e].legacy THEN Made[e].model ELSE canonicalize_model(Made[e].model, Made[e].known)

canonicalize(class) == IF class \in KnownClass THEN class ELSE OtherClass

(* Distinct (class, value) pairs, counted per class. *)
per_class(found) ==
  LET pairs == {<<canonicalize(found[i][1]), found[i][2]>> : i \in DOMAIN found}
  IN [c \in {p[1] : p \in pairs} |-> Cardinality({p \in pairs : p[1] = c})]

(* One row per class of one event. *)
CountRows ==
  UNION {{[e |-> e, id |-> Made[e].id, class |-> c, n |-> per_class(Made[e].found)[c],
           model |-> StoredModel(e), user |-> Made[e].user] : c \in DOMAIN per_class(Made[e].found)} :
         e \in table["detection_class_counts"]}

-----------------------------------------------------------------------------
(***************************************************************************)
(* GET /v1/requests.                                                         *)
(***************************************************************************)

(* The row of an event: events that agree in it are one group. *)
ListRow(e) == [at |-> Made[e].at, id |-> Made[e].id, model |-> Made[e].model]

Place(l) == [at |-> l.at, id |-> l.id]

(* The order of the list: newest first, the larger id first within a second. *)
Newer(a, b) == a.at > b.at \/ (a.at = b.at /\ a.id > b.id)

(* What a caller may see at all: an employee's own rows of its workspace. *)
InScope(c, e) == Made[e].ws = c.ws /\ (c.audit \/ Made[e].user = c.user)

(* has_violation joins policy_events by workspace and id and keeps the rows that have one. *)
Listed(raw, q, e) ==
  /\ e \in raw["request_events"]
  /\ InScope(q.caller, e)
  /\ Made[e].at \in q.from .. q.to
  /\ q.model # Unset => Made[e].model = q.model
  /\ q.violation => \E p \in raw["policy_events"] : Made[p].id = Made[e].id /\ Made[p].ws = Made[e].ws

(* Mutant: the cursor compares the seconds alone. *)
AfterCursorSecond(cursor, l) == cursor # Unset => l.at < cursor.at

(* The cursor is the second and the id of the last row of the page before. *)
AfterCursor(cursor, l) == cursor # Unset => Newer(cursor, l)

ListRows(q) ==
  {l \in {ListRow(e) : e \in {x \in Event : Listed(table, q, x)}} : AfterCursor(q.cursor, l)}

(* ORDER BY ... LIMIT: the first rows in order; rows of one second and id come in any order. *)
Pages(rows, limit) ==
  LET size == IF Cardinality(rows) > limit THEN limit ELSE Cardinality(rows)
  IN {items \in [1..size -> rows] :
        /\ \A i, j \in 1..size : i < j => items[i] # items[j] /\ ~Newer(items[j], items[i])
        /\ \A l \in rows, i \in 1..size : Newer(l, items[i]) => \E j \in 1..size : items[j] = l}

(* A workspace in the query string must be the token's. *)
Guarded(c, asked) == asked \in {Unset, c.ws}

ListBegin(c, asked, from, to, model, violation, limit) ==
  LET q == [kind |-> "list", caller |-> c, from |-> from, to |-> to, model |-> model,
            violation |-> violation, limit |-> IF limit < MaxLimit THEN limit ELSE MaxLimit,
            cursor |-> Unset, cuts |-> {}, items |-> <<>>, kept |-> {},
            pc |-> IF Guarded(c, asked) /\ from >= Oldest THEN "next" ELSE "refused"]
  IN /\ reader.kind = "none"
     /\ reader' = [q EXCEPT !.kept = {e \in Event : Listed(table, q, e)}]
     /\ UNCHANGED <<table, catalogue, changes>>

(* One request for a page, with the cursor of the page before.  One row more than the page holds is
   asked for, and only says whether there is a next page. *)
list_requests ==
  /\ reader.kind = "list" /\ reader.pc = "next"
  /\ LET rows == ListRows(reader)
     IN \E items \in Pages(rows, reader.limit) :
          reader' = IF Cardinality(rows) > reader.limit /\ items # <<>>
                    THEN LET cut == Place(items[Len(items)])
                         IN [reader EXCEPT !.items = @ \o items, !.cursor = cut, !.cuts = @ \cup {cut}]
                    ELSE [reader EXCEPT !.items = @ \o items, !.cursor = Unset, !.pc = "done"]
  /\ UNCHANGED <<table, catalogue, changes>>

-----------------------------------------------------------------------------
(***************************************************************************)
(* GET /v1/leak-report: eight reads, one after another, and a fold.          *)
(***************************************************************************)

(* The inclusive last day as an exclusive second. *)
WindowBounds(from, to) == [start |-> from * DaySeconds, end |-> (to + 1) * DaySeconds]

validate_window(from, to) == from <= to /\ to - from <= MaxSpan

(* SCOPE: the workspace of the token and the window. *)
Scope(q, e) ==
  LET b == WindowBounds(q.from, q.to)
  IN Made[e].ws = q.caller.ws /\ Made[e].at >= b.start /\ Made[e].at < b.end

InWindow(q) == {x \in CountRows : Scope(q, x.e)}

(* sum(entity_count) and uniqExact(request_id) of some rows. *)
Figures(rows) == [entities |-> SumOver([x \in rows |-> x.n], rows),
                  requests |-> Cardinality({x.id : x \in rows})]

(* GROUP BY a key of the rows. *)
Grouped(rows, key) ==
  [k \in {key[x] : x \in rows} |-> Figures({x \in rows : key[x] = k})]

registered_models(w) == catalogue[w]

bound_model(stored, registered) ==
  IF stored = UNREGISTERED_MODEL \/ stored \in registered THEN stored ELSE UNREGISTERED_MODEL

(* uniqExact at the grain of the destination. *)
group_totals(rows) == Grouped(rows, [x \in rows |-> x.model])

(* Groups whose names fall into one bucket are added up. *)
Collapse(groups, bucket) ==
  [k \in {bucket[g] : g \in DOMAIN groups} |->
    LET same == {g \in DOMAIN groups : bucket[g] = k}
    IN [entities |-> SumOver([g \in same |-> groups[g].entities], same),
        requests |-> SumOver([g \in same |-> groups[g].requests], same)]]

ReportStages == <<"totals", "denominator", "by_class", "model_rows", "actor_rows",
            "registered", "model_totals", "actor_totals">>

StageNames == {ReportStages[i] : i \in DOMAIN ReportStages}

ReportBegin(c, from, to) ==
  /\ reader.kind = "none"
  /\ reader' = [kind |-> "report", caller |-> c, from |-> from, to |-> to,
                step |-> IF c.admin /\ validate_window(from, to) THEN 1 ELSE 0,
                got |-> [s \in StageNames |-> Unset], quiet |-> TRUE]
  /\ UNCHANGED <<table, catalogue, changes>>

(* What each query answers at the moment it runs. *)
Answer(q, stage) ==
  LET rows == InWindow(q)
  IN CASE stage = "totals" -> Figures(rows)
       [] stage = "denominator" ->
            Cardinality({Made[e].id : e \in {x \in table["request_events"] : Scope(q, x)}})
       [] stage = "by_class" -> Grouped(rows, [x \in rows |-> x.class])
       [] stage = "model_rows" -> Grouped(rows, [x \in rows |-> <<x.model, x.class>>])
       [] stage = "actor_rows" -> Grouped(rows, [x \in rows |-> <<x.user, x.class>>])
       [] stage = "registered" -> registered_models(q.caller.ws)
       [] stage = "model_totals" -> group_totals(rows)
       [] stage = "actor_totals" -> Grouped(rows, [x \in rows |-> x.user])

(* The next read; a store that fails ends the report without a partial one. *)
ReportRead ==
  /\ reader.kind = "report" /\ reader.step \in 1 .. Len(ReportStages)
  /\ \/ reader' = [reader EXCEPT !.got[ReportStages[reader.step]] = Answer(reader, ReportStages[reader.step]),
                                 !.step = @ + 1]
     \/ reader' = [reader EXCEPT !.step = 0]
  /\ UNCHANGED <<table, catalogue, changes>>

Zero == [entities |-> 0, requests |-> 0]

(* Mutant: a destination's figures are the sum of its classes' figures. *)
ByModelSummed(got) ==
  Collapse(got["model_rows"],
           [g \in DOMAIN got["model_rows"] |-> bound_model(g[1], got["registered"])])

(* Every destination the class rows name, with the totals asked for it. *)
ByModel(got) ==
  LET names == {bound_model(g[1], got["registered"]) : g \in DOMAIN got["model_rows"]}
      totals == Collapse(got["model_totals"],
                  [g \in DOMAIN got["model_totals"] |-> bound_model(g, got["registered"])])
  IN [m \in names |-> IF m \in DOMAIN totals THEN totals[m] ELSE Zero]

ByActor(got) ==
  [a \in {g[1] : g \in DOMAIN got["actor_rows"]} |->
    IF a \in DOMAIN got["actor_totals"] THEN got["actor_totals"][a] ELSE Zero]

Reported == reader.kind = "report" /\ reader.step = Len(ReportStages) + 1

-----------------------------------------------------------------------------
(***************************************************************************)
(* Around the reader.                                                        *)
(***************************************************************************)
Changed == changes < MaxWrites /\ changes' = changes + 1

(* The raw tables become those of raw, which a report, or a list, under way may half see. *)
Tables(raw) ==
  /\ table' = raw
  /\ reader' = CASE reader.kind = "report" -> [reader EXCEPT !.quiet = FALSE]
                 [] reader.kind = "list" -> [reader EXCEPT !.kept = {e \in @ : Listed(raw, reader, e)}]
                 [] OTHER -> reader
  /\ UNCHANGED catalogue

(* The analytics writer flushes an event's rows into one table, late as it may be. *)
Flush(t, e) ==
  /\ Changed
  /\ e \notin table[t]
  /\ Tables([table EXCEPT ![t] = @ \cup {e}])

(* A row's time to live ends. *)
Expire(t, e) ==
  /\ Changed
  /\ e \in table[t]
  /\ Tables([table EXCEPT ![t] = @ \ {e}])

(* An administrator registers or deletes a model. *)
ChangeCatalogue(w, m) ==
  /\ Changed
  /\ catalogue' = [catalogue EXCEPT ![w] = IF m \in @ THEN @ \ {m} ELSE @ \cup {m}]
  /\ UNCHANGED <<table, reader>>

(* The writer had flushed what it had. *)
ReportsInit ==
  /\ \E M \in SUBSET Model : catalogue = [w \in Workspaces |-> M]
  /\ \E S \in SUBSET Event : table = [t \in Table |-> S]
  /\ reader = [kind |-> "none"]
  /\ changes = 0

ReportsNext ==
  \/ \E c \in Caller :
       \/ \E asked \in Workspaces \cup {Unset}, from, to \in Seconds, m \in Model \cup {Unset},
             v \in BOOLEAN, n \in Limits : ListBegin(c, asked, from, to, m, v, n)
       \/ \E from, to \in {s \div DaySeconds : s \in Seconds} : ReportBegin(c, from, to)
  \/ list_requests \/ ReportRead
  \/ \E t \in Table, e \in Event : Flush(t, e) \/ Expire(t, e)
  \/ \E w \in Workspaces, m \in Model : ChangeCatalogue(w, m)

ReportsSpec == ReportsInit /\ [][ReportsNext]_reportVars

-----------------------------------------------------------------------------
Elements(s) == {s[i] : i \in DOMAIN s}

(* A list walked to its end has every row that was there when the walk began  *)
(* and stayed, each row once and newest first, and no row the caller may not  *)
(* see, whatever is written or expires between two pages.  A row is missing   *)
(* only if a page ended on another one of its very second and request id: the *)
(* cursor is strict, and ids are the caller's to choose.                      *)
PagesCoverTheWindow ==
  (reader.kind = "list" /\ reader.pc = "done" /\ reader.limit > 0) =>
    /\ \A e \in reader.kept : \/ ListRow(e) \in Elements(reader.items)
                              \/ Place(ListRow(e)) \in reader.cuts
    /\ \A i, j \in DOMAIN reader.items :
         i < j => reader.items[i] # reader.items[j] /\ ~Newer(reader.items[j], reader.items[i])
    /\ \A l \in Elements(reader.items) :
         \E e \in Event : /\ ListRow(e) = l /\ InScope(reader.caller, e)
                          /\ Made[e].at \in reader.from .. reader.to

(* The sums of the figures of some groups. *)
SumRequests(f) == SumOver([k \in DOMAIN f |-> f[k].requests], DOMAIN f)
SumEntities(f) == SumOver([k \in DOMAIN f |-> f[k].entities], DOMAIN f)

(* The events with detections in the days a report is about. *)
InDays(q) == {e \in table["detection_class_counts"] :
                /\ Made[e].ws = q.caller.ws
                /\ Made[e].at \div DaySeconds \in q.from .. q.to
                /\ Made[e].found # <<>>}

(* A leak report names no destination that is not registered.  One during     *)
(* which the tables stood still is exact for the window's days: it counts     *)
(* every id once in the totals, once for each destination it was sent to and  *)
(* once for each actor that sent it, however many classes were found in it,   *)
(* and destinations, actors and classes each add up to the entities found.    *)
(* With ids of one destination each the destinations partition the requests;  *)
(* an id that was used for two counts in both.                                *)
ReportIsExact ==
  Reported =>
    LET got == reader.got
        events == InDays(reader)
    IN /\ DOMAIN ByModel(got) \subseteq got["registered"] \cup {UNREGISTERED_MODEL}
       /\ reader.quiet =>
            /\ got["totals"].requests = Cardinality({Made[e].id : e \in events})
            /\ SumRequests(ByModel(got)) = Cardinality({<<Made[e].id, StoredModel(e)>> : e \in events})
            /\ SumRequests(ByActor(got)) = Cardinality({<<Made[e].id, Made[e].user>> : e \in events})
            /\ SumEntities(ByModel(got)) = got["totals"].entities
            /\ SumEntities(ByActor(got)) = got["totals"].entities
            /\ SumEntities(got["by_class"]) = got["totals"].entities
=============================================================================
