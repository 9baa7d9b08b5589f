------------------------------- MODULE Budget -------------------------------
(***************************************************************************)
(* Token budgets: a request charges its estimate to two Redis counters,     *)
(* is let through or not, runs, and corrects the charge to what it used.    *)
(* One workspace; counters are never read after their day or month, so      *)
(* their TTLs of 2 and 32 days are left out.                                *)
(***************************************************************************)
EXTENDS Integers, FiniteSets, Sums

CONSTANTS
  Request,
  Rows,            \* the budgets an administrator may configure
  NoBudget,        \* no row in workspace_budgets
  Sizes,           \* token estimates
  DaysPerMonth, MaxDay

NoLimit == -1

(* upsert refuses a limit below zero. *)
ASSUME BudgetAssumption ==
  /\ IsFiniteSet(Request)
  /\ Sizes \subseteq Nat /\ MaxDay \in Nat /\ DaysPerMonth \in Nat \ {0}
  /\ NoBudget \notin Rows
  /\ \A row \in Rows : row.daily \in Nat \cup {NoLimit} /\ row.monthly \in Nat \cup {NoLimit}

Day == 0..MaxDay
MonthOf(d) == d \div DaysPerMonth
Month == {MonthOf(d) : d \in Day}

VARIABLES
  today,
  budget,          \* the row of workspace_budgets
  daily, monthly,  \* the Redis counters
  req,
  calm,            \* history: no Redis call failed, no budget changed, no pair of calls was cut in two
  returned         \* history: what requests charged on another day gave back on each day

budgetVars == <<today, budget, daily, monthly, req, calm, returned>>

Fresh == [pc |-> "new", est |-> 0, used |-> 0, row |-> NoBudget, at |-> 0, seen |-> 0,
          charged |-> FALSE, warned |-> FALSE]

Ended == {"answered", "blocked", "failed", "dropped"}

(***************************************************************************)
(* incr_and_get: INCRBY is applied and answered, applied and the answer     *)
(* lost, or not applied.  EXPIRE is best effort.                            *)
(***************************************************************************)
Replies == {"ok", "lost", "error"}
IncrBy(counter, bucket, delta, reply) ==
  IF reply = "error" THEN counter ELSE [counter EXCEPT ![bucket] = @ + delta]

(* BudgetRepository: one row, read and replaced in a transaction scoped to the workspace. *)
Get == budget
Upsert(row) == budget' = row

Over(limit, value) == limit # NoLimit /\ value > limit

(* The daily limit is judged first; what follows depends on the behaviour only. *)
Exceeded(row, dailyUsed, monthlyUsed) ==
  Over(row.daily, dailyUsed) \/ Over(row.monthly, monthlyUsed)

(* pre_check_budget: Exceeded answers 402, Warn adds a header, Flag only logs. *)
BudgetGate(r, exceeded) ==
  IF ~exceeded THEN [req[r] EXCEPT !.pc = "resolve", !.seen = 0]
  ELSE IF req[r].row.behavior = "block" THEN [req[r] EXCEPT !.pc = "blocked"]
  ELSE [req[r] EXCEPT !.pc = "resolve", !.seen = 0, !.warned = req[r].row.behavior = "warn"]

(* A request that has ended keeps what the books need. *)
Step(r, new) ==
  req' = [req EXCEPT ![r] = IF new.pc \in Ended
                            THEN [Fresh EXCEPT !.pc = new.pc, !.est = new.est, !.used = new.used,
                                               !.charged = new.charged]
                            ELSE new]

(* estimate_tokens_from_text over the messages of the request. *)
Begin(r) ==
  /\ req[r].pc = "new"
  /\ \E est \in Sizes : Step(r, [req[r] EXCEPT !.pc = "budget", !.est = est])
  /\ UNCHANGED <<today, budget, daily, monthly, calm, returned>>

(* The three routes are the same sequence of steps: estimate, budget, model, pipeline, settlement.
   They differ in the text they estimate; a live chat stream settles where its generator ends, the
   others before they answer. *)
ChatCompletions(r) == Begin(r)
Completions(r) == Begin(r)
Embeddings(r) == Begin(r)

(* budget_check reads the row and, with one, computes both keys before either call. *)
ReadBudget(r) ==
  /\ req[r].pc = "budget"
  /\ \/ Get = NoBudget /\ Step(r, [req[r] EXCEPT !.pc = "resolve"])
     \/ Get # NoBudget /\ Step(r, [req[r] EXCEPT !.pc = "charge_day", !.row = Get, !.at = today])
     \/ Step(r, [req[r] EXCEPT !.pc = "failed"])
  /\ UNCHANGED <<today, budget, daily, monthly, calm, returned>>

(* Mutant: the counter is judged as it was before the charge. *)
ChargeDailyBefore(r) ==
  /\ req[r].pc = "charge_day"
  /\ \E reply \in Replies :
       /\ daily' = IncrBy(daily, req[r].at, req[r].est, reply)
       /\ calm' = (calm /\ reply = "ok")
       /\ Step(r, IF reply = "ok"
                  THEN [req[r] EXCEPT !.pc = "charge_month", !.seen = daily[req[r].at]]
                  ELSE [req[r] EXCEPT !.pc = "resolve"])
  /\ UNCHANGED <<today, budget, monthly, returned>>

(* A Redis failure lets the request through. *)
ChargeDaily(r) ==
  /\ req[r].pc = "charge_day"
  /\ \E reply \in Replies :
       /\ daily' = IncrBy(daily, req[r].at, req[r].est, reply)
       /\ calm' = (calm /\ reply = "ok")
       /\ Step(r, IF reply = "ok"
                  THEN [req[r] EXCEPT !.pc = "charge_month", !.seen = daily'[req[r].at]]
                  ELSE [req[r] EXCEPT !.pc = "resolve"])
  /\ UNCHANGED <<today, budget, monthly, returned>>

ChargeMonthly(r) ==
  /\ req[r].pc = "charge_month"
  /\ \E reply \in Replies :
       LET month == MonthOf(req[r].at) IN
       /\ monthly' = IncrBy(monthly, month, req[r].est, reply)
       /\ calm' = (calm /\ reply = "ok")
       /\ Step(r, IF reply = "ok"
                  THEN [BudgetGate(r, Exceeded(req[r].row, req[r].seen, monthly'[month]))
                          EXCEPT !.charged = TRUE]
                  ELSE [req[r] EXCEPT !.pc = "resolve"])
  /\ UNCHANGED <<today, budget, daily, returned>>

(* The model does not resolve, the pipeline denies the request or its providers fail: the route
   returns the error and corrects nothing. *)
Fails(r) ==
  /\ req[r].pc = "resolve"
  /\ Step(r, [req[r] EXCEPT !.pc = "failed"])
  /\ UNCHANGED <<today, budget, daily, monthly, calm, returned>>

(* The answer, or the end of the stream, brings the usage; none reported counts as zero.
   adjust_workspace_tokens computes both keys first, of the day it runs on, and skips a difference
   of zero. *)
Answers(r) ==
  /\ req[r].pc = "resolve"
  /\ \E used \in Sizes \cup {0} :
       /\ Step(r, [req[r] EXCEPT !.pc = IF used = req[r].est THEN "answered" ELSE "settle_day",
                                 !.used = used, !.at = today])
       /\ returned' = IF used < req[r].est /\ req[r].at # today
                      THEN [returned EXCEPT ![today] = @ + (req[r].est - used)] ELSE returned
  /\ UNCHANGED <<today, budget, daily, monthly, calm>>

(* Mutant: a correction whose answer is lost is sent again. *)
SettleDailyRetried(r) ==
  /\ req[r].pc = "settle_day"
  /\ \E reply \in Replies :
       /\ daily' = IncrBy(daily, req[r].at, req[r].used - req[r].est, reply)
       /\ calm' = (calm /\ reply # "error")
       /\ Step(r, [req[r] EXCEPT !.pc = IF reply = "lost" THEN "settle_day" ELSE "settle_month"])
  /\ UNCHANGED <<today, budget, monthly, returned>>

SettleDaily(r) ==
  /\ req[r].pc = "settle_day"
  /\ \E reply \in Replies :
       /\ daily' = IncrBy(daily, req[r].at, req[r].used - req[r].est, reply)
       /\ calm' = (calm /\ reply # "error")
       /\ Step(r, [req[r] EXCEPT !.pc = "settle_month"])
  /\ UNCHANGED <<today, budget, monthly, returned>>

SettleMonthly(r) ==
  /\ req[r].pc = "settle_month"
  /\ \E reply \in Replies :
       /\ monthly' = IncrBy(monthly, MonthOf(req[r].at), req[r].used - req[r].est, reply)
       /\ calm' = (calm /\ reply # "error")
       /\ Step(r, [req[r] EXCEPT !.pc = "answered"])
  /\ UNCHANGED <<today, budget, daily, returned>>

(* The client disconnects: the handler or the stream is dropped where it waits. *)
Dropped(r) ==
  /\ req[r].pc \notin Ended \cup {"new"}
  /\ calm' = (calm /\ req[r].pc \in {"budget", "charge_day", "resolve"})
  /\ Step(r, [req[r] EXCEPT !.pc = "dropped"])
  /\ UNCHANGED <<today, budget, daily, monthly, returned>>

(* POST /v1/internal/budget-probe charges like a request and runs nothing. *)
Probe(r) ==
  /\ req[r].pc = "resolve"
  /\ req[r].charged
  /\ Step(r, [req[r] EXCEPT !.pc = "failed"])
  /\ UNCHANGED <<today, budget, daily, monthly, calm, returned>>

(* PUT /v1/workspaces/{id}/budgets by an administrator; the counters stay. *)
PutBudget ==
  /\ \E row \in Rows \ {budget} : Upsert(row)
  /\ calm' = (calm /\ \A r \in Request : req[r].pc = "new")
  /\ UNCHANGED <<today, daily, monthly, req, returned>>

Midnight ==
  /\ today < MaxDay
  /\ today' = today + 1
  /\ UNCHANGED <<budget, daily, monthly, req, calm, returned>>

BudgetInit ==
  /\ today = 0
  /\ budget = NoBudget
  /\ daily = [d \in Day |-> 0]
  /\ monthly = [m \in Month |-> 0]
  /\ req = [r \in Request |-> Fresh]
  /\ calm = TRUE
  /\ returned = [d \in Day |-> 0]

BudgetNext ==
  \/ PutBudget \/ Midnight
  \/ \E r \in Request : \/ ChatCompletions(r) \/ Completions(r) \/ Embeddings(r)
                        \/ ReadBudget(r) \/ ChargeDaily(r) \/ ChargeMonthly(r)
                        \/ Fails(r) \/ Answers(r) \/ SettleDaily(r) \/ SettleMonthly(r)
                        \/ Dropped(r) \/ Probe(r)

BudgetSpec == BudgetInit /\ [][BudgetNext]_budgetVars

(***************************************************************************)
(* Properties.                                                              *)
(***************************************************************************)

(* What a request that has ended should leave on the counters: its use if it was answered, its whole
   estimate if it was charged and refused, failed or dropped. *)
LeftBy(r) ==
  IF req[r].pc = "answered" THEN req[r].used ELSE IF req[r].charged THEN req[r].est ELSE 0

(* The books close: under a budget set before the first request, when all requests have ended, both
   counters hold the use of the answered ones and the estimates of the others, each exactly once,
   also across midnight and between the buffered and the streaming path; only a Redis failure or a
   budget changed under way disturbs it.  It is not so without a budget: budget_check returns before
   it charges anything, adjust_workspace_tokens takes the estimate off all the same, and the budget
   set later starts from counters that are short by the estimates of the requests served until then. *)
BooksClose ==
  calm /\ budget # NoBudget /\ (\A r \in Request : req[r].pc \in Ended \cup {"new"})
    => LET left == SumOver([r \in Request |-> LeftBy(r)], Request)
       IN SumOver(daily, Day) = left /\ SumOver(monthly, Month) = left

(* Requests that a blocking budget let in for a day at the same time have reserved no more than
   its limit together: the check judges the counter after its own charge, so that two requests
   cannot both take the last tokens.  What comes on top is only what a request charged on another
   day gave back on this one: its correction is booked on the day it is made, where nothing had
   been charged for it. *)
ReservationsFit ==
  \A d \in Day :
    LET running == {r \in Request : /\ req[r].pc = "resolve" /\ req[r].charged /\ req[r].at = d
                                    /\ req[r].row.behavior = "block"}
    IN calm /\ budget # NoBudget /\ budget.daily # NoLimit
         => SumOver([r \in running |-> req[r].est], running) <= budget.daily + returned[d]

=============================================================================
