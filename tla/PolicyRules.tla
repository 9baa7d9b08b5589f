---------------------------- MODULE PolicyRules ----------------------------
(***************************************************************************)
(* The administration of one workspace's policy rules: the handlers of       *)
(* /v1/policy-rules with their row locks and audit rows, and the queue        *)
(* through which the worker indexes a rule's text.                            *)
(***************************************************************************)
EXTENDS Naturals, Sequences, Functions

CONSTANTS
  Rule, Priority,
  DefaultRule,   \* the columns of the rule a new workspace is seeded with
  Editor,        \* administrators' requests at the same time
  Nobody, NoRule,
  MaxTrail       \* no request begins once there are as many audit rows

ASSUME RulesAssumption ==
  /\ Nobody \notin Editor
  /\ NoRule \notin Rule
  /\ NoRule \notin [priority : Priority, enabled : BOOLEAN, dry_run : BOOLEAN]
  /\ DefaultRule \in [priority : Priority, enabled : BOOLEAN, dry_run : BOOLEAN]

VARIABLES
  row,           \* policy_rules
  lock,          \* who holds each row FOR UPDATE
  trail,         \* admin_audit rows of each rule
  job,           \* the administrators' requests
  queue,         \* queue:policy_index
  indexed,       \* the rules Qdrant holds
  worker         \* the rule whose task the worker has popped

ruleVars == <<row, lock, trail, job, queue, indexed, worker>>

NoJob == [pc |-> "idle", rule |-> NoRule, new |-> NoRule]

(* The columns the audit rows report; conditions and action_params are never recorded. *)
Column == {"priority", "enabled", "dry_run"}
Columns == [priority : Priority, enabled : BOOLEAN, dry_run : BOOLEAN]

Exists(r) == row[r] # NoRule
Fresh(r) == ~Exists(r) /\ trail[r] = <<>>
Room == FoldFunction(LAMBDA rows, n : n + Len(rows), 0, trail) < MaxTrail

(***************************************************************************)
(* PolicyRepository.  An audit row holds, for each column it mentions, the   *)
(* value before and after.                                                  *)
(***************************************************************************)
Write(r, act, says) == trail' = [trail EXCEPT ![r] = Append(@, [act |-> act, says |-> says])]

PriorityInUse(p, r) == \E other \in Rule \ {r} : Exists(other) /\ row[other].priority = p

CreateRow(r, new) ==
  /\ row' = [row EXCEPT ![r] = new]
  /\ Write(r, "created", [c \in Column |-> [after |-> new[c]]])

(* Only the columns that moved are reported; an edit that moves none is still a row. *)
UpdateRow(r, new) ==
  LET moved == {c \in Column : row[r][c] # new[c]} IN
  /\ row' = [row EXCEPT ![r] = new]
  /\ Write(r, "updated", [c \in moved |-> [before |-> row[r][c], after |-> new[c]]])

(* DELETE ... RETURNING. *)
DeleteRow(r) ==
  /\ row' = [row EXCEPT ![r] = NoRule]
  /\ Write(r, "deleted", [c \in Column |-> [before |-> row[r][c]]])

(* set_enabled and set_dry_run report the column even when it does not move. *)
SetEnabled(r, was, value) ==
  /\ row' = [row EXCEPT ![r].enabled = value]
  /\ Write(r, "enabled_changed", [enabled |-> [before |-> was.enabled, after |-> value]])

SetDryRun(r, was, value) ==
  /\ row' = [row EXCEPT ![r].dry_run = value]
  /\ Write(r, "dry_run_changed", [dry_run |-> [before |-> was.dry_run, after |-> value]])

(* At most one detection_class condition, and a content_regex that compiles. *)
ValidConditions(conditions) == conditions # "two classes" /\ conditions # "bad regex"

(***************************************************************************)
(* The handlers.                                                            *)
(***************************************************************************)
(* The priority check has a transaction of its own. *)
CheckPriority(a) ==
  /\ job[a].pc = "idle" /\ Room
  /\ \E r \in Rule, new \in Columns, conditions \in {"ok", "two classes", "bad regex"},
        call \in {"create", "update"} :
       /\ call = "create" => Fresh(r) /\ \A b \in Editor : job[b].rule # r
       /\ call = "update" => Exists(r)
       /\ ~PriorityInUse(new.priority, r)
       /\ ValidConditions(conditions)
       /\ job' = [job EXCEPT ![a] = [pc |-> call, rule |-> r, new |-> new]]
  /\ UNCHANGED <<row, lock, trail, queue, indexed, worker>>

Finish(a) == job' = [job EXCEPT ![a] = NoJob]

(* The index task is pushed after the commit; a push that fails is only logged, and a COMMIT whose
   reply is lost ends the handler where such a push does. *)
CreateCommit(a) ==
  /\ job[a].pc = "create"
  /\ CreateRow(job[a].rule, job[a].new)
  /\ job' = [job EXCEPT ![a].pc = "enqueue"]
  /\ UNCHANGED <<lock, queue, indexed, worker>>

(* SELECT ... FOR UPDATE, for update_rule and the two toggles. *)
LockRow(a) ==
  /\ lock[job[a].rule] = Nobody
  /\ Exists(job[a].rule)
  /\ lock' = [lock EXCEPT ![job[a].rule] = a]

UpdateLock(a) ==
  /\ job[a].pc = "update"
  /\ LockRow(a)
  /\ job' = [job EXCEPT ![a].pc = "update locked"]
  /\ UNCHANGED <<row, trail, queue, indexed, worker>>

UpdateCommit(a) ==
  /\ job[a].pc = "update locked"
  /\ UpdateRow(job[a].rule, job[a].new)
  /\ lock' = [lock EXCEPT ![job[a].rule] = Nobody]
  /\ job' = [job EXCEPT ![a].pc = "enqueue"]
  /\ UNCHANGED <<queue, indexed, worker>>

(* Mutant: the row is read without FOR UPDATE. *)
ToggleLockUnlocked(a) ==
  /\ job[a].pc = "idle" /\ Room
  /\ \E r \in Rule, call \in {"enabled", "dry run"} :
       /\ Exists(r)
       /\ job' = [job EXCEPT ![a] = [pc |-> call, rule |-> r, new |-> row[r]]]
  /\ UNCHANGED <<row, lock, trail, queue, indexed, worker>>

(* The SELECT ... FOR UPDATE of toggle_enabled and toggle_dry_run reads what the flag was. *)
ToggleLock(a) ==
  /\ job[a].pc = "idle" /\ Room
  /\ \E r \in Rule, call \in {"enabled", "dry run"} :
       /\ Exists(r)
       /\ lock[r] = Nobody
       /\ lock' = [lock EXCEPT ![r] = a]
       /\ job' = [job EXCEPT ![a] = [pc |-> call, rule |-> r, new |-> row[r]]]
  /\ UNCHANGED <<row, trail, queue, indexed, worker>>

ToggleEnabled(a) ==
  /\ job[a].pc = "enabled"
  /\ Exists(job[a].rule)
  /\ \E value \in BOOLEAN : SetEnabled(job[a].rule, job[a].new, value)
  /\ lock' = [lock EXCEPT ![job[a].rule] = Nobody]
  /\ Finish(a)
  /\ UNCHANGED <<queue, indexed, worker>>

ToggleDryRun(a) ==
  /\ job[a].pc = "dry run"
  /\ Exists(job[a].rule)
  /\ \E value \in BOOLEAN : SetDryRun(job[a].rule, job[a].new, value)
  /\ lock' = [lock EXCEPT ![job[a].rule] = Nobody]
  /\ Finish(a)
  /\ UNCHANGED <<queue, indexed, worker>>

(* The DELETE waits for the row's lock.  Nothing removes the rule from the index. *)
DeleteRule ==
  \E r \in Rule :
    /\ Exists(r) /\ lock[r] = Nobody
    /\ DeleteRow(r)
    /\ UNCHANGED <<lock, job, queue, indexed, worker>>

(* The rule is gone (404), a statement fails, or the handler is dropped: roll back. *)
Abort(a) ==
  /\ job[a].pc \notin {"idle", "enqueue"}
  /\ lock' = [r \in Rule |-> IF lock[r] = a THEN Nobody ELSE lock[r]]
  /\ Finish(a)
  /\ UNCHANGED <<row, trail, queue, indexed, worker>>

EnqueueIndexTask(a) ==
  /\ job[a].pc = "enqueue"
  /\ \E pushed \in BOOLEAN : queue' = IF pushed THEN Append(queue, job[a].rule) ELSE queue
  /\ Finish(a)
  /\ UNCHANGED <<row, lock, trail, indexed, worker>>

(***************************************************************************)
(* The worker: BLPOP removes the task before it is done, and when its reply *)
(* is lost (unwrap_or(None)) the worker goes on without the task.           *)
(***************************************************************************)
Pop ==
  /\ worker = NoRule /\ queue # <<>>
  /\ worker' \in {Head(queue), NoRule}
  /\ queue' = Tail(queue)
  /\ UNCHANGED <<row, lock, trail, job, indexed>>

(* handle_index_policy_rule: embed, then upsert under the rule's id; a failure is only counted. *)
IndexPolicyRule ==
  /\ worker # NoRule
  /\ \E ok \in BOOLEAN : indexed' = IF ok THEN indexed \cup {worker} ELSE indexed
  /\ worker' = NoRule
  /\ UNCHANGED <<row, lock, trail, job, queue>>

(* Registration seeds its workspace with 'Redact common PII', without an audit row; a workspace from
   before that has no rule. *)
RulesInit ==
  /\ \E seed \in Rule \cup {NoRule} :
       row = [r \in Rule |-> IF r = seed THEN DefaultRule ELSE NoRule]
  /\ lock = [r \in Rule |-> Nobody]
  /\ trail = [r \in Rule |-> <<>>]
  /\ job = [a \in Editor |-> NoJob]
  /\ queue = <<>> /\ indexed = {} /\ worker = NoRule

RulesNext ==
  \/ \E a \in Editor :
       \/ CheckPriority(a) \/ CreateCommit(a) \/ UpdateLock(a) \/ UpdateCommit(a)
       \/ ToggleLock(a) \/ ToggleEnabled(a) \/ ToggleDryRun(a) \/ Abort(a) \/ EnqueueIndexTask(a)
  \/ DeleteRule \/ Pop \/ IndexPolicyRule

RulesSpec == RulesInit /\ [][RulesNext]_ruleVars

(***************************************************************************)
(* Properties.                                                              *)
(***************************************************************************)

(* Entry i of a rule's trail is the last before j to speak of column c. *)
Precedes(r, c, i, j) ==
  /\ c \in DOMAIN trail[r][i].says
  /\ \A k \in (i + 1)..(j - 1) : c \notin DOMAIN trail[r][k].says

(* No entry of a rule's trail before j speaks of column c. *)
Unspoken(r, c, j) == \A k \in 1..(j - 1) : c \notin DOMAIN trail[r][k].says

(* The trail of a rule replays to the rule, however edits, toggles and deletions overlap: what an
   audit row says a column was is what the row before it left, and the last row to speak of a column
   gives its value now.  The row is locked from the read of the old values to the commit.  The rule a
   workspace is seeded with has no row of creation: its trail replays from the seed, so that a column
   no row speaks of has the seed's value and the first row that does says so. *)
TrailReplays ==
  \A r \in Rule, c \in Column :
    LET n == Len(trail[r]) IN
    /\ \A j \in 1..n, i \in 1..n :
         (i < j /\ Precedes(r, c, i, j) /\ c \in DOMAIN trail[r][j].says)
           => trail[r][j].says[c].before = trail[r][i].says[c].after
    /\ \A j \in 1..n :
         (Unspoken(r, c, j) /\ c \in DOMAIN trail[r][j].says)
           => trail[r][j].act = "created" \/ trail[r][j].says[c].before = DefaultRule[c]
    /\ Exists(r) =>
         \/ \E i \in 1..n : Precedes(r, c, i, n + 1) /\ trail[r][i].says[c].after = row[r][c]
         \/ Unspoken(r, c, n + 1) /\ row[r][c] = DefaultRule[c]

=============================================================================
