------------------------------ MODULE FileScan ------------------------------
(***************************************************************************)
(* The gateway's door in front of the sidecar's file scanner: a scan is     *)
(* recorded, forwarded and, when it is asynchronous, its task bound to the  *)
(* workspace that started it, which alone may poll it.  The sidecar knows   *)
(* no workspace.  A request runs once, from await to await.                 *)
(***************************************************************************)
EXTENDS Naturals

CONSTANTS Scan, Tenant, Task, Nothing

(* What stands for nothing, and for a task the sidecar has forgotten, is no request or workspace. *)
ASSUME ScansAssumption ==
  Nothing \notin Scan \cup Tenant \cup {"gone"} /\ "gone" \notin Scan

VARIABLES
  recorded,     \* file_scan.requested rows, by request
  task,         \* the sidecar's tasks: Nothing, the request that started it, "gone"
  bound,        \* scan_task:* in Redis: the workspace of a task
  seen,         \* requests whose file has reached the sidecar
  given,        \* results handed out: the workspace asking and the starter
  scan          \* the requests

scanVars == <<recorded, task, bound, seen, given, scan>>

NoScan == [pc |-> "idle", ws |-> Nothing, mode |-> Nothing, task |-> Nothing]

ScansInit ==
  /\ recorded = {} /\ seen = {} /\ given = {}
  /\ task = [t \in Task |-> Nothing] /\ bound = [t \in Task |-> Nothing]
  /\ scan = [r \in Scan |-> NoScan]

ScanAt(r, pc) == scan[r].pc = pc
Goto(r, pc) == scan' = [scan EXCEPT ![r].pc = pc]

(* Every role but the viewer's; a key without a current member names no role. *)
may_run_file_scan(role) == role \notin {"viewer", Nothing}

(* authorize_scan: the key's workspace and the role of its member, as read now. *)
AuthorizeScan(r, w, role, pc, mode, t) ==
  /\ ScanAt(r, "idle")
  /\ IF may_run_file_scan(role)
       THEN scan' = [scan EXCEPT ![r] = [pc |-> pc, ws |-> w, mode |-> mode, task |-> t]]
       ELSE Goto(r, "done")
  /\ UNCHANGED <<recorded, task, bound, seen, given>>

(* scan_file_sync and scan_file_async *)
Kickoff(r, w, role) ==
  \E mode \in {"sync", "async"} : AuthorizeScan(r, w, role, "record", mode, Nothing)

(* record_scan: the row commits before the bytes go anywhere; its answer may be lost. *)
RecordScan(r) ==
  /\ ScanAt(r, "record")
  /\ recorded' = recorded \cup {r}
  /\ Goto(r, "forward") \/ Goto(r, "done")
  /\ UNCHANGED <<task, bound, seen, given>>

(* The bytes go to the sidecar with the gateway's token; a transport error is Fail. *)
proxy_scan(r) == seen' = seen \cup {r}

(* proxy_scan of a synchronous scan, or of one the sidecar refuses: its answer is relayed. *)
Forward(r) ==
  /\ ScanAt(r, "forward")
  /\ proxy_scan(r)
  /\ Goto(r, "done")
  /\ UNCHANGED <<recorded, task, bound, given>>

(* proxy_scan of an asynchronous one: the sidecar starts a task under a fresh id, and its answer,  *)
(* which names the id, may be late or unreadable.                                                  *)
ForwardAsync(r, t) ==
  /\ ScanAt(r, "forward") /\ scan[r].mode = "async" /\ task[t] = Nothing
  /\ proxy_scan(r)
  /\ task' = [task EXCEPT ![t] = r]
  /\ scan' \in {[scan EXCEPT ![r].pc = "bind", ![r].task = t], [scan EXCEPT ![r].pc = "done"]}
  /\ UNCHANGED <<recorded, bound, given>>

(* bind_scan_task, before the id is given out. *)
BindTask(r) ==
  /\ ScanAt(r, "bind")
  /\ bound' = [bound EXCEPT ![scan[r].task] = scan[r].ws]
  /\ Goto(r, "done")
  /\ UNCHANGED <<recorded, task, seen, given>>

(* Mutant: only a binding to somebody else refuses. *)
OwnedOrUnbound(r) == bound[scan[r].task] \in {Nothing, scan[r].ws}

(* A task without a binding is nobody's. *)
Owned(r) == bound[scan[r].task] = scan[r].ws

(* scan_file_task: the binding is read first. *)
PollOwner(r) ==
  /\ ScanAt(r, "owner")
  /\ IF Owned(r) THEN Goto(r, "fetch") ELSE Goto(r, "done")
  /\ UNCHANGED <<recorded, task, bound, seen, given>>

(* scan_file_task: what the sidecar says of the task, a 404 included. *)
PollFetch(r) ==
  /\ ScanAt(r, "fetch")
  /\ given' = IF task[scan[r].task] \in Scan
                THEN given \cup {[to |-> scan[r].ws, of |-> task[scan[r].task]]} ELSE given
  /\ Goto(r, "done")
  /\ UNCHANGED <<recorded, task, bound, seen>>

(* Any await fails, or the client leaves. *)
ScanFails(r) ==
  /\ ~ScanAt(r, "idle") /\ ~ScanAt(r, "done")
  /\ Goto(r, "done")
  /\ UNCHANGED <<recorded, task, bound, seen, given>>

(* A binding lives an hour, and Redis may restart empty. *)
LoseBinding(t) ==
  /\ bound[t] # Nothing
  /\ bound' = [bound EXCEPT ![t] = Nothing]
  /\ UNCHANGED <<recorded, task, seen, given, scan>>

(* The sidecar keeps its tasks in memory. *)
LoseTask(t) ==
  /\ task[t] \in Scan
  /\ task' = [task EXCEPT ![t] = "gone"]
  /\ UNCHANGED <<recorded, bound, seen, given, scan>>

ScanStep(r) ==
  \/ RecordScan(r) \/ Forward(r) \/ BindTask(r) \/ PollOwner(r) \/ PollFetch(r) \/ ScanFails(r)
  \/ \E w \in Tenant, role \in {"employee", "viewer", Nothing} :
       \/ Kickoff(r, w, role)
       \/ \E t \in Task : AuthorizeScan(r, w, role, "owner", "poll", t)
  \/ \E t \in Task : ForwardAsync(r, t)

ScansNext == (\E r \in Scan : ScanStep(r)) \/ (\E t \in Task : LoseBinding(t) \/ LoseTask(t))

ScansSpec == ScansInit /\ [][ScansNext]_scanVars

-----------------------------------------------------------------------------
(* Whatever is lost or fails in between, a file that reached the scanner has its committed record,  *)
(* and the result of a scan is given only to the workspace that started it, although the sidecar    *)
(* would give it to anyone with the id: forward_scan binds first, scan_file_task fails closed.      *)
ScansStayHome ==
  /\ seen \subseteq recorded
  /\ \A g \in given : scan[g.of].ws = g.to
=============================================================================
